------------------------- MODULE ScannerSuiteProofs -------------------------
(***************************************************************************)
(* Theorems about real-scan for every selection of scanners, every budget, *)
(* every answer and report of the scanners and every interleaving with     *)
(* whoever changes the snapshot: the report is whole, silence is evidence  *)
(* and what it carries is safe to show.                                    *)
(***************************************************************************)
EXTENDS ScannerSuite, FiniteSetTheorems, TLAPS

(***************************************************************************)
(* The inductive invariant                                                 *)
(***************************************************************************)
IsList(s) == s \in Seq(Range(s))

ResultFields == {"scanner", "version", "scope", "outcome", "completed", "network", "mode", "reason", "tier", "findings",
    "shape", "executed", "retained", "unsupported", "authorized", "limits", "low_trust", "safe_mapping", "redaction",
    "primary", "secondary", "tokens", "relations", "unknown_names", "binary"}

EntryFields == {"scanner", "executed", "valid", "status", "blocking_errors", "warnings", "outcome",
    "normalized_result", "finding_count", "omitted", "truncated"}

Primaries(findings) == {findings[i].primary : i \in DOMAIN findings}
Secondaries(findings) == {findings[i].secondary : i \in DOMAIN findings}
HostPaths(findings) ==
    When(\E i \in DOMAIN findings : \E t \in findings[i].texts : "home_path" \in t, "raw_host_path_pattern_present")

\* The summary fields of a normalised result are those of its findings (_truncate_normalized_result keeps it so).
Derived(r) ==
    /\ r = [x \in ResultFields |-> r[x]]
    /\ IsList(r.findings)
    /\ r.primary = Primaries(r.findings)
    /\ r.secondary = Secondaries(r.findings)
    /\ r.redaction = HostPaths(r.findings)

Redacted(scanner, findings) ==
    \A k \in DOMAIN findings : \A t \in findings[k].texts : t \cap NeverIn(scanner) = {}

\* A claim of silence is backed by a scan of a commit that ended with code 0 and an empty report
SilenceBacked(d) == d.started /\ d.code = 0 /\ d.records = <<>> /\ snapshot = "git_commit"

\* r is what the stored-report entry point makes of the report, where the scan was accepted or refused for its scope
Agrees(scanner, r, errors, d) ==
    d.report # NULL /\ (r.outcome # "unknown" \/ "dirty_worktree_scope_ambiguous" \in errors)
        => r = normalize_report(scanner, d.report, d.version, Scope)

\* What an adapter's result owes to what its scanner did
ResultOK(scanner, result, d) ==
    LET r == result.normalized_result
    IN /\ {result.valid, result.scanner_executed} \subseteq BOOLEAN
       /\ Derived(r)
       /\ IsList(d.records)
       /\ r.findings = IF r.outcome = "findings_present" THEN d.records ELSE <<>>
       /\ result.valid => /\ result.scanner_executed /\ d.started /\ r.scope = Scope
                          /\ Redacted(scanner, r.findings) /\ r.findings = d.records
       /\ result.valid /\ r.outcome = NoFindings => SilenceBacked(d)
       /\ Agrees(scanner, r, result.blocking_errors, d)

\* The same of a report's entry, which may have lost findings to a budget
EntryOK(scanner, e, d) ==
    LET r == e.normalized_result
    IN /\ e = [x \in EntryFields |-> e[x]]
       /\ e.scanner = scanner
       /\ {e.executed, e.valid, e.truncated} \subseteq BOOLEAN
       /\ e.finding_count \in Nat /\ e.omitted \in Nat
       /\ Derived(r)
       /\ IsList(d.records)
       /\ e.finding_count = Len(r.findings)
       /\ e.finding_count + e.omitted = IF e.outcome = "findings_present" THEN Len(d.records) ELSE 0
       /\ ~args.direct => e.finding_count <= args.per_scanner
       /\ ~e.truncated => e.omitted = 0
       /\ e.valid => e.executed /\ d.started /\ r.scope = Scope /\ Redacted(scanner, r.findings)
       /\ e.valid /\ ~e.truncated => r.findings = d.records
       /\ e.valid /\ e.outcome = NoFindings => SilenceBacked(d)
       /\ ~e.truncated => Agrees(scanner, r, e.blocking_errors, d)

Phases == {"arguments", "snapshot", "scanner", "preflight", "scan", "budget", "measure", "shrink", "over", "emit",
           "cleanup", "done"}
InLoop == pc \in {"scanner", "preflight", "scan"}
Measuring == pc \in {"measure", "shrink", "over", "emit"}

CallOK ==
    /\ args \in ArgSets
    /\ pc \in Phases
    /\ snapshot \in {"none", "refused", "git_commit", "filesystem"}
    /\ workspace \in {"none", "present", "removed", "left"}
    /\ version \in VersionStatuses
    /\ status \in {"none", "completed", "degraded"}
    /\ stamp \in Stamps \cup {0}
    /\ exit \in {NULL, 0, 1, 2, Raised}
    /\ pc \notin {"arguments", "done"} => args.direct \/ (args.per_scanner > 0 /\ args.suite > 0)
    /\ pc = "snapshot" => snapshot # "none"
    /\ InLoop => snapshot \in {"git_commit", "filesystem"} /\ Range(args.scanners) \subseteq RealScanners

ListsOK ==
    /\ IsList(entries) /\ IsList(ran) /\ Len(ran) = Len(entries)
    /\ Len(entries) <= Len(args.scanners)
    /\ pc \in {"arguments", "snapshot"} => entries = <<>>
    /\ InLoop => Len(entries) < Len(args.scanners)
    /\ pc = "budget" \/ Measuring \/ status # "none" => Len(entries) = Len(args.scanners)

EntriesOK == \A i \in DOMAIN entries : EntryOK(args.scanners[i], entries[i], ran[i])

BudgetOK == ~args.direct /\ entries # <<>> => Used <= args.suite

\* The snapshot was as intake wrote it when the adapter of scanner i verified it
InTime(i) == changed = NULL \/ changed.turn > i \/ (changed.turn = i /\ changed.verified)

SnapshotOK ==
    /\ changed # NULL => changed.turn \in 1..(Len(entries) + 1) /\ changed.verified \in BOOLEAN
    /\ pc \in {"preflight", "scan"} => InTime(Len(entries) + 1)
    /\ \A i \in DOMAIN entries : entries[i].executed => InTime(i)

StatusOK ==
    /\ status # "none" => Measuring \/ pc \in {"cleanup", "done"}
    /\ Measuring => status # "none"
    /\ status = "completed" => \A i \in DOMAIN entries : entries[i].valid
    /\ exit = 0 => pc \in {"cleanup", "done"} /\ status # "none"
    /\ exit = 0 /\ args.fail_on_degraded =>
        status = "completed" /\ \A i \in DOMAIN entries : ~entries[i].truncated

SuiteInv == CallOK /\ ListsOK /\ EntriesOK /\ BudgetOK /\ SnapshotOK /\ StatusOK

(***************************************************************************)
(* Lists                                                                   *)
(***************************************************************************)
\* A list is a function on 1..Len.
LEMMA ListShape ==
    ASSUME NEW s, IsList(s)
    PROVE  Len(s) \in Nat /\ DOMAIN s = 1..Len(s) /\ s = [i \in 1..Len(s) |-> s[i]]
BY DEF IsList

\* A function on 1..n is a list of length n.
LEMMA FunctionIsList ==
    ASSUME NEW n \in Nat, NEW s, s = [i \in 1..n |-> s[i]]
    PROVE  IsList(s) /\ Len(s) = n /\ DOMAIN s = 1..n
<1>1. DOMAIN s = 1..n /\ \A i \in 1..n : s[i] \in Range(s)
    BY DEF Range
<1>2. s \in [1..n -> Range(s)]
    BY <1>1
<1>3. s \in Seq(Range(s)) /\ Len(s) = n
    BY <1>2
<1> QED BY <1>1, <1>3 DEF IsList

\* The empty list.
LEMMA EmptyList == IsList(<<>>) /\ Len(<<>>) = 0 /\ DOMAIN <<>> = {}
BY DEF IsList

\* A list of length 0 is empty.
LEMMA NoElements ==
    ASSUME NEW s, IsList(s)
    PROVE  s = <<>> <=> Len(s) = 0
BY DEF IsList

\* Appending keeps the elements and adds one.
LEMMA ListAppend ==
    ASSUME NEW s, IsList(s), NEW e
    PROVE  /\ IsList(Append(s, e)) /\ Len(Append(s, e)) = Len(s) + 1
           /\ DOMAIN Append(s, e) = 1..(Len(s) + 1) /\ Append(s, e) # <<>>
           /\ \A i \in DOMAIN s : Append(s, e)[i] = s[i]
           /\ Append(s, e)[Len(s) + 1] = e
<1> DEFINE T == Range(s) \cup {e}
<1>1. s \in Seq(T) /\ e \in T
    BY DEF IsList
<1> HIDE DEF T
<1>2. /\ Append(s, e) \in Seq(T) /\ Len(Append(s, e)) = Len(s) + 1 /\ Len(s) \in Nat
      /\ \A i \in 1..Len(s) : Append(s, e)[i] = s[i]
      /\ Append(s, e)[Len(s) + 1] = e
    BY <1>1
<1> DEFINE a == Append(s, e)
<1>3. a = [i \in 1..(Len(s) + 1) |-> a[i]]
  <2>1. a \in Seq(T) /\ Len(a) = Len(s) + 1
    BY <1>2
  <2> HIDE DEF a
  <2> QED BY <2>1
<1> HIDE DEF a
<1>4. IsList(a) /\ DOMAIN a = 1..(Len(s) + 1)
    BY <1>2, <1>3, FunctionIsList
<1>5. a # <<>>
    BY <1>4, <1>2, EmptyList DEF a
<1> QED BY <1>2, <1>4, <1>5, ListShape DEF a

\* Replacing an element of a list leaves the others.
LEMMA ListExcept ==
    ASSUME NEW s, IsList(s), NEW k \in DOMAIN s, NEW e
    PROVE  LET t == [s EXCEPT ![k] = e]
           IN /\ IsList(t) /\ Len(t) = Len(s) /\ DOMAIN t = DOMAIN s
              /\ t[k] = e /\ \A i \in DOMAIN s \ {k} : t[i] = s[i]
<1> DEFINE t == [s EXCEPT ![k] = e]
<1>1. Len(s) \in Nat /\ DOMAIN s = 1..Len(s)
    BY ListShape
<1>2. t = [i \in 1..Len(s) |-> t[i]] /\ t[k] = e /\ \A i \in DOMAIN s \ {k} : t[i] = s[i]
    BY <1>1
<1> HIDE DEF t
<1>3. IsList(t) /\ Len(t) = Len(s) /\ DOMAIN t = DOMAIN s
    BY <1>1, <1>2, FunctionIsList
<1> QED BY <1>2, <1>3 DEF t

\* The first k elements of a list.
LEMMA ListPrefix ==
    ASSUME NEW s, IsList(s), NEW k \in Nat, k <= Len(s)
    PROVE  /\ IsList(SubSeq(s, 1, k)) /\ Len(SubSeq(s, 1, k)) = k
           /\ DOMAIN SubSeq(s, 1, k) = 1..k /\ 1..k \subseteq DOMAIN s
           /\ \A i \in 1..k : SubSeq(s, 1, k)[i] = s[i]
           /\ k = Len(s) => SubSeq(s, 1, k) = s
<1>1. s \in Seq(Range(s)) /\ Len(s) \in Nat /\ DOMAIN s = 1..Len(s)
    BY ListShape DEF IsList
<1> DEFINE p == SubSeq(s, 1, k)
<1>2. p = [i \in 1..k |-> s[i]]
    BY <1>1
<1>3. p = [i \in 1..k |-> p[i]] /\ \A i \in 1..k : p[i] = s[i]
    BY <1>2
<1>4. k = Len(s) => p = s
    BY <1>2, ListShape
<1> HIDE DEF p
<1>5. IsList(p) /\ Len(p) = k /\ DOMAIN p = 1..k
    BY <1>3, FunctionIsList
<1>6. 1..k \subseteq DOMAIN s
    BY <1>1
<1> QED BY <1>3, <1>4, <1>5, <1>6 DEF p

\* A list mapped element by element.
LEMMA ListMap ==
    ASSUME NEW s, IsList(s), NEW t, t = [i \in DOMAIN s |-> t[i]]
    PROVE  IsList(t) /\ Len(t) = Len(s) /\ DOMAIN t = DOMAIN s
BY ListShape, FunctionIsList

\* A nonempty set of list positions has a last one.
LEMMA LastExists ==
    ASSUME NEW n \in Nat, NEW S, S \subseteq 1..n, S # {}
    PROVE  \E i \in S : \A j \in S : j <= i
<1> DEFINE less == {ss \in Nat \X Nat : ss[1] < ss[2]}
           D == {n - i : i \in S}
<1>1. OpToRel(<, Nat) = less
    BY Zenon DEF OpToRel
<1>2. IsWellFoundedOn(less, Nat)
    BY <1>1, NatLessThanWellFounded, Zenon
<1>3. D \subseteq Nat
    OBVIOUS
<1>4. D # {}
    OBVIOUS
<1> HIDE DEF less
<1>5. PICK x \in D : \A y \in D : ~(<<y, x>> \in less)
  <2> HIDE DEF D
  <2> QED BY <1>2, <1>3, <1>4, WFMin
<1>6. PICK i \in S : x = n - i
    BY <1>5
<1>7. ASSUME NEW j \in S PROVE j <= i
  <2>0. n - j \in D /\ n - i \in D
    OBVIOUS
  <2>1. n - j \in D /\ n - j \in Nat /\ n - i \in Nat
    BY <1>3, <2>0
  <2>2. n - j < n - i => <<n - j, x>> \in less
    BY <1>6, <2>1 DEF less
  <2> QED BY <1>5, <2>1, <2>2
<1> QED BY <1>7

(***************************************************************************)
(* Normalised results                                                      *)
(***************************************************************************)
\* Result gives every field, and a result without findings is consistent.
LEMMA ResultShape ==
    ASSUME NEW scanner, NEW v, NEW scope, NEW outcome, NEW completed, NEW network
    PROVE  LET r == Result(scanner, v, scope, outcome, completed, network)
           IN /\ Derived(r) /\ r.findings = <<>> /\ r.scope = scope /\ r.outcome = outcome
              /\ r.scanner = scanner /\ r.version = v
<1> DEFINE mode == ScannerMode(scanner)
           r == Result(scanner, v, scope, outcome, completed, network)
<1>1. /\ r = [scanner |-> scanner, version |-> v, scope |-> scope, outcome |-> outcome,
              completed |-> completed, network |-> network, mode |-> mode,
              reason |-> NULL, tier |-> "none", findings |-> <<>>, shape |-> TRUE, executed |-> FALSE,
              retained |-> FALSE, unsupported |-> FALSE, authorized |-> FALSE, limits |-> "listed",
              low_trust |-> FALSE, safe_mapping |-> FALSE, redaction |-> {}, primary |-> {},
              secondary |-> {}, tokens |-> {}, relations |-> {}, unknown_names |-> FALSE,
              binary |-> "unverified"]
    BY DEF Result
<1> HIDE DEF mode, r
<1>2. r = [x \in ResultFields |-> r[x]]
    BY <1>1 DEF ResultFields
<1>3. /\ r.findings = <<>> /\ r.primary = {} /\ r.secondary = {} /\ r.redaction = {}
      /\ r.scope = scope /\ r.outcome = outcome /\ r.scanner = scanner /\ r.version = v
    BY <1>1
<1>4. Derived(r)
    BY <1>2, <1>3, EmptyList DEF Derived, When, Primaries, Secondaries, HostPaths
<1> QED BY <1>3, <1>4 DEF r

\* WithFindings makes a result consistent with its new findings and changes nothing else.
LEMMA WithFindingsShape ==
    ASSUME NEW r, Derived(r), NEW f, IsList(f)
    PROVE  LET w == WithFindings(r, f)
           IN /\ Derived(w) /\ w.findings = f
              /\ \A x \in ResultFields \ {"findings", "primary", "secondary", "redaction"} : w[x] = r[x]
              /\ f = r.findings => w = r
<1> DEFINE p == Primaries(f)
           s == Secondaries(f)
           b == HostPaths(f)
           w == WithFindings(r, f)
<1>1. w = [r EXCEPT !.findings = f, !.primary = p, !.secondary = s, !.redaction = b]
    BY DEF WithFindings, Primaries, Secondaries, HostPaths
<1>2. f = r.findings => p = r.primary /\ s = r.secondary /\ b = r.redaction
    BY DEF Derived
<1>3. r = [x \in ResultFields |-> r[x]]
    BY DEF Derived
<1> HIDE DEF p, s, b, w
<1>4. /\ w = [x \in ResultFields |-> w[x]] /\ w.findings = f /\ w.primary = p /\ w.secondary = s /\ w.redaction = b
      /\ \A x \in ResultFields \ {"findings", "primary", "secondary", "redaction"} : w[x] = r[x]
    BY <1>1, <1>3 DEF ResultFields
<1>5. f = r.findings => w = r
    BY <1>2, <1>3, <1>4
<1>6. Derived(w)
    BY <1>4 DEF Derived, p, s, b
<1> QED BY <1>4, <1>5, <1>6 DEF w

\* A field outside the summary may be set.
LEMMA DerivedExcept ==
    ASSUME NEW r, Derived(r), NEW k \in {"tier", "outcome", "reason", "unsupported"}, NEW value,
           NEW w, w = [r EXCEPT ![k] = value]
    PROVE  Derived(w) /\ w[k] = value /\ \A x \in ResultFields \ {k} : w[x] = r[x]
<1>1. r = [x \in ResultFields |-> r[x]]
    BY DEF Derived
<1>2. w = [x \in ResultFields |-> w[x]] /\ w[k] = value /\ \A x \in ResultFields \ {k} : w[x] = r[x]
    BY <1>1 DEF ResultFields
<1>3. /\ w.findings = r.findings /\ w.primary = r.primary /\ w.secondary = r.secondary
      /\ w.redaction = r.redaction
    BY <1>2 DEF ResultFields
<1>4. Derived(w)
    BY <1>2, <1>3 DEF Derived
<1> QED BY <1>2, <1>4

\* Unknown keeps the findings and the scope.
LEMMA UnknownShape ==
    ASSUME NEW r, Derived(r), NEW reason
    PROVE  LET u == Unknown(r, reason)
           IN Derived(u) /\ u.findings = r.findings /\ u.scope = r.scope /\ u.outcome = "unknown"
<1> DEFINE a == [r EXCEPT !.outcome = "unknown"]
           b == [a EXCEPT !.reason = reason]
           c == [b EXCEPT !.tier = "T5_candidate"]
<1>a. a = [r EXCEPT !.outcome = "unknown"]
    OBVIOUS
<1>b. b = [a EXCEPT !.reason = reason]
    OBVIOUS
<1>c. c = [b EXCEPT !.tier = "T5_candidate"]
    OBVIOUS
<1>4. Unknown(r, reason) = c
    BY DEF Unknown
<1> HIDE DEF a, b, c
<1>1. Derived(a) /\ a.outcome = "unknown" /\ \A x \in ResultFields \ {"outcome"} : a[x] = r[x]
    BY <1>a, DerivedExcept
<1>2. Derived(b) /\ \A x \in ResultFields \ {"reason"} : b[x] = a[x]
    BY <1>b, <1>1, DerivedExcept
<1>3. Derived(c) /\ \A x \in ResultFields \ {"tier"} : c[x] = b[x]
    BY <1>c, <1>2, DerivedExcept
<1>5. c.findings = r.findings /\ c.scope = r.scope /\ c.outcome = "unknown"
    BY <1>1, <1>2, <1>3 DEF ResultFields
<1> QED BY <1>3, <1>4, <1>5

\* An unknown result of any adapter has no findings.
LEMMA UnknownResultShape ==
    ASSUME NEW scanner \in RealScanners, NEW v, NEW scope, NEW reason, NEW completed, NEW network
    PROVE  LET u == unknown_result(scanner, v, scope, reason, completed, network)
           IN Derived(u) /\ u.findings = <<>> /\ u.scope = scope /\ u.outcome = "unknown"
<1> DEFINE net == IF scanner = "gitleaks" THEN FALSE ELSE network
           r == Result(scanner, v, scope, "unknown", completed, net)
           u == Unknown(r, reason)
           old == (reason = "unsupported_version")
           w == [u EXCEPT !.unsupported = old]
<1>1. unknown_result(scanner, v, scope, reason, completed, network) = IF scanner = "trivy" THEN w ELSE u
    BY DEF RealScanners, unknown_result, gitleaks_unknown_result, osv_unknown_result, trivy_unknown_result
<1> HIDE DEF net, old
<1>2. Derived(r) /\ r.findings = <<>> /\ r.scope = scope
    BY ResultShape
<1> HIDE DEF r
<1>3. Derived(u) /\ u.findings = r.findings /\ u.scope = r.scope /\ u.outcome = "unknown"
    BY <1>2, UnknownShape
<1> HIDE DEF u
<1>4. w = [u EXCEPT !.unsupported = old]
    OBVIOUS
<1> HIDE DEF w
<1>5. Derived(w) /\ \A x \in ResultFields \ {"unsupported"} : w[x] = u[x]
    BY <1>3, <1>4, DerivedExcept
<1>6. w.findings = u.findings /\ w.scope = u.scope /\ w.outcome = u.outcome
    BY <1>5 DEF ResultFields
<1> QED BY <1>1, <1>2, <1>3, <1>5, <1>6

\* A normalised result carries the findings of its records, in their order.
LEMMA NormalizedShape ==
    ASSUME NEW scanner \in RealScanners, NEW records, IsList(records), NEW v, NEW scope, NEW outcome
    PROVE  LET n == normalized_result(scanner, records, v, scope, outcome)
           IN /\ Derived(n) /\ n.scope = scope /\ n.outcome = outcome
              /\ n.findings = [i \in DOMAIN records |-> normalized_finding(scanner, records[i])]
<1> DEFINE net == IF scanner = "gitleaks" THEN FALSE ELSE TRUE
           done == TRUE
           f == [i \in DOMAIN records |-> normalized_finding(scanner, records[i])]
           r == Result(scanner, v, scope, outcome, done, net)
           w == WithFindings(r, f)
           n == normalized_result(scanner, records, v, scope, outcome)
<1>1. PICK tier : n = [w EXCEPT !.tier = tier]
  <2>1. CASE scanner = "gitleaks"
    <3>1. f = [i \in DOMAIN records |-> gitleaks_normalized_finding(records[i])]
        BY <2>1 DEF normalized_finding
    <3> HIDE DEF f
    <3>2. n = [w EXCEPT !.tier = IF records = <<>> THEN "none" ELSE "T5_candidate"]
        BY <2>1, <3>1 DEF normalized_result, gitleaks_normalized_result
    <3> HIDE DEF n, w
    <3> QED BY <3>2
  <2>2. CASE scanner = "osv-scanner"
    <3>1. f = [i \in DOMAIN records |-> osv_normalized_finding(records[i])]
        BY <2>2 DEF normalized_finding
    <3> HIDE DEF f
    <3>2. n = [w EXCEPT !.tier = CASE records = <<>> -> "none"
                                   [] Critical \in w.secondary -> "raise_to_T3"
                                   [] OTHER -> "T5_candidate"]
        BY <2>2, <3>1 DEF normalized_result, osv_normalized_result
    <3> HIDE DEF n, w
    <3> QED BY <3>2
  <2>3. CASE scanner = "trivy"
    <3>1. f = [i \in DOMAIN records |-> trivy_normalized_finding(records[i])]
        BY <2>3 DEF normalized_finding
    <3> HIDE DEF f
    <3>2. n = [w EXCEPT !.tier = trivy_summary_mapping(w.secondary)]
        BY <2>3, <3>1 DEF normalized_result, trivy_normalized_result
    <3> HIDE DEF n, w
    <3> QED BY <3>2
  <2> QED BY <2>1, <2>2, <2>3 DEF RealScanners
<1> HIDE DEF n, net, done
<1>2. Derived(r) /\ r.scope = scope /\ r.outcome = outcome
    BY ResultShape
<1> HIDE DEF r
<1>3. f = [i \in DOMAIN records |-> f[i]]
    OBVIOUS
<1>4. IsList(f)
  <2> HIDE DEF f
  <2> QED BY <1>3, ListMap
<1> HIDE DEF f
<1>5. /\ Derived(w) /\ w.findings = f
      /\ \A x \in ResultFields \ {"findings", "primary", "secondary", "redaction"} : w[x] = r[x]
    BY <1>2, <1>4, WithFindingsShape
<1> HIDE DEF w
<1>6. Derived(n) /\ \A x \in ResultFields \ {"tier"} : n[x] = w[x]
    BY <1>1, <1>5, DerivedExcept
<1>7. n.scope = scope /\ n.outcome = outcome /\ n.findings = f
    BY <1>2, <1>5, <1>6 DEF ResultFields
<1> QED BY <1>6, <1>7 DEF n, f

\* Redaction leaves none of the tests it looks for in a text.
LEMMA RedactRemoves ==
    ASSUME NEW text, NEW tests
    PROVE  Redact(text, tests) \cap tests = {}
BY DEF Redact

\* What the adapter of a scanner itself keeps out of its findings.
AdapterNeverIn(scanner) ==
    CASE scanner = "osv-scanner" -> {"host_path", "url", "secret"}
      [] scanner = "trivy" -> {"host_path", "url_start", "local_ip", "secret", "trivy_secret"}
      [] OTHER -> {}

\* The texts of a finding meet none of the tests its adapter looks for, whatever the scanner wrote.
LEMMA FindingRedacted ==
    ASSUME NEW scanner \in RealScanners, NEW record, scanner = "trivy" => record.kind \in TrivyKinds
    PROVE  \A t \in normalized_finding(scanner, record).texts : t \cap AdapterNeverIn(scanner) = {}
<1>1. CASE scanner = "osv-scanner"
  <2> DEFINE id == osv_safe_token(record.id)
             path == osv_relative_repo_path(record.path)
             f == osv_normalized_finding(record)
             never == {"host_path", "url", "secret"}
  <2>1. id \cap (never \cup {"odd"}) = {}
    <3>1. {"host_path", "url", "secret", "odd"} = never \cup {"odd"}
        OBVIOUS
    <3> QED BY <3>1, RedactRemoves DEF osv_safe_token
  <2>2. path \cap never = {}
    BY RedactRemoves DEF osv_relative_repo_path
  <2>3. f.texts = {id, path}
    <3> HIDE DEF id, path
    <3>1. f = VulnerabilityFinding(severity_profile(record), {id, path})
        BY DEF osv_normalized_finding, id, path
    <3> QED BY <3>1 DEF VulnerabilityFinding, Finding
  <2>4. normalized_finding(scanner, record) = f
    BY <1>1 DEF normalized_finding
  <2>5. AdapterNeverIn(scanner) = never
    BY <1>1 DEF AdapterNeverIn
  <2> HIDE DEF id, path, f, never
  <2>6. id \cap never = {}
    BY <2>1
  <2> QED BY <2>2, <2>3, <2>4, <2>5, <2>6
<1>2. CASE scanner = "trivy"
  <2> DEFINE id == trivy_safe_token(record.id)
             path == trivy_relative_repo_path(record.path)
             f == trivy_normalized_finding(record)
             never == {"host_path"} \cup trivy_looks_sensitive_value
  <2>1. id \cap never = {}
    <3>1. never \subseteq {"host_path", "odd"} \cup trivy_looks_sensitive_value
        OBVIOUS
    <3> HIDE DEF never
    <3> QED BY <3>1, RedactRemoves DEF trivy_safe_token
  <2>2. path \cap never = {}
    BY RedactRemoves DEF trivy_relative_repo_path
  <2>3. f.texts = {id, path}
    <3> DEFINE kind == record.kind
               texts == {id, path}
    <3>1. f = CASE kind = "vulnerability" -> trivy_vulnerability_profile(record, texts)
                [] kind = "secret" ->
                    Finding("secret", "verified_secret", "raise_to_T5", "blocks_live_execution", texts)
                [] kind \in {"misconfiguration", "license"} ->
                    Finding("repo_posture", "low_security_posture", "raise_to_T2", "requires_human_review", texts)
        BY DEF trivy_normalized_finding
    <3>2. kind \in TrivyKinds
        BY <1>2
    <3> HIDE DEF kind, texts, f
    <3>3. f.texts = texts
        BY <3>1, <3>2 DEF TrivyKinds, trivy_vulnerability_profile, VulnerabilityFinding, Finding
    <3> QED BY <3>3 DEF texts
  <2>4. normalized_finding(scanner, record) = f
    BY <1>2 DEF normalized_finding
  <2>5. AdapterNeverIn(scanner) = never
    BY <1>2 DEF AdapterNeverIn, trivy_looks_sensitive_value
  <2> HIDE DEF id, path, f, never
  <2>6. id \cap never = {}
    BY <2>1
  <2> QED BY <2>2, <2>3, <2>4, <2>5, <2>6
<1>3. CASE scanner = "gitleaks"
    BY <1>3 DEF AdapterNeverIn
<1> QED BY <1>1, <1>2, <1>3 DEF RealScanners

\* interpret_*_exit_code: only code 0 promises silence, and an exit code that stops the adapter is an error of its own.
LEMMA Interpretation ==
    ASSUME NEW scanner \in RealScanners, NEW code \in Int
    PROVE  LET x == interpret_exit_code(scanner, code)
           IN \/ /\ x.consume /\ code = 0
                 /\ x.status = "completed_no_findings" /\ x.outcome = NoFindings
              \/ x.consume /\ x.status = "completed_with_findings" /\ x.outcome = "findings_present"
              \/ ~x.consume /\ x.error # "dirty_worktree_scope_ambiguous"
<1> DEFINE x == interpret_exit_code(scanner, code)
           Stops == \E reason : \E error \in {"scan_error", "tool_interface_error", "tool_unknown_error", "tool_error",
                        "no_packages_found", "scanner_unavailable"} : x = Broken(reason, error)
<1>1. (code = 0 /\ x = Quiet) \/ x = Loud \/ Stops
  <2>1. CASE scanner = "gitleaks"
    BY <2>1 DEF interpret_exit_code, interpret_gitleaks_exit_code
  <2>2. CASE scanner = "osv-scanner"
    BY <2>2 DEF interpret_exit_code, interpret_osv_exit_code
  <2>3. CASE scanner = "trivy"
    BY <2>3 DEF interpret_exit_code, interpret_trivy_exit_code
  <2> QED BY <2>1, <2>2, <2>3 DEF RealScanners
<1> HIDE DEF x
<1>2. ASSUME Stops PROVE ~x.consume /\ x.error # "dirty_worktree_scope_ambiguous"
  <2>1. PICK reason, error : /\ error \in {"scan_error", "tool_interface_error", "tool_unknown_error", "tool_error",
                                           "no_packages_found", "scanner_unavailable"}
                             /\ x = Broken(reason, error)
    BY <1>2
  <2> QED BY <2>1 DEF Broken
<1>3. x = Quiet => x.consume /\ x.status = "completed_no_findings" /\ x.outcome = NoFindings
    BY DEF Quiet
<1>4. x = Loud => x.consume /\ x.status = "completed_with_findings" /\ x.outcome = "findings_present"
    BY DEF Quiet, Loud
<1> QED BY <1>1, <1>2, <1>3, <1>4 DEF x

(***************************************************************************)
(* What an adapter returns                                                 *)
(***************************************************************************)
\* A result that is no evidence owes nothing, unless it was refused for its scope.
LEMMA UnknownRun ==
    ASSUME NEW scanner, NEW d, IsList(d.records), NEW result, result.valid = FALSE, result.scanner_executed \in BOOLEAN,
           d.report = NULL \/ "dirty_worktree_scope_ambiguous" \notin result.blocking_errors,
           NEW u, result.normalized_result = u, Derived(u), u.findings = <<>>, u.outcome = "unknown"
    PROVE  ResultOK(scanner, result, d)
<1>1. Agrees(scanner, u, result.blocking_errors, d)
    BY DEF Agrees
<1> QED BY <1>1 DEF ResultOK

\* The history record of a scan that exited.
LEMMA DidExit ==
    ASSUME NEW a, a.kind = "exit", NEW records, records = parse_report(Current, a.report)
    PROVE  LET d == Did(a)
           IN /\ d.started = TRUE /\ d.code = a.code /\ d.report = a.report /\ d.version = version
              /\ d.records = IF a.report.file /\ records # NULL
                             THEN [i \in DOMAIN records |-> normalized_finding(Current, records[i])] ELSE <<>>
<1> DEFINE f == IF a.report.file /\ records # NULL
                THEN [i \in DOMAIN records |-> normalized_finding(Current, records[i])] ELSE <<>>
           read == IF a.kind = "exit" /\ a.report.file THEN parse_report(Current, a.report) ELSE NULL
           g == IF read = NULL THEN <<>> ELSE [i \in DOMAIN read |-> normalized_finding(Current, read[i])]
           d == Did(a)
           yes == a.kind # "absent"
<1>1. f = g /\ yes = TRUE
    OBVIOUS
<1>2. d = [started |-> yes, version |-> version, code |-> a.code, report |-> a.report, records |-> g]
    BY DEF Did
<1> HIDE DEF f, g, d, yes
<1>3. d.started = yes /\ d.code = a.code /\ d.report = a.report /\ d.version = version /\ d.records = g
    BY <1>2
<1> QED BY <1>1, <1>3 DEF d, f

\* The history record of a scan that did not exit.
LEMMA DidNoExit ==
    ASSUME NEW a, a.kind # "exit"
    PROVE  LET d == Did(a)
           IN /\ d.started = (a.kind # "absent") /\ d.report = NULL /\ d.records = <<>>
              /\ d.version = version
<1> DEFINE d == Did(a)
           yes == a.kind # "absent"
<1>1. d = [started |-> yes, version |-> version, code |-> NULL, report |-> NULL, records |-> <<>>]
    BY DEF Did
<1> HIDE DEF d, yes
<1>2. d.started = yes /\ d.report = NULL /\ d.records = <<>> /\ d.version = version
    BY <1>1
<1> QED BY <1>2 DEF d, yes

\* A valid result has no home directory in a text it keeps.
LEMMA ValidHasNoHome ==
    ASSUME NEW r, Derived(r), validate_external_scanner_result(r)
    PROVE  \A k \in DOMAIN r.findings : \A t \in r.findings[k].texts : "home_path" \notin t
<1>1. r.redaction = {}
    BY DEF validate_external_scanner_result, BlockingErrors, RedactionBlocks
<1>2. r.redaction = HostPaths(r.findings)
    BY DEF Derived
<1> QED BY <1>1, <1>2 DEF HostPaths, When

\* consume_report: from the exit code on, every outcome of an adapter is backed by what the scanner did.
LEMMA ConsumeOK ==
    ASSUME Current \in RealScanners, NEW a \in Scans[Current], a.kind = "exit"
    PROVE  LET result == consume_report(Current, version, Scope, a.code, a.report)
           IN ResultOK(Current, result, Did(a)) /\ result.scanner_executed = TRUE
<1> DEFINE s == Current
           scope == Scope
           d == Did(a)
           x == interpret_exit_code(s, a.code)
           records == parse_report(s, a.report)
           outcome == x.outcome
           n == normalized_result(s, records, version, scope, outcome)
           unclean == scope.commit = NULL \/ scope.dirty # "clean"
           mismatch == exit_code_report_mismatch(x.status, records)
           U(error, reason, completed) ==
               run_result(FALSE, TRUE, {error}, unknown_result(s, version, scope, reason, completed, TRUE))
           accepted == run_result(validate_external_scanner_result(n), TRUE, BlockingErrors(n), n)
           result == consume_report(s, version, scope, a.code, a.report)
<1>1. result = IF ~x.consume THEN U(x.error, x.reason, FALSE)
               ELSE IF ~a.report.file THEN U("missing_report", "parse_failure", FALSE)
               ELSE IF records = NULL THEN U("parse_failure", "parse_failure", FALSE)
               ELSE IF mismatch THEN U("report_exit_code_mismatch", "parse_failure", FALSE)
               ELSE IF outcome = NoFindings /\ unclean THEN U("dirty_worktree_scope_ambiguous", "scope_ambiguous", TRUE)
               ELSE accepted
    BY DEF consume_report
<1>2. /\ d.started = TRUE /\ d.code = a.code /\ d.report = a.report /\ d.version = version
      /\ d.records = IF a.report.file /\ records # NULL
                     THEN [i \in DOMAIN records |-> normalized_finding(s, records[i])] ELSE <<>>
    BY DidExit
<1>3. /\ a.code \in Int /\ a.report.file \in BOOLEAN
      /\ a.report.file /\ records # NULL =>
            IsList(records) /\ (s = "trivy" => \A i \in DOMAIN records : records[i].kind \in TrivyKinds)
    BY ScannerAnswers DEF IsList
<1>4. mismatch <=> \/ x.status = "completed_no_findings" /\ records # <<>>
                   \/ x.status = "completed_with_findings" /\ records = <<>>
    BY DEF exit_code_report_mismatch
<1>5. \/ x.consume /\ a.code = 0 /\ x.status = "completed_no_findings" /\ outcome = NoFindings
      \/ x.consume /\ x.status = "completed_with_findings" /\ outcome = "findings_present"
      \/ ~x.consume /\ x.error # "dirty_worktree_scope_ambiguous"
    BY <1>3, Interpretation
<1>6. normalize_report(s, a.report, version, scope)
        = IF records = NULL THEN unknown_result(s, version, scope, "parse_failure", FALSE, TRUE)
          ELSE IF records = <<>> /\ unclean THEN unknown_result(s, version, scope, "scope_ambiguous", TRUE, TRUE)
          ELSE normalized_result(s, records, version, scope,
                                 IF records = <<>> THEN NoFindings ELSE "findings_present")
    BY DEF normalize_report, RealScanners, Normalized, NoFindings, normalize_gitleaks_json_array,
           normalize_osv_json_object, normalize_trivy_json_object
<1>7. snapshot # "git_commit" => unclean
    BY DEF Scope, repo_commit_and_dirty_state
<1>8. IsList(d.records)
  <2>1. CASE a.report.file /\ records # NULL
    <3> DEFINE f == d.records
    <3>1. f = [i \in DOMAIN records |-> normalized_finding(s, records[i])] /\ IsList(records)
        BY <1>2, <1>3, <2>1
    <3> HIDE DEF f, records
    <3>2. f = [i \in DOMAIN records |-> f[i]]
        BY <3>1
    <3>3. IsList(f)
        BY <3>1, <3>2, ListMap
    <3> QED BY <3>3 DEF f
  <2>2. CASE ~(a.report.file /\ records # NULL)
    BY <1>2, <2>2, EmptyList
  <2> QED BY <2>1, <2>2
<1>9. ASSUME NEW error, NEW reason, NEW completed, error # "dirty_worktree_scope_ambiguous"
      PROVE  ResultOK(s, U(error, reason, completed), d) /\ U(error, reason, completed).scanner_executed = TRUE
  <2> DEFINE yes == TRUE
             u == unknown_result(s, version, scope, reason, completed, yes)
             errors == {error}
             r == run_result(FALSE, yes, errors, u)
  <2>1. yes \in BOOLEAN /\ s \in RealScanners
    OBVIOUS
  <2>2. u = unknown_result(s, version, scope, reason, completed, yes)
    OBVIOUS
  <2>3. r = run_result(FALSE, yes, errors, u) /\ "dirty_worktree_scope_ambiguous" \notin errors
    BY <1>9
  <2>4. U(error, reason, completed) = r
    OBVIOUS
  <2> HIDE DEF d, s, scope, yes, u, r, U, errors
  <2>5. Derived(u) /\ u.findings = <<>> /\ u.outcome = "unknown"
    BY <2>1, <2>2, UnknownResultShape
  <2>6. r.valid = FALSE /\ r.scanner_executed = yes /\ r.blocking_errors = errors /\ r.normalized_result = u
    BY <2>3 DEF run_result
  <2>7. ResultOK(s, r, d)
    BY <1>8, <2>1, <2>3, <2>5, <2>6, UnknownRun
  <2> QED BY <2>4, <2>6, <2>7 DEF yes
<1>10. CASE \/ ~x.consume \/ ~a.report.file \/ records = NULL \/ mismatch
  <2> HIDE DEF d, x, records, outcome, n, mismatch, U, accepted, scope, unclean
  <2>1. PICK error, reason, completed : error # "dirty_worktree_scope_ambiguous" /\ result = U(error, reason, completed)
    BY <1>1, <1>5, <1>10
  <2>2. ResultOK(s, U(error, reason, completed), d) /\ U(error, reason, completed).scanner_executed = TRUE
    BY <1>9, <2>1
  <2> QED BY <2>1, <2>2 DEF d, scope
<1>11. ASSUME x.consume, a.report.file, records # NULL, ~mismatch
       PROVE  /\ outcome = IF records = <<>> THEN NoFindings ELSE "findings_present"
              /\ records = <<>> => a.code = 0
              /\ IsList(records)
              /\ d.records = [i \in DOMAIN records |-> normalized_finding(s, records[i])]
  <2> HIDE DEF d, x, records, outcome, mismatch
  <2> QED BY <1>2, <1>3, <1>4, <1>5, <1>11 DEF NoFindings
<1>12. CASE x.consume /\ a.report.file /\ records # NULL /\ ~mismatch /\ outcome = NoFindings /\ unclean
  <2> DEFINE u == unknown_result(s, version, scope, "scope_ambiguous", TRUE, TRUE)
             errors == {"dirty_worktree_scope_ambiguous"}
  <2>1. Derived(u) /\ u.findings = <<>> /\ u.outcome = "unknown"
    <3> DEFINE yes == TRUE
    <3> HIDE DEF yes
    <3>1. LET v == unknown_result(s, version, scope, "scope_ambiguous", yes, yes)
          IN Derived(v) /\ v.findings = <<>> /\ v.outcome = "unknown"
        BY UnknownResultShape
    <3> QED BY <3>1 DEF yes
  <2>2. u = normalize_report(s, a.report, version, scope)
    <3> HIDE DEF records, mismatch, x, outcome, unclean
    <3> QED BY <1>6, <1>11, <1>12 DEF NoFindings
  <2>3. result = run_result(FALSE, TRUE, errors, u)
    BY <1>1, <1>12
  <2> HIDE DEF u, errors, result, d, scope
  <2>4. result.valid = FALSE /\ result.scanner_executed = TRUE /\ result.blocking_errors = errors /\ result.normalized_result = u
    BY <2>3 DEF run_result
  <2>5. Agrees(s, u, errors, d)
    BY <1>2, <2>2 DEF Agrees, scope
  <2>6. ResultOK(s, result, d)
    BY <1>8, <2>1, <2>4, <2>5 DEF ResultOK
  <2> QED BY <2>4, <2>6 DEF result, d, scope
<1>13. CASE x.consume /\ a.report.file /\ records # NULL /\ ~mismatch /\ ~(outcome = NoFindings /\ unclean)
  <2>1. result = accepted
    BY <1>1, <1>13
  <2>2. /\ outcome = IF records = <<>> THEN NoFindings ELSE "findings_present"
        /\ records = <<>> => a.code = 0
        /\ IsList(records)
        /\ d.records = [i \in DOMAIN records |-> normalized_finding(s, records[i])]
    BY <1>11, <1>13
  <2>3. outcome = NoFindings => snapshot = "git_commit"
    BY <1>7, <1>13
  <2>4. n = normalize_report(s, a.report, version, scope)
    <3> HIDE DEF records, mismatch, x, outcome, unclean
    <3> QED BY <1>6, <1>13, <2>2 DEF NoFindings
  <2>5. s = "trivy" => \A i \in DOMAIN records : records[i].kind \in TrivyKinds
    BY <1>3, <1>13
  <2> HIDE DEF records, outcome, x
  <2>6. /\ Derived(n) /\ n.scope = scope /\ n.outcome = outcome
        /\ n.findings = [i \in DOMAIN records |-> normalized_finding(s, records[i])]
    BY <2>2, NormalizedShape
  <2>7. \A i \in DOMAIN records : \A t \in normalized_finding(s, records[i]).texts : t \cap AdapterNeverIn(s) = {}
    BY <2>5, FindingRedacted
  <2> DEFINE ok == validate_external_scanner_result(n)
             errors == BlockingErrors(n)
  <2>8. ok \in BOOLEAN
    BY DEF validate_external_scanner_result
  <2> HIDE DEF n, ok, errors, result, d, scope
  <2>9. result.valid = ok /\ result.scanner_executed = TRUE /\ result.blocking_errors = errors /\ result.normalized_result = n
    BY <2>1 DEF run_result, ok, errors
  <2>10. n.findings = d.records /\ (records = <<>> => d.records = <<>>)
    BY <2>2, <2>6
  <2>11. ok => Redacted(s, n.findings)
    <3>1. ok => \A k \in DOMAIN n.findings : \A t \in n.findings[k].texts : "home_path" \notin t
        BY <2>6, ValidHasNoHome DEF ok
    <3>2. \A k \in DOMAIN n.findings : \A t \in n.findings[k].texts : t \cap AdapterNeverIn(s) = {}
        BY <2>6, <2>7
    <3>3. NeverIn(s) = {"home_path"} \cup AdapterNeverIn(s)
        BY DEF NeverIn, AdapterNeverIn
    <3>4. \A t : "home_path" \notin t /\ t \cap AdapterNeverIn(s) = {} => t \cap NeverIn(s) = {}
        BY <3>3
    <3> QED BY <3>1, <3>2, <3>4 DEF Redacted
  <2>12. Agrees(s, n, errors, d)
    BY <1>2, <2>4 DEF Agrees, scope
  <2>13. outcome = NoFindings => SilenceBacked(d)
    BY <1>2, <2>2, <2>3, <2>10 DEF SilenceBacked, NoFindings
  <2>14. n.findings = IF n.outcome = "findings_present" THEN d.records ELSE <<>>
    BY <2>2, <2>6, <2>10 DEF NoFindings
  <2>15. n.scope = Scope
    BY <2>6 DEF scope
  <2>16. ResultOK(s, result, d)
    BY <1>2, <1>8, <2>6, <2>8, <2>9, <2>10, <2>11, <2>12, <2>13, <2>14, <2>15 DEF ResultOK
  <2> QED BY <2>9, <2>16 DEF result, d, scope
<1> QED BY <1>10, <1>12, <1>13

NoEvidence(result) ==
    /\ result.valid = FALSE /\ result.scanner_executed \in BOOLEAN
    /\ Derived(result.normalized_result)
    /\ result.normalized_result.findings = <<>> /\ result.normalized_result.outcome = "unknown"

\* A result made of an unknown result is no evidence.
LEMMA RunResultUnknown ==
    ASSUME NEW scanner \in RealScanners, NEW v, NEW scope, NEW reason, NEW completed, NEW network,
           NEW executed, executed \in BOOLEAN, NEW errors
    PROVE  LET x == run_result(FALSE, executed, errors, unknown_result(scanner, v, scope, reason, completed, network))
           IN NoEvidence(x)
<1> DEFINE u == unknown_result(scanner, v, scope, reason, completed, network)
           x == run_result(FALSE, executed, errors, u)
<1>1. Derived(u) /\ u.findings = <<>> /\ u.outcome = "unknown"
    BY UnknownResultShape
<1> HIDE DEF u
<1>2. x.valid = FALSE /\ x.scanner_executed = executed /\ x.normalized_result = u
    BY DEF run_result
<1> HIDE DEF x
<1>3. NoEvidence(x)
    BY <1>1, <1>2 DEF NoEvidence
<1> QED BY <1>3 DEF x, u

\* A refused or changed snapshot, a refused preflight and a scan that did not exit are no evidence.
LEMMA RefusedIsNoEvidence ==
    ASSUME NEW scanner \in RealScanners
    PROVE  NoEvidence(snapshot_intake_refused(scanner)) /\ snapshot_intake_refused(scanner).scanner_executed = FALSE
<1> DEFINE no == FALSE
           errors == {"snapshot_intake_refused"}
           scope == NoScope
           x == run_result(no, no, errors, unknown_result(scanner, "unparseable", scope, "snapshot_intake_refused", no, no))
<1>1. snapshot_intake_refused(scanner) = x /\ no \in BOOLEAN
    BY DEF snapshot_intake_refused
<1> HIDE DEF errors, scope
<1>2. x = run_result(FALSE, no, errors, unknown_result(scanner, "unparseable", scope, "snapshot_intake_refused", no, no))
    OBVIOUS
<1> HIDE DEF no, x
<1>3. NoEvidence(x)
    BY <1>1, <1>2, RunResultUnknown
<1>4. x.scanner_executed = no
    BY <1>2 DEF run_result
<1> QED BY <1>1, <1>3, <1>4 DEF no

\* Stopped likewise.
LEMMA StoppedIsNoEvidence ==
    ASSUME NEW scanner \in RealScanners, NEW scope, NEW error, NEW reason
    PROVE  NoEvidence(Stopped(scanner, scope, error, reason)) /\ Stopped(scanner, scope, error, reason).scanner_executed = FALSE
<1> DEFINE no == FALSE
           errors == {error}
           x == run_result(no, no, errors, unknown_result(scanner, "unparseable", scope, reason, no, no))
<1>1. Stopped(scanner, scope, error, reason) = x /\ no \in BOOLEAN
    BY DEF Stopped
<1> HIDE DEF errors
<1>2. x = run_result(FALSE, no, errors, unknown_result(scanner, "unparseable", scope, reason, no, no))
    OBVIOUS
<1> HIDE DEF no, x
<1>3. NoEvidence(x)
    BY <1>1, <1>2, RunResultUnknown
<1>4. x.scanner_executed = no
    BY <1>2 DEF run_result
<1> QED BY <1>1, <1>3, <1>4 DEF no

\* Failed likewise.
LEMMA FailedIsNoEvidence ==
    ASSUME NEW scanner \in RealScanners, NEW v, NEW scope, NEW error, NEW reason, NEW network
    PROVE  NoEvidence(Failed(scanner, v, scope, error, reason, network))
<1> DEFINE yes == TRUE
           no == FALSE
           errors == {error}
           x == run_result(no, yes, errors, unknown_result(scanner, v, scope, reason, no, network))
<1>1. Failed(scanner, v, scope, error, reason, network) = x /\ yes \in BOOLEAN
    BY DEF Failed
<1> HIDE DEF errors
<1>2. x = run_result(FALSE, yes, errors, unknown_result(scanner, v, scope, reason, no, network))
    OBVIOUS
<1> HIDE DEF no, x, yes
<1>3. NoEvidence(x)
    BY <1>1, <1>2, RunResultUnknown
<1> QED BY <1>1, <1>3

\* No evidence, where no report was read, is a result as it must be.
LEMMA NoEvidenceOK ==
    ASSUME NEW scanner, NEW result, NoEvidence(result), NEW d, d.report = NULL, IsList(d.records)
    PROVE  ResultOK(scanner, result, d)
BY UnknownRun DEF NoEvidence

\* A preflight lets the scan go on only after an exit with a version, and stops it without evidence.
LEMMA PreflightOK ==
    ASSUME NEW scanner \in RealScanners, snapshot \in {"git_commit", "filesystem"}, NEW p \in Preflights
    PROVE  LET stopped == preflight(scanner, Scope, p)
           IN /\ stopped = NULL => p.version \in VersionStatuses
              /\ stopped # NULL => NoEvidence(stopped) /\ stopped.scanner_executed = FALSE
<1> DEFINE scope == Scope
           stopped == preflight(scanner, scope, p)
           S(error, reason) == Stopped(scanner, scope, error, reason)
           Late == S("scanner_timeout", "timeout")
           Gone == S("scanner_unavailable", "scanner_unavailable")
           no == FALSE
           unsafe == run_result(FALSE, FALSE, {"tool_unsafe_or_untrusted"},
                                trivy_unknown_result(p.version, scope, "unsupported_version", FALSE, FALSE))
<1>1. \/ stopped = Late \/ stopped = Gone
      \/ Answered(p) /\ stopped = NULL
      \/ Answered(p) /\ scanner = "trivy" /\ stopped = unsafe
  <2>1. CASE scanner = "gitleaks"
    BY <2>1 DEF preflight, gitleaks_preflight
  <2>2. CASE scanner = "osv-scanner"
    BY <2>2 DEF preflight, osv_preflight
  <2>3. CASE scanner = "trivy"
    BY <2>3 DEF preflight, trivy_preflight
  <2> QED BY <2>1, <2>2, <2>3 DEF RealScanners
<1>2. Answered(p) => p.version \in VersionStatuses
    BY ScannerAnswers DEF Answered
<1>3. Late # NULL /\ Gone # NULL
    BY NoneIsNoAnswer DEF Scope
<1>4. NoEvidence(Late) /\ Late.scanner_executed = FALSE /\ NoEvidence(Gone) /\ Gone.scanner_executed = FALSE
  <2> HIDE DEF scope
  <2> QED BY StoppedIsNoEvidence
<1>5. scanner = "trivy" => NoEvidence(unsafe) /\ unsafe.scanner_executed = FALSE
  <2> DEFINE errors == {"tool_unsafe_or_untrusted"}
             v == p.version
             x == run_result(FALSE, no, errors, unknown_result(scanner, v, scope, "unsupported_version", no, no))
  <2>1. scanner = "trivy" => unsafe = x
    BY DEF unknown_result
  <2>2. x = run_result(FALSE, no, errors, unknown_result(scanner, v, scope, "unsupported_version", no, no)) /\ no \in BOOLEAN
    OBVIOUS
  <2> HIDE DEF errors, v, scope, no, x
  <2>3. NoEvidence(x)
    BY <2>2, RunResultUnknown
  <2>4. x.scanner_executed = no
    BY <2>2 DEF run_result
  <2> QED BY <2>1, <2>3, <2>4 DEF no
<1> HIDE DEF Late, Gone, unsafe, stopped, scope
<1>6. stopped = NULL => p.version \in VersionStatuses
  <2>1. CASE Answered(p)
    BY <1>2, <2>1
  <2>2. CASE ~Answered(p)
    BY <1>1, <1>3, <2>2
  <2> QED BY <2>1, <2>2
<1>7. stopped # NULL => NoEvidence(stopped) /\ stopped.scanner_executed = FALSE
    BY <1>1, <1>4, <1>5
<1> QED BY <1>6, <1>7 DEF stopped, scope

\* scan_pipeline: what an adapter returns of a scan is backed by what the scanner did.
LEMMA ScanOK ==
    ASSUME Current \in RealScanners, NEW a \in Scans[Current]
    PROVE  LET result == scan_pipeline(Current, version, Scope, a)
           IN result # NULL => ResultOK(Current, result, Did(a))
<1> DEFINE s == Current
           scope == Scope
           d == Did(a)
           result == scan_pipeline(s, version, scope, a)
<1>1. a.kind \in AnswerKinds
    BY ScannerAnswers
<1>2. CASE a.kind = "exit"
  <2>1. result = consume_report(s, version, scope, a.code, a.report)
    BY <1>2 DEF scan_pipeline, gitleaks_scan_pipeline, osv_scan_pipeline, trivy_scan_pipeline, RealScanners
  <2> QED BY <1>2, <2>1, ConsumeOK
<1>3. CASE a.kind # "exit"
  <2>1. result = NULL \/ \E error, reason, network : result = Failed(s, version, scope, error, reason, network)
    <3>1. CASE s = "gitleaks"
        BY <1>1, <1>3, <3>1 DEF AnswerKinds, scan_pipeline, gitleaks_scan_pipeline
    <3>2. CASE s = "osv-scanner"
        BY <1>1, <1>3, <3>2 DEF AnswerKinds, scan_pipeline, osv_scan_pipeline
    <3>3. CASE s = "trivy"
        BY <1>1, <1>3, <3>3 DEF AnswerKinds, scan_pipeline, trivy_scan_pipeline
    <3> QED BY <3>1, <3>2, <3>3 DEF RealScanners
  <2>2. d.report = NULL /\ IsList(d.records)
    BY <1>3, DidNoExit, EmptyList
  <2>3. ASSUME result # NULL PROVE NoEvidence(result)
    <3>1. PICK error, reason, network : result = Failed(s, version, scope, error, reason, network)
        BY <2>1, <2>3
    <3> QED BY <3>1, FailedIsNoEvidence
  <2> HIDE DEF result, d
  <2>4. result # NULL => ResultOK(s, result, d)
    BY <2>2, <2>3, NoEvidenceOK
  <2> QED BY <2>4 DEF result, d
<1> QED BY <1>2, <1>3

(***************************************************************************)
(* Entries                                                                 *)
(***************************************************************************)
\* _truncate_normalized_result keeps the first findings and makes the summary follow.
LEMMA TruncatedShape ==
    ASSUME NEW r, Derived(r), NEW k \in Nat, k <= Len(r.findings)
    PROVE  LET t == truncate_normalized_result(r, k)
           IN /\ Derived(t) /\ Len(t.findings) = k /\ t.scope = r.scope /\ t.outcome = r.outcome
              /\ DOMAIN t.findings \subseteq DOMAIN r.findings
              /\ \A i \in DOMAIN t.findings : t.findings[i] = r.findings[i]
              /\ k = Len(r.findings) => t = r
<1> DEFINE f == r.findings
           p == SubSeq(f, 1, k)
           t == truncate_normalized_result(r, k)
<1>1. IsList(f) /\ Len(f) \in Nat
    BY ListShape DEF Derived
<1>2. MinOf(k, Len(f)) = k
    BY <1>1 DEF MinOf
<1>3. t = WithFindings(r, p)
    BY <1>2 DEF truncate_normalized_result
<1> HIDE DEF f
<1>4. /\ IsList(p) /\ Len(p) = k /\ DOMAIN p = 1..k /\ 1..k \subseteq DOMAIN f
      /\ \A i \in 1..k : p[i] = f[i]
      /\ k = Len(f) => p = f
    BY <1>1, ListPrefix DEF f
<1> HIDE DEF p, t
<1>5. /\ Derived(t) /\ t.findings = p
      /\ \A x \in ResultFields \ {"findings", "primary", "secondary", "redaction"} : t[x] = r[x]
      /\ p = r.findings => t = r
    BY <1>3, <1>4, WithFindingsShape
<1>6. t.scope = r.scope /\ t.outcome = r.outcome
    BY <1>5 DEF ResultFields
<1> QED BY <1>4, <1>5, <1>6 DEF t, f

\* A prefix of redacted findings is redacted.
LEMMA RedactedPrefix ==
    ASSUME NEW scanner, NEW f, Redacted(scanner, f), NEW p, DOMAIN p \subseteq DOMAIN f,
           \A i \in DOMAIN p : p[i] = f[i]
    PROVE  Redacted(scanner, p)
BY DEF Redacted

\* _entry_from_run_result: an entry accounts for every finding of its adapter's result, cut or not.
LEMMA EntryFromRun ==
    ASSUME NEW scanner, NEW result, NEW d, ResultOK(scanner, result, d), NEW allowed \in Nat,
           ~args.direct => allowed <= args.per_scanner, args.per_scanner \in Int
    PROVE  LET e == entry_from_run_result(scanner, result, allowed)
           IN EntryOK(scanner, e, d) /\ e.finding_count <= allowed /\ e.executed = result.scanner_executed
<1> DEFINE r == result.normalized_result
           original == Len(r.findings)
           kept == MinOf(original, allowed)
           t == truncate_normalized_result(r, kept)
           e == entry_from_run_result(scanner, result, allowed)
           cut == kept < original
           ok == result.valid
           executed == result.scanner_executed
           errors == result.blocking_errors
           outcome == r.outcome
           omitted == original - kept
<1>1. /\ ok \in BOOLEAN /\ executed \in BOOLEAN /\ Derived(r) /\ IsList(d.records)
      /\ r.findings = IF outcome = "findings_present" THEN d.records ELSE <<>>
      /\ ok => executed /\ d.started /\ r.scope = Scope /\ Redacted(scanner, r.findings) /\ r.findings = d.records
      /\ ok /\ outcome = NoFindings => SilenceBacked(d)
      /\ Agrees(scanner, r, errors, d)
    BY DEF ResultOK
<1>2. \E status_, warnings :
        e = [scanner |-> scanner, executed |-> executed, valid |-> ok, status |-> status_,
             blocking_errors |-> errors, warnings |-> warnings, outcome |-> outcome,
             normalized_result |-> t, finding_count |-> kept, omitted |-> omitted, truncated |-> cut]
  <2> HIDE DEF e, r
  <2>1. e = [scanner |-> scanner, executed |-> executed, valid |-> ok,
             status |-> IF ok THEN "completed" ELSE "unknown", blocking_errors |-> errors,
             warnings |-> When(/\ scanner # "trivy"
                               /\ assess_scanner_version(r.version).status = "compatible_family_unverified",
                               "scanner_version_compatible_family_unverified")
                          \cup When(kept < original, "finding_budget_exceeded"),
             outcome |-> outcome, normalized_result |-> t, finding_count |-> kept, omitted |-> omitted, truncated |-> cut]
    BY DEF entry_from_run_result, e, r
  <2> HIDE DEF t, kept, omitted, cut, ok, executed, errors, outcome
  <2> QED BY <2>1
<1>3. original \in Nat
    BY <1>1, ListShape DEF Derived
<1> HIDE DEF original, r
<1>4. kept \in Nat /\ kept <= original /\ kept <= allowed
    BY <1>3 DEF MinOf
<1>5. omitted \in Nat /\ kept + omitted = original /\ cut \in BOOLEAN /\ (~cut => kept = original /\ omitted = 0)
    BY <1>3, <1>4
<1>6. original = IF outcome = "findings_present" THEN Len(d.records) ELSE 0
    BY <1>1, EmptyList DEF original
<1> HIDE DEF kept
<1>7. /\ Derived(t) /\ Len(t.findings) = kept /\ t.scope = r.scope /\ t.outcome = r.outcome
      /\ DOMAIN t.findings \subseteq DOMAIN r.findings
      /\ \A i \in DOMAIN t.findings : t.findings[i] = r.findings[i]
      /\ kept = original => t = r
    BY <1>1, <1>4, TruncatedShape DEF original
<1> HIDE DEF t, e, cut, ok, executed, errors, outcome, omitted
<1>8. PICK status_, warnings :
        e = [scanner |-> scanner, executed |-> executed, valid |-> ok, status |-> status_,
             blocking_errors |-> errors, warnings |-> warnings, outcome |-> outcome,
             normalized_result |-> t, finding_count |-> kept, omitted |-> omitted, truncated |-> cut]
    BY <1>2
<1>9. /\ e.scanner = scanner /\ e.executed = executed /\ e.valid = ok /\ e.blocking_errors = errors
      /\ e.outcome = outcome /\ e.normalized_result = t /\ e.finding_count = kept /\ e.omitted = omitted
      /\ e.truncated = cut
    BY <1>8
<1>10. e = [x \in EntryFields |-> e[x]]
    BY <1>8 DEF EntryFields
<1>11. ok => Redacted(scanner, t.findings)
    BY <1>1, <1>7, RedactedPrefix
<1>12. ~cut => Agrees(scanner, t, errors, d)
    BY <1>1, <1>5, <1>7
<1>13. EntryOK(scanner, e, d)
  <2>1. /\ {e.executed, e.valid, e.truncated} \subseteq BOOLEAN
        /\ e.finding_count \in Nat /\ e.omitted \in Nat
        /\ e.finding_count = Len(e.normalized_result.findings)
        /\ e.finding_count + e.omitted = IF e.outcome = "findings_present" THEN Len(d.records) ELSE 0
        /\ ~args.direct => e.finding_count <= args.per_scanner
        /\ ~e.truncated => e.omitted = 0
    BY <1>1, <1>4, <1>5, <1>6, <1>7, <1>9
  <2>2. /\ e.valid => e.executed /\ d.started /\ e.normalized_result.scope = Scope
        /\ e.valid => Redacted(scanner, e.normalized_result.findings)
        /\ e.valid /\ ~e.truncated => e.normalized_result.findings = d.records
        /\ e.valid /\ e.outcome = NoFindings => SilenceBacked(d)
        /\ ~e.truncated => Agrees(scanner, e.normalized_result, e.blocking_errors, d)
    BY <1>1, <1>5, <1>7, <1>9, <1>11, <1>12
  <2> QED BY <1>1, <1>7, <1>9, <1>10, <2>1, <2>2 DEF EntryOK
<1> QED BY <1>4, <1>9, <1>13 DEF e, executed

\* An entry for a scanner that was skipped or raised claims nothing.
LEMMA UnscannedOK ==
    ASSUME NEW scanner \in RealScanners, NEW status_, NEW reason, NEW errors, NEW warnings, NEW d, IsList(d.records),
           "dirty_worktree_scope_ambiguous" \notin errors, args.per_scanner \in Int, args.direct \/ args.per_scanner > 0
    PROVE  LET e == UnscannedEntry(scanner, status_, reason, errors, warnings)
           IN EntryOK(scanner, e, d) /\ e.finding_count = 0 /\ e.executed = FALSE
<1> DEFINE no == FALSE
           r == Result(scanner, "unparseable", NoScope, "unknown", no, no)
           u == suite_unknown_result(scanner, reason)
           e == UnscannedEntry(scanner, status_, reason, errors, warnings)
<1>1. e = [scanner |-> scanner, executed |-> no, valid |-> no, status |-> status_,
           blocking_errors |-> errors, warnings |-> warnings, outcome |-> "unknown",
           normalized_result |-> u, finding_count |-> 0, omitted |-> 0, truncated |-> no]
    BY DEF UnscannedEntry
<1>2. u = Unknown(r, reason)
    BY DEF suite_unknown_result
<1> HIDE DEF u, e, no
<1>3. Derived(r) /\ r.findings = <<>>
    BY ResultShape
<1> HIDE DEF r
<1>4. Derived(u) /\ u.findings = <<>> /\ u.outcome = "unknown"
    BY <1>2, <1>3, UnknownShape
<1>5. /\ e.scanner = scanner /\ e.executed = no /\ e.valid = no /\ e.blocking_errors = errors
      /\ e.outcome = "unknown" /\ e.normalized_result = u /\ e.finding_count = 0 /\ e.omitted = 0
      /\ e.truncated = no
    BY <1>1
<1>6. e = [x \in EntryFields |-> e[x]]
    BY <1>1 DEF EntryFields
<1>7. Agrees(scanner, u, errors, d)
    BY <1>4 DEF Agrees
<1>8. EntryOK(scanner, e, d)
  <2>1. no = FALSE
    BY DEF no
  <2>2. Len(u.findings) = 0
    BY <1>4, EmptyList
  <2>3. /\ e.finding_count \in Nat /\ e.omitted \in Nat
        /\ e.finding_count = Len(e.normalized_result.findings)
        /\ e.finding_count + e.omitted = IF e.outcome = "findings_present" THEN Len(d.records) ELSE 0
        /\ ~args.direct => e.finding_count <= args.per_scanner
        /\ e.omitted = 0
    BY <1>5, <2>2
  <2>4. {e.executed, e.valid, e.truncated} \subseteq BOOLEAN
    BY <1>5, <2>1
  <2>5. ~e.valid
    BY <1>5, <2>1
  <2>6. Derived(e.normalized_result) /\ Agrees(scanner, e.normalized_result, e.blocking_errors, d)
    BY <1>4, <1>5, <1>7
  <2> QED BY <1>5, <1>6, <2>3, <2>4, <2>5, <2>6 DEF EntryOK
<1> QED BY <1>5, <1>8 DEF e, no

\* _truncate_entry drops one finding and says so.
LEMMA TruncateEntryOK ==
    ASSUME NEW scanner, NEW e, NEW d, EntryOK(scanner, e, d), e.finding_count > 0, args.per_scanner \in Int
    PROVE  LET t == truncate_entry(e)
           IN /\ EntryOK(scanner, t, d) /\ t.finding_count = e.finding_count - 1
              /\ t.valid = e.valid /\ t.executed = e.executed
<1> DEFINE r == e.normalized_result
           k == e.finding_count - 1
           q == truncate_normalized_result(r, k)
           t == truncate_entry(e)
           more == e.warnings \cup {"report_byte_budget_exceeded"}
           yes == TRUE
<1>1. /\ e = [x \in EntryFields |-> e[x]]
      /\ e.scanner = scanner
      /\ {e.executed, e.valid, e.truncated} \subseteq BOOLEAN
      /\ e.finding_count \in Nat /\ e.omitted \in Nat
      /\ Derived(r)
      /\ IsList(d.records)
      /\ e.finding_count = Len(r.findings)
      /\ e.finding_count + e.omitted = IF e.outcome = "findings_present" THEN Len(d.records) ELSE 0
      /\ ~args.direct => e.finding_count <= args.per_scanner
      /\ e.valid => e.executed /\ d.started /\ r.scope = Scope /\ Redacted(scanner, r.findings)
      /\ e.valid /\ e.outcome = NoFindings => SilenceBacked(d)
    BY DEF EntryOK
<1>2. t = [e EXCEPT !.warnings = more, !.finding_count = k, !.normalized_result = q,
                    !.omitted = e.omitted + 1, !.truncated = yes]
    BY <1>1 DEF truncate_entry, EntryFields
<1>3. k \in Nat /\ k <= Len(r.findings)
    BY <1>1
<1> HIDE DEF k, r
<1>4. /\ Derived(q) /\ Len(q.findings) = k /\ q.scope = r.scope
      /\ DOMAIN q.findings \subseteq DOMAIN r.findings
      /\ \A i \in DOMAIN q.findings : q.findings[i] = r.findings[i]
    BY <1>1, <1>3, TruncatedShape
<1> HIDE DEF q, t, more, yes
<1>5. t = [x \in EntryFields |-> t[x]]
    BY <1>1, <1>2
<1>6. /\ t.scanner = e.scanner /\ t.executed = e.executed /\ t.valid = e.valid /\ t.outcome = e.outcome
      /\ t.normalized_result = q /\ t.finding_count = k /\ t.omitted = e.omitted + 1 /\ t.truncated = yes
    BY <1>1, <1>2 DEF EntryFields
<1>7. yes = TRUE
    BY DEF yes
<1>8. e.valid => Redacted(scanner, q.findings)
    BY <1>1, <1>4, RedactedPrefix
<1>9. /\ k + (e.omitted + 1) = IF e.outcome = "findings_present" THEN Len(d.records) ELSE 0
      /\ ~args.direct => k <= args.per_scanner
      /\ e.omitted + 1 \in Nat
    BY <1>1, SMTT(30) DEF k
<1>10. EntryOK(scanner, t, d)
  <2>1. /\ {t.executed, t.valid, t.truncated} \subseteq BOOLEAN
        /\ t.finding_count \in Nat /\ t.omitted \in Nat /\ t.truncated
    BY <1>1, <1>3, <1>6, <1>7, <1>9
  <2> QED BY <1>1, <1>4, <1>5, <1>6, <1>8, <1>9, <2>1 DEF EntryOK
<1> QED BY <1>6, <1>10 DEF t, k

(***************************************************************************)
(* The suite's finding budget                                              *)
(***************************************************************************)
\* The places an entry of n findings takes in the report.
LEMMA Places ==
    ASSUME NEW i, NEW n \in Nat
    PROVE  IsFiniteSet({i} \X (1..n)) /\ Cardinality({i} \X (1..n)) = n
<1>1. IsFiniteSet(1..n) /\ Cardinality(1..n) = n
    BY FS_Interval
<1>2. IsFiniteSet({i}) /\ Cardinality({i}) = 1
    BY FS_Singleton
<1> QED BY <1>1, <1>2, FS_Product

Held(list) == UNION {{i} \X (1..list[i].finding_count) : i \in DOMAIN list}

\* The kept findings of a list of entries are finitely many.
LEMMA HeldFinite ==
    ASSUME NEW list, IsList(list), \A i \in DOMAIN list : list[i].finding_count \in Nat
    PROVE  IsFiniteSet(Held(list))
<1> DEFINE S == {{i} \X (1..list[i].finding_count) : i \in DOMAIN list}
<1>1. IsFiniteSet(DOMAIN list)
    BY ListShape, FS_Interval
<1>2. IsFiniteSet(S)
  <2> DEFINE g == [i \in DOMAIN list |-> {i} \X (1..list[i].finding_count)]
  <2>1. g \in [DOMAIN list -> S]
    OBVIOUS
  <2>2. \A T \in S : \E i \in DOMAIN list : g[i] = T
    OBVIOUS
  <2> HIDE DEF g, S
  <2>3. g \in Surjection(DOMAIN list, S)
    BY <2>1, <2>2 DEF Surjection
  <2> QED BY <1>1, <2>3, FS_Surjection
<1>3. \A T \in S : IsFiniteSet(T)
  <2> TAKE T \in S
  <2>1. PICK i \in DOMAIN list : T = {i} \X (1..list[i].finding_count)
    OBVIOUS
  <2>2. list[i].finding_count \in Nat
    OBVIOUS
  <2> QED BY <2>1, <2>2, Places
<1> QED BY <1>2, <1>3, FS_UNION DEF Held

\* An entry more takes as many places as it has findings.
LEMMA HeldAppend ==
    ASSUME NEW list, IsList(list), \A i \in DOMAIN list : list[i].finding_count \in Nat,
           NEW e, e.finding_count \in Nat
    PROVE  Cardinality(Held(Append(list, e))) = Cardinality(Held(list)) + e.finding_count
<1> DEFINE n == Len(list) + 1
           P == {n} \X (1..e.finding_count)
           more == Append(list, e)
<1>1. /\ IsList(more) /\ DOMAIN more = 1..n /\ \A i \in DOMAIN list : more[i] = list[i]
      /\ more[n] = e /\ Len(list) \in Nat /\ DOMAIN list = 1..Len(list)
    BY ListAppend, ListShape
<1> HIDE DEF more
<1>2. DOMAIN more = DOMAIN list \cup {n} /\ n \notin DOMAIN list
    BY <1>1
<1> HIDE DEF n
<1>3. Held(more) = Held(list) \cup P
  <2>1. \A x : x \in Held(more) <=> \E i \in DOMAIN more : x \in {i} \X (1..more[i].finding_count)
    BY DEF Held
  <2>2. \A x : x \in Held(list) <=> \E i \in DOMAIN list : x \in {i} \X (1..list[i].finding_count)
    BY DEF Held
  <2>3. \A i \in DOMAIN list : {i} \X (1..more[i].finding_count) = {i} \X (1..list[i].finding_count)
    BY <1>1
  <2>4. {n} \X (1..more[n].finding_count) = P
    BY <1>1
  <2> QED BY <1>2, <2>1, <2>2, <2>3, <2>4, Zenon
<1>4. Held(list) \cap P = {}
    BY <1>2 DEF Held
<1>5. IsFiniteSet(Held(list))
    BY HeldFinite
<1>6. IsFiniteSet(P) /\ Cardinality(P) = e.finding_count
    BY Places
<1> HIDE DEF P
<1>7. Cardinality(Held(list) \cup P) = Cardinality(Held(list)) + Cardinality(P) - Cardinality(Held(list) \cap P)
    BY <1>5, <1>6, FS_Union
<1>8. Cardinality(Held(list)) \in Nat
    BY <1>5, FS_CardinalityType
<1>9. Cardinality({}) = 0
    BY FS_EmptySet
<1> DEFINE c == Cardinality(Held(list))
<1>10. Cardinality(Held(more)) = c + e.finding_count - 0 /\ c \in Nat
    BY <1>3, <1>4, <1>6, <1>7, <1>8, <1>9
<1> HIDE DEF c
<1>11. Cardinality(Held(more)) = c + e.finding_count
    BY <1>10
<1> QED BY <1>11 DEF more, c

\* An entry that loses findings frees their places.
LEMMA HeldShrinks ==
    ASSUME NEW list, IsList(list), \A i \in DOMAIN list : list[i].finding_count \in Nat,
           NEW less, DOMAIN less = DOMAIN list,
           \A i \in DOMAIN list : less[i].finding_count \in Nat /\ less[i].finding_count <= list[i].finding_count
    PROVE  Cardinality(Held(less)) <= Cardinality(Held(list)) /\ Cardinality(Held(less)) \in Nat
           /\ Cardinality(Held(list)) \in Nat
<1>1. Held(less) \subseteq Held(list)
  <2> SUFFICES ASSUME NEW i \in DOMAIN list, NEW x \in {i} \X (1..less[i].finding_count)
               PROVE  x \in {i} \X (1..list[i].finding_count)
    BY DEF Held
  <2> QED OBVIOUS
<1>2. IsFiniteSet(Held(list))
    BY HeldFinite
<1> QED BY <1>1, <1>2, FS_Subset, FS_CardinalityType

(***************************************************************************)
(* The steps                                                               *)
(***************************************************************************)
\* What the arguments of a call are.
LEMMA ArgsFacts ==
    ASSUME args \in ArgSets
    PROVE  /\ Len(args.scanners) \in Nat \ {0} /\ DOMAIN args.scanners = 1..Len(args.scanners)
           /\ args.direct \in BOOLEAN /\ args.fail_on_degraded \in BOOLEAN
           /\ args.per_scanner \in Int /\ args.suite \in Int
           /\ args.direct => Len(args.scanners) = 1 /\ args.scanners[1] \in RealScanners
<1>1. args.scanners \in Seq(STRING) /\ args.scanners # <<>>
    BY SuiteArguments
<1>2. Len(args.scanners) \in Nat \ {0} /\ DOMAIN args.scanners = 1..Len(args.scanners)
    BY <1>1
<1>3. /\ args.direct \in BOOLEAN /\ args.fail_on_degraded \in BOOLEAN
      /\ args.per_scanner \in Int /\ args.suite \in Int
      /\ args.direct => Len(args.scanners) = 1 /\ args.scanners[1] \in RealScanners
    BY SuiteArguments
<1> QED BY <1>2, <1>3

\* In the loop the next scanner is one the suite knows.
LEMMA CurrentIsReal ==
    ASSUME CallOK, ListsOK, InLoop
    PROVE  /\ Current \in RealScanners /\ Current = args.scanners[Len(entries) + 1]
           /\ Len(entries) \in Nat /\ Len(entries) + 1 \in DOMAIN args.scanners
<1>1. Len(entries) \in Nat /\ Len(entries) < Len(args.scanners) /\ Range(args.scanners) \subseteq RealScanners
    BY ListShape DEF CallOK, ListsOK
<1>2. Len(entries) + 1 \in DOMAIN args.scanners
    BY <1>1, ArgsFacts DEF CallOK
<1>3. args.scanners[Len(entries) + 1] \in Range(args.scanners)
    BY <1>2 DEF Range
<1> QED BY <1>1, <1>2, <1>3 DEF Current

\* An entry that is kept, or is as it must be, is so in the next state.
LEMMA EntriesChange ==
    ASSUME EntriesOK, UNCHANGED <<args, snapshot>>,
           \A i \in DOMAIN entries' : \/ i \in DOMAIN entries /\ entries'[i] = entries[i] /\ ran'[i] = ran[i]
                                      \/ EntryOK(args.scanners[i], entries'[i], ran'[i])
    PROVE  EntriesOK'
<1> SUFFICES ASSUME NEW i \in DOMAIN entries'
             PROVE  EntryOK(args.scanners[i], entries[i], ran[i])'
    BY DEF EntriesOK
<1>1. EntryOK(args.scanners[i], entries'[i], ran'[i])
    BY DEF EntriesOK
<1> QED BY <1>1 DEF EntryOK, Agrees, SilenceBacked, Scope

\* Nor do the entries change where nothing they are about does.
LEMMA EntriesStay ==
    ASSUME EntriesOK, BudgetOK, UNCHANGED <<args, snapshot, entries, ran>>
    PROVE  EntriesOK' /\ BudgetOK'
<1>1. EntriesOK'
    BY EntriesChange
<1>2. BudgetOK'
    BY DEF BudgetOK, Used, Kept
<1> QED BY <1>1, <1>2

\* Entries have counts.
LEMMA CountsAreNat ==
    ASSUME EntriesOK
    PROVE  \A i \in DOMAIN entries : entries[i].finding_count \in Nat /\ entries[i].omitted \in Nat
BY DEF EntriesOK, EntryOK

\* Used is the number of kept findings.
LEMMA UsedIsHeld ==
    ASSUME ListsOK, EntriesOK
    PROVE  Used = Cardinality(Held(entries)) /\ Used \in Nat
<1>1. Used = Cardinality(Held(entries))
    BY DEF Used, Kept, Held
<1>2. IsFiniteSet(Held(entries))
    BY CountsAreNat, HeldFinite DEF ListsOK
<1> QED BY <1>1, <1>2, FS_CardinalityType

\* One entry more, within what the suite has left, from a snapshot its adapter has verified where its scanner was run.
LEMMA AppendStep ==
    ASSUME SuiteInv, InLoop, NEW e, NEW d, Append1(e, d),
           UNCHANGED <<args, snapshot, changed, workspace, status, stamp, exit>>,
           EntryOK(Current, e, d),
           ~args.direct => e.finding_count <= IF args.suite > Used THEN args.suite - Used ELSE 0,
           e.executed => InTime(Len(entries) + 1)
    PROVE  SuiteInv'
<1> USE DEF SuiteInv
<1> DEFINE n == Len(entries) + 1
<1>1. /\ entries' = Append(entries, e) /\ ran' = Append(ran, d)
      /\ pc' = Continue(entries') /\ version' = "unparseable"
    BY DEF Append1
<1>2. /\ Current \in RealScanners /\ Current = args.scanners[n]
      /\ Len(entries) \in Nat /\ n \in DOMAIN args.scanners
    BY CurrentIsReal
<1>3. /\ Len(args.scanners) \in Nat \ {0} /\ DOMAIN args.scanners = 1..Len(args.scanners)
      /\ args.direct \in BOOLEAN /\ args.suite \in Int
    BY ArgsFacts DEF CallOK
<1>4. /\ IsList(entries') /\ Len(entries') = n /\ DOMAIN entries' = 1..n /\ entries' # <<>>
      /\ \A i \in DOMAIN entries : entries'[i] = entries[i]
      /\ entries'[n] = e
    BY <1>1, ListAppend DEF ListsOK
<1>5. /\ IsList(ran') /\ Len(ran') = n /\ \A i \in DOMAIN ran : ran'[i] = ran[i]
      /\ ran'[n] = d
    BY <1>1, ListAppend DEF ListsOK
<1>6. DOMAIN entries = 1..Len(entries) /\ DOMAIN ran = DOMAIN entries
    BY ListShape DEF ListsOK
<1>7. \A i \in DOMAIN entries' : i = n \/ (i \in DOMAIN entries /\ entries'[i] = entries[i] /\ ran'[i] = ran[i])
    BY <1>2, <1>4, <1>5, <1>6
<1>8. /\ pc' \in {"scanner", "cleanup", "budget"}
      /\ pc' = "scanner" => n < Len(args.scanners)
      /\ pc' = "budget" => n = Len(args.scanners)
    BY <1>1, <1>2, <1>3, <1>4 DEF Continue
<1> HIDE DEF n
<1>9. CallOK'
  <2>1. version' \in VersionStatuses
    BY <1>1 DEF VersionStatuses
  <2>2. pc \notin {"arguments", "done"}
    BY DEF InLoop
  <2> QED BY <1>8, <2>1, <2>2 DEF CallOK, InLoop, Phases
<1>10. status = "none" /\ exit # 0
    BY DEF StatusOK, InLoop, Measuring
<1>11. ListsOK'
    BY <1>2, <1>3, <1>4, <1>5, <1>8, <1>10 DEF ListsOK, InLoop, Measuring
<1>12. EntriesOK'
    BY <1>2, <1>4, <1>5, <1>7, EntriesChange
<1>13. BudgetOK'
  <2>1. e.finding_count \in Nat
    BY DEF EntryOK
  <2>2. Used = Cardinality(Held(entries)) /\ Used \in Nat
    BY UsedIsHeld
  <2>3. Cardinality(Held(entries')) = Cardinality(Held(entries)) + e.finding_count
    BY <1>1, <2>1, CountsAreNat, HeldAppend DEF ListsOK
  <2>4. Used' = Cardinality(Held(entries'))
    BY DEF Used, Kept, Held
  <2>5. entries = <<>> => Used = 0
    <3>1. entries = <<>> => Held(entries) = {}
        BY EmptyList DEF Held
    <3> QED BY <2>2, <3>1, FS_EmptySet
  <2>6. ~args.direct => args.suite > 0
    BY DEF CallOK, InLoop
  <2>7. ~args.direct => Used <= args.suite
    BY <1>3, <2>2, <2>5, <2>6 DEF BudgetOK
  <2> QED BY <1>3, <2>1, <2>2, <2>3, <2>4, <2>7 DEF BudgetOK
<1>14. SnapshotOK'
  <2>1. changed' # NULL => changed'.turn \in 1..(Len(entries') + 1) /\ changed'.verified \in BOOLEAN
    BY <1>2, <1>4 DEF SnapshotOK, n
  <2>2. \A i \in DOMAIN entries' : entries'[i].executed => InTime(i)'
    BY <1>4, <1>7 DEF SnapshotOK, InTime, n
  <2>3. pc' \notin {"preflight", "scan"}
    BY <1>8
  <2> QED BY <2>1, <2>2, <2>3 DEF SnapshotOK
<1>15. StatusOK'
    BY <1>8, <1>10 DEF StatusOK, Measuring
<1> QED BY <1>9, <1>11, <1>12, <1>13, <1>14, <1>15

\* An adapter has returned: the suite's budgets bound the new entry.
LEMMA FinishedStep ==
    ASSUME SuiteInv, InLoop, NEW result, NEW d, Finished(result, d),
           UNCHANGED <<args, snapshot, changed, workspace, status, stamp, exit>>,
           ResultOK(Current, result, d),
           result.scanner_executed => InTime(Len(entries) + 1)
    PROVE  SuiteInv'
<1> DEFINE original == Len(result.normalized_result.findings)
           remaining == IF args.suite > Used THEN args.suite - Used ELSE 0
           allowed == IF args.direct THEN original ELSE MinOf(args.per_scanner, remaining)
           e == entry_from_run_result(Current, result, allowed)
<1>1. Append1(e, d)
    BY DEF Finished
<1>2. original \in Nat
    BY ListShape DEF ResultOK, Derived
<1>3. Used \in Nat
    BY UsedIsHeld DEF SuiteInv
<1>4. args.direct \in BOOLEAN /\ args.per_scanner \in Int /\ args.suite \in Int
    BY ArgsFacts DEF SuiteInv, CallOK
<1>5. args.direct \/ (args.per_scanner > 0 /\ args.suite > 0)
    BY DEF SuiteInv, CallOK, InLoop
<1> HIDE DEF original
<1>6. remaining \in Nat
    BY <1>3, <1>4
<1>7. ~args.direct => remaining = IF args.suite > Used THEN args.suite - Used ELSE 0
    OBVIOUS
<1> HIDE DEF remaining
<1>8. /\ allowed \in Nat
      /\ ~args.direct => allowed <= args.per_scanner /\ allowed <= remaining
    BY <1>2, <1>4, <1>5, <1>6 DEF MinOf
<1> HIDE DEF allowed
<1>9. EntryOK(Current, e, d) /\ e.finding_count <= allowed /\ e.executed = result.scanner_executed
    BY <1>4, <1>8, EntryFromRun
<1>10. e.finding_count \in Nat
    BY <1>9 DEF EntryOK
<1> HIDE DEF e
<1>11. ~args.direct => e.finding_count <= remaining
    BY <1>6, <1>8, <1>9, <1>10
<1>12. ~args.direct => e.finding_count <= IF args.suite > Used THEN args.suite - Used ELSE 0
    BY <1>7, <1>11
<1> QED BY <1>1, <1>9, <1>12, AppendStep

\* An exception left the adapter.
LEMMA EscapedStep ==
    ASSUME SuiteInv, pc \in {"preflight", "scan"}, NEW d, Escaped(d), IsList(d.records),
           UNCHANGED <<args, snapshot, changed, workspace, status, stamp>>
    PROVE  SuiteInv'
<1>1. InLoop
    BY DEF InLoop
<1>2. CASE args.direct
  <2>1. pc' = "cleanup" /\ exit' = Raised /\ UNCHANGED <<version, entries, ran, limitations>>
    BY <1>2 DEF Escaped
  <2>2. EntriesOK' /\ BudgetOK'
    BY <2>1, EntriesStay DEF SuiteInv
  <2>3. status = "none" /\ exit' # 0
    BY <1>1, <2>1 DEF SuiteInv, StatusOK, InLoop, Measuring, Raised
  <2>4. CallOK'
    BY <1>2, <2>1 DEF SuiteInv, CallOK, InLoop, Phases
  <2>5. ListsOK'
    BY <2>1, <2>3 DEF SuiteInv, ListsOK, InLoop, Measuring
  <2>6. SnapshotOK' /\ StatusOK'
    BY <2>1, <2>3 DEF SuiteInv, SnapshotOK, StatusOK, InTime, Measuring
  <2> QED BY <2>2, <2>4, <2>5, <2>6 DEF SuiteInv
<1>3. CASE ~args.direct
  <2> DEFINE e == runner_error_entry(Current)
             errors == {"suite_runner_error"}
             none == {}
  <2>1. Append1(e, d) /\ UNCHANGED <<limitations, exit>>
    BY <1>3 DEF Escaped
  <2>2. e = UnscannedEntry(Current, "unknown", "runner_error", errors, none)
    BY DEF runner_error_entry
  <2>3. "dirty_worktree_scope_ambiguous" \notin errors
    OBVIOUS
  <2>4. Current \in RealScanners
    BY <1>1, CurrentIsReal DEF SuiteInv
  <2>5. args.per_scanner \in Int /\ args.suite \in Int /\ (args.direct \/ args.per_scanner > 0)
    BY <1>1, ArgsFacts DEF SuiteInv, CallOK, InLoop
  <2> HIDE DEF errors, none, e
  <2>6. EntryOK(Current, e, d) /\ e.finding_count = 0 /\ e.executed = FALSE
    BY <2>2, <2>3, <2>4, <2>5, UnscannedOK
  <2>7. Used \in Nat
    BY UsedIsHeld DEF SuiteInv
  <2>8. ~args.direct => e.finding_count <= IF args.suite > Used THEN args.suite - Used ELSE 0
    BY <2>5, <2>6, <2>7
  <2> QED BY <1>1, <2>1, <2>6, <2>8, AppendStep
<1> QED BY <1>2, <1>3

\* Nothing happened to a scanner that was not run.
LEMMA NothingFacts == Nothing.started = FALSE /\ Nothing.report = NULL /\ IsList(Nothing.records)
BY EmptyList DEF Nothing

\* The initial state.
LEMMA InitSuite == Init => SuiteInv
<1> SUFFICES ASSUME Init PROVE SuiteInv
    OBVIOUS
<1> USE DEF Init
<1>1. CallOK
    BY DEF CallOK, Phases, InLoop, VersionStatuses
<1>2. ListsOK
    BY EmptyList, ArgsFacts DEF ListsOK, InLoop, Measuring
<1>3. EntriesOK /\ SnapshotOK
    BY EmptyList DEF EntriesOK, SnapshotOK
<1>4. BudgetOK
    BY DEF BudgetOK
<1>5. StatusOK
    BY NoneIsNoAnswer DEF StatusOK, Measuring
<1> QED BY <1>1, <1>2, <1>3, <1>4, <1>5 DEF SuiteInv

\* Steps that leave the entries as they are, in and out of the loop.
LEMMA PlainSteps ==
    ASSUME SuiteInv,
           \/ RejectArguments \/ CheckScanners \/ MeasureReport \/ FitsBudget \/ OverBudget \/ EmitReport \/ Cleanup
           \/ ChangeSnapshot
    PROVE  SuiteInv'
<1> USE DEF SuiteInv
<1>1. UNCHANGED <<args, snapshot, entries, ran>>
    BY DEF RejectArguments, CheckScanners, MeasureReport, FitsBudget, OverBudget, EmitReport, Cleanup, ChangeSnapshot
<1>2. EntriesOK' /\ BudgetOK'
    BY <1>1, EntriesStay
<1>3. /\ Len(args.scanners) \in Nat \ {0} /\ Len(<<>>) = 0
      /\ args.direct \in BOOLEAN /\ args.fail_on_degraded \in BOOLEAN
    BY ArgsFacts, EmptyList DEF CallOK
<1>4. Len(entries) \in Nat
    BY ListShape DEF ListsOK
<1>5. \A i \in DOMAIN entries : {entries[i].valid, entries[i].truncated} \subseteq BOOLEAN
    BY DEF EntriesOK, EntryOK
<1>6. CASE RejectArguments
  <2>1. CallOK'
    BY <1>6 DEF RejectArguments, CallOK, Phases, InLoop
  <2>2. ListsOK' /\ StatusOK'
    BY <1>6, <1>1 DEF RejectArguments, ListsOK, StatusOK, InLoop, Measuring
  <2>3. SnapshotOK'
    BY <1>6 DEF RejectArguments, SnapshotOK, InTime
  <2> QED BY <1>2, <2>1, <2>2, <2>3
<1>7. CASE CheckScanners
  <2>1. Continue(<<>>) = "scanner"
    BY <1>3 DEF Continue
  <2>2. \/ pc' = "scanner" /\ UNCHANGED exit /\ Range(args.scanners) \subseteq RealScanners
        \/ pc' = "cleanup" /\ exit' = 2
    BY <1>7, <2>1 DEF CheckScanners
  <2>3. /\ pc = "snapshot" /\ snapshot # "refused" /\ entries = <<>> /\ status = "none" /\ exit # 0
        /\ UNCHANGED <<args, snapshot, changed, workspace, version, entries, limitations, status, stamp, ran>>
    BY <1>7 DEF CheckScanners, ListsOK, StatusOK, Measuring
  <2>4. snapshot # "none"
    BY <2>3 DEF CallOK
  <2>5. CallOK'
    BY <2>2, <2>3, <2>4 DEF CallOK, Phases, InLoop
  <2>6. ListsOK'
    BY <1>3, <2>2, <2>3 DEF ListsOK, InLoop, Measuring
  <2>7. SnapshotOK' /\ StatusOK'
    BY <2>2, <2>3, EmptyList DEF SnapshotOK, StatusOK, Measuring
  <2> QED BY <1>2, <2>5, <2>6, <2>7
<1>8. CASE MeasureReport
  <2>1. /\ pc = "budget" /\ pc' = "measure" /\ status' = SuiteStatus
        /\ UNCHANGED <<args, snapshot, changed, workspace, version, entries, stamp, exit, ran>>
    BY <1>8 DEF MeasureReport
  <2>2. status' \in {"completed", "degraded"} /\ (status' = "completed" => \A i \in DOMAIN entries : entries[i].valid)
    BY <2>1 DEF SuiteStatus, entry_completed_without_degradation
  <2>3. CallOK'
    BY <2>1, <2>2 DEF CallOK, Phases, InLoop
  <2>4. ListsOK'
    BY <2>1 DEF ListsOK, InLoop, Measuring
  <2>5. SnapshotOK'
    BY <2>1 DEF SnapshotOK, InTime
  <2>6. StatusOK'
    BY <2>1, <2>2 DEF StatusOK, Measuring
  <2> QED BY <1>2, <2>3, <2>4, <2>5, <2>6
<1>9. CASE FitsBudget
  <2>1. /\ pc = "measure" /\ pc' \in {"emit", "shrink"}
        /\ UNCHANGED <<args, snapshot, changed, workspace, version, entries, limitations, status, stamp, exit, ran>>
    BY <1>9 DEF FitsBudget
  <2>2. CallOK'
    BY <2>1 DEF CallOK, Phases, InLoop
  <2>3. ListsOK' /\ StatusOK'
    BY <2>1 DEF ListsOK, StatusOK, InLoop, Measuring
  <2>4. SnapshotOK'
    BY <2>1 DEF SnapshotOK, InTime
  <2> QED BY <1>2, <2>2, <2>3, <2>4
<1>10. CASE OverBudget
  <2>1. /\ pc = "over" /\ pc' = "emit" /\ status' = "degraded"
        /\ UNCHANGED <<args, snapshot, changed, workspace, version, entries, stamp, exit, ran>>
    BY <1>10 DEF OverBudget
  <2>2. CallOK'
    BY <2>1 DEF CallOK, Phases, InLoop
  <2>3. ListsOK' /\ StatusOK'
    BY <2>1 DEF ListsOK, StatusOK, InLoop, Measuring
  <2>4. SnapshotOK'
    BY <2>1 DEF SnapshotOK, InTime
  <2> QED BY <1>2, <2>2, <2>3, <2>4
<1>11. CASE EmitReport
  <2>1. /\ pc = "emit" /\ pc' = "cleanup" /\ stamp' \in Stamps
        /\ status' = IF \E i \in DOMAIN entries : entries[i].truncated THEN "degraded" ELSE status
        /\ exit' = IF args.fail_on_degraded /\ status' = "degraded" THEN 1 ELSE 0
        /\ UNCHANGED <<args, snapshot, changed, workspace, version, entries, limitations, ran>>
    BY <1>11 DEF EmitReport
  <2>2. status \in {"completed", "degraded"}
    BY <2>1 DEF CallOK, StatusOK, Measuring
  <2>3. /\ status' \in {"completed", "degraded"}
        /\ status' = "completed" => status = "completed" /\ \A i \in DOMAIN entries : ~entries[i].truncated
    BY <2>1, <2>2
  <2>4. exit' \in {0, 1} /\ (exit' = 0 /\ args.fail_on_degraded => status' = "completed")
    BY <2>1, <2>3
  <2>5. CallOK'
    BY <2>1, <2>3, <2>4 DEF CallOK, Phases, InLoop
  <2>6. ListsOK'
    BY <2>1 DEF ListsOK, InLoop, Measuring
  <2>7. SnapshotOK'
    BY <2>1 DEF SnapshotOK, InTime
  <2>8. StatusOK'
    BY <2>1, <2>3, <2>4 DEF StatusOK, Measuring
  <2> QED BY <1>2, <2>5, <2>6, <2>7, <2>8
<1>12. CASE Cleanup
  <2>1. /\ pc = "cleanup" /\ pc' = "done" /\ workspace' \in {"removed", "left"}
        /\ UNCHANGED <<args, snapshot, changed, version, entries, limitations, status, stamp, exit, ran>>
    BY <1>12 DEF Cleanup
  <2>2. CallOK'
    BY <2>1 DEF CallOK, Phases, InLoop
  <2>3. ListsOK' /\ StatusOK'
    BY <2>1 DEF ListsOK, StatusOK, InLoop, Measuring
  <2>4. SnapshotOK'
    BY <2>1 DEF SnapshotOK, InTime
  <2> QED BY <1>2, <2>2, <2>3, <2>4
<1>13. CASE ChangeSnapshot
  <2>1. /\ changed' = [turn |-> Len(entries) + 1, verified |-> pc \in {"preflight", "scan"}]
        /\ UNCHANGED <<args, pc, snapshot, workspace, version, entries, limitations, status, stamp, exit, ran>>
    BY <1>13 DEF ChangeSnapshot
  <2>2. CallOK'
    <3>1. InLoop' <=> InLoop
      BY <2>1 DEF InLoop
    <3> QED BY <2>1, <3>1 DEF CallOK
  <2>3. ListsOK' /\ StatusOK'
    BY <2>1 DEF ListsOK, StatusOK, InLoop, Measuring
  <2>4. SnapshotOK'
    <3>1. changed'.turn = Len(entries) + 1 /\ changed'.verified = (pc \in {"preflight", "scan"})
        BY <2>1
    <3>2. \A i \in DOMAIN entries : Len(entries) + 1 > i
        BY <1>4, ListShape DEF ListsOK
    <3>3. changed'.verified \in BOOLEAN /\ (pc \in {"preflight", "scan"} => changed'.verified)
      <4> DEFINE yes == pc \in {"preflight", "scan"}
      <4>1. changed'.verified = yes /\ yes \in BOOLEAN
        BY <3>1
      <4> HIDE DEF yes
      <4>2. changed'.verified \in BOOLEAN /\ (yes => changed'.verified)
        BY <4>1, Zenon
      <4> QED BY <4>2 DEF yes
    <3>4. changed'.turn = Len(entries) + 1 /\ entries' = entries /\ pc' = pc
        BY <2>1, <3>1
    <3>5. changed'.turn \in 1..(Len(entries') + 1)
        BY <1>4, <3>4
    <3> QED BY <3>2, <3>3, <3>4, <3>5 DEF SnapshotOK, InTime
  <2> QED BY <1>2, <2>2, <2>3, <2>4
<1> QED BY <1>6, <1>7, <1>8, <1>9, <1>10, <1>11, <1>12, <1>13

\* Intake gives the call its snapshot; no entry exists yet.
LEMMA IntakeStep ==
    ASSUME SuiteInv, Intake
    PROVE  SuiteInv'
<1> USE DEF SuiteInv
<1>1. /\ pc = "arguments" /\ pc' = "snapshot" /\ snapshot' \in {"git_commit", "filesystem", "refused"}
      /\ workspace' = "present"
      /\ args.direct \/ \A n \in {args.per_scanner, args.suite, args.bytes} : n > 0
      /\ UNCHANGED <<args, changed, version, entries, limitations, status, stamp, exit, ran>>
    BY DEF Intake
<1>2. entries = <<>>
    BY <1>1 DEF ListsOK
<1>3. CallOK'
    BY <1>1 DEF CallOK, Phases, InLoop
<1>4. ListsOK' /\ StatusOK'
    BY <1>1, <1>2 DEF ListsOK, StatusOK, InLoop, Measuring
<1>5. EntriesOK' /\ SnapshotOK'
    BY <1>1, <1>2, EmptyList DEF EntriesOK, SnapshotOK
<1>6. BudgetOK'
    BY <1>1, <1>2 DEF BudgetOK
<1> QED BY <1>3, <1>4, <1>5, <1>6

\* A refused target.
LEMMA RefusedStep ==
    ASSUME SuiteInv, Refused
    PROVE  SuiteInv'
<1> USE DEF SuiteInv
<1>1. /\ pc = "snapshot" /\ pc' = "cleanup"
      /\ UNCHANGED <<args, snapshot, changed, workspace, version, limitations, status, stamp>>
    BY DEF Refused
<1>2. entries = <<>> /\ status = "none" /\ exit # 0
    BY <1>1 DEF ListsOK, StatusOK, Measuring
<1>3. CASE ~args.direct
  <2>1. exit' = 2 /\ UNCHANGED <<entries, ran>>
    BY <1>3 DEF Refused
  <2>2. EntriesOK' /\ BudgetOK'
    BY <1>1, <2>1, EntriesStay
  <2>3. CallOK'
    BY <1>1, <2>1 DEF CallOK, Phases, InLoop
  <2>4. ListsOK' /\ StatusOK'
    BY <1>1, <1>2, <2>1 DEF ListsOK, StatusOK, InLoop, Measuring
  <2>5. SnapshotOK'
    BY <1>1, <2>1 DEF SnapshotOK, InTime
  <2> QED BY <2>2, <2>3, <2>4, <2>5
<1>4. CASE args.direct
  <2> DEFINE s == args.scanners[1]
             x == snapshot_intake_refused(s)
             e == entry_from_run_result(s, x, 0)
  <2>1. Current = s /\ s \in RealScanners /\ Len(args.scanners) = 1 /\ args.per_scanner \in Int
    BY <1>2, <1>4, ArgsFacts, EmptyList DEF Current, CallOK
  <2>2. entries' = <<e>> /\ ran' = <<Nothing>> /\ exit' = exit
    BY <1>4, <2>1 DEF Refused
  <2> HIDE DEF s
  <2>3. NoEvidence(x) /\ x.scanner_executed = FALSE
    BY <2>1, RefusedIsNoEvidence
  <2> HIDE DEF x
  <2>4. ResultOK(s, x, Nothing)
    BY <2>3, NothingFacts, NoEvidenceOK
  <2>5. EntryOK(s, e, Nothing) /\ e.executed = FALSE
    BY <1>4, <2>1, <2>3, <2>4, EntryFromRun
  <2> HIDE DEF e
  <2>6. /\ IsList(entries') /\ IsList(ran') /\ Len(entries') = 1 /\ Len(ran') = 1 /\ DOMAIN entries' = {1}
        /\ entries'[1] = e /\ ran'[1] = Nothing /\ entries' # <<>>
    <3>1. \A v : /\ <<v>> = [i \in 1..1 |-> <<v>>[i]] /\ <<v>>[1] = v
                 /\ <<v>> # <<>> /\ 1..1 = {1}
        OBVIOUS
    <3>2. \A v : IsList(<<v>>) /\ Len(<<v>>) = 1 /\ DOMAIN <<v>> = {1}
        BY <3>1, FunctionIsList
    <3> QED BY <2>2, <3>1, <3>2
  <2>7. EntriesOK'
    BY <1>1, <2>5, <2>6, EntriesChange DEF s
  <2>8. BudgetOK'
    BY <1>1, <1>4 DEF BudgetOK
  <2>9. CallOK'
    BY <1>1, <2>2 DEF CallOK, Phases, InLoop
  <2>10. ListsOK' /\ StatusOK'
    BY <1>1, <1>2, <2>1, <2>2, <2>6 DEF ListsOK, StatusOK, InLoop, Measuring
  <2>11. SnapshotOK'
    <3>1. changed' # NULL => changed'.turn \in 1..(Len(entries') + 1) /\ changed'.verified \in BOOLEAN
        BY <1>1, <1>2, <2>6, EmptyList DEF SnapshotOK
    <3>2. \A i \in DOMAIN entries' : ~entries'[i].executed
        BY <2>5, <2>6
    <3> QED BY <1>1, <3>1, <3>2 DEF SnapshotOK
  <2> QED BY <2>7, <2>8, <2>9, <2>10, <2>11
<1>5. args.direct \in BOOLEAN
    BY ArgsFacts DEF CallOK
<1> QED BY <1>3, <1>4, <1>5

\* A scanner that needs the network is skipped offline.
LEMMA SkipStep ==
    ASSUME SuiteInv, SkipOffline
    PROVE  SuiteInv'
<1> DEFINE e == skipped_offline_entry(Current)
           errors == {}
           warnings == {"scanner_skipped_offline"}
<1>1. /\ InLoop /\ Append1(e, Nothing)
      /\ UNCHANGED <<args, snapshot, changed, workspace, status, stamp, exit>>
    BY DEF SkipOffline, InLoop
<1>2. e = UnscannedEntry(Current, "skipped_offline", "skipped_offline", errors, warnings)
    BY DEF skipped_offline_entry
<1>3. "dirty_worktree_scope_ambiguous" \notin errors
    OBVIOUS
<1>4. Current \in RealScanners
    BY <1>1, CurrentIsReal DEF SuiteInv
<1>5. args.per_scanner \in Int /\ args.suite \in Int /\ (args.direct \/ args.per_scanner > 0)
    BY <1>1, ArgsFacts DEF SuiteInv, CallOK, InLoop
<1> HIDE DEF e, errors, warnings
<1>6. EntryOK(Current, e, Nothing) /\ e.finding_count = 0 /\ e.executed = FALSE
    BY <1>2, <1>3, <1>4, <1>5, NothingFacts, UnscannedOK
<1>7. Used \in Nat
    BY UsedIsHeld DEF SuiteInv
<1>8. ~args.direct => e.finding_count <= IF args.suite > Used THEN args.suite - Used ELSE 0
    BY <1>5, <1>6, <1>7
<1> QED BY <1>1, <1>6, <1>8, NothingFacts, AppendStep

\* Each adapter goes on to its scanner on an unchanged snapshot, or not at all.
LEMMA VerifyStep ==
    ASSUME SuiteInv, VerifySnapshot
    PROVE  SuiteInv'
<1>1. InLoop /\ UNCHANGED <<args, snapshot, changed, workspace, status, stamp, exit>>
    BY DEF VerifySnapshot, InLoop
<1>2. CASE changed = NULL
  <2>1. pc' = "preflight" /\ UNCHANGED <<version, entries, limitations, ran>>
    BY <1>2 DEF VerifySnapshot
  <2>2. EntriesOK' /\ BudgetOK'
    BY <1>1, <2>1, EntriesStay DEF SuiteInv
  <2>3. CallOK'
    BY <1>1, <2>1 DEF SuiteInv, CallOK, Phases, InLoop
  <2>4. ListsOK' /\ StatusOK'
    BY <1>1, <2>1 DEF SuiteInv, ListsOK, StatusOK, InLoop, Measuring
  <2>5. SnapshotOK'
    BY <1>1, <1>2, <2>1 DEF SuiteInv, SnapshotOK, InTime
  <2> QED BY <2>2, <2>3, <2>4, <2>5 DEF SuiteInv
<1>3. CASE changed # NULL
  <2> DEFINE x == snapshot_intake_refused(Current)
  <2>1. Finished(x, Nothing)
    BY <1>3 DEF VerifySnapshot
  <2>2. Current \in RealScanners
    BY <1>1, CurrentIsReal DEF SuiteInv
  <2>3. NoEvidence(x) /\ x.scanner_executed = FALSE
    BY <2>2, RefusedIsNoEvidence
  <2> HIDE DEF x
  <2>4. ResultOK(Current, x, Nothing)
    BY <2>3, NothingFacts, NoEvidenceOK
  <2> QED BY <1>1, <2>1, <2>3, <2>4, NothingFacts, FinishedStep
<1> QED BY <1>2, <1>3

\* The version command answers, fails, hangs or raises.
LEMMA PreflightStep ==
    ASSUME SuiteInv, NEW p \in Preflights, RunPreflight(p)
    PROVE  SuiteInv'
<1> DEFINE stopped == preflight(Current, Scope, p)
<1>1. pc = "preflight" /\ InLoop /\ UNCHANGED <<args, snapshot, changed, workspace, status, stamp>>
    BY DEF RunPreflight, InLoop
<1>2. Current \in RealScanners /\ snapshot \in {"git_commit", "filesystem"}
    BY <1>1, CurrentIsReal DEF SuiteInv, CallOK
<1>3. CASE p.kind = "raises"
  <2>1. Escaped(Nothing)
    BY <1>3 DEF RunPreflight
  <2> QED BY <1>1, <2>1, NothingFacts, EscapedStep
<1>4. CASE p.kind # "raises" /\ stopped = NULL
  <2>1. pc' = "scan" /\ version' = p.version /\ UNCHANGED <<entries, limitations, exit, ran>>
    BY <1>4 DEF RunPreflight
  <2>2. version' \in VersionStatuses
    BY <1>2, <1>4, <2>1, PreflightOK
  <2>3. EntriesOK' /\ BudgetOK'
    BY <1>1, <2>1, EntriesStay DEF SuiteInv
  <2>4. CallOK'
    BY <1>1, <2>1, <2>2 DEF SuiteInv, CallOK, Phases, InLoop
  <2>5. ListsOK' /\ StatusOK'
    BY <1>1, <2>1 DEF SuiteInv, ListsOK, StatusOK, InLoop, Measuring
  <2>6. SnapshotOK'
    BY <1>1, <2>1 DEF SuiteInv, SnapshotOK, InTime
  <2> QED BY <2>3, <2>4, <2>5, <2>6 DEF SuiteInv
<1>5. CASE p.kind # "raises" /\ stopped # NULL
  <2>1. Finished(stopped, Nothing) /\ UNCHANGED exit
    BY <1>5 DEF RunPreflight
  <2>2. NoEvidence(stopped) /\ stopped.scanner_executed = FALSE
    BY <1>2, <1>5, PreflightOK
  <2> HIDE DEF stopped
  <2>3. ResultOK(Current, stopped, Nothing)
    BY <2>2, NothingFacts, NoEvidenceOK
  <2> QED BY <1>1, <2>1, <2>2, <2>3, NothingFacts, FinishedStep
<1> QED BY <1>3, <1>4, <1>5

\* The scan ends in any way a scan can end.
LEMMA ScanStep ==
    ASSUME SuiteInv, pc = "scan", NEW a \in Scans[Current], RunScan(a)
    PROVE  SuiteInv'
<1> DEFINE result == scan_pipeline(Current, version, Scope, a)
           d == Did(a)
<1>1. InLoop /\ UNCHANGED <<args, snapshot, changed, workspace, status, stamp>>
    BY DEF RunScan, InLoop
<1>2. Current \in RealScanners
    BY <1>1, CurrentIsReal DEF SuiteInv
<1>4. InTime(Len(entries) + 1)
    BY DEF SuiteInv, SnapshotOK
<1>5. CASE result # NULL
  <2>1. Finished(result, d) /\ UNCHANGED exit
    BY <1>5 DEF RunScan
  <2>2. ResultOK(Current, result, d)
    BY <1>2, <1>5, ScanOK
  <2> HIDE DEF result, d
  <2> QED BY <1>1, <1>4, <2>1, <2>2, FinishedStep
<1>6. CASE result = NULL
  <2>1. Escaped(d)
    BY <1>6 DEF RunScan
  <2>2. IsList(d.records)
    <3>1. CASE a.kind = "exit"
        BY <1>2, <3>1, ConsumeOK DEF ResultOK
    <3>2. CASE a.kind # "exit"
        BY <3>2, DidNoExit, EmptyList
    <3> QED BY <3>1, <3>2
  <2> HIDE DEF result, d
  <2> QED BY <1>1, <2>1, <2>2, EscapedStep
<1> QED BY <1>5, <1>6

\* One entry of the report is replaced by one that keeps no more and claims the same.
LEMMA ReplaceStep ==
    ASSUME SuiteInv, pc = "shrink", pc' \in {"shrink", "over"},
           NEW k \in DOMAIN entries, NEW e, entries' = [entries EXCEPT ![k] = e],
           UNCHANGED <<args, snapshot, changed, workspace, version, limitations, status, stamp, exit, ran>>,
           EntryOK(args.scanners[k], e, ran[k]), e.finding_count <= entries[k].finding_count,
           e.valid = entries[k].valid, e.executed = entries[k].executed
    PROVE  SuiteInv'
<1> USE DEF SuiteInv
<1>1. /\ IsList(entries') /\ Len(entries') = Len(entries) /\ DOMAIN entries' = DOMAIN entries
      /\ entries'[k] = e /\ \A i \in DOMAIN entries \ {k} : entries'[i] = entries[i]
    BY ListExcept DEF ListsOK
<1>2. \A i \in DOMAIN entries : entries'[i].valid = entries[i].valid /\ entries'[i].executed = entries[i].executed
    BY <1>1
<1>3. EntriesOK'
    BY <1>1, EntriesChange
<1>4. CallOK'
    BY DEF CallOK, Phases, InLoop
<1>5. ListsOK'
    BY <1>1 DEF ListsOK, InLoop, Measuring
<1>6. SnapshotOK'
    BY <1>1, <1>2 DEF SnapshotOK, InTime
<1>7. StatusOK'
    BY <1>1, <1>2 DEF StatusOK, Measuring
<1>8. BudgetOK'
  <2>1. \A i \in DOMAIN entries : entries[i].finding_count \in Nat
    BY CountsAreNat
  <2>2. e.finding_count \in Nat
    BY DEF EntryOK
  <2>3. \A i \in DOMAIN entries : entries'[i].finding_count \in Nat /\ entries'[i].finding_count <= entries[i].finding_count
    BY <1>1, <2>1, <2>2
  <2>4. /\ Cardinality(Held(entries')) <= Cardinality(Held(entries))
        /\ Cardinality(Held(entries')) \in Nat /\ Cardinality(Held(entries)) \in Nat
    BY <1>1, <2>1, <2>3, HeldShrinks DEF ListsOK
  <2>5. Used = Cardinality(Held(entries)) /\ Used' = Cardinality(Held(entries'))
    BY DEF Used, Kept, Held
  <2>6. entries # <<>>
    BY EmptyList
  <2>7. args.suite \in Int
    BY ArgsFacts DEF CallOK
  <2> QED BY <2>4, <2>5, <2>6, <2>7 DEF BudgetOK
<1> QED BY <1>3, <1>4, <1>5, <1>6, <1>7, <1>8

\* _apply_report_byte_budget: a finding is dropped from the last entry that has one.
LEMMA ShrinkStep ==
    ASSUME SuiteInv, ShrinkReport
    PROVE  SuiteInv'
<1> DEFINE candidates == {i \in DOMAIN entries : entries[i].finding_count > 0}
           last == CHOOSE i \in candidates : \A j \in candidates : j <= i
<1>1. /\ pc = "shrink"
      /\ UNCHANGED <<args, snapshot, changed, workspace, version, limitations, status, stamp, exit, ran>>
      /\ \/ pc' = "over" /\ UNCHANGED entries
         \/ candidates # {} /\ entries' = [entries EXCEPT ![last] = truncate_entry(@)] /\ UNCHANGED pc
         \/ /\ entries' = IF entries = <<>> THEN entries
                          ELSE [entries EXCEPT ![1].truncated = TRUE,
                                  ![1].warnings = @ \cup {"report_byte_budget_exceeded"}]
            /\ pc' = "over"
    BY DEF ShrinkReport
<1>2. IsList(entries) /\ Len(entries) \in Nat /\ DOMAIN entries = 1..Len(entries)
    BY ListShape DEF SuiteInv, ListsOK
<1>3. \A i \in DOMAIN entries : EntryOK(args.scanners[i], entries[i], ran[i])
    BY DEF SuiteInv, EntriesOK
<1>4. args.per_scanner \in Int
    BY ArgsFacts DEF SuiteInv, CallOK
<1>5. CASE pc' = "over" /\ UNCHANGED entries
  <2>1. EntriesOK' /\ BudgetOK'
    BY <1>1, <1>5, EntriesStay DEF SuiteInv
  <2>2. CallOK'
    BY <1>1, <1>5 DEF SuiteInv, CallOK, Phases, InLoop
  <2>3. ListsOK' /\ StatusOK'
    BY <1>1, <1>5 DEF SuiteInv, ListsOK, StatusOK, InLoop, Measuring
  <2>4. SnapshotOK'
    BY <1>1, <1>5 DEF SuiteInv, SnapshotOK, InTime
  <2> QED BY <2>1, <2>2, <2>3, <2>4 DEF SuiteInv
<1>6. CASE candidates # {} /\ entries' = [entries EXCEPT ![last] = truncate_entry(@)] /\ UNCHANGED pc
  <2>1. \E i \in candidates : \A j \in candidates : j <= i
    <3>1. candidates \subseteq 1..Len(entries)
        BY <1>2
    <3> HIDE DEF candidates
    <3> QED BY <1>2, <1>6, <3>1, LastExists
  <2>2. last \in DOMAIN entries /\ entries[last].finding_count > 0
    <3>1. last \in candidates
      <4> HIDE DEF candidates
      <4> QED BY <2>1
    <3> QED BY <3>1
  <2> HIDE DEF last, candidates
  <2> DEFINE e == truncate_entry(entries[last])
  <2>3. entries' = [entries EXCEPT ![last] = e]
    BY <1>6
  <2>4. /\ EntryOK(args.scanners[last], e, ran[last]) /\ e.finding_count = entries[last].finding_count - 1
        /\ e.valid = entries[last].valid /\ e.executed = entries[last].executed
    BY <1>3, <1>4, <2>2, TruncateEntryOK
  <2>5. entries[last].finding_count \in Nat
    BY <1>3, <2>2 DEF EntryOK
  <2> HIDE DEF e
  <2>6. e.finding_count <= entries[last].finding_count
    BY <2>4, <2>5
  <2> QED BY <1>1, <1>6, <2>2, <2>3, <2>4, <2>6, ReplaceStep
<1>7. CASE entries # <<>> /\ pc' = "over"
           /\ entries' = [entries EXCEPT ![1].truncated = TRUE, ![1].warnings = @ \cup {"report_byte_budget_exceeded"}]
  <2> DEFINE w == entries[1].warnings \cup {"report_byte_budget_exceeded"}
             yes == TRUE
             e == [entries[1] EXCEPT !.truncated = yes, !.warnings = w]
  <2>1. 1 \in DOMAIN entries
    BY <1>2, <1>7, NoElements
  <2>2. entries[1] = [x \in EntryFields |-> entries[1][x]]
    BY <1>3, <2>1 DEF EntryOK
  <2>3. entries' = [entries EXCEPT ![1] = e]
    BY <1>7, <2>1, <2>2 DEF EntryFields
  <2>4. e = [entries[1] EXCEPT !.truncated = yes, !.warnings = w] /\ yes = TRUE
    OBVIOUS
  <2>5. EntryOK(args.scanners[1], entries[1], ran[1])
    BY <1>3, <2>1
  <2> HIDE DEF e, w, yes
  <2>6. /\ EntryOK(args.scanners[1], e, ran[1]) /\ e.finding_count = entries[1].finding_count
        /\ e.valid = entries[1].valid /\ e.executed = entries[1].executed
    <3> DEFINE old == entries[1]
               d == ran[1]
               scanner == args.scanners[1]
    <3>1. EntryOK(scanner, old, d)
        BY <2>5
    <3>2. /\ e = [x \in EntryFields |-> e[x]] /\ e.truncated = yes
          /\ \A x \in EntryFields \ {"truncated", "warnings"} : e[x] = old[x]
        BY <2>2, <2>4 DEF EntryFields
    <3>3. e.truncated = TRUE
        BY <2>4, <3>2
    <3> HIDE DEF old, d, scanner
    <3>4. /\ e.scanner = old.scanner /\ e.executed = old.executed /\ e.valid = old.valid /\ e.outcome = old.outcome
          /\ e.normalized_result = old.normalized_result /\ e.finding_count = old.finding_count
          /\ e.omitted = old.omitted
        BY <3>2 DEF EntryFields
    <3>5. {old.executed, old.valid, old.truncated} \subseteq BOOLEAN
        BY <3>1 DEF EntryOK
    <3>6. {e.executed, e.valid, e.truncated} \subseteq BOOLEAN /\ e.truncated
        BY <3>3, <3>4, <3>5
    <3>7. EntryOK(scanner, e, d)
        BY <3>1, <3>2, <3>4, <3>6 DEF EntryOK
    <3> QED BY <3>4, <3>7 DEF old, d, scanner
  <2>7. entries[1].finding_count \in Nat
    BY <1>3, <2>1 DEF EntryOK
  <2>8. e.finding_count <= entries[1].finding_count
    BY <2>6, <2>7
  <2> QED BY <1>1, <1>7, <2>1, <2>3, <2>6, <2>8, ReplaceStep
<1> QED BY <1>1, <1>5, <1>6, <1>7

\* SuiteInv holds in every state of every call.
LEMMA SuiteInvariant == Spec => []SuiteInv
<1>1. SuiteInv /\ [Next]_vars => SuiteInv'
  <2> SUFFICES ASSUME SuiteInv, [Next]_vars PROVE SuiteInv'
    OBVIOUS
  <2>1. ASSUME UNCHANGED vars PROVE SuiteInv'
    <3>1. UNCHANGED <<args, pc, snapshot, changed, workspace, version, entries, limitations, status, stamp, exit, ran>>
        BY <2>1 DEF vars
    <3>2. EntriesOK' /\ BudgetOK'
        BY <3>1, EntriesStay DEF SuiteInv
    <3>3. CallOK'
        BY <3>1 DEF SuiteInv, CallOK, InLoop
    <3>4. ListsOK' /\ StatusOK'
        BY <3>1 DEF SuiteInv, ListsOK, StatusOK, InLoop, Measuring
    <3>5. SnapshotOK'
        BY <3>1 DEF SuiteInv, SnapshotOK, InTime
    <3> QED BY <3>2, <3>3, <3>4, <3>5 DEF SuiteInv
  <2>2. ASSUME Program PROVE SuiteInv'
    <3>1. \/ RejectArguments \/ CheckScanners \/ MeasureReport \/ FitsBudget \/ OverBudget \/ EmitReport \/ Cleanup
          \/ Intake \/ Refused \/ SkipOffline \/ VerifySnapshot \/ ShrinkReport
          \/ (\E p \in Preflights : RunPreflight(p))
          \/ (pc = "scan" /\ \E a \in Scans[Current] : RunScan(a))
        BY <2>2 DEF Program
    <3> QED BY <3>1, PlainSteps, IntakeStep, RefusedStep, SkipStep, VerifyStep, ShrinkStep, PreflightStep, ScanStep
  <2> QED BY <2>1, <2>2, PlainSteps DEF Next, Finish
<1> QED BY <1>1, InitSuite, PTL DEF Spec

(***************************************************************************)
(* The theorems                                                            *)
(***************************************************************************)
\* Every entry has the facts the properties speak of.
LEMMA EntryFacts ==
    ASSUME SuiteInv, NEW i \in DOMAIN entries
    PROVE  EntryOK(args.scanners[i], entries[i], ran[i])
BY DEF SuiteInv, EntriesOK

\* ReportIsWhole (run_real_scanner_suite, _entry_from_run_result, _truncate_entry, --fail-on-degraded): for any
\* selection, budgets and answers, the report has an entry for every scanner, accounts for every finding, keeps every
\* budget, and exit 0 under --fail-on-degraded means that nothing was lost.
THEOREM ReportIsWholeHolds == Spec => []ReportIsWhole
<1>1. SuiteInv => ReportIsWhole
  <2> SUFFICES ASSUME SuiteInv PROVE ReportIsWhole
    OBVIOUS
  <2>1. Len(entries) \in Nat /\ DOMAIN entries = 1..Len(entries)
    BY ListShape DEF SuiteInv, ListsOK
  <2>2. TypeOK
    BY <2>1, CountsAreNat DEF SuiteInv, CallOK, ListsOK, SnapshotOK, Phases, TypeOK
  <2>3. OneEntryEach
    <3> SUFFICES ASSUME Reported PROVE [i \in DOMAIN entries |-> entries[i].scanner] = args.scanners
        BY DEF OneEntryEach
    <3>1. Len(entries) = Len(args.scanners)
        BY DEF Reported, SuiteInv, ListsOK
    <3>2. args.scanners \in Seq(STRING)
        BY SuiteArguments DEF SuiteInv, CallOK
    <3>3. args.scanners = [i \in 1..Len(args.scanners) |-> args.scanners[i]]
        BY <3>2
    <3>4. \A i \in DOMAIN entries : entries[i].scanner = args.scanners[i]
        BY EntryFacts DEF EntryOK
    <3> QED BY <2>1, <3>1, <3>3, <3>4
  <2>4. FindingsAccounted
    <3>1. ASSUME NEW i \in DOMAIN entries
          PROVE  /\ entries[i].finding_count = Len(entries[i].normalized_result.findings)
                 /\ entries[i].finding_count + entries[i].omitted
                        = IF entries[i].outcome = "findings_present" THEN Len(ran[i].records) ELSE 0
                 /\ ~args.direct => entries[i].finding_count <= args.per_scanner
        BY EntryFacts DEF EntryOK
    <3> QED BY <3>1 DEF SuiteInv, BudgetOK, FindingsAccounted
  <2>5. ExitZeroIsWhole
    <3> SUFFICES ASSUME exit = 0, args.fail_on_degraded
                 PROVE  /\ \A i \in DOMAIN entries :
                            /\ ran[i].started
                            /\ entries[i].omitted = 0
                            /\ entries[i].normalized_result.secondary
                                = {ran[i].records[k].secondary : k \in DOMAIN ran[i].records}
                        /\ subject_from_entries = Scope
        BY DEF ExitZeroIsWhole
    <3>1. /\ status = "completed" /\ \A i \in DOMAIN entries : entries[i].valid /\ ~entries[i].truncated
          /\ Len(entries) = Len(args.scanners)
        BY DEF SuiteInv, StatusOK, ListsOK
    <3>2. ASSUME NEW i \in DOMAIN entries
          PROVE  /\ ran[i].started /\ entries[i].omitted = 0
                 /\ entries[i].normalized_result.scope = Scope
                 /\ entries[i].normalized_result.findings = ran[i].records
                 /\ entries[i].normalized_result.secondary = Secondaries(entries[i].normalized_result.findings)
        BY <3>1, EntryFacts DEF EntryOK, Derived
    <3>3. 1 \in DOMAIN entries /\ entries # <<>>
        BY <2>1, <3>1, ArgsFacts, EmptyList DEF SuiteInv, CallOK
    <3>4. subject_from_entries = Scope
        BY <3>2, <3>3 DEF subject_from_entries
    <3> QED BY <3>2, <3>4 DEF Secondaries
  <2> QED BY <2>2, <2>3, <2>4, <2>5 DEF ReportIsWhole
<1> QED BY <1>1, SuiteInvariant, PTL

\* SilenceIsEvidence (the adapters, verify_verified_snapshot): a valid entry without findings comes from a scanner that
\* exited with 0 after an empty report on the snapshot of a clean commit, and a scanner is run on a changed snapshot
\* only when the change fell into its own turn, after its adapter had verified the snapshot.
THEOREM SilenceIsEvidenceHolds == Spec => []SilenceIsEvidence
<1>1. SuiteInv => SilenceIsEvidence
  <2> SUFFICES ASSUME SuiteInv PROVE SilenceIsEvidence
    OBVIOUS
  <2>1. QuietMeansScanned
    <3> SUFFICES ASSUME NEW i \in DOMAIN entries, entries[i].valid, entries[i].outcome = NoFindings
                 PROVE  entries[i].executed /\ SilenceBacked(ran[i])
        BY DEF QuietMeansScanned, SilenceBacked
    <3> QED BY EntryFacts DEF EntryOK
  <2>2. ChangeStopsScanners
    BY DEF SuiteInv, SnapshotOK, InTime, ChangeStopsScanners
  <2> QED BY <2>1, <2>2 DEF SilenceIsEvidence
<1> QED BY <1>1, SuiteInvariant, PTL

\* EvidenceIsSafe (normalize_*, validate_external_scanner_result): the live adapter and the stored-report entry point
\* agree on every report that was accepted or refused for its scope, and the rule ids and paths of a valid entry meet
\* none of the tests its adapter and the validator make of them (NeverIn).
THEOREM EvidenceIsSafeHolds == Spec => []EvidenceIsSafe
<1>1. SuiteInv => EvidenceIsSafe
  <2> SUFFICES ASSUME SuiteInv PROVE EvidenceIsSafe
    OBVIOUS
  <2>1. \A i \in DOMAIN entries : entries[i].scanner = args.scanners[i]
    BY EntryFacts DEF EntryOK
  <2>2. NormalizeAgrees
    <3>1. ASSUME NEW i \in DOMAIN entries, ~entries[i].truncated
          PROVE  Agrees(entries[i].scanner, entries[i].normalized_result, entries[i].blocking_errors, ran[i])
        BY <2>1, <3>1, EntryFacts DEF EntryOK
    <3> QED BY <3>1 DEF Agrees, NormalizeAgrees
  <2>3. ValidIsRedacted
    <3>1. ASSUME NEW i \in DOMAIN entries, entries[i].valid
          PROVE  Redacted(entries[i].scanner, entries[i].normalized_result.findings)
        BY <2>1, <3>1, EntryFacts DEF EntryOK
    <3> QED BY <3>1 DEF Redacted, ValidIsRedacted
  <2> QED BY <2>2, <2>3 DEF EvidenceIsSafe
<1> QED BY <1>1, SuiteInvariant, PTL
=============================================================================
