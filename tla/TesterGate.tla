----------------------------- MODULE TesterGate -----------------------------
(***************************************************************************)
(* The verification of one product (internal/tester): which checks its     *)
(* files call for, which of them the machine lets run, what the product's  *)
(* own manifest adds, and the verdict.                                     *)
(*                                                                         *)
(* A product is the set of the kinds of file it holds.  A machine has      *)
(* tools on the host, where the code looks for them, and in the sandbox,   *)
(* where the commands run: with the room backend these are one place, with *)
(* the docker backend they are not.  Errors and warnings are the names of  *)
(* what they are about; the texts are left out.                            *)
(***************************************************************************)
EXTENDS FiniteSets, Sequences

FileKinds == {"index", "gomod", "gosrc", "gotest", "py", "pytest", "pkg", "pkgtest",
              "lock", "reqs", "js", "jstest", "doc", "evidence"}

Tools == {"go", "gofmt", "govulncheck", "python", "pip-audit", "node", "npm", "playwright"}

-----------------------------------------------------------------------------
\* What the files are.

Has(files, kinds) == files \cap kinds # {}

GoProduct(files)  == Has(files, {"gosrc", "gotest", "gomod"})
PyProduct(files)  == Has(files, {"py", "pytest"})
Package(files)    == Has(files, {"pkg", "pkgtest"})
JSFiles(files)    == files \cap {"js", "jstest"}
TestFiles(files)  == files \cap {"gotest", "pytest", "jstest"}

\* Go goes before Python, a package before a page, a page before loose scripts.
ProductType(files) ==
  IF GoProduct(files)           THEN "go"
  ELSE IF PyProduct(files)      THEN "python"
  ELSE IF Package(files)        THEN "node"
  ELSE IF "index" \in files     THEN "static-web"
  ELSE IF JSFiles(files) # {}   THEN "node" ELSE "generic"

Deliverable(files) == files \ {"evidence"}

-----------------------------------------------------------------------------
\* The commands the tester owns.

Cmd(name, kind, needs) == [name |-> name, nr |-> 0, kind |-> kind, needs |-> needs, origin |-> "qsm"]

OnHost(m, tool) == tool \in m.host

\* In docker the container's python3 is used without looking.
PythonFound(m) == m.backend = "docker" \/ OnHost(m, "python")

\* With the room backend the probe is a node process of the host, else a command of the sandbox.
PlaywrightAvailable(m) ==
  IF m.backend = "room" THEN {"node", "playwright"} \subseteq m.host
                        ELSE {"node", "playwright"} \subseteq m.box

JSCalled(files) == Has(files, {"index", "js", "jstest"})

AutoCommands(files, m) ==
  LET When(cond, cmd) == IF cond THEN {cmd} ELSE {} IN
    When(GoProduct(files) /\ OnHost(m, "go"), Cmd("go tests", "test", "go"))
    \cup When(GoProduct(files) /\ OnHost(m, "gofmt"), Cmd("gofmt check", "lint", "gofmt"))
    \cup When("gomod" \in files, Cmd("go vet", "security", "go"))
    \cup When("gomod" \in files /\ OnHost(m, "govulncheck"),
              Cmd("govulncheck", "security", "govulncheck"))
    \cup When(PyProduct(files) /\ PythonFound(m), Cmd("python syntax", "lint", "python"))
    \cup When("pytest" \in files /\ PythonFound(m), Cmd("pytest", "test", "python"))
    \cup When(PyProduct(files) /\ PythonFound(m) /\ "reqs" \in files /\ OnHost(m, "pip-audit"),
              Cmd("pip-audit", "security", "pip-audit"))
    \cup {Cmd("javascript syntax " \o f, "lint", "node") :
            f \in IF OnHost(m, "node") THEN JSFiles(files) ELSE {}}
    \cup When("jstest" \in files /\ OnHost(m, "node") /\ "pkgtest" \notin files,
              Cmd("node tests", "test", "node"))
    \cup When("pkgtest" \in files /\ OnHost(m, "npm"), Cmd("npm test", "test", "npm"))
    \cup When("lock" \in files /\ OnHost(m, "npm"), Cmd("npm audit high", "security", "npm"))
    \cup When("index" \in files /\ PlaywrightAvailable(m),
              Cmd("playwright static smoke", "browser", "node"))

\* A language without its tool is an error ...
AutoErrors(files, m) ==
  {t \in {"go", "python"} : \/ t = "go" /\ GoProduct(files) /\ ~OnHost(m, "go")
                            \/ t = "python" /\ PyProduct(files) /\ ~PythonFound(m)}

\* ... and every other missing tool a warning, except gofmt, of which nothing is said.
AutoWarnings(files, m) ==
  {t \in Tools :
     \/ t = "govulncheck" /\ "gomod" \in files /\ ~OnHost(m, t)
     \/ t = "pip-audit" /\ PyProduct(files) /\ PythonFound(m) /\ "reqs" \in files /\ ~OnHost(m, t)
     \/ t = "node" /\ JSCalled(files) /\ ~OnHost(m, t)
     \/ t = "npm" /\ Has(files, {"pkgtest", "lock"}) /\ ~OnHost(m, t)
     \/ t = "playwright" /\ "index" \in files /\ ~PlaywrightAvailable(m)}

-----------------------------------------------------------------------------
(***************************************************************************)
(* The product's own manifest has a state ("absent", "invalid" or "read")  *)
(* and the set of its commands.  Each has a number, a kind and a form:     *)
(* "fine", "empty" (no words), "shell" (a shell, or an inline-code flag)   *)
(* or "outside" (its directory leaves the room).  The manifest in the room *)
(* hides the one in the product, also when it cannot be read.              *)
(***************************************************************************)
ReadManifest(room, product) == IF room.state # "absent" THEN room ELSE product

ManifestCommands(m) ==
  {[name |-> "manifest", nr |-> c.nr, kind |-> c.kind, needs |-> "manifest",
    origin |-> "manifest"] :
     c \in {x \in m.commands : m.state = "read" /\ x.form = "fine"}}

ManifestErrors(m) ==
  (IF m.state = "invalid" THEN {"unreadable"} ELSE {})
  \cup {c.form : c \in {x \in m.commands : m.state = "read" /\ x.form # "fine"}}

-----------------------------------------------------------------------------
(***************************************************************************)
(* Running a command.  An outcome is what the process would do: "ok",      *)
(* "exit" (a status other than zero), "timeout" or "listed" (status zero   *)
(* with output on stdout, which only gofmt's check minds).  A tool that is *)
(* not where the command runs, or a docker daemon that is down, is an      *)
(* error whatever the outcome would have been.                             *)
(***************************************************************************)
Runs(cmd, m) ==
  CASE m.backend = "room"   -> cmd.needs \in m.host \cup {"manifest"}
    [] m.backend = "docker" -> m.daemon /\ cmd.needs \in m.box \cup {"manifest"}

\* Mutant: a command that cannot be run is passed over.
RunCommandIfAble(cmd, m, outcome) ==
  [cmd |-> cmd,
   ok  |-> Runs(cmd, m) => /\ outcome \in {"ok", "listed"}
                           /\ (cmd.name = "gofmt check" => outcome # "listed")]

RunCommand(cmd, m, outcome) ==
  [cmd |-> cmd,
   ok  |-> /\ Runs(cmd, m)
           /\ outcome \in {"ok", "listed"}
           /\ (cmd.name = "gofmt check" => outcome # "listed")]

PassedKind(results, kind) == \E r \in results : r.cmd.kind = kind /\ r.ok

ManifestPassedKind(results, kind) ==
  \E r \in results : r.cmd.kind = kind /\ r.cmd.origin = "manifest" /\ r.ok

-----------------------------------------------------------------------------
(***************************************************************************)
(* The security scan.  A hit of a rule has a severity, a place ("code",    *)
(* "text" for a scanned file that is not code, "unscanned"), and may be on *)
(* a comment line; some rules hold for code only.                          *)
(***************************************************************************)
Counts(hit) ==
  /\ hit.place # "unscanned"
  /\ hit.codeOnly => hit.place = "code" /\ ~hit.comment

ScanSecurity(hits) == {h.severity : h \in {x \in hits : Counts(x)}}

\* The kinds of check a product of this type must have passed.
QualityErrors(files, results) ==
  LET type == ProductType(files) IN
    CASE type = "generic"    -> {}
      [] type = "static-web" ->
           {k \in {"browser", "lint"} :
              /\ ~PassedKind(results, k)
              /\ k = "lint" => JSFiles(files) # {}}
      [] type \in {"go", "python", "node"} ->
           {k \in {"test files", "test"} :
              \/ k = "test files" /\ TestFiles(files) = {} /\ ~ManifestPassedKind(results, "test")
              \/ k = "test" /\ ~PassedKind(results, "test")}

Commands(files, m, manifest) == AutoCommands(files, m) \cup ManifestCommands(manifest)

\* VerifyWithOptions on a product with these files, on this machine, with these manifests and
\* hits, where outcome[c] is what command c would do.
Verify(files, m, roomManifest, productManifest, hits, outcome) ==
  LET manifest == ReadManifest(roomManifest, productManifest)
      results  == {RunCommand(c, m, outcome[c]) : c \in Commands(files, m, manifest)}
      severe   == ScanSecurity(hits) \cap {"critical", "high"}
      only     == IF files # {} /\ Deliverable(files) = {} THEN {"only evidence"} ELSE {}
      failed   == {r.cmd.name : r \in {x \in results : ~x.ok}}
  IN [passed   |-> /\ only = {} /\ severe = {} /\ failed = {}
                   /\ AutoErrors(files, m) = {} /\ ManifestErrors(manifest) = {}
                   /\ QualityErrors(files, results) = {},
      results  |-> results,
      warnings |-> AutoWarnings(files, m)]
=============================================================================
