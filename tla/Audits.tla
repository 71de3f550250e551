------------------------------- MODULE Audits -------------------------------
(***************************************************************************)
(* The supply-chain audits of scripts/audit as what they exit with, given  *)
(* what their engines printed.  0 is a pass, 1 findings, 2 a tool error.   *)
(* An engine's outcome is "absent" (not on PATH), "silent" (no output; for *)
(* pnpm "silent_ok" when it also exited 0), "garbled" (output that is not  *)
(* JSON), "errored" (JSON that reports the engine's own failure) or        *)
(* "report" (JSON with its findings).  Git, for the built-in scanner of    *)
(* secrets, fails to list the files ("no_files") or the commits ("no_log").*)
(***************************************************************************)
EXTENDS Integers, FiniteSets

PipOutcomes == {"absent", "silent", "garbled", "report"}
PnpmOutcomes ==
    {"absent", "silent", "silent_ok", "garbled", "errored", "report"}
GitleaksOutcomes == {"absent", "silent", "garbled", "report"}
LicenseOutcomes == {"absent", "silent", "garbled", "report"}

BlockSeverities == {"CRITICAL", "HIGH"}

NormalizeSeverity(label) ==
    CASE label \in {"crit", "critical"}                      -> "CRITICAL"
      [] label \in {"high", "error"}                         -> "HIGH"
      [] label \in {"medium", "moderate", "warn", "warning"} -> "MEDIUM"
      [] label \in {"low", "info", "note"}                   -> "LOW"
      [] OTHER                                               -> "UNKNOWN"

(* _run_pip_audit: an advisory without a severity counts as HIGH, or as    *)
(* MEDIUM when it names fixed_versions (label "fixed").                    *)
PipLabel(s) ==
    CASE s = "none" -> "high" [] s = "fixed" -> "medium" [] OTHER -> s

PipFindings(outcome, labels) ==
    IF outcome = "report"
    THEN {NormalizeSeverity(PipLabel(s)) : s \in labels}
    ELSE {}

PipFailed(outcome) == outcome # "report"

(* _run_pnpm_audit: output that is not one JSON document is read line by   *)
(* line and what is not JSON there is skipped.                             *)
PnpmFindings(outcome, labels) ==
    IF outcome = "report" THEN {NormalizeSeverity(s) : s \in labels} ELSE {}

PnpmFailed(outcome) == outcome \in {"absent", "silent"}

(* Fault: a failed engine is let pass when the other one reports.          *)
ForgivingDepsExit(pip, pnpm, pyLabels, nodeLabels) ==
    IF PipFailed(pip) /\ PnpmFailed(pnpm) THEN 2
    ELSE IF (PipFindings(pip, pyLabels) \cup PnpmFindings(pnpm, nodeLabels))
               \cap BlockSeverities # {} THEN 1
    ELSE 0

(* deps.main.                                                              *)
DepsExit(pip, pnpm, pyLabels, nodeLabels) ==
    IF PipFailed(pip) \/ PnpmFailed(pnpm) THEN 2
    ELSE IF (PipFindings(pip, pyLabels) \cup PnpmFindings(pnpm, nodeLabels))
               \cap BlockSeverities # {} THEN 1
    ELSE 0

(* Fault: the permissive names are looked for first.                       *)
ClassifyKindly(names) ==
    IF names = {} THEN "unknown"
    ELSE IF names \cap {"MIT", "BSD", "Apache", "ISC", "PSF", "MPL"} # {}
         THEN "permissive"
    ELSE IF names \cap {"GPL", "AGPL", "LGPL"} # {} THEN "copyleft"
    ELSE "other"

(* _classify, on the set of license names a package declares: one copyleft *)
(* name decides, whatever stands beside it.                                *)
Classify(names) ==
    IF names = {} THEN "unknown"
    ELSE IF names \cap {"GPL", "AGPL", "LGPL"} # {} THEN "copyleft"
    ELSE IF names \cap {"MIT", "BSD", "Apache", "ISC", "PSF", "MPL"} # {}
         THEN "permissive"
    ELSE "other"

(* licenses.main; when the export of the runtime dependencies fails,       *)
(* _runtime_set is empty and every package counts as a dev dependency.     *)
LicensesExit(outcome, exported, runtime, licenseOf) ==
    IF outcome # "report" THEN 2
    ELSE IF exported = "report"
            /\ \E p \in runtime : Classify(licenseOf[p]) = "copyleft"
         THEN 1
    ELSE 0

(* secrets.main: gitleaks when it is there and its output can be read, the *)
(* built-in patterns over the work tree and the last commits otherwise.    *)
(* Without a list of files that is an error; without a log of the commits  *)
(* only a warning, and the work tree decides.                              *)
SecretsExit(gitleaks, git, inTree, inWindow) ==
    CASE gitleaks = "silent" -> 0
      [] gitleaks # "report" /\ git = "no_files" -> 2
      [] gitleaks # "report" /\ git = "no_log" -> IF inTree THEN 1 ELSE 0
      [] OTHER -> IF inTree \/ inWindow THEN 1 ELSE 0
=============================================================================
