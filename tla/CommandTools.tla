---------------------------- MODULE CommandTools ----------------------------
(***************************************************************************)
(* The tools that run a program (git, docker, kubectl, systemctl, npm,     *)
(* ...), one definition each: the checks made before the program is        *)
(* started, in order, and what becomes of an exit that is not zero.        *)
(*                                                                         *)
(* A parameter is "absent", "good", or "bad": refused by the validator, or *)
(* naming something that does not exist.  The programs are external: one   *)
(* ends with some status, or with none when it could not be started or was *)
(* killed (spawnSync reports null).  What it does meanwhile is left out.   *)
(***************************************************************************)
EXTENDS ToolManifests, Gates, SequencesExt, Integers

CONSTANT MaxOdd      \* how many parameters of a call are absent, and how many bad

VARIABLE cmd         \* the tool call: its plan, the program's end, the reply

Null == -1           \* no status
NotRun == -2
Status == {0, 1, 128, Null}

Given(p, k) == p[k] # "absent"
Valid(p, k) == p[k] # "bad"         \* an optional parameter
Required(p, k) == p[k] = "good"

\* codes: how a failure is thrown, the first sign found in the output decides
\* and the last code needs none; <<>>: the exit code is returned.
\* onOne: the code of an exit with status 1 that bears no sign.
Plan(gates, codes) == [gates |-> gates, codes |-> codes, onOne |-> "", skip |-> FALSE]

-----------------------------------------------------------------------------
(* git: a failure is thrown with the code its output is recognised by.     *)
gitAdd(p) ==
    [Plan(<<Gate(Valid(p, "paths"), "path-not-found")>>, <<"git-error">>)
        EXCEPT !.skip = ~Given(p, "paths")]
gitBranch(p) == Plan(<<>>, <<"branch-already-exists", "from-not-found", "git-error">>)
gitCheckout(p) ==
    Plan(<<>>, <<"uncommitted-changes", "ref-not-found", "git-error">>)
\* isValidGitUrl, then the destination must not exist.
gitClone(p) ==
    Plan(<<Gate(Required(p, "url"), "invalid-url"), Gate(Valid(p, "path"), "path-exists")>>,
         <<"git-error">>)
\* getRepoRoot runs only when files are given; then each must lie below it.
gitCommit(p) ==
    Plan(<<Gate(~Given(p, "files") \/ Required(p, "repository"), "git-error"),
           Gate(Valid(p, "files"), "path-out-of-bounds")>>,
         <<"nothing-to-commit", "git-error">>)
gitDiff(p) == Plan(<<>>, <<"git-error">>)
\* A repository without a commit has the empty log.
gitLog(p) == Plan(<<>>, <<"ok", "git-error">>)
\* Status 1 is taken for a conflict, with the conflicts found in the output.
gitMerge(p) ==
    [Plan(<<>>, <<"branch-not-found", "git-error">>)
        EXCEPT !.onOne = "merge-conflict"]
gitPush(p) == Plan(<<>>, <<"remote-not-found", "auth-error", "rejected", "git-error">>)
gitReset(p) == Plan(<<>>, <<"invalid-ref", "git-error">>)
gitStatus(p) == Plan(<<>>, <<"git-error">>)

-----------------------------------------------------------------------------
(* The other tools return the exit code and the output.                    *)
dockerPush(p) ==
    Plan(<<Gate(Required(p, "image"), "invalid-image-ref"),
           Gate(Valid(p, "registry"), "invalid-registry"),
           Gate(~Required(p, "all_tags") \/ ~Required(p, "explicit tag"), "all-tags-with-tag")>>,
         <<>>)
\* validateImageRef, then every volume, every variable and every port.
dockerRunGates(p) ==
    <<Gate(Required(p, "image"), "invalid-image-ref"),
      Gate(Valid(p, "volumes"), "invalid-volume-spec"),
      Gate(Valid(p, "env"), "invalid-env-spec"), Gate(Valid(p, "ports"), "invalid-port-spec")>>
dockerRun(p) == Plan(dockerRunGates(p), <<>>)
killProcess(p) ==
    Plan(<<Gate(Required(p, "pid"), "invalid-pid"), Gate(Valid(p, "signal"), "invalid-signal")>>,
         <<>>)
pkillPattern(p) ==
    Plan(<<Gate(Required(p, "pattern"), "invalid-pattern"),
           Gate(Valid(p, "signal"), "invalid-signal")>>,
         <<>>)

\* kubectl-shared.ts: the validators of type, name and namespace.
ResourceGates(p) ==
    <<Gate(Required(p, "resource"), "invalid-resource"), Gate(Required(p, "name"), "invalid-name")>>
NamespaceGate(p) == <<Gate(Valid(p, "namespace"), "invalid-namespace")>>
kubectlGet(p) ==
    Plan(<<Gate(Required(p, "resource"), "invalid-resource"), Gate(Valid(p, "name"), "invalid-name")>>
            \o NamespaceGate(p) \o <<Gate(Valid(p, "output"), "invalid-output")>>,
         <<>>)
kubectlApply(p) ==
    Plan(<<Gate(Required(p, "manifest_path"), "invalid-manifest-path")>> \o NamespaceGate(p),
         <<>>)
kubectlDelete(p) ==
    Plan(ResourceGates(p) \o NamespaceGate(p)
            \o <<Gate(Valid(p, "grace_period"), "invalid-grace-period")>>,
         <<>>)
kubectlRollout(p) ==
    Plan(<<Gate(Required(p, "action"), "invalid-action")>> \o ResourceGates(p) \o NamespaceGate(p),
         <<>>)

UserGate(p) == <<Gate(Valid(p, "user"), "invalid-user")>>
crontabInstallFromFile(p) ==
    Plan(<<Gate(Required(p, "replace_confirm"), "replace-confirm-required"),
           Gate(Required(p, "file_path"), "invalid-file-path")>> \o UserGate(p),
         <<>>)
crontabList(p) == Plan(UserGate(p), <<>>)
crontabRemove(p) == Plan(UserGate(p), <<>>)

reboot(p) == Plan(<<Gate(Required(p, "confirm"), "confirm-required")>>, <<>>)
\* The mode "cancel" takes no time; the others take "now" for a missing one.
shutdown(p) ==
    Plan(<<Gate(Required(p, "mode"), "invalid-mode"),
           Gate(~Required(p, "cancel") \/ ~Given(p, "time"), "time-not-allowed"),
           Gate(Valid(p, "time"), "invalid-time")>>,
         <<>>)
systemctlUnitAction(p) ==
    Plan(<<Gate(Required(p, "action"), "invalid-action"), Gate(Required(p, "unit"), "invalid-unit")>>,
         <<>>)
chmodPath(p) ==
    Plan(<<Gate(Required(p, "path"), "invalid-path"), Gate(Required(p, "mode"), "invalid-mode")>>,
         <<>>)
chownPath(p) ==
    Plan(<<Gate(Required(p, "path"), "invalid-path"), Gate(Required(p, "owner"), "invalid-owner")>>,
         <<>>)

\* A given target is looked up in the Makefile unless validate_target is off.
makeRun(p) ==
    LET checked == Valid(p, "validate_target") /\ Given(p, "target")
    IN  Plan(<<Gate(checked => Required(p, "Makefile"), "makefile-not-found"),
               Gate(checked => Valid(p, "target"), "target-not-found")>>,
             <<>>)
\* validateNpmPackageSpec and validatePackageSpec on every package given.
PackageGate(p) == Gate(Valid(p, "packages"), "invalid-package-spec")
npmInstall(p) ==
    Plan(<<Gate(Given(p, "packages") \/ Required(p, "package.json"), "package-json-not-found"),
           PackageGate(p)>>,
         <<>>)
npmRun(p) ==
    Plan(<<Gate(Required(p, "package.json"), "package-json-not-found"),
           Gate(Required(p, "script"), "script-not-found")>>,
         <<>>)
pipInstall(p) ==
    Plan(<<Gate(Given(p, "packages") \/ Given(p, "requirements"), "no-packages-specified"),
           PackageGate(p),
           Gate(Valid(p, "requirements"), "requirements-file-not-found")>>,
         <<>>)
runPytest(p) == Plan(<<Gate(Valid(p, "test_paths"), "test-path-not-found")>>, <<>>)
\* os.platform() and the like: no program, nothing to refuse.
getSystemInfo(p) == [Plan(<<>>, <<"ok">>) EXCEPT !.skip = TRUE]

PlanOf(man, p) ==
    CASE man = gitAddManifest -> gitAdd(p)
      [] man = gitBranchManifest -> gitBranch(p)
      [] man = gitCheckoutManifest -> gitCheckout(p)
      [] man = gitCloneManifest -> gitClone(p)
      [] man = gitCommitManifest -> gitCommit(p)
      [] man = gitDiffManifest -> gitDiff(p)
      [] man = gitLogManifest -> gitLog(p)
      [] man = gitMergeManifest -> gitMerge(p)
      [] man = gitPushManifest -> gitPush(p)
      [] man = gitResetManifest -> gitReset(p)
      [] man = gitStatusManifest -> gitStatus(p)
      [] man = dockerPushManifest -> dockerPush(p)
      [] man = dockerRunManifest -> dockerRun(p)
      [] man = killProcessManifest -> killProcess(p)
      [] man = pkillPatternManifest -> pkillPattern(p)
      [] man = kubectlGetManifest -> kubectlGet(p)
      [] man = kubectlApplyManifest -> kubectlApply(p)
      [] man = kubectlDeleteManifest -> kubectlDelete(p)
      [] man = kubectlRolloutManifest -> kubectlRollout(p)
      [] man = crontabInstallFromFileManifest -> crontabInstallFromFile(p)
      [] man = crontabListManifest -> crontabList(p)
      [] man = crontabRemoveManifest -> crontabRemove(p)
      [] man = rebootManifest -> reboot(p)
      [] man = shutdownManifest -> shutdown(p)
      [] man = systemctlUnitActionManifest -> systemctlUnitAction(p)
      [] man = chmodPathManifest -> chmodPath(p)
      [] man = chownPathManifest -> chownPath(p)
      [] man = makeRunManifest -> makeRun(p)
      [] man = npmInstallManifest -> npmInstall(p)
      [] man = npmRunManifest -> npmRun(p)
      [] man = pipInstallManifest -> pipInstall(p)
      [] man = pytestManifest -> runPytest(p)
      [] man = getSystemInfoManifest -> getSystemInfo(p)

\* What a tool's checks depend on besides its parameters.
Facts(man) ==
    CASE man = gitCommitManifest -> {"repository"}
      [] man = dockerPushManifest -> {"explicit tag"}
      [] man = shutdownManifest -> {"cancel"}
      [] man = makeRunManifest -> {"Makefile"}
      [] man \in {npmInstallManifest, npmRunManifest} -> {"package.json"}
      [] OTHER -> {}

CommandManifests ==
    {gitAddManifest, gitBranchManifest, gitCheckoutManifest, gitCloneManifest, gitCommitManifest,
     gitDiffManifest, gitLogManifest, gitMergeManifest, gitPushManifest, gitResetManifest,
     gitStatusManifest, dockerPushManifest, dockerRunManifest, killProcessManifest,
     pkillPatternManifest, kubectlGetManifest, kubectlApplyManifest, kubectlDeleteManifest,
     kubectlRolloutManifest, crontabInstallFromFileManifest, crontabListManifest,
     crontabRemoveManifest, rebootManifest, shutdownManifest, systemctlUnitActionManifest,
     chmodPathManifest, chownPathManifest, makeRunManifest, npmInstallManifest, npmRunManifest,
     pipInstallManifest, pytestManifest, getSystemInfoManifest}

-----------------------------------------------------------------------------
CommandInit == cmd = [pc |-> "idle"]

\* The checks; a call that passes them starts its program and waits for it
\* (spawnSync), unless there is nothing to run.
Invoke(man, p) ==
    LET plan == PlanOf(man, p)
        code == IF plan.skip THEN "ok" ELSE FirstFailure(plan.gates)
    IN  /\ cmd.pc = "idle"
        /\ cmd' = [pc |-> IF code = "pass" THEN "running" ELSE "ended",
                   tool |-> man.name, plan |-> plan, code |-> code, exit |-> NotRun,
                   status |-> NotRun]

\* A plausible slip: a missing status read as success.
exitCodeZero(status) == IF status = Null THEN 0 ELSE status
exitCode(status) == IF status = Null THEN 1 ELSE status      \* result.status ?? 1

\* The code of a failure, when the output bears these signs.
Thrown(plan, status, signs) ==
    LET last == Len(plan.codes)
        hits == {i \in 1..(last - 1) : plan.codes[i] \in signs}
    IN  CASE hits # {} -> plan.codes[Min(hits)]
          [] hits = {} /\ status = 1 /\ plan.onOne # "" -> plan.onOne
          [] OTHER -> plan.codes[last]

ProgramEnds(status, signs) ==
    /\ cmd.pc = "running"
    /\ cmd' = [cmd EXCEPT !.pc = "ended", !.status = status,
                          !.code = IF cmd.plan.codes = <<>> THEN "returned"
                                   ELSE IF status = 0 THEN "ok" ELSE Thrown(cmd.plan, status, signs),
                          !.exit = IF cmd.plan.codes = <<>> THEN exitCode(status) ELSE NotRun]

Odd(keys) == UNION {kSubset(n, keys) : n \in 0..MaxOdd}
CommandNext ==
    \/ \E man \in CommandManifests :
          LET keys == man.params \cup Facts(man)
          IN  \E absent \in Odd(keys) : \E bad \in Odd(keys \ absent) :
                 Invoke(man, [k \in keys |-> CASE k \in absent -> "absent"
                                               [] k \in bad -> "bad"
                                               [] OTHER -> "good"])
    \/ /\ cmd.pc = "running"
       /\ \E status \in Status, signs \in SUBSET ToSet(cmd.plan.codes) : ProgramEnds(status, signs)

CommandSpec == CommandInit /\ [][CommandNext]_cmd

-----------------------------------------------------------------------------
\* A call that reports success (its result, or exit code 0) had its program
\* exit with status 0; a program that was killed or could not be started is
\* never reported as a success.  git add of nothing and the system
\* information run no program, and the log of an empty repository is empty.
SuccessMeansExitZero ==
    cmd.pc = "ended" /\ (cmd.code = "ok" \/ cmd.exit = 0) =>
        \/ cmd.status = 0
        \/ cmd.plan.skip
        \/ cmd.tool = "git_log"
=============================================================================
