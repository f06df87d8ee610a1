---------------------------- MODULE ToolManifests ----------------------------
(***************************************************************************)
(* The manifests of the tools (src/tools/*/manifest.ts), one definition    *)
(* each, the validator skills are registered through                       *)
(* (src/validation/skill-manifest-validator.ts), and what a call of a tool *)
(* is normalised to.  Version, descriptions and the result schema of a     *)
(* manifest are left out: the validator only asks that they be there.      *)
(***************************************************************************)
EXTENDS ToolCatalog

CONSTANT MaxGiven    \* how many parameters of a call carry a value

Manifest(name, class, risk, mode, field, params) ==
    [name |-> name, action_class |-> class, risk_tier |-> risk, default_hitl_mode |-> mode,
     target_field |-> field, params |-> params, closed |-> TRUE,
     unsafe_admin |-> FALSE, unsafe_legacy |-> FALSE, until |-> 0]
AdminManifest(name, class, risk, mode, field, params) ==
    [Manifest(name, class, risk, mode, field, params) EXCEPT !.unsafe_admin = TRUE]

appendFileManifest == Manifest("append_file", "filesystem.write", "medium", "per_request", "",
    {"path", "content"})
archiveCreateManifest == Manifest("archive_create", "archive.create", "medium", "per_request", "output_path",
    {"output_path", "sources"})
archiveExtractManifest == Manifest("archive_extract", "archive.extract", "medium", "per_request", "destination",
    {"archive_path", "destination"})
archiveListManifest == Manifest("archive_list", "archive.read", "low", "none", "archive_path",
    {"archive_path"})
callWebhookManifest == Manifest("call_webhook", "communication.webhook", "medium", "per_request", "url",
    {"url", "method", "payload", "headers"})
checkExistsManifest == Manifest("check_exists", "filesystem.read", "low", "none", "", {"path"})
chmodPathManifest == Manifest("chmod_path", "permissions.modify", "high", "per_request", "path",
    {"path", "mode", "recursive"})
chownPathManifest == Manifest("chown_path", "permissions.modify", "high", "per_request", "path",
    {"path", "owner", "recursive"})
copyFileManifest == Manifest("copy_file", "filesystem.write", "medium", "per_request", "",
    {"from", "to"})
createDirectoryManifest == Manifest("create_directory", "filesystem.write", "medium", "per_request", "",
    {"path"})
crontabInstallFromFileManifest == Manifest("crontab_install_from_file", "scheduling.persist", "high", "per_request", "file_path",
    {"file_path", "replace_confirm", "user"})
crontabListManifest == Manifest("crontab_list", "scheduling.persist", "high", "per_request", "",
    {"user"})
crontabRemoveManifest == Manifest("crontab_remove", "scheduling.persist", "high", "per_request", "",
    {"user"})
deleteFileManifest == Manifest("delete_file", "filesystem.delete", "high", "per_request", "",
    {"path", "recursive"})
dockerPushManifest == Manifest("docker_push", "cluster.write", "high", "per_request", "image",
    {"image", "registry", "all_tags"})
dockerRunManifest == Manifest("docker_run", "code.execute", "high", "per_request", "image",
    {"image", "command", "working_dir", "volumes", "env", "ports", "network", "rm",
     "user", "entrypoint", "platform"})
editFileManifest == Manifest("edit_file", "filesystem.write", "medium", "per_request", "",
    {"path", "old_string", "new_string"})
fetchUrlManifest == Manifest("fetch_url", "web.fetch", "medium", "per_request", "url",
    {"url", "headers", "allowed_domains"})
findFilesManifest == Manifest("find_files", "filesystem.read", "low", "none", "",
    {"pattern", "path"})
getEnvVarManifest == Manifest("get_env_var", "system.read", "low", "none", "variable_name",
    {"variable_name"})
getSystemInfoManifest == Manifest("get_system_info", "system.read", "low", "none", "", {})
gitAddManifest == Manifest("git_add", "vcs.write", "medium", "per_request", "", {"paths"})
gitBranchManifest == Manifest("git_branch", "vcs.write", "medium", "per_request", "name",
    {"name", "from"})
gitCheckoutManifest == Manifest("git_checkout", "vcs.write", "medium", "per_request", "ref",
    {"ref"})
gitCloneManifest == Manifest("git_clone", "vcs.remote", "medium", "per_request", "url",
    {"url", "path"})
gitCommitManifest == Manifest("git_commit", "vcs.write", "medium", "per_request", "",
    {"message", "files", "author", "sign"})
gitDiffManifest == Manifest("git_diff", "vcs.read", "low", "none", "", {"ref", "path"})
gitLogManifest == Manifest("git_log", "vcs.read", "low", "none", "", {"limit", "path"})
gitMergeManifest == Manifest("git_merge", "vcs.write", "medium", "per_request", "branch",
    {"branch"})
gitPushManifest == Manifest("git_push", "vcs.remote", "medium", "per_request", "remote",
    {"remote", "branch"})
gitResetManifest == Manifest("git_reset", "vcs.write", "medium", "per_request", "ref",
    {"mode", "ref"})
gitStatusManifest == Manifest("git_status", "vcs.read", "low", "none", "", {})
grepFilesManifest == Manifest("grep_files", "filesystem.read", "low", "none", "",
    {"pattern", "path", "glob"})
httpDeleteManifest == Manifest("http_delete", "web.post", "medium", "per_request", "url",
    {"url", "headers"})
httpGetManifest == Manifest("http_get", "web.fetch", "medium", "per_request", "url",
    {"url", "headers"})
httpPatchManifest == Manifest("http_patch", "web.post", "medium", "per_request", "url",
    {"url", "body", "headers"})
httpPostManifest == Manifest("http_post", "web.post", "medium", "per_request", "url",
    {"url", "body", "headers"})
httpPutManifest == Manifest("http_put", "web.post", "medium", "per_request", "url",
    {"url", "body", "headers"})
killProcessManifest == Manifest("kill_process", "process.signal", "high", "per_request", "pid",
    {"pid", "signal"})
kubectlApplyManifest == Manifest("kubectl_apply", "cluster.write", "high", "per_request", "manifest_path",
    {"manifest_path", "namespace", "dry_run"})
kubectlDeleteManifest == Manifest("kubectl_delete", "cluster.write", "high", "per_request", "name",
    {"resource", "name", "namespace", "grace_period"})
kubectlGetManifest == Manifest("kubectl_get", "cluster.read", "low", "per_request", "resource",
    {"resource", "name", "namespace", "output"})
kubectlRolloutManifest == Manifest("kubectl_rollout", "cluster.write", "high", "per_request", "name",
    {"action", "resource", "name", "namespace"})
listDirManifest == Manifest("list_dir", "filesystem.list", "low", "none", "",
    {"path", "recursive"})
listDirectoryManifest == Manifest("list_directory", "filesystem.list", "low", "none", "", {"path"})
listSecretsManifest == Manifest("list_secrets", "credential.list", "high", "per_request", "",
    {"store"})
makeDirManifest == Manifest("make_dir", "filesystem.write", "medium", "per_request", "", {"path"})
makeRunManifest == Manifest("make_run", "package.run", "medium", "per_request", "target",
    {"target", "working_dir", "makefile", "jobs", "validate_target"})
moveFileManifest == Manifest("move_file", "filesystem.write", "medium", "per_request", "",
    {"from", "to"})
npmInstallManifest == Manifest("npm_install", "package.install", "medium", "per_request", "packages",
    {"packages", "working_dir", "flags"})
npmRunManifest == Manifest("npm_run", "package.run", "medium", "per_request", "script",
    {"script", "working_dir", "args", "silent"})
npmRunBuildManifest == Manifest("npm_run_build", "build.compile", "medium", "per_request", "",
    {"working_dir", "script"})
pipInstallManifest == Manifest("pip_install", "package.install", "medium", "per_request", "packages",
    {"packages", "requirements", "working_dir", "upgrade", "user", "index_url",
     "extra_index_url"})
pipListManifest == Manifest("pip_list", "package.read", "low", "none", "",
    {"format", "working_dir"})
pkillPatternManifest == Manifest("pkill_pattern", "process.signal", "high", "per_request", "pattern",
    {"pattern", "signal", "full_match"})
postMessageManifest == Manifest("post_message", "communication.slack", "medium", "per_request", "",
    {"platform", "message", "channel", "thread_ts"})
pytestManifest == Manifest("pytest", "build.test", "low", "none", "test_paths",
    {"test_paths", "working_dir", "markers", "keyword", "verbose", "collect_only",
     "args"})
readFileManifest == Manifest("read_file", "filesystem.read", "low", "none", "", {"path"})
readFilesBatchManifest == Manifest("read_files_batch", "filesystem.read", "low", "none", "",
    {"paths"})
readSecretManifest == Manifest("read_secret", "credential.read", "high", "per_request", "key",
    {"key", "store"})
rebootManifest == Manifest("reboot", "system.service", "critical", "per_request", "", {"confirm"})
rotateSecretManifest == Manifest("rotate_secret", "credential.rotate", "critical", "per_request", "key",
    {"key", "store"})
runCodeManifest == Manifest("run_code", "code.execute", "high", "per_request", "",
    {"language", "code", "timeout_ms"})
runLinterManifest == Manifest("run_linter", "build.lint", "low", "none", "",
    {"working_dir", "paths", "fix"})
runTestsManifest == Manifest("run_tests", "build.test", "low", "none", "",
    {"working_dir", "pattern", "runner"})
scrapePageManifest == Manifest("scrape_page", "browser.scrape", "medium", "per_request", "url",
    {"url", "selectors", "headers", "allowed_domains"})
searchWebManifest == Manifest("search_web", "web.search", "medium", "per_request", "query",
    {"query", "limit"})
sendEmailManifest == Manifest("send_email", "communication.email", "high", "per_request", "",
    {"to", "subject", "body", "from", "cc"})
sendNotificationManifest == Manifest("send_notification", "communication.webhook", "medium", "per_request", "url",
    {"platform", "message", "url"})
sendSlackManifest == Manifest("send_slack", "communication.slack", "medium", "per_request", "",
    {"channel", "text", "thread_ts", "username"})
sendWebhookManifest == Manifest("send_webhook", "communication.webhook", "medium", "per_request", "url",
    {"url", "payload", "headers"})
shutdownManifest == Manifest("shutdown", "system.service", "critical", "per_request", "mode",
    {"mode", "time"})
storeSecretManifest == Manifest("store_secret", "credential.write", "critical", "per_request", "key",
    {"key", "value", "path"})
systemctlUnitActionManifest == Manifest("systemctl_unit_action", "system.service", "critical", "per_request", "unit",
    {"unit", "action"})
unsafeAdminExecManifest == AdminManifest("unsafe_admin_exec", "shell.exec", "high", "per_request", "command",
    {"command", "justification", "working_dir"})
webhookManifest == Manifest("webhook", "communication.webhook", "medium", "per_request", "url",
    {"url", "payload", "headers", "max_retries"})
writeFileManifest == Manifest("write_file", "filesystem.write", "medium", "per_request", "",
    {"path", "content"})
writeSecretManifest == Manifest("write_secret", "credential.write", "critical", "per_request", "key",
    {"key", "value", "store"})

Manifests == {appendFileManifest, archiveCreateManifest, archiveExtractManifest,
              archiveListManifest, callWebhookManifest, checkExistsManifest,
              chmodPathManifest, chownPathManifest, copyFileManifest, createDirectoryManifest,
              crontabInstallFromFileManifest, crontabListManifest, crontabRemoveManifest,
              deleteFileManifest, dockerPushManifest, dockerRunManifest, editFileManifest,
              fetchUrlManifest, findFilesManifest, getEnvVarManifest, getSystemInfoManifest,
              gitAddManifest, gitBranchManifest, gitCheckoutManifest, gitCloneManifest,
              gitCommitManifest, gitDiffManifest, gitLogManifest, gitMergeManifest,
              gitPushManifest, gitResetManifest, gitStatusManifest, grepFilesManifest,
              httpDeleteManifest, httpGetManifest, httpPatchManifest, httpPostManifest,
              httpPutManifest, killProcessManifest, kubectlApplyManifest,
              kubectlDeleteManifest, kubectlGetManifest, kubectlRolloutManifest,
              listDirManifest, listDirectoryManifest, listSecretsManifest, makeDirManifest,
              makeRunManifest, moveFileManifest, npmInstallManifest, npmRunManifest,
              npmRunBuildManifest, pipInstallManifest, pipListManifest, pkillPatternManifest,
              postMessageManifest, pytestManifest, readFileManifest, readFilesBatchManifest,
              readSecretManifest, rebootManifest, rotateSecretManifest, runCodeManifest,
              runLinterManifest, runTestsManifest, scrapePageManifest, searchWebManifest,
              sendEmailManifest, sendNotificationManifest, sendSlackManifest,
              sendWebhookManifest, shutdownManifest, storeSecretManifest,
              systemctlUnitActionManifest, unsafeAdminExecManifest, webhookManifest,
              writeFileManifest, writeSecretManifest}

-----------------------------------------------------------------------------
(* The validator.  A manifest that is no well-formed object is rejected by *)
(* validateToolManifest with every error it has; here, by its verdict.     *)
Classes == {e.action_class : e \in REGISTRY}
EntryOfClass(class) == CHOOSE e \in REGISTRY : e.action_class = class

EXEC_WRAPPER_TOOL_NAMES ==
    {"exec", "bash", "shell_exec", "run_command", "execute_command", "run_terminal_cmd",
     "terminal_exec", "cmd", "sh", "zsh"}

\* validateToolManifest: additional parameters must be excluded, and a legacy
\* exemption needs a date (0: none).
validateToolManifest(man) == man.closed /\ (man.unsafe_legacy => man.until > 0)

isDeadlinePast(until, today) == until < today

\* The risk and the mode must be those of the registry for the class.
MatchesRegistry(man) ==
    /\ man.action_class \in Classes
    /\ man.risk_tier = EntryOfClass(man.action_class).default_risk
    /\ man.default_hitl_mode = EntryOfClass(man.action_class).default_hitl_mode

\* SkillManifestValidator.validate.  It does not ask whether the name is an
\* alias of the class the manifest declares.
validate(man, today, openMode) ==
    /\ validateToolManifest(man)
    /\ IF man.unsafe_legacy
       THEN ~isDeadlinePast(man.until, today) \/ openMode
       ELSE /\ MatchesRegistry(man)
            /\ man.name \notin EXEC_WRAPPER_TOOL_NAMES
            /\ man.unsafe_admin \/ man.action_class # "shell.exec"

-----------------------------------------------------------------------------
CatalogInit == answer = [question |-> "none"]

\* A tool is called: the parameters its manifest names may be given, each with
\* any value; the others are absent.
Normalize(man, params) ==
    answer' = [question |-> "normalize", man |-> man, params |-> params,
               action |-> normalize_action(man.name, params)]

\* A skill with this manifest, or a variant of it, is registered.
Register(man, today, openMode) ==
    answer' = [question |-> "register", man |-> man, today |-> today, open |-> openMode,
               valid |-> validate(man, today, openMode)]

Variants(man) ==
    {man} \cup {[man EXCEPT !.unsafe_admin = a, !.unsafe_legacy = l, !.until = u] :
                    a, l \in BOOLEAN, u \in 0..2}
          \cup {[man EXCEPT !.name = "bash"], [man EXCEPT !.closed = FALSE],
                [man EXCEPT !.action_class = "shell.exec"],
                [man EXCEPT !.action_class = "no.class"]}

CatalogNext ==
    /\ answer.question = "none"
    /\ \E man \in Manifests :
          \/ \E given \in UNION {kSubset(n, man.params) : n \in 0..MaxGiven} :
                \E params \in [given -> ParamValue] : Normalize(man, params)
          \/ \E variant \in Variants(man), today \in 1..2, openMode \in BOOLEAN :
                Register(variant, today, openMode)

CatalogSpec == CatalogInit /\ [][CatalogNext]_answer

-----------------------------------------------------------------------------
\* Enforcement never treats a call of a shipped tool more leniently than the
\* tool's own manifest says: the class is the manifest's, the unknown class,
\* or one a filesystem.write is reclassified to, the risk and the HITL mode
\* are at least as severe, and the risk is critical if a parameter bears shell
\* metacharacters, whatever class the call is moved to.  And the validator
\* accepts what is shipped, on any day and in either mode.
NoLaxerThanManifest ==
    /\ answer.question = "normalize" =>
          LET a == answer.action
              man == answer.man
          IN  /\ \/ a.action_class \in {man.action_class, UNKNOWN_ENTRY.action_class}
                 \/ man.action_class = "filesystem.write"
              /\ riskRank(a.risk) >= riskRank(man.risk_tier)
              /\ hitlRank(a.hitl_mode) >= hitlRank(man.default_hitl_mode)
              /\ hasShellMetacharsInParams(answer.params) => a.risk = "critical"
    /\ answer.question = "register" /\ answer.man \in Manifests => answer.valid
=============================================================================
