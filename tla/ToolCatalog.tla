----------------------------- MODULE ToolCatalog -----------------------------
(***************************************************************************)
(* The action registry (packages/action-registry) and the normalisation of *)
(* a tool call (src/enforcement/normalize.ts): from a tool name and its    *)
(* parameters to the action class, the risk, the HITL mode and the target  *)
(* every later stage works with.                                           *)
(*                                                                         *)
(* A parameter value is what normalisation can see of it: whether it is a  *)
(* non-empty string, and which marks that string bears: "url" (it starts   *)
(* with http:// or https://), "at" (it contains an @) and "meta" (it       *)
(* contains a shell metacharacter).  Tool names are in lower case: the     *)
(* lookup is case-insensitive.                                             *)
(***************************************************************************)
EXTENDS Naturals, Sequences, FiniteSets, FiniteSetsExt

VARIABLE answer    \* the last answer of the catalogue, with the question

Entry(class, risk, mode, group, aliases) ==
    [action_class |-> class, default_risk |-> risk, default_hitl_mode |-> mode,
     intent_group |-> group, aliases |-> aliases]

-----------------------------------------------------------------------------
(* REGISTRY, one definition per action class.                              *)
FilesystemRead == Entry("filesystem.read", "low", "none", "none",
    {"read", "read_file", "readfile", "read_files", "read_files_batch", "cat_file",
     "view_file", "open_file", "get_file_contents", "find_files", "find_file",
     "search_files", "grep_files", "grep_file", "grep", "search_in_files", "check_exists",
     "exists", "file_exists", "path_exists", "cat", "head", "tail", "less", "more", "diff",
     "find", "locate"})
FilesystemWrite == Entry("filesystem.write", "medium", "per_request", "none",
    {"write", "edit", "apply_patch", "write_file", "writefile", "create_file", "save_file",
     "update_file", "edit_file", "patch_file", "make_dir", "mkdir", "create_dir",
     "create_directory", "copy_file", "copy", "cp", "duplicate_file", "copy_file_to",
     "move_file", "mv", "move", "rename_file", "rename", "tee", "touch", "install"})
FilesystemDelete == Entry("filesystem.delete", "high", "per_request", "destructive_fs",
    {"delete_file", "deletefile", "remove_file", "rm_file", "unlink_file", "rm", "rm_rf",
     "unlink", "delete", "remove", "move_to_trash", "trash", "shred", "rmdir", "format",
     "empty_trash", "purge"})
FilesystemList == Entry("filesystem.list", "low", "none", "none",
    {"list", "list_files", "listfiles", "list_directory", "list_dir", "read_directory",
     "ls", "tree"})
WebSearch == Entry("web.search", "medium", "per_request", "none",
    {"web_search", "x_search", "google_search", "bing_search", "duckduckgo_search",
     "ddg_search", "search_web", "web_research", "news_search"})
WebFetch == Entry("web.fetch", "medium", "per_request", "data_exfiltration",
    {"fetch", "browser", "http_get", "web_fetch", "get_url", "fetch_url", "http_request",
     "curl", "wget", "download_url", "http_head", "head_url", "http_options"})
BrowserScrape == Entry("browser.scrape", "medium", "per_request", "none",
    {"scrape_page", "extract_page", "read_url"})
WebPost == Entry("web.post", "medium", "per_request", "web_access",
    {"http_post", "post_url", "web_post", "post_request", "submit_form", "http_put",
     "put_url", "web_put", "put_request", "http_patch", "patch_url", "web_patch",
     "patch_request", "http_delete", "delete_url", "web_delete", "delete_request"})
ShellExec == Entry("shell.exec", "high", "per_request", "none",
    {"bash", "exec", "shell_exec", "run_command", "execute_command", "run_terminal_cmd",
     "terminal_exec", "cmd", "unsafe_admin_exec"})
CommunicationEmail == Entry("communication.email", "high", "per_request", "external_send",
    {"send_email", "email_send", "send_mail", "compose_email", "email"})
CommunicationSlack == Entry("communication.slack", "medium", "per_request", "external_send",
    {"send_slack", "slack_message", "slack_send", "post_slack", "post_message"})
CommunicationWebhook == Entry("communication.webhook", "medium", "per_request", "external_send",
    {"message", "call_webhook", "webhook", "trigger_webhook", "post_webhook",
     "send_notification"})
MemoryRead == Entry("memory.read", "low", "none", "none",
    {"memory_get", "memory_search", "read_memory", "get_memory", "recall",
     "retrieve_memory"})
MemoryWrite == Entry("memory.write", "medium", "none", "none",
    {"memory_set", "write_memory", "set_memory", "store_memory", "save_memory", "remember"})
CredentialRead == Entry("credential.read", "high", "per_request", "credential_access",
    {"read_secret", "get_secret", "get_credential", "retrieve_secret", "read_credential"})
CredentialWrite == Entry("credential.write", "critical", "per_request", "credential_access",
    {"write_secret", "set_secret", "set_credential", "store_secret", "create_secret"})
CredentialRotate == Entry("credential.rotate", "critical", "per_request", "credential_access",
    {"rotate_secret", "rotate_credential"})
CredentialList == Entry("credential.list", "high", "per_request", "credential_access",
    {"list_secrets", "list_credentials", "list_credential_keys"})
CodeExecute == Entry("code.execute", "high", "per_request", "none",
    {"code_execution", "run_code", "execute_code", "eval_code", "python", "javascript",
     "node_exec", "code_runner", "docker_run", "docker_exec", "docker"})
PaymentInitiate == Entry("payment.initiate", "critical", "per_request", "payment",
    {"pay", "payment", "initiate_payment", "create_payment", "charge", "stripe_payment"})
SystemRead == Entry("system.read", "low", "none", "none",
    {"session_status", "sessions_list", "sessions_history", "sessions_spawn",
     "sessions_send", "sessions_yield", "subagents", "agents_list", "nodes", "image",
     "cron", "gateway", "get_system_info", "system_info", "get_env_var", "get_env",
     "read_env", "env_var", "get_hostname", "get_platform", "get_arch", "get_os_info",
     "uname", "ps", "top", "htop", "df", "du", "free", "hostname", "uptime", "lsof", "id",
     "whoami", "echo", "printf"})
SystemService == Entry("system.service", "critical", "per_request", "none",
    {"systemctl", "service", "init", "reboot", "shutdown", "virsh",
     "systemctl_unit_action"})
PermissionsModify == Entry("permissions.modify", "high", "per_request", "none",
    {"chmod", "chown", "chgrp", "umask", "chmod_path", "chown_path"})
PermissionsElevate == Entry("permissions.elevate", "critical", "per_request", "none",
    {"sudo", "su", "doas", "passwd"})
ProcessSignal == Entry("process.signal", "high", "per_request", "none",
    {"kill", "pkill", "killall", "kill_process", "pkill_pattern"})
NetworkDiagnose == Entry("network.diagnose", "low", "none", "none",
    {"ping", "traceroute", "nslookup", "dig", "netstat", "ss"})
NetworkScan == Entry("network.scan", "high", "per_request", "none", {"nmap"})
SchedulingPersist == Entry("scheduling.persist", "high", "per_request", "none",
    {"crontab", "at", "batch", "atq", "atrm", "crontab_list", "crontab_install_from_file",
     "crontab_remove"})
NetworkTransfer == Entry("network.transfer", "high", "per_request", "data_exfiltration",
    {"rsync", "scp", "sftp"})
NetworkShell == Entry("network.shell", "high", "per_request", "none", {"ssh", "mosh", "telnet"})
ClusterRead == Entry("cluster.read", "low", "per_request", "none", {"kubectl_get"})
ClusterWrite == Entry("cluster.write", "high", "per_request", "none",
    {"kubectl", "kubectl_apply", "kubectl_delete", "kubectl_rollout", "docker_push"})
VcsRead == Entry("vcs.read", "low", "none", "none",
    {"git_status", "git-status", "git.status", "show_status", "git_log", "git-log",
     "git.log", "log_commits", "view_history", "git_diff", "git-diff", "git.diff",
     "view_diff", "show_diff"})
\* A plausible slip: local commands of git are taken to be harmless.
VcsWriteUnprompted == Entry("vcs.write", "medium", "none", "none",
    {"git_commit", "git-commit", "git.commit", "commit_changes", "git_add", "git-add",
     "git.add", "stage_file", "stage_files", "git_merge", "git-merge", "git.merge",
     "merge_branch", "git_checkout", "git-checkout", "git.checkout", "checkout_branch",
     "switch_branch", "git_branch", "git-branch", "git.branch", "create_branch",
     "git_reset", "git-reset", "git.reset", "reset_head", "undo_commit"})
VcsWrite == Entry("vcs.write", "medium", "per_request", "none",
    {"git_commit", "git-commit", "git.commit", "commit_changes", "git_add", "git-add",
     "git.add", "stage_file", "stage_files", "git_merge", "git-merge", "git.merge",
     "merge_branch", "git_checkout", "git-checkout", "git.checkout", "checkout_branch",
     "switch_branch", "git_branch", "git-branch", "git.branch", "create_branch",
     "git_reset", "git-reset", "git.reset", "reset_head", "undo_commit"})
VcsRemote == Entry("vcs.remote", "medium", "per_request", "none",
    {"git_clone", "git-clone", "git.clone", "clone_repo", "git_push", "git-push",
     "git.push", "push_commits", "git_pull", "git-pull", "git.pull", "pull_changes",
     "git_fetch", "git-fetch", "git.fetch", "fetch_remote"})
PackageInstall == Entry("package.install", "medium", "per_request", "none",
    {"install_package", "npm_install", "pip_install", "pip3_install", "yarn_add",
     "apt_install", "brew_install", "add_package", "apt", "apt-get", "yum", "dnf", "dpkg",
     "snap", "brew", "pacman"})
PackageRun == Entry("package.run", "medium", "per_request", "none",
    {"npm_run_script", "npm_run", "yarn_run", "pnpm_run", "run_script", "make_run"})
PackageRead == Entry("package.read", "low", "none", "none",
    {"pip_list", "pip3_list", "pip_freeze", "npm_list", "list_packages"})
BuildCompile == Entry("build.compile", "medium", "per_request", "none",
    {"run_compiler", "compile", "build", "npm_run_build", "make", "tsc", "javac", "gcc",
     "cargo_build", "go_build", "mvn_compile", "gradle_build"})
BuildTest == Entry("build.test", "low", "none", "none",
    {"run_tests", "run_test", "npm_test", "npm_run_test", "yarn_test", "pytest", "jest",
     "vitest", "mocha", "go_test", "cargo_test", "mvn_test", "gradle_test"})
BuildLint == Entry("build.lint", "low", "none", "none",
    {"run_linter", "run_formatter", "run_typecheck", "eslint", "prettier", "pylint",
     "flake8", "mypy", "cargo_clippy", "golangci_lint", "rubocop"})
ArchiveCreate == Entry("archive.create", "medium", "per_request", "none",
    {"archive_create", "create_archive", "tar_create", "tar_czf", "tar_compress",
     "zip_create", "create_zip", "compress", "compress_files", "gzip", "bzip2",
     "zstd_compress", "tar", "zip", "xz", "7z"})
ArchiveExtract == Entry("archive.extract", "medium", "per_request", "none",
    {"archive_extract", "extract_archive", "unarchive", "tar_extract", "tar_xzf",
     "tar_decompress", "unzip", "gunzip", "bunzip2", "decompress", "extract_files",
     "zstd_decompress", "unxz"})
ArchiveRead == Entry("archive.read", "low", "none", "none",
    {"archive_list", "archive_read", "list_archive", "read_archive", "tar_list", "tar_tf",
     "zip_list", "list_zip", "inspect_archive", "peek_archive"})
UnknownSensitiveAction == Entry("unknown_sensitive_action", "critical", "per_request", "none", {})

REGISTRY == {FilesystemRead, FilesystemWrite, FilesystemDelete, FilesystemList, WebSearch,
             WebFetch, BrowserScrape, WebPost, ShellExec, CommunicationEmail,
             CommunicationSlack, CommunicationWebhook, MemoryRead, MemoryWrite, CredentialRead,
             CredentialWrite, CredentialRotate, CredentialList, CodeExecute, PaymentInitiate,
             SystemRead, SystemService, PermissionsModify, PermissionsElevate, ProcessSignal,
             NetworkDiagnose, NetworkScan, SchedulingPersist, NetworkTransfer, NetworkShell,
             ClusterRead, ClusterWrite, VcsRead, VcsWrite, VcsRemote, PackageInstall,
             PackageRun, PackageRead, BuildCompile, BuildTest, BuildLint, ArchiveCreate,
             ArchiveExtract, ArchiveRead, UnknownSensitiveAction}

-----------------------------------------------------------------------------
UNKNOWN_ENTRY == UnknownSensitiveAction

\* No tool name is an alias of two classes: what a name means does not depend
\* on the order in which the index below is filled (the last entry would win).
ASSUME AliasesAreUnambiguous ==
    \A d, e \in REGISTRY : d # e => d.aliases \cap e.aliases = {}

ALIAS_INDEX == [alias \in UNION {e.aliases : e \in REGISTRY} |->
                   CHOOSE e \in REGISTRY : alias \in e.aliases]

\* A name no entry lists is the unknown, most severe class.
getRegistryEntry(tool) ==
    IF tool \in DOMAIN ALIAS_INDEX THEN ALIAS_INDEX[tool] ELSE UNKNOWN_ENTRY

normalizeActionClass(tool) == getRegistryEntry(tool).action_class

-----------------------------------------------------------------------------
(* Parameters and the target.                                              *)
Mark == {"url", "at", "meta"}
Blank == [text |-> FALSE, marks |-> {}]    \* no string, or an empty one
ParamValue == {Blank} \cup [text : {TRUE}, marks : SUBSET Mark]

hasShellMetacharsInParams(params) == \E k \in DOMAIN params : "meta" \in params[k].marks

TARGET_PARAM_KEYS ==
    <<"command", "cmd", "script", "file_path", "path", "file", "repo_url", "package_name",
      "query", "input", "args", "url", "destination", "to", "recipient", "email">>

\* TARGET_KEYS_BY_CLASS, with the generic list for every other class.
TargetKeys(class) ==
    CASE class \in {"filesystem.read", "filesystem.delete", "filesystem.list"} ->
             <<"file_path", "path", "file">>
      [] class = "filesystem.write" ->
             <<"file_path", "path", "file", "destination", "url", "to", "recipient", "email">>
      [] class = "system.read" -> <<"variable_name", "name", "key">>
      [] class = "vcs.read" -> <<"path", "file_path", "branch", "ref", "revision">>
      [] class = "vcs.write" -> <<"path", "file_path", "working_dir">>
      [] class = "vcs.remote" -> <<"repo_url", "url", "remote_url", "remote">>
      [] class \in {"package.install", "package.read"} -> <<"package_name", "package", "name">>
      [] class = "package.run" -> <<"script", "script_name", "name", "package_name">>
      [] class \in {"build.compile", "build.lint"} ->
             <<"target", "path", "file_path", "working_dir">>
      [] class = "build.test" -> <<"target", "path", "working_dir">>
      [] class = "archive.create" ->
             <<"output_path", "destination", "archive_path", "path", "file_path">>
      [] class = "archive.extract" ->
             <<"destination", "output_dir", "archive_path", "path", "file_path">>
      [] class = "archive.read" -> <<"archive_path", "path", "file_path">>
      [] class = "shell.exec" -> <<"command", "cmd", "script">>
      [] class = "code.execute" -> <<"code", "script", "command">>
      [] OTHER -> TARGET_PARAM_KEYS

\* extractTarget: the key whose value is the target, "" when there is none.
extractTarget(class, params) ==
    LET keys == TargetKeys(class)
        hits == {i \in DOMAIN keys : keys[i] \in DOMAIN params /\ params[keys[i]].text}
    IN  IF hits = {} THEN "" ELSE keys[Min(hits)]

\* normalize_action.  The reclassifications of a filesystem.write change class
\* and risk, never the HITL mode and the intent group of the entry.
Reclassified(entry, marks) ==
    CASE entry.action_class = "filesystem.write" /\ "url" \in marks ->
             [class |-> WebPost.action_class, risk |-> WebPost.default_risk]
      [] entry.action_class = "filesystem.write" /\ "url" \notin marks /\ "at" \in marks ->
             [class |-> "communication.external.send", risk |-> "high"]
      [] OTHER -> [class |-> entry.action_class, risk |-> entry.default_risk]

Normalized(tool, params) ==
    LET entry  == getRegistryEntry(tool)
        target == extractTarget(entry.action_class, params)
        rule   == Reclassified(entry, IF target = "" THEN {} ELSE params[target].marks)
    IN  [action_class |-> rule.class, risk |-> rule.risk,
         hitl_mode |-> entry.default_hitl_mode, target |-> target,
         intent_group |-> entry.intent_group]

\* A plausible slip: the metacharacters are looked for before the
\* reclassification, which then overwrites the risk.
normalize_actionMetaFirst(tool, params) ==
    LET n == Normalized(tool, params)
    IN  IF hasShellMetacharsInParams(params) /\ n.action_class = getRegistryEntry(tool).action_class
        THEN [n EXCEPT !.risk = "critical"] ELSE n
normalize_action(tool, params) ==
    LET n == Normalized(tool, params)
    IN  IF hasShellMetacharsInParams(params) THEN [n EXCEPT !.risk = "critical"] ELSE n

-----------------------------------------------------------------------------
(* How severe a risk and a HITL mode are.                                  *)
riskRank(risk) == CHOOSE i \in 1..4 : <<"low", "medium", "high", "critical">>[i] = risk
hitlRank(mode) == CHOOSE i \in 1..3 : <<"none", "session_approval", "per_request">>[i] = mode
=============================================================================
