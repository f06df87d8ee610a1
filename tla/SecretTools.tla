----------------------------- MODULE SecretTools -----------------------------
(***************************************************************************)
(* The tools that demand an approval token of their own: store_secret,     *)
(* read_secret, write_secret, list_secrets, rotate_secret and              *)
(* unsafe_admin_exec, with the secret backends, and get_env_var, which     *)
(* reads the same environment without a token.                             *)
(*                                                                         *)
(* A call runs its gates in order, awaits the log entry of the attempt,    *)
(* and only then consumes its token and acts: between the two, other calls *)
(* and the operator take steps.  The logger never throws                   *)
(* (JsonlAuditLogger reports a failed write to stderr), so an awaited log  *)
(* entry always returns.                                                   *)
(***************************************************************************)
EXTENDS Gates, FiniteSets

CONSTANTS
    Call,      \* concurrent tool calls; a call writes its own name as value
    Key,       \* names of secrets
    Allowed,   \* resolveAllowlist: the keys in the allowlist
    Issued,    \* tokens of pending approval requests
    Forged,    \* tokens the approval manager has never seen
    NoValue    \* a key that is absent, a token or a path that is not given

ASSUME SecretAssumption == Allowed \subseteq Key /\ Issued \cap Forged = {}

VARIABLES
    env,       \* [Key -> value or NoValue], process.env
    file,      \* [Key -> value or NoValue], the credential file
    corrupt,   \* the credential file holds no valid JSON
    consumedTokens,  \* tokens the approval manager has consumed
    call       \* the calls and how far they are

secretVars == <<env, file, corrupt, consumedTokens, call>>

Token == Issued \cup Forged

NewCall == [pc |-> "new", tool |-> "none", key |-> NoValue, token |-> NoValue,
          snap |-> <<>>, blind |-> FALSE, code |-> "none", acted |-> FALSE, after |-> {}]

SecretInit ==
    /\ env = [k \in Key |-> IF k \in Allowed THEN "initial" ELSE NoValue]
    /\ file = [k \in Key |-> NoValue]
    /\ corrupt = FALSE
    /\ consumedTokens = {}
    /\ call = [c \in Call |-> NewCall]

-----------------------------------------------------------------------------
(* The gates of each tool.                                                 *)
\* The last two gates of every tool.
TokenGatesOnce(t) == <<Gate(t # NoValue, "hitl-required")>>
TokenGates(t) == <<Gate(t # NoValue, "hitl-required"), Gate(t \notin consumedTokens, "token-replayed")>>
KeyGate(k) == <<Gate(k \in Allowed, "key-denied")>>

\* resolveFileBackend: WritableFileSecretBackend.load throws on a file that
\* is not a flat JSON object, before any gate; a file that cannot be read, for
\* whatever reason, counts as empty (blind).
storeSecretGates(k, t, path, blind) ==
    <<Gate(path # NoValue, "write-error"), Gate(~corrupt \/ blind, "load-error")>>
        \o KeyGate(k) \o TokenGates(t)
readSecretGates(k, t) == KeyGate(k) \o TokenGates(t)
writeSecretGates(k, t) == KeyGate(k) \o TokenGates(t)
listSecretsGates(t) == TokenGates(t)
rotateSecretGates(k, t) ==
    KeyGate(k) \o TokenGates(t) \o <<Gate(env[k] # NoValue, "key-not-found")>>
unsafeAdminExecGates(enabled, justified, t) ==
    <<Gate(enabled, "disabled"), Gate(justified, "invalid-justification")>> \o TokenGates(t)

\* Up to the first await.  The file backend is a copy of the file as it is now.
Begin(c, tool, k, t, gates, blind) ==
    /\ call[c].pc = "new"
    /\ LET code == FirstFailure(gates)
       IN  call' = [call EXCEPT ![c] =
              [pc |-> IF code = "pass" THEN "attempt" ELSE "ended",
               tool |-> tool, key |-> k, token |-> t,
               snap |-> IF blind THEN [j \in Key |-> NoValue] ELSE file, blind |-> blind,
               code |-> code, acted |-> FALSE, after |-> {d \in Call : call[d].acted}]]
    /\ UNCHANGED <<env, file, corrupt, consumedTokens>>

StoreSecret(c, k, t, path, blind) ==
    Begin(c, "store_secret", k, t, storeSecretGates(k, t, path, blind), blind)
ReadSecret(c, k, t) == Begin(c, "read_secret", k, t, readSecretGates(k, t), FALSE)
WriteSecret(c, k, t) == Begin(c, "write_secret", k, t, writeSecretGates(k, t), FALSE)
ListSecrets(c, t) == Begin(c, "list_secrets", NoValue, t, listSecretsGates(t), FALSE)
RotateSecret(c, k, t) == Begin(c, "rotate_secret", k, t, rotateSecretGates(k, t), FALSE)
UnsafeAdminExec(c, enabled, justified, t) ==
    Begin(c, "unsafe_admin_exec", NoValue, t, unsafeAdminExecGates(enabled, justified, t), FALSE)

-----------------------------------------------------------------------------
(* After the attempt is logged: resolveApproval, whose answer is ignored,  *)
(* and the effect.                                                         *)
Attempting(c, tool) == call[c].pc = "attempt" /\ call[c].tool = tool
ConsumeToken(c) == consumedTokens' = consumedTokens \cup ({call[c].token} \cap Issued)
Acted(c, code) == call' = [call EXCEPT ![c].pc = "reporting", ![c].code = code, ![c].acted = TRUE]

\* WritableFileSecretBackend.set writes the whole copy, with the new value.
\* A plausible slip: only the new entry is written.
FileSetOnly(c) == [k \in Key |-> IF k = call[c].key THEN c ELSE NoValue]
FileSet(c) == [call[c].snap EXCEPT ![call[c].key] = c]

StoreEffect(c) ==
    /\ Attempting(c, "store_secret") /\ ConsumeToken(c)
    /\ \/ file' = FileSet(c) /\ corrupt' = FALSE /\ Acted(c, "ok")
       \/ file' = file /\ corrupt' \in {corrupt, TRUE} /\ Acted(c, "write-error")
    /\ UNCHANGED env

EnvRead(c) ==
    /\ Attempting(c, "read_secret") /\ ConsumeToken(c)
    /\ Acted(c, IF env[call[c].key] = NoValue THEN "not-found" ELSE "ok")
    /\ UNCHANGED <<env, file, corrupt>>

EnvWrite(c) ==
    /\ call[c].tool \in {"write_secret", "rotate_secret"} /\ Attempting(c, call[c].tool)
    /\ ConsumeToken(c)
    /\ env' = [env EXCEPT ![call[c].key] = c]
    /\ Acted(c, "ok")
    /\ UNCHANGED <<file, corrupt>>

\* The keys listed are those of the allowlist that the environment has.
EnvList(c) ==
    /\ Attempting(c, "list_secrets") /\ ConsumeToken(c) /\ Acted(c, "ok")
    /\ UNCHANGED <<env, file, corrupt>>

\* execCommand: the shell may fail to start; else its exit code is returned.
Spawn(c) ==
    /\ Attempting(c, "unsafe_admin_exec") /\ ConsumeToken(c)
    /\ \E code \in {"ok", "exec-error"} : Acted(c, code)
    /\ UNCHANGED <<env, file, corrupt>>

\* The entry of the completion is logged and the call returns or throws.
Report(c) ==
    /\ call[c].pc = "reporting"
    /\ call' = [call EXCEPT ![c].pc = "ended"]
    /\ UNCHANGED <<env, file, corrupt, consumedTokens>>

\* The operator answers the request of a token, or it expires: consumed, in
\* each case; a call that has passed its gates does not look again.
Resolve(t) ==
    /\ t \notin consumedTokens
    /\ consumedTokens' = consumedTokens \cup {t}
    /\ UNCHANGED <<env, file, corrupt, call>>

\* get_env_var needs no token and knows no allowlist, only which names are
\* well formed.
GetEnvVar(c, k, wellFormed) ==
    /\ call[c].pc = "new"
    /\ call' = [call EXCEPT ![c].pc = "ended", ![c].tool = "get_env_var", ![c].key = k,
                            ![c].code = FirstFailure(<<Gate(wellFormed, "invalid-name"),
                                                       Gate(env[k] # NoValue, "not-found")>>)]
    /\ UNCHANGED <<env, file, corrupt, consumedTokens>>

TokensGiven == Token \cup {NoValue}
SecretNext ==
    \/ \E c \in Call, t \in TokensGiven :
          \/ \E k \in Key : \/ \E path \in {NoValue, "path"}, blind \in BOOLEAN :
                                  StoreSecret(c, k, t, path, blind)
                            \/ ReadSecret(c, k, t) \/ WriteSecret(c, k, t) \/ RotateSecret(c, k, t)
          \/ ListSecrets(c, t)
          \/ \E enabled, justified \in BOOLEAN : UnsafeAdminExec(c, enabled, justified, t)
    \/ \E c \in Call : \/ StoreEffect(c) \/ EnvRead(c) \/ EnvWrite(c) \/ EnvList(c)
                       \/ Spawn(c) \/ Report(c)
                       \/ \E k \in Key, wellFormed \in BOOLEAN : GetEnvVar(c, k, wellFormed)
    \/ \E t \in Issued : Resolve(t)

SecretSpec == SecretInit /\ [][SecretNext]_secretVars

-----------------------------------------------------------------------------
\* A token the approval manager has issued pays for one effect: a call that
\* begins after another call has acted with the same token does not act.
\* (Two calls that overlap may both pass the check before either consumes the
\* token, and a token the manager never issued is never consumed.)
SerialReplayRefused ==
    \A c \in Call : call[c].acted /\ call[c].token \in Issued =>
        \A d \in call[c].after : call[d].token # call[c].token

\* The credential file keeps what store_secret reported as stored, unless a
\* call that had loaded the file before, or could not load it, has since
\* written its own copy, or the same key was stored again, or a failed write
\* has left no valid file.
StoredSecretKept ==
    \A c \in Call :
        call[c].tool = "store_secret" /\ call[c].acted /\ call[c].code = "ok" =>
            \/ file[call[c].key] = c \/ corrupt
            \/ \E d \in Call \ {c} :
                  /\ call[d].tool = "store_secret" /\ call[d].acted
                  /\ call[d].key = call[c].key \/ c \notin call[d].after \/ call[d].blind
=============================================================================
