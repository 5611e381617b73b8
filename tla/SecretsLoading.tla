---------------------------- MODULE SecretsLoading ----------------------------
(***************************************************************************)
(* shared/src/secrets.ts loadSecrets(), which every service calls before   *)
(* it reads its configuration: the backend's values are merged under the   *)
(* ambient ones, then each <NAME>_FILE pointer is followed.  One secret is *)
(* modelled, and SECRETS_ENV_FILE, the path of the dotenv file, whose name *)
(* is that of a pointer as well.  A value that is "" is unset or blank.    *)
(***************************************************************************)
EXTENDS Integers

CONSTANTS MaxLoads  \* bound: loadSecrets calls of one process

VARIABLES environ,   \* name -> value, process.env
          ambient,   \* what the process was started with
          disk,      \* path -> the file's content, or Missing
          options,   \* SECRETS_BACKEND and SECRETS_ENV_FILE_REQUIRED
          call,      \* where the call is, and the pointers it has not looked at
          summary    \* the names the call applied, overrode, read from files

secretsVars == <<environ, ambient, disk, options, call, summary>>

Pointed == {"KEY", "SECRETS_ENV"}
PointerOf(name) == IF name = "KEY" THEN "KEY_FILE" ELSE "SECRETS_ENV_FILE"
EnvNames == Pointed \cup {PointerOf(n) : n \in Pointed}
Missing == "missing"

\* The dotenv file may set the secret or its pointer, or name neither.
Dotenvs == {[n \in EnvNames |-> ""],
            [n \in EnvNames |-> IF n = "KEY" THEN "from dotenv" ELSE ""],
            [n \in EnvNames |-> IF n = "KEY_FILE" THEN "secret" ELSE ""]}
NoReport == [applied |-> {}, overridden |-> {}, fromFiles |-> {}]

SecretsInit ==
    /\ ambient \in {e \in [EnvNames -> {"", "ambient", "secret", "dotenv"}] :
            /\ e["KEY"] \in {"", "ambient"} /\ e["KEY_FILE"] \in {"", "secret"}
            /\ e["SECRETS_ENV"] = "" /\ e["SECRETS_ENV_FILE"] \in {"", "dotenv"}}
    /\ environ = ambient
    /\ disk \in [secret : {TRUE, FALSE}, dotenv : {TRUE, FALSE}, lines : Dotenvs]
    /\ options \in [backend : {"env", "env-file", "vault", "envfile"}, required : BOOLEAN]
    /\ call = [at |-> "begin", todo |-> {}, number |-> 1] /\ summary = NoReport

Throw(error) == call' = [call EXCEPT !.at = error]

\* parseSecretsBackend and the backend's load(): a typo, the placeholder and a
\* missing file that is required stop the process.
BackendFails ==
    /\ call.at = "begin"
    /\ \/ options.backend = "envfile" /\ Throw("unknown backend")
       \/ options.backend = "vault" /\ Throw("not implemented")
       \/ options.backend = "env-file" /\ ~disk.dotenv /\ options.required /\ Throw("no env file")
    /\ UNCHANGED <<environ, ambient, disk, options, summary>>

\* What the backend supplies: AmbientSecretsBackend and EnvFileSecretsBackend.
Supplied == IF options.backend = "env-file" /\ disk.dotenv
            THEN {n \in EnvNames : disk.lines[n] # ""} ELSE {}

\* A slip: the file's values replace the ambient ones.
Applies_All(name) == TRUE
Applies(name) == environ[name] = ""

\* Ambient wins; the pointers are those of the merged environment.
Merge ==
    LET new == {n \in Supplied : Applies(n)}
        merged == [n \in EnvNames |-> IF n \in new THEN disk.lines[n] ELSE environ[n]]
    IN  /\ call.at = "begin" /\ options.backend \in {"env", "env-file"}
        /\ ~(options.backend = "env-file" /\ ~disk.dotenv /\ options.required)
        /\ environ' = merged
        /\ summary' = [NoReport EXCEPT !.applied = new, !.overridden = Supplied \ new]
        /\ call' = [call EXCEPT !.at = "resolving", !.todo = {n \in Pointed : merged[PointerOf(n)] # ""}]
        /\ UNCHANGED <<ambient, disk, options>>

ContentOf(path) == IF path = "secret" THEN (IF disk.secret THEN "from disk" ELSE Missing)
                   ELSE IF disk.dotenv THEN "the dotenv text" ELSE Missing

\* A slip: a name that has a value is skipped.
Conflicts_Never(name) == FALSE
Conflicts(name) == environ[name] # ""

\* resolveFileIndirection, one pointer; SECRETS_ENV_FILE is followed like any.
Follow(name) ==
    LET content == ContentOf(environ[PointerOf(name)])
    IN  /\ call.at = "resolving" /\ name \in call.todo
        /\ IF Conflicts(name)
           THEN Throw("conflict") /\ UNCHANGED <<environ, summary>>
           ELSE IF content = Missing
           THEN Throw("no pointed file") /\ UNCHANGED <<environ, summary>>
           ELSE /\ environ' = [environ EXCEPT ![name] = IF @ = "" THEN content ELSE @]
                /\ summary' = [summary EXCEPT !.fromFiles = @ \cup {name}]
                /\ call' = [call EXCEPT !.todo = @ \ {name}]
        /\ UNCHANGED <<ambient, disk, options>>

Loaded == /\ call.at = "resolving" /\ call.todo = {}
          /\ call' = [call EXCEPT !.at = "loaded"]
          /\ UNCHANGED <<environ, ambient, disk, options, summary>>

LoadAgain == /\ call.at = "loaded" /\ call.number < MaxLoads
             /\ call' = [at |-> "begin", todo |-> {}, number |-> call.number + 1]
             /\ summary' = NoReport
             /\ UNCHANGED <<environ, ambient, disk, options>>

\* An operator fixes the files, and the orchestrator starts the process again.
StartAgain == /\ call.at \notin {"begin", "resolving"}
              /\ environ' = ambient
              /\ \E there \in BOOLEAN, env \in BOOLEAN :
                     disk' = [disk EXCEPT !.secret = there, !.dotenv = env]
              /\ call' = [at |-> "begin", todo |-> {}, number |-> 1] /\ summary' = NoReport
              /\ UNCHANGED <<ambient, options>>

SecretsNext == \/ BackendFails \/ Merge \/ Loaded \/ LoadAgain \/ StartAgain
               \/ \E name \in Pointed : Follow(name)

SecretsSpec == SecretsInit /\ [][SecretsNext]_secretsVars

-----------------------------------------------------------------------------
\* Whatever the dotenv file and the pointers say, and also when a load fails
\* half-way, no value the process was started with is changed.
AmbientWins == \A n \in EnvNames : ambient[n] # "" => environ[n] = ambient[n]

\* A service never starts with a pointer that was not followed: the secret it
\* then uses is the content of the file the pointer names.
PointersAreFollowed ==
    call.at = "loaded" => \A n \in Pointed :
        environ[PointerOf(n)] # "" => environ[n] = ContentOf(environ[PointerOf(n)])
=============================================================================
