----------------------------- MODULE Deployment -----------------------------
(***************************************************************************)
(* The configuration a service is started with (parseConfig of config.ts)  *)
(* and what is built from it (createServices of services/index.ts), as far *)
(* as it decides where lists are kept, under which host the service        *)
(* answers and who is let in.  Every start may have another one.           *)
(***************************************************************************)
EXTENDS ListUrl

CONSTANTS
  File,          \* SQLite files
  Database,      \* Postgres databases, by their URL
  InMemory,      \* what ends with the process: a map, or SQLite's ":memory:"
  Unset,         \* a variable that is not set
  RefusedConfig  \* parseConfig throws

ASSUME StoreAssumption ==
  InMemory \notin File \cup Database /\ Unset \notin Database

(* What outlives the process.                                              *)
Durable == File \cup Database

Store == Durable \cup {InMemory}

(* The variables that matter.  NODE_ENV=test counts as development;        *)
(* SQLITE_FILE that is not set is a file, the default one; PUBLIC_BASE_URL *)
(* is the host it names.                                                   *)
Environment ==
  [nodeEnv : {"development", "production"},
   storage : {"memory", "sqlite", "postgres"},
   sqliteFile : File \cup {InMemory}, databaseUrl : Database \cup {Unset},
   signing : {"fake", "local", "http"}, signingUrl : BOOLEAN,
   registry : {"memory", "env"}, jwtSecret : BOOLEAN, baseUrl : Host]

(* What they amount to: where lists are kept, the host all tenants share,  *)
(* where tenants come from and whether access tokens count.                *)
Config ==
  [production : BOOLEAN, store : Store, own : Host,
   registry : {"memory", "env"}, accessTokens : BOOLEAN]

(* A mode whose URL is missing.                                            *)
Incomplete(env) ==
  \/ env.storage = "postgres" /\ env.databaseUrl = Unset
  \/ env.signing = "http" /\ ~env.signingUrl

(* What is refused in production: three modes, whatever the other          *)
(* variables say.                                                          *)
Unsafe(env) ==
  /\ env.nodeEnv = "production"
  /\ \/ env.signing = "fake"
     \/ env.storage = "memory"
     \/ env.registry = "memory"

(* createStorage: the backend of a mode.                                   *)
StoreOf(env) ==
  CASE env.storage = "memory"   -> InMemory
    [] env.storage = "sqlite"   -> env.sqliteFile
    [] env.storage = "postgres" -> env.databaseUrl

ParseConfig(env) ==
  IF Incomplete(env) \/ Unsafe(env) THEN RefusedConfig
  ELSE [production |-> env.nodeEnv = "production",
        store |-> StoreOf(env), own |-> env.baseUrl,
        registry |-> env.registry, accessTokens |-> env.jwtSecret]
=============================================================================
