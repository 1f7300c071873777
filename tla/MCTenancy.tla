----------------------------- MODULE MCTenancy -----------------------------
(* Tenancy on small instances, started in production and for development,  *)
(* with and without what production refuses.                               *)
EXTENDS Tenancy, TLC

CONSTANTS d1, own, f1

MCHost == Domain \cup {own}

Production ==
  [nodeEnv |-> "production", storage |-> "sqlite", sqliteFile |-> f1,
   databaseUrl |-> Unset, signing |-> "local", signingUrl |-> FALSE,
   registry |-> "env", jwtSecret |-> TRUE, baseUrl |-> own]

Development ==
  [Production EXCEPT !.nodeEnv = "development", !.signing = "fake",
                     !.jwtSecret = FALSE]

(* Production; each single thing it refuses or misses; and development, on *)
(* the same file under the other host with no tenants, and in memory.      *)
MCEnvironments ==
  {Production,
   [Production EXCEPT !.storage = "memory"],
   [Production EXCEPT !.signing = "fake"],
   [Production EXCEPT !.registry = "memory"],
   [Production EXCEPT !.storage = "postgres"],
   [Development EXCEPT !.registry = "memory", !.baseUrl = d1],
   [Development EXCEPT !.storage = "memory"]}

(* Production on SQLite without a file.                                    *)
MCFileless == {[Production EXCEPT !.sqliteFile = InMemory]}

MCSymmetry == UNION {Permutations(S) : S \in {Slug, Tenant, Cli}}
=============================================================================
