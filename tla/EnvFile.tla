------------------------------ MODULE EnvFile ------------------------------
(***************************************************************************)
(* The env file that is the tenant registry: what a block of it sets       *)
(* (renderEnvBlock of cli/provisioning.ts), what the service reads back    *)
(* (services/tenants-env.ts) and which registries it refuses to start with *)
(* (MemoryTenantRegistry.add).  Secrets are named by the run of the        *)
(* provisioning tool that generated them.                                  *)
(*                                                                         *)
(* The loader between the file and the service is dotenvx: a variable that *)
(* is set twice has the value it was given last.                           *)
(***************************************************************************)
EXTENDS SequencesExt

CONSTANTS
  Tenant,
  Cli,      \* runs of the provisioning tool
  Domain,   \* the domains tenants may hold
  None,
  Refused   \* the service does not start

ASSUME NoneAssumption == None \notin Cli

(* The two profiles, by their key material: an ed25519 seed or a P-256     *)
(* key pair.                                                               *)
Profile == {"seed", "pair"}

(* One block: the tenant's token and key, both generated by one run, and   *)
(* the domains it was given.                                               *)
Block ==
  [tenant : Tenant, made : Cli, profile : Profile, domains : SUBSET Domain]

(* What the registry holds of a tenant.                                    *)
TenantRecord ==
  [token : Cli, suite : Profile, key : [kind : Profile, made : Cli],
   domains : SUBSET Domain]

(* A refusal is no key and no registry, and an absent tenant is none that  *)
(* was parsed.                                                             *)
ASSUME RefusedAssumption ==
  /\ Refused \notin [kind : Profile, made : Cli]
  /\ Refused \notin [Tenant -> TenantRecord \cup {None}]
  /\ None \notin [token : Cli, suite : Profile,
                  key : [kind : Profile, made : Cli] \cup {Refused},
                  domains : SUBSET Domain]

HasTenant(file, t) == \E i \in DOMAIN file : file[i].tenant = t

(* The variables of a tenant that is in the file.  Every block sets the    *)
(* token and the suite; only some set the domains, the seed or the pair.   *)
Variables(file, t) ==
  LET Mine == {i \in DOMAIN file : file[i].tenant = t}
      Naming == {i \in Mine : file[i].domains # {}}
      Keys(kind) == {i \in Mine : file[i].profile = kind}
  IN [token   |-> file[Max(Mine)].made,
      suite   |-> file[Max(Mine)].profile,
      domains |-> IF Naming = {} THEN {} ELSE file[Max(Naming)].domains,
      keys    |-> [kind \in Profile |->
                     IF Keys(kind) = {} THEN None
                     ELSE file[Max(Keys(kind))].made]]

(* parseKeyMaterial: the variables of a seed and of a pair exclude each    *)
(* other.                                                                  *)
(* Mutant: a seed wins.  Mutant: neither counts.                           *)
KeyMaterialPrefersSeed(v) ==
  LET kind == IF v.keys["seed"] # None THEN "seed" ELSE "pair"
  IN [kind |-> kind, made |-> v.keys[kind]]

KeyMaterialOrNothing(v) ==
  IF \A kind \in Profile : v.keys[kind] # None THEN None
  ELSE [kind |-> v.suite, made |-> v.keys[v.suite]]

KeyMaterial(v) ==
  IF \A kind \in Profile : v.keys[kind] # None THEN Refused
  ELSE [kind |-> v.suite, made |-> v.keys[v.suite]]

ParseTenant(file, t) ==
  LET v == Variables(file, t) IN
  [token |-> v.token, suite |-> v.suite, key |-> KeyMaterial(v),
   domains |-> v.domains]

(* add: no two tenants of a registry share a token.                        *)
(* Mutant: the later tenant takes it.                                      *)
CollidesNever(registry) == FALSE

Collides(registry) ==
  \E t, u \in Tenant :
     /\ t # u /\ registry[t] # None /\ registry[u] # None
     /\ registry[t].token = registry[u].token

(* parseTenantsFromEnv and the registry built from it: the tenants of the  *)
(* file, or no service.                                                    *)
LoadTenants(file) ==
  LET registry == [t \in Tenant |->
                     IF HasTenant(file, t) THEN ParseTenant(file, t) ELSE None]
  IN IF \/ \E t \in Tenant : registry[t] # None /\ registry[t].key = Refused
        \/ Collides(registry)
     THEN Refused
     ELSE registry

-----------------------------------------------------------------------------
(* The file as an operator reads it, block by block.                       *)

(* The last block of a tenant that is in the file, and the domains of its  *)
(* last block that names any.                                              *)
Latest(file, t) == file[Max({i \in DOMAIN file : file[i].tenant = t})]

NamedLast(file, t) ==
  LET Naming == {i \in DOMAIN file :
                   file[i].tenant = t /\ file[i].domains # {}}
  IN IF Naming = {} THEN {} ELSE file[Max(Naming)].domains

(* A tenant whose blocks are of both profiles.                             *)
MixesProfiles(file, t) ==
  \E i, j \in DOMAIN file :
     /\ file[i].tenant = t /\ file[j].tenant = t
     /\ file[i].profile # file[j].profile

(* Two tenants whose last blocks have one token.                           *)
SharesToken(file, t, u) ==
  /\ t # u /\ HasTenant(file, t) /\ HasTenant(file, u)
  /\ Latest(file, t).made = Latest(file, u).made
=============================================================================
