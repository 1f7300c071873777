--------------------------- MODULE TenancyProofs ---------------------------
(***************************************************************************)
(* What Tenancy guarantees for any tenants, domains, slugs, environments   *)
(* and runs of the provisioning tool, and an env file of any length.       *)
(*                                                                         *)
(* IInv is TypeOK, that a run has the block it is going to write (CliRuns),*)
(* that a service with a refused configuration does not run (ConfigState), *)
(* that each list is stored under the slug of its URL (ListsState) and     *)
(* every list a create in a file or a database made is in it still         *)
(* (CreatedState), and TenantsAreCoherent.                                 *)
(***************************************************************************)
EXTENDS Tenancy, WellFoundedInduction, TLAPS

ConfigState == config = RefusedConfig => registry = Down

(* A run has a block until it has written it.                              *)
CliRuns ==
  \A c \in Cli :
     cli[c].phase \in {"creating", "appending"} => cli[c].block \in Block

ListsState ==
  \A store \in Store, s \in Slug :
     stored[store][s] # None => SlugFromListUrl(stored[store][s].url) = s

CreatedState ==
  \A c \in created :
     /\ SlugFromListUrl(c.url) # NoSlug
     /\ stored[c.store][SlugFromListUrl(c.url)]
          = [tenant |-> c.tenant, url |-> c.url]

IInv ==
  /\ TypeOK /\ CliRuns /\ ConfigState
  /\ ListsState /\ CreatedState /\ TenantsAreCoherent

-----------------------------------------------------------------------------
(* The env file.                                                           *)

(* The last of some lines of a file is one of them, and after the others.  *)
LEMMA MaxIsMember ==
  ASSUME NEW n \in Nat, NEW I \in SUBSET (1..n), I # {}
  PROVE  Max(I) \in I /\ \A j \in I : Max(I) >= j
  <1> DEFINE T == {n - i : i \in I}
  <1>1. T \subseteq Nat /\ T # {}
    <2>1. \A i \in I : i \in Int /\ n - i \in Nat
      OBVIOUS
    <2>2. T \subseteq Nat
      BY <2>1
    <2>3. PICK i \in I : TRUE
      OBVIOUS
    <2>4. n - i \in T
      BY <2>3
    <2> QED
      BY <2>2, <2>4
  <1>2. PICK x \in T : \A y \in T : ~(<<y, x>> \in OpToRel(<, Nat))
    BY <1>1, NatLessThanWellFounded, WFMin
  <1>3. \A y \in T : ~(y < x)
    BY <1>1, <1>2 DEF OpToRel
  <1>4. PICK i \in I : x = n - i
    BY <1>2
  <1>5. \A j \in I : i >= j
    <2> SUFFICES ASSUME NEW j \in I PROVE i >= j
      OBVIOUS
    <2>1. n - j \in T
      OBVIOUS
    <2>2. ~(n - j < n - i)
      BY <1>3, <1>4, <2>1
    <2> QED
      BY <2>2
  <1> QED
    BY <1>4, <1>5 DEF Max

LEMMA BlocksType ==
  ASSUME TypeOK
  PROVE  Blocks \in Seq(Block)
  BY DEF TypeOK, ProvisioningTypeOK, Blocks

(* The variables of a tenant of the file.                                  *)
LEMMA VariablesFacts ==
  ASSUME NEW f \in Seq(Block), NEW t \in Tenant, HasTenant(f, t)
  PROVE  /\ Variables(f, t).token \in Cli
         /\ Variables(f, t).suite \in Profile
         /\ Variables(f, t).domains \in SUBSET Domain
         /\ Variables(f, t).keys \in [Profile -> Cli \cup {None}]
         /\ (\E kind \in Profile : Variables(f, t).keys[kind] = None) =>
              Variables(f, t).keys[Variables(f, t).suite]
                = Variables(f, t).token
  <1> DEFINE Mine == {i \in DOMAIN f : f[i].tenant = t}
             Naming == {i \in Mine : f[i].domains # {}}
             Keys(kind) == {i \in Mine : f[i].profile = kind}
             v == Variables(f, t)
  <1>1. /\ Len(f) \in Nat /\ DOMAIN f = 1..Len(f)
        /\ \A i \in DOMAIN f : f[i] \in Block
    OBVIOUS
  <1>2. Mine # {} /\ Mine \in SUBSET (1..Len(f))
    BY <1>1 DEF HasTenant
  <1>3. /\ v.token = f[Max(Mine)].made
        /\ v.suite = f[Max(Mine)].profile
        /\ v.domains = IF Naming = {} THEN {} ELSE f[Max(Naming)].domains
        /\ v.keys = [kind \in Profile |->
                       IF Keys(kind) = {} THEN None ELSE f[Max(Keys(kind))].made]
    BY DEF Variables
  <1>4. Max(Mine) \in Mine /\ f[Max(Mine)] \in Block
    BY <1>1, <1>2, MaxIsMember
  <1>5. ASSUME Naming # {} PROVE f[Max(Naming)] \in Block
    <2>1. Naming \in SUBSET (1..Len(f))
      BY <1>2
    <2>2. Max(Naming) \in Naming
      BY <1>1, <1>5, <2>1, MaxIsMember
    <2> QED
      BY <1>1, <2>2
  <1>6. ASSUME NEW kind \in Profile, Keys(kind) # {}
        PROVE  f[Max(Keys(kind))] \in Block
    <2>1. Keys(kind) \in SUBSET (1..Len(f))
      BY <1>2
    <2>2. Max(Keys(kind)) \in Keys(kind)
      BY <1>1, <1>6, <2>1, MaxIsMember
    <2> QED
      BY <1>1, <2>2
  <1> HIDE DEF Mine, Naming, Keys, v
  <1>7. v.token \in Cli /\ v.suite \in Profile
    BY <1>3, <1>4 DEF Block
  <1>8. v.domains \in SUBSET Domain
    BY <1>3, <1>5 DEF Block
  <1>9. v.keys \in [Profile -> Cli \cup {None}]
    <2>1. \A kind \in Profile :
             Keys(kind) # {} => f[Max(Keys(kind))].made \in Cli
      BY <1>6 DEF Block
    <2> QED
      BY <1>3, <2>1
  <1>10. ASSUME NEW kind \in Profile, v.keys[kind] = None
         PROVE  v.keys[v.suite] = v.token
    <2>1. Keys(kind) = {}
      <3> SUFFICES ASSUME Keys(kind) # {} PROVE FALSE
        OBVIOUS
      <3>1. v.keys[kind] = f[Max(Keys(kind))].made
        BY <1>3
      <3>2. v.keys[kind] \in Cli
        BY <1>6, <3>1 DEF Block
      <3> QED
        BY <1>10, <3>2, NoneAssumption
    <2>2. \A i \in Mine : f[i].profile \in Profile /\ f[i].profile # kind
      BY <1>1, <1>2, <2>1 DEF Keys, Block
    <2>3. v.suite \in Profile /\ v.suite # kind
      BY <1>3, <1>4, <2>2
    <2>4. \A i \in Mine : f[i].profile = v.suite
      BY <2>2, <2>3 DEF Profile
    <2>5. Keys(v.suite) = Mine
      BY <2>4 DEF Keys
    <2>6. v.keys[v.suite] = f[Max(Keys(v.suite))].made
      BY <1>2, <1>3, <2>3, <2>5
    <2> QED
      BY <1>3, <2>5, <2>6
  <1> QED
    BY <1>7, <1>8, <1>9, <1>10 DEF v

LEMMA LatestIsMine ==
  ASSUME NEW f \in Seq(Block), NEW t \in Tenant, HasTenant(f, t)
  PROVE  \E i \in DOMAIN f : f[i].tenant = t /\ Latest(f, t) = f[i]
  <1> DEFINE Mine == {i \in DOMAIN f : f[i].tenant = t}
  <1>1. Len(f) \in Nat /\ Mine # {} /\ Mine \in SUBSET (1..Len(f))
    BY DEF HasTenant
  <1>2. Max(Mine) \in Mine
    BY <1>1, MaxIsMember
  <1> QED
    BY <1>2 DEF Latest

(* The variables that the last block sets have its values; those of a seed *)
(* and of a pair are both set if an earlier block has another profile.     *)
LEMMA LatestFacts ==
  ASSUME NEW f \in Seq(Block), NEW t \in Tenant, HasTenant(f, t)
  PROVE  /\ Latest(f, t) \in Block
         /\ Variables(f, t).token = Latest(f, t).made
         /\ Variables(f, t).suite = Latest(f, t).profile
         /\ Variables(f, t).domains = NamedLast(f, t)
         /\ (\A kind \in Profile : Variables(f, t).keys[kind] # None)
              <=> MixesProfiles(f, t)
  <1> DEFINE Mine == {i \in DOMAIN f : f[i].tenant = t}
             Naming == {i \in Mine : f[i].domains # {}}
             Keys(kind) == {i \in Mine : f[i].profile = kind}
             v == Variables(f, t)
  <1>1. /\ Len(f) \in Nat /\ DOMAIN f = 1..Len(f)
        /\ \A i \in DOMAIN f : f[i] \in Block
    OBVIOUS
  <1>2. Mine # {} /\ Mine \in SUBSET (1..Len(f))
    BY <1>1 DEF HasTenant
  <1>3. /\ v.token = f[Max(Mine)].made
        /\ v.suite = f[Max(Mine)].profile
        /\ v.domains = IF Naming = {} THEN {} ELSE f[Max(Naming)].domains
        /\ v.keys = [kind \in Profile |->
                       IF Keys(kind) = {} THEN None ELSE f[Max(Keys(kind))].made]
        /\ Latest(f, t) = f[Max(Mine)]
    BY DEF Variables, Latest
  <1>4. Max(Mine) \in Mine /\ \A j \in Mine : Max(Mine) >= j
    BY <1>1, <1>2, MaxIsMember
  <1>5. Latest(f, t) \in Block
    BY <1>1, <1>3, <1>4
  <1>6. v.domains = NamedLast(f, t)
    <2>1. Naming = {i \in DOMAIN f : f[i].tenant = t /\ f[i].domains # {}}
      OBVIOUS
    <2> HIDE DEF Naming, Mine
    <2> QED
      BY <1>3, <2>1 DEF NamedLast
  <1>7. ASSUME NEW kind \in Profile
        PROVE  v.keys[kind] # None <=> Keys(kind) # {}
    <2>1. ASSUME Keys(kind) # {} PROVE f[Max(Keys(kind))].made \in Cli
      <3>1. Keys(kind) \in SUBSET (1..Len(f))
        BY <1>2
      <3>2. Max(Keys(kind)) \in Keys(kind)
        BY <1>1, <2>1, <3>1, MaxIsMember
      <3>3. f[Max(Keys(kind))] \in Block
        BY <1>1, <3>2
      <3> QED
        BY <3>3 DEF Block
    <2> HIDE DEF Keys, v
    <2> QED
      BY <1>3, <2>1, NoneAssumption
  <1>8. (\A kind \in Profile : Keys(kind) # {}) <=> MixesProfiles(f, t)
    <2>1. ASSUME \A kind \in Profile : Keys(kind) # {}
          PROVE  MixesProfiles(f, t)
      <3>1. "seed" \in Profile /\ "pair" \in Profile
        BY DEF Profile
      <3>2. PICK i \in Keys("seed"), j \in Keys("pair") : TRUE
        BY <2>1, <3>1
      <3> QED
        BY <3>2 DEF MixesProfiles
    <2>2. ASSUME MixesProfiles(f, t), NEW kind \in Profile
          PROVE  Keys(kind) # {}
      <3>1. PICK i, j \in DOMAIN f :
              f[i].tenant = t /\ f[j].tenant = t /\ f[i].profile # f[j].profile
        BY <2>2 DEF MixesProfiles
      <3>2. f[i].profile \in Profile /\ f[j].profile \in Profile
        BY <1>1, <3>1 DEF Block
      <3>3. f[i].profile = kind \/ f[j].profile = kind
        BY <2>2, <3>1, <3>2 DEF Profile
      <3>4. i \in Keys(kind) \/ j \in Keys(kind)
        BY <3>1, <3>3
      <3> QED
        BY <3>4
    <2> QED
      BY <2>1, <2>2
  <1> HIDE DEF Mine, Naming, Keys
  <1> QED
    BY <1>3, <1>5, <1>6, <1>7, <1>8

(* What is read of a tenant: of its last block, or nothing.                *)
LEMMA ParsedFacts ==
  ASSUME NEW f \in Seq(Block), NEW t \in Tenant, HasTenant(f, t)
  PROVE  /\ ParseTenant(f, t) # None
         /\ ParseTenant(f, t).token = Latest(f, t).made
         /\ ParseTenant(f, t).suite = Latest(f, t).profile
         /\ ParseTenant(f, t).domains = NamedLast(f, t)
         /\ (ParseTenant(f, t).key = Refused) <=> MixesProfiles(f, t)
         /\ ~MixesProfiles(f, t) =>
              /\ ParseTenant(f, t) \in TenantRecord
              /\ ParseTenant(f, t).key
                   = [kind |-> Latest(f, t).profile, made |-> Latest(f, t).made]
  <1> DEFINE v == Variables(f, t)
  <1>1. ParseTenant(f, t) =
          [token |-> v.token, suite |-> v.suite, key |-> KeyMaterial(v),
           domains |-> v.domains]
    BY DEF ParseTenant
  <1>2. v.token \in Cli /\ v.suite \in Profile /\ v.domains \in SUBSET Domain
    BY VariablesFacts
  <1>3. /\ v.token = Latest(f, t).made /\ v.suite = Latest(f, t).profile
        /\ v.domains = NamedLast(f, t)
    BY LatestFacts
  <1>4. ASSUME MixesProfiles(f, t) PROVE KeyMaterial(v) = Refused
    BY <1>4, LatestFacts DEF KeyMaterial
  <1>5. ASSUME ~MixesProfiles(f, t)
        PROVE  KeyMaterial(v) = [kind |-> v.suite, made |-> v.token]
    <2>1. \E kind \in Profile : v.keys[kind] = None
      BY <1>5, LatestFacts
    <2>2. v.keys[v.suite] = v.token
      BY <2>1, VariablesFacts
    <2> QED
      BY <2>1, <2>2 DEF KeyMaterial
  <1> HIDE DEF v
  <1>6. ASSUME ~MixesProfiles(f, t)
        PROVE  KeyMaterial(v) \in [kind : Profile, made : Cli]
    BY <1>2, <1>5, <1>6
  <1>7. ParseTenant(f, t) # None
    <2>1. KeyMaterial(v) \in [kind : Profile, made : Cli] \cup {Refused}
      BY <1>4, <1>6
    <2> QED
      BY <1>1, <1>2, <2>1, RefusedAssumption
  <1>8. ASSUME ~MixesProfiles(f, t) PROVE ParseTenant(f, t) \in TenantRecord
    BY <1>1, <1>2, <1>6, <1>8 DEF TenantRecord
  <1>9. (KeyMaterial(v) = Refused) <=> MixesProfiles(f, t)
    BY <1>4, <1>6, RefusedAssumption
  <1> QED
    BY <1>1, <1>3, <1>5, <1>7, <1>8, <1>9

(* Which files the service refuses to start with, and what it reads of the *)
(* others.                                                                 *)
LEMMA LoadFacts ==
  ASSUME NEW f \in Seq(Block)
  PROVE  /\ LoadTenants(f) = Refused
              <=> \/ \E t \in Tenant : MixesProfiles(f, t)
                  \/ \E t, u \in Tenant : SharesToken(f, t, u)
         /\ LoadTenants(f) # Refused =>
              \A t \in Tenant :
                 LoadTenants(f)[t] =
                   IF HasTenant(f, t) THEN ParseTenant(f, t) ELSE None
  <1> DEFINE reg == [t \in Tenant |->
                      IF HasTenant(f, t) THEN ParseTenant(f, t) ELSE None]
             Refuses == \/ \E t \in Tenant : reg[t] # None /\ reg[t].key = Refused
                        \/ Collides(reg)
  <1>1. LoadTenants(f) = IF Refuses THEN Refused ELSE reg
    BY DEF LoadTenants
  <1>2. \A t \in Tenant : MixesProfiles(f, t) => HasTenant(f, t)
    BY DEF MixesProfiles, HasTenant
  <1>3. \A t \in Tenant :
          (reg[t] # None /\ reg[t].key = Refused) <=> MixesProfiles(f, t)
    BY <1>2, ParsedFacts
  <1>4. \A t, u \in Tenant :
          (t # u /\ reg[t] # None /\ reg[u] # None /\ reg[t].token = reg[u].token)
            <=> SharesToken(f, t, u)
    BY ParsedFacts DEF SharesToken
  <1>5. Refuses <=> \/ \E t \in Tenant : MixesProfiles(f, t)
                    \/ \E t, u \in Tenant : SharesToken(f, t, u)
    BY <1>3, <1>4 DEF Collides
  <1>6. ASSUME ~Refuses PROVE reg # Refused
    <2>1. \A t \in Tenant : reg[t] \in TenantRecord \cup {None}
      BY <1>2, <1>3, <1>6, ParsedFacts
    <2>2. reg = [t \in Tenant |-> reg[t]]
      OBVIOUS
    <2> HIDE DEF reg
    <2>3. reg \in [Tenant -> TenantRecord \cup {None}]
      BY <2>1, <2>2
    <2> QED
      BY <2>3, RefusedAssumption
  <1>7. \A t \in Tenant :
          reg[t] = IF HasTenant(f, t) THEN ParseTenant(f, t) ELSE None
    OBVIOUS
  <1> HIDE DEF reg, Refuses
  <1> QED
    BY <1>1, <1>5, <1>6, <1>7

(* A registry that is not refused is coherent.                             *)
LEMMA LoadedIsCoherent ==
  ASSUME NEW f \in Seq(Block), LoadTenants(f) # Refused
  PROVE  /\ LoadTenants(f) \in [Tenant -> TenantRecord \cup {None}]
         /\ \A t \in Tenant :
              LoadTenants(f)[t] # None =>
                /\ LoadTenants(f)[t].key
                     = [kind |-> LoadTenants(f)[t].suite,
                        made |-> LoadTenants(f)[t].token]
                /\ \A u \in Tenant \ {t} :
                     LoadTenants(f)[u] # None =>
                       LoadTenants(f)[t].token # LoadTenants(f)[u].token
  <1> DEFINE reg == [t \in Tenant |->
                      IF HasTenant(f, t) THEN ParseTenant(f, t) ELSE None]
  <1>1. /\ LoadTenants(f) = reg
        /\ \A t \in Tenant : reg[t] = None \/ reg[t].key # Refused
        /\ ~Collides(reg)
    BY DEF LoadTenants
  <1>2. ASSUME NEW t \in Tenant, reg[t] # None
        PROVE  /\ reg[t] \in TenantRecord
               /\ reg[t].key = [kind |-> reg[t].suite, made |-> reg[t].token]
    <2>1. HasTenant(f, t) /\ reg[t] = ParseTenant(f, t)
      BY <1>2
    <2>2. /\ reg[t].token = Variables(f, t).token
          /\ reg[t].suite = Variables(f, t).suite
          /\ reg[t].key = KeyMaterial(Variables(f, t))
          /\ reg[t] = [token |-> Variables(f, t).token,
                       suite |-> Variables(f, t).suite,
                       key |-> KeyMaterial(Variables(f, t)),
                       domains |-> Variables(f, t).domains]
      BY <2>1 DEF ParseTenant
    <2>3. KeyMaterial(Variables(f, t)) # Refused
      BY <1>1, <1>2, <2>2
    <2>4. /\ \E kind \in Profile : Variables(f, t).keys[kind] = None
          /\ KeyMaterial(Variables(f, t))
               = [kind |-> Variables(f, t).suite,
                  made |-> Variables(f, t).keys[Variables(f, t).suite]]
      BY <2>3 DEF KeyMaterial
    <2>5. KeyMaterial(Variables(f, t))
            = [kind |-> reg[t].suite, made |-> reg[t].token]
      BY <2>1, <2>2, <2>4, VariablesFacts
    <2>6. /\ Variables(f, t).token \in Cli
          /\ Variables(f, t).suite \in Profile
          /\ Variables(f, t).domains \in SUBSET Domain
      BY <2>1, VariablesFacts
    <2> HIDE DEF reg
    <2>7. reg[t] \in TenantRecord
      BY <2>2, <2>5, <2>6 DEF TenantRecord
    <2> QED
      BY <2>2, <2>5, <2>7
  <1>3. reg = [t \in Tenant |-> reg[t]]
    OBVIOUS
  <1> HIDE DEF reg
  <1>4. \A t, u \in Tenant :
          t # u /\ reg[t] # None /\ reg[u] # None => reg[t].token # reg[u].token
    BY <1>1 DEF Collides
  <1>5. reg \in [Tenant -> TenantRecord \cup {None}]
    BY <1>2, <1>3
  <1> QED
    BY <1>1, <1>2, <1>4, <1>5

(* What parseConfig accepts.                                               *)
LEMMA ParseConfigFacts ==
  ASSUME NEW env \in Environment, ParseConfig(env) # RefusedConfig
  PROVE  ParseConfig(env) \in Config
  <1>1. ~Incomplete(env)
    BY DEF ParseConfig
  <1>2. StoreOf(env) \in Store
    <2>1. /\ env.sqliteFile \in File \cup {InMemory}
          /\ env.storage = "postgres" => env.databaseUrl \in Database
      BY <1>1 DEF Incomplete, Environment
    <2>2. env.storage \in {"memory", "sqlite", "postgres"}
      BY DEF Environment
    <2>3. CASE env.storage = "memory"
      BY <2>3 DEF StoreOf, Store
    <2>4. CASE env.storage = "sqlite"
      BY <2>1, <2>4 DEF StoreOf, Store, Durable
    <2>5. CASE env.storage = "postgres"
      BY <2>1, <2>5 DEF StoreOf, Store, Durable
    <2> QED
      BY <2>2, <2>3, <2>4, <2>5
  <1>3. /\ env.baseUrl \in Host /\ env.jwtSecret \in BOOLEAN
        /\ env.registry \in {"memory", "env"}
    BY DEF Environment
  <1>4. ParseConfig(env) =
          [production |-> env.nodeEnv = "production",
           store |-> StoreOf(env), own |-> env.baseUrl,
           registry |-> env.registry, accessTokens |-> env.jwtSecret]
    BY DEF ParseConfig
  <1> QED
    BY <1>2, <1>3, <1>4 DEF Config

-----------------------------------------------------------------------------
(* The invariant.                                                          *)
LEMMA InitialState == Init => IInv
  <1> SUFFICES ASSUME Init PROVE IInv
    OBVIOUS
  <1>1. ProvisioningTypeOK
    BY DEF Init, ProvisioningInit, ProvisioningTypeOK, CliState, CliPhase
  <1>2. NoLists \in [Slug -> ListRecord \cup {None}]
    BY DEF NoLists
  <1>3. TypeOK
    BY <1>1, <1>2 DEF Init, TypeOK
  <1>4. ListsState
    BY DEF Init, ListsState, NoLists
  <1>5. ConfigState /\ CreatedState /\ TenantsAreCoherent /\ CliRuns
    BY DEF Init, ConfigState, CreatedState, TenantsAreCoherent, CliRuns,
           ProvisioningInit
  <1> QED
    BY <1>3, <1>4, <1>5 DEF IInv

(* A run that reads the file goes to a state with a block, or fails.       *)
LEMMA ReadFileStep ==
  ASSUME NEW c \in Cli, ReadFile(c)
  PROVE  \E state \in CliState :
           /\ cli' = [cli EXCEPT ![c] = state]
           /\ state.phase \in {"creating", "appending", "failed"}
           /\ state.phase # "failed" => state.block \in Block
  <1>1. PICK b \in {b \in Block : b.made = c}, force \in BOOLEAN,
             readable \in BOOLEAN :
          LET phase == IF file = Missing \/ ~readable THEN "creating"
                       ELSE IF HasTenant(file, b.tenant) /\ ~force THEN "failed"
                       ELSE "appending"
          IN cli' = [cli EXCEPT ![c] =
                       [phase |-> phase, force |-> force /\ phase # "failed",
                        block |-> IF phase = "failed" THEN None ELSE b]]
    BY DEF ReadFile
  <1> DEFINE ph == IF file = Missing \/ ~readable THEN "creating"
                   ELSE IF HasTenant(file, b.tenant) /\ ~force THEN "failed"
                   ELSE "appending"
             st == [phase |-> ph, force |-> force /\ ph # "failed",
                    block |-> IF ph = "failed" THEN None ELSE b]
  <1>2. cli' = [cli EXCEPT ![c] = st]
    BY <1>1
  <1>3. ph \in {"creating", "appending", "failed"} /\ b \in Block
    OBVIOUS
  <1> HIDE DEF ph
  <1>4. st \in CliState
    BY <1>3 DEF CliState, CliPhase
  <1> QED
    BY <1>2, <1>3, <1>4

LEMMA ProvisionKeeps ==
  ASSUME ProvisioningTypeOK, CliRuns, Provision
  PROVE  ProvisioningTypeOK' /\ CliRuns'
  <1>1. Blocks \in Seq(Block)
    BY DEF ProvisioningTypeOK, Blocks
  <1>2. CASE \E c \in Cli : ReadFile(c)
    <2>1. PICK c \in Cli : ReadFile(c)
      BY <1>2
    <2>2. PICK state \in CliState :
            /\ cli' = [cli EXCEPT ![c] = state]
            /\ state.phase \in {"creating", "appending", "failed"}
            /\ state.phase # "failed" => state.block \in Block
      BY <2>1, ReadFileStep
    <2>3. file' = file
      BY <2>1 DEF ReadFile
    <2> QED
      BY <2>2, <2>3 DEF ProvisioningTypeOK, CliRuns
  <1>3. CASE \E c \in Cli : WriteFile(c)
    <2>1. PICK c \in Cli : WriteFile(c)
      BY <1>3
    <2>2. cli[c].block \in Block
      BY <2>1 DEF WriteFile, CliRuns
    <2>3. file' \in Seq(Block)
      BY <1>1, <2>1, <2>2 DEF WriteFile
    <2>4. cli' \in [Cli -> CliState]
      BY <2>1 DEF WriteFile, ProvisioningTypeOK, CliState, CliPhase
    <2>5. CliRuns'
      BY <2>1 DEF WriteFile, ProvisioningTypeOK, CliState, CliRuns
    <2> QED
      BY <2>3, <2>4, <2>5 DEF ProvisioningTypeOK
  <1>4. CASE RemoveBlock
    <2>1. PICK i \in DOMAIN Blocks : file' = RemoveAt(file, i)
      BY <1>4 DEF RemoveBlock
    <2>2. file \in Seq(Block) /\ i \in 1..Len(file)
      BY <2>1 DEF Blocks, ProvisioningTypeOK
    <2>3. file' \in Seq(Block)
      BY <2>1, <2>2 DEF RemoveAt
    <2> QED
      BY <1>4, <2>3 DEF RemoveBlock, ProvisioningTypeOK, CliRuns
  <1>5. CASE \E t \in Tenant : CopyBlock(t)
    <2>1. PICK t \in Tenant, i \in DOMAIN Blocks :
            file' = Append(file, [file[i] EXCEPT !.tenant = t])
      BY <1>5 DEF CopyBlock
    <2>2. file \in Seq(Block) /\ i \in 1..Len(file)
      BY <2>1 DEF Blocks, ProvisioningTypeOK
    <2>3. [file[i] EXCEPT !.tenant = t] \in Block
      <3>1. file[i] \in Block
        BY <2>2
      <3> QED
        BY <3>1 DEF Block
    <2>4. file' \in Seq(Block)
      BY <2>1, <2>2, <2>3
    <2> QED
      BY <1>5, <2>4 DEF CopyBlock, ProvisioningTypeOK, CliRuns
  <1> QED
    BY <1>2, <1>3, <1>4, <1>5 DEF Provision

(* A start of the service, whatever its configuration, forgets what was    *)
(* only in memory and leaves the rest alone.                               *)
LEMMA BootKeeps ==
  ASSUME IInv, NEW env \in Environments, Boot(env)
  PROVE  IInv'
  <1> USE DEF IInv
  <1>1. Blocks \in Seq(Block)
    BY BlocksType
  <1>2. config' \in Config \cup {RefusedConfig}
    BY EnvironmentsAssumption, ParseConfigFacts DEF Boot, Start
  <1>3. ProvisioningTypeOK' /\ CliRuns'
    BY DEF Boot, Start, provisioningVars, TypeOK, ProvisioningTypeOK, CliRuns
  <1>4. /\ stored' \in [Store -> [Slug -> ListRecord \cup {None}]]
        /\ ListsState' /\ CreatedState'
    <2>1. /\ stored \in [Store -> [Slug -> ListRecord \cup {None}]]
          /\ stored' = [stored EXCEPT ![InMemory] = NoLists]
          /\ NoLists \in [Slug -> ListRecord \cup {None}]
      BY DEF Boot, TypeOK, NoLists
    <2>2. stored' \in [Store -> [Slug -> ListRecord \cup {None}]]
      BY <2>1
    <2>3. /\ \A store \in Store \ {InMemory} : stored'[store] = stored[store]
          /\ InMemory \in Store => stored'[InMemory] = NoLists
      BY <2>1
    <2>4. ListsState'
      BY <2>3 DEF ListsState, NoLists
    <2>5. created' = created /\ created \subseteq Creation
      BY DEF Boot, Start, TypeOK
    <2>6. \A c \in created : stored'[c.store] = stored[c.store]
      BY <2>3, <2>5, StoreAssumption DEF Creation, Durable, Store
    <2>7. CreatedState'
      BY <2>5, <2>6 DEF CreatedState
    <2> QED
      BY <2>2, <2>4, <2>7
  <1>5. created' \subseteq Creation
    BY DEF Boot, Start, TypeOK
  <1>6. /\ registry' \in [Tenant -> TenantRecord \cup {None}] \cup {Down}
        /\ ConfigState' /\ TenantsAreCoherent'
    <2>1. \/ registry' = Down
          \/ config' # RefusedConfig /\ registry' = NoTenants
          \/ /\ config' # RefusedConfig /\ LoadTenants(Blocks) # Refused
             /\ registry' = LoadTenants(Blocks)
      BY DEF Boot, Start
    <2>2. CASE registry' = Down
      BY <2>2 DEF ConfigState, TenantsAreCoherent
    <2>3. CASE config' # RefusedConfig /\ registry' = NoTenants
      BY <2>3 DEF ConfigState, TenantsAreCoherent, NoTenants, Known
    <2>4. CASE /\ config' # RefusedConfig /\ LoadTenants(Blocks) # Refused
               /\ registry' = LoadTenants(Blocks)
      <3>1. registry' \in [Tenant -> TenantRecord \cup {None}]
        BY <1>1, <2>4, LoadedIsCoherent
      <3>2. TenantsAreCoherent'
        BY <1>1, <2>4, LoadedIsCoherent DEF TenantsAreCoherent, Known
      <3> QED
        BY <2>4, <3>1, <3>2 DEF ConfigState
    <2> QED
      BY <2>1, <2>2, <2>3, <2>4
  <1> QED
    BY <1>2, <1>3, <1>4, <1>5, <1>6 DEF TypeOK

(* A create stores a list under the slug of its URL.                       *)
LEMMA CreateStep ==
  ASSUME IInv, Create
  PROVE  /\ UNCHANGED <<provisioningVars, config, registry>>
         /\ config \in Config
         /\ \E slug \in Slug, t \in Tenant, url \in Url :
              /\ SlugFromListUrl(url) = slug
              /\ AddList(t, slug, url)
  <1>1. PICK credential \in Credential, t \in Tenant :
          /\ Authenticates(credential, t)
          /\ CreateList(t) \/ \E url \in Url : CreateListAt(t, url)
    BY DEF Create
  <1>2. config \in Config
    BY <1>1 DEF Authenticates, Known, IInv, TypeOK, ConfigState
  <1>3. PICK slug \in Slug, url \in Url :
          SlugFromListUrl(url) = slug /\ AddList(t, slug, url)
    <2>1. CASE CreateList(t)
      <3>1. PICK slug \in Slug :
              AddList(t, slug, StatusListUrl(config.own, slug))
        BY <2>1 DEF CreateList
      <3>2. /\ StatusListUrl(config.own, slug) \in Url
            /\ SlugFromListUrl(StatusListUrl(config.own, slug)) = slug
        BY <1>2 DEF Config, StatusListUrl, Url, Path, Shape, SlugFromListUrl
      <3> QED
        BY <3>1, <3>2
    <2>2. CASE \E url \in Url : CreateListAt(t, url)
      <3>1. PICK url \in Url : CreateListAt(t, url)
        BY <2>2
      <3>2. SlugFromListUrl(url) \in Slug
        BY <3>1 DEF CreateListAt, SlugFromListUrl, Url, Path
      <3> QED
        BY <3>1, <3>2 DEF CreateListAt
    <2> QED
      BY <1>1, <2>1, <2>2
  <1> QED
    BY <1>2, <1>3 DEF AddList

LEMMA CreateKeeps ==
  ASSUME IInv, Create
  PROVE  IInv'
  <1>1. UNCHANGED <<provisioningVars, config, registry>> /\ config \in Config
    BY CreateStep
  <1>2. PICK slug \in Slug, t \in Tenant, url \in Url :
          SlugFromListUrl(url) = slug /\ AddList(t, slug, url)
    BY CreateStep
  <1> DEFINE record == [tenant |-> t, url |-> url]
             creation == [store |-> config.store, tenant |-> t, url |-> url]
  <1>3. /\ stored[config.store][slug] = None
        /\ stored' = [stored EXCEPT ![config.store][slug] = record]
        /\ created' = IF config.store = InMemory THEN created
                      ELSE created \cup {creation}
    BY <1>2 DEF AddList, Lists
  <1>4. /\ config.store \in Store /\ record \in ListRecord
        /\ config.store # InMemory => creation \in Creation
        /\ stored \in [Store -> [Slug -> ListRecord \cup {None}]]
    BY <1>1 DEF Config, Store, ListRecord, Creation, IInv, TypeOK
  <1>5. /\ stored' \in [Store -> [Slug -> ListRecord \cup {None}]]
        /\ stored'[config.store][slug] = record
        /\ \A store \in Store, s \in Slug :
             store # config.store \/ s # slug =>
               stored'[store][s] = stored[store][s]
    BY <1>3, <1>4
  <1>6. created' \subseteq Creation
    BY <1>3, <1>4 DEF IInv, TypeOK
  <1>7. ListsState'
    BY <1>2, <1>5 DEF IInv, ListsState
  <1>8. CreatedState'
    <2> SUFFICES ASSUME NEW c \in created'
                 PROVE  /\ SlugFromListUrl(c.url) # NoSlug
                        /\ stored'[c.store][SlugFromListUrl(c.url)]
                             = [tenant |-> c.tenant, url |-> c.url]
      BY DEF CreatedState
    <2>1. CASE c \in created
      <3>1. /\ SlugFromListUrl(c.url) # NoSlug
            /\ stored[c.store][SlugFromListUrl(c.url)]
                 = [tenant |-> c.tenant, url |-> c.url]
            /\ c \in Creation
        BY <2>1 DEF IInv, CreatedState, TypeOK
      <3>2. /\ c.store \in Store /\ SlugFromListUrl(c.url) \in Slug
            /\ [tenant |-> c.tenant, url |-> c.url] # None
        BY <3>1, DistinctAssumption
           DEF Creation, Store, SlugFromListUrl, Url, Path, ListRecord
      <3>3. c.store # config.store \/ SlugFromListUrl(c.url) # slug
        BY <1>3, <3>1, <3>2
      <3> QED
        BY <1>5, <3>1, <3>2, <3>3
    <2>2. CASE c = creation
      BY <1>2, <1>5, <2>2, DistinctAssumption
    <2> QED
      BY <1>3, <2>1, <2>2
  <1>9. /\ ProvisioningTypeOK' /\ CliRuns'
        /\ ConfigState' /\ TenantsAreCoherent'
    BY <1>1 DEF IInv, TypeOK, provisioningVars, ProvisioningTypeOK, CliRuns,
                ConfigState, TenantsAreCoherent, Known
  <1> QED
    BY <1>1, <1>5, <1>6, <1>7, <1>8, <1>9 DEF IInv, TypeOK

LEMMA StepKeeps == IInv /\ [Next]_vars => IInv'
  <1> SUFFICES ASSUME IInv, [Next]_vars PROVE IInv'
    OBVIOUS
  <1>1. CASE Provision /\ UNCHANGED <<config, registry, stored, created>>
    <2>1. ProvisioningTypeOK' /\ CliRuns'
      BY <1>1, ProvisionKeeps DEF IInv, TypeOK
    <2> QED
      BY <1>1, <2>1 DEF IInv, TypeOK, ConfigState, ListsState, CreatedState,
                        TenantsAreCoherent, Known
  <1>2. CASE \E env \in Environments : Boot(env)
    BY <1>2, BootKeeps
  <1>3. CASE Create
    BY <1>3, CreateKeeps
  <1>4. CASE UNCHANGED vars
    BY <1>4 DEF vars, provisioningVars, IInv, TypeOK, ProvisioningTypeOK,
                CliRuns, ConfigState, ListsState, CreatedState,
                TenantsAreCoherent, Known
  <1> QED
    BY <1>1, <1>2, <1>3, <1>4 DEF Next

(* IInv holds always.                                                      *)
THEOREM Invariance == Spec => []IInv
  BY InitialState, StepKeeps, PTL DEF Spec

-----------------------------------------------------------------------------
(* What follows from it.                                                   *)

(* Every variable of Tenancy keeps its type, whatever the env file holds.  *)
THEOREM TypesAreKept == Spec => []TypeOK
  BY Invariance, PTL DEF IInv

(* No registry the service starts with mixes the token, the suite and the  *)
(* key of different blocks, or gives two tenants one token.                *)
THEOREM RegistriesAreCoherent == Spec => []TenantsAreCoherent
  BY Invariance, PTL DEF IInv

(* A service that runs has a configuration, and its lists are those of its *)
(* store.                                                                  *)
LEMMA ListsFacts ==
  ASSUME IInv, registry # Down
  PROVE  /\ config \in Config
         /\ Lists \in [Slug -> ListRecord \cup {None}]
         /\ \A s \in Slug :
              Lists[s] # None => SlugFromListUrl(Lists[s].url) = s
  <1>1. config \in Config
    BY DEF IInv, TypeOK, ConfigState
  <1>2. config.store \in Store
    BY <1>1 DEF Config
  <1> QED
    BY <1>1, <1>2 DEF IInv, TypeOK, ListsState, Lists

(* A list answers at its URL exactly while its tenant may use the host,    *)
(* under whatever configuration the service was started last.              *)
THEOREM ListsAreReachable == Spec => []ListsAnswerAtHome
  <1>1. IInv => ListsAnswerAtHome
    <2> SUFFICES ASSUME IInv, registry # Down, NEW s \in Slug, Lists[s] # None,
                        RouteParam(Lists[s].url.path) # NoSlug
                 PROVE  (Served(Lists[s].url) = s)
                          <=> (Lists[s].url.host
                                 \in Domains(Lists[s].tenant) \cup {config.own})
      BY DEF ListsAnswerAtHome
    <2>1. SlugFromListUrl(Lists[s].url) = s
      BY ListsFacts
    <2>2. RouteParam(Lists[s].url.path) = s
      BY <2>1 DEF RouteParam, SlugFromListUrl
    <2>3. s # NoSlug
      BY DistinctAssumption
    <2> QED
      BY <2>2, <2>3 DEF Served, AuthorizedHosts
  <1> QED
    BY <1>1, Invariance, PTL

(* A URL selects a list exactly if it is the one in the list's credential. *)
THEOREM SelectorsAreExact == Spec => []SelectorFindsLists
  <1>1. IInv => SelectorFindsLists
    <2> SUFFICES ASSUME IInv, registry # Down, NEW s \in Slug, NEW url \in Url,
                        Lists[s] # None
                 PROVE  (ListFromUrl(url) = s) <=> (url = Lists[s].url)
      BY DEF SelectorFindsLists
    <2>1. SlugFromListUrl(Lists[s].url) = s /\ s # NoSlug
      BY ListsFacts, DistinctAssumption
    <2>2. ASSUME ListFromUrl(url) = s PROVE url = Lists[s].url
      BY <2>1, <2>2 DEF ListFromUrl
    <2>3. ASSUME url = Lists[s].url PROVE ListFromUrl(url) = s
      BY <2>1, <2>3 DEF ListFromUrl
    <2> QED
      BY <2>2, <2>3
  <1> QED
    BY <1>1, Invariance, PTL

(* What was created in a file or a database is found by every service that *)
(* runs on it, whatever starts there were in between.                      *)
THEOREM ListsAreKept == Spec => []ListsArePermanent
  <1>1. IInv => ListsArePermanent
    <2> SUFFICES ASSUME IInv, registry # Down, NEW c \in created,
                        c.store = config.store
                 PROVE  StillFound(c)
      BY DEF ListsArePermanent
    <2>1. /\ SlugFromListUrl(c.url) # NoSlug
          /\ Lists[SlugFromListUrl(c.url)]
               = [tenant |-> c.tenant, url |-> c.url]
      BY DEF IInv, CreatedState, Lists
    <2>2. [tenant |-> c.tenant, url |-> c.url] # None
      BY DistinctAssumption DEF IInv, TypeOK, Creation, ListRecord
    <2>3. ListFromUrl(c.url) = SlugFromListUrl(c.url)
      BY <2>1, <2>2 DEF ListFromUrl
    <2> QED
      BY <2>1, <2>3 DEF StillFound
  <1> QED
    BY <1>1, Invariance, PTL

(* A block that is appended comes after the ones there were.               *)
LEMMA AppendIsPrefix ==
  ASSUME NEW f \in Seq(Block), NEW b \in Block, file' = Append(f, b)
  PROVE  IsPrefix(f, Blocks') /\ file' # Missing
  <1>1. file' \in Seq(Block)
    OBVIOUS
  <1>2. Blocks' = Append(f, b)
    BY <1>1, MissingAssumption DEF Blocks
  <1>3. /\ Len(f) <= Len(Append(f, b))
        /\ SubSeq(f, 1, Len(f)) = SubSeq(Append(f, b), 1, Len(f))
    OBVIOUS
  <1> QED
    BY <1>1, <1>2, <1>3, MissingAssumption DEF IsPrefix

(* Whoever authenticates is one tenant, by a static token or an access     *)
(* token (resolveTenant of auth.ts).                                       *)
CredentialsNameOneTenant ==
  \A credential \in Credential : \A t, u \in Tenant :
     Authenticates(credential, t) /\ Authenticates(credential, u) => t = u

(* No token of any env file the service starts with names two tenants.    *)
THEOREM CredentialsAreUnambiguous == Spec => []CredentialsNameOneTenant
  <1>1. IInv => CredentialsNameOneTenant
    <2> SUFFICES ASSUME IInv, NEW credential \in Credential,
                        NEW t \in Tenant, NEW u \in Tenant,
                        Authenticates(credential, t),
                        Authenticates(credential, u)
                 PROVE  t = u
      BY DEF CredentialsNameOneTenant
    <2>1. CASE "sub" \in DOMAIN credential
      BY <2>1 DEF Authenticates
    <2>2. CASE "sub" \notin DOMAIN credential
      <3>1. registry[t].token = registry[u].token
        BY <2>2 DEF Authenticates
      <3>2. registry # Down /\ Known(t) /\ Known(u)
        BY DEF Authenticates, Known
      <3> QED
        BY <3>1, <3>2 DEF IInv, TenantsAreCoherent
    <2> QED
      BY <2>1, <2>2
  <1> QED
    BY <1>1, Invariance, PTL

-----------------------------------------------------------------------------
(* The env file and the next start of the service.                         *)

(* A file that only the provisioning tool wrote, and from which hands at   *)
(* most removed blocks, has no shared token: the only such files that the  *)
(* service refuses have a tenant with both profiles, which takes a forced  *)
(* run (appendEnvBlock of cli/provisioning.ts).                            *)
OnlyMixesAreRefused ==
  MaxBlocks = 0 =>
    (LoadTenants(Blocks) = Refused
       <=> \E t \in Tenant : MixesProfiles(Blocks, t))

(* Every start of the service reads the token, the suite and the key of a  *)
(* tenant's last block and the domains of its last that names any, or is   *)
(* refused, and refused are only files that could not be read that way.    *)
THEOREM LatestBlocksAreRead == Spec => []LatestBlockIsRead
  <1>1. IInv => LatestBlockIsRead
    <2> SUFFICES ASSUME IInv PROVE LatestBlockIsRead
      OBVIOUS
    <2>1. PICK f \in Seq(Block) : f = Blocks
      BY BlocksType DEF IInv
    <2>2. ASSUME LoadTenants(f) # Refused, NEW t \in Tenant, HasTenant(f, t)
          PROVE  LoadTenants(f)[t] =
                   [token |-> Latest(f, t).made, suite |-> Latest(f, t).profile,
                    key |-> [kind |-> Latest(f, t).profile,
                             made |-> Latest(f, t).made],
                    domains |-> NamedLast(f, t)]
      <3>1. LoadTenants(f)[t] = ParseTenant(f, t) /\ ~MixesProfiles(f, t)
        BY <2>2, LoadFacts
      <3> QED
        BY <2>2, <3>1, ParsedFacts DEF TenantRecord
    <2>3. ASSUME LoadTenants(f) # Refused, NEW t \in Tenant, ~HasTenant(f, t)
          PROVE  LoadTenants(f)[t] = None
      BY <2>3, LoadFacts
    <2>4. LoadTenants(f) = Refused
            <=> \/ \E t \in Tenant : MixesProfiles(f, t)
                \/ \E t, u \in Tenant : SharesToken(f, t, u)
      BY LoadFacts
    <2> QED
      BY <2>1, <2>2, <2>3, <2>4 DEF LatestBlockIsRead
  <1> QED
    BY <1>1, Invariance, PTL

LEMMA RemoveAtFacts ==
  ASSUME NEW S, NEW f \in Seq(S), NEW i \in 1..Len(f)
  PROVE  /\ RemoveAt(f, i) \in Seq(S)
         /\ Len(RemoveAt(f, i)) = Len(f) - 1
         /\ \A k \in 1..(Len(f) - 1) :
              RemoveAt(f, i)[k] = IF k < i THEN f[k] ELSE f[k + 1]
  <1> DEFINE before == SubSeq(f, 1, i - 1)
             after == SubSeq(f, i + 1, Len(f))
  <1>1. Len(f) \in Nat /\ i \in Int /\ 1 <= i /\ i <= Len(f)
    OBVIOUS
  <1>2. /\ before \in Seq(S) /\ Len(before) = i - 1
        /\ \A k \in 1..(i - 1) : before[k] = f[k]
    BY <1>1
  <1>3. /\ after \in Seq(S) /\ Len(after) = Len(f) - i
        /\ \A k \in 1..(Len(f) - i) : after[k] = f[k + i]
    BY <1>1
  <1>4. RemoveAt(f, i) = before \o after
    BY DEF RemoveAt
  <1> HIDE DEF before, after
  <1>5. Len(before \o after) = Len(f) - 1 /\ before \o after \in Seq(S)
    <2>1. \A p, q \in Seq(S) :
            p \o q \in Seq(S) /\ Len(p \o q) = Len(p) + Len(q)
      OBVIOUS
    <2>2. Len(before \o after) = (i - 1) + (Len(f) - i)
      BY <1>2, <1>3, <2>1
    <2>3. (i - 1) + (Len(f) - i) = Len(f) - 1
      BY <1>1
    <2> QED
      BY <1>2, <1>3, <2>1, <2>2, <2>3
  <1>6. ASSUME NEW k \in 1..(Len(f) - 1)
        PROVE  (before \o after)[k] = IF k < i THEN f[k] ELSE f[k + 1]
    <2>1. CASE k < i
      BY <1>1, <1>2, <1>3, <2>1
    <2>2. CASE ~(k < i)
      <3>1. (before \o after)[k] = after[k - (i - 1)]
        BY <1>1, <1>2, <1>3, <2>2
      <3>2. k - (i - 1) \in 1..(Len(f) - i) /\ (k - (i - 1)) + i = k + 1
        BY <1>1, <2>2
      <3> QED
        BY <1>3, <2>2, <3>1, <3>2
    <2> QED
      BY <2>1, <2>2
  <1> QED
    BY <1>4, <1>5, <1>6

(* Without copies, each block of the file is the work of a run of its own. *)
MadeOnce ==
  MaxBlocks = 0 =>
    /\ \A i, j \in DOMAIN Blocks : Blocks[i].made = Blocks[j].made => i = j
    /\ \A i \in DOMAIN Blocks : cli[Blocks[i].made].phase = "done"
    /\ \A c \in Cli :
         cli[c].phase \in {"creating", "appending"} => cli[c].block.made = c

LEMMA MadeOnceKept ==
  ASSUME IInv, MadeOnce, [Next]_vars
  PROVE  MadeOnce'
  <1> SUFFICES ASSUME MaxBlocks = 0 PROVE MadeOnce'
    BY DEF MadeOnce
  <1>1. Blocks \in Seq(Block) /\ cli \in [Cli -> CliState]
    BY BlocksType DEF IInv, TypeOK, ProvisioningTypeOK
  <1>2. CASE UNCHANGED <<file, cli>>
    BY <1>2 DEF MadeOnce, Blocks
  <1>7. \A i \in DOMAIN Blocks : Blocks[i].made \in Cli
    <2>1. PICK f \in Seq(Block) : f = Blocks
      BY <1>1
    <2>2. \A i \in DOMAIN f : f[i] \in Block
      OBVIOUS
    <2>3. \A i \in DOMAIN f : f[i].made \in Cli
      BY <2>2 DEF Block
    <2> QED
      BY <2>1, <2>3
  <1>3. ASSUME NEW c \in Cli, ReadFile(c) PROVE MadeOnce'
    <2>1. PICK b \in Block, state \in CliState :
            /\ b.made = c /\ cli' = [cli EXCEPT ![c] = state]
            /\ state.phase \in {"creating", "appending", "failed"}
            /\ state.phase # "failed" => state.block = b
      <3>1. PICK b \in {b \in Block : b.made = c}, force \in BOOLEAN,
                 readable \in BOOLEAN :
              LET phase == IF file = Missing \/ ~readable THEN "creating"
                           ELSE IF HasTenant(file, b.tenant) /\ ~force
                                THEN "failed"
                           ELSE "appending"
              IN cli' = [cli EXCEPT ![c] =
                           [phase |-> phase, force |-> force /\ phase # "failed",
                            block |-> IF phase = "failed" THEN None ELSE b]]
        BY <1>3 DEF ReadFile
      <3>2. PICK phase \in {"creating", "appending", "failed"} :
              cli' = [cli EXCEPT ![c] =
                        [phase |-> phase, force |-> force /\ phase # "failed",
                         block |-> IF phase = "failed" THEN None ELSE b]]
        BY <3>1
      <3>3. PICK state :
              /\ state = [phase |-> phase, force |-> force /\ phase # "failed",
                          block |-> IF phase = "failed" THEN None ELSE b]
              /\ cli' = [cli EXCEPT ![c] = state]
        BY <3>2, Zenon
      <3>4. /\ state \in CliState /\ state.phase = phase
            /\ state.phase # "failed" => state.block = b
        BY <3>3 DEF CliState, CliPhase
      <3>5. state.phase \in {"creating", "appending", "failed"}
        BY <3>2, <3>4
      <3>6. b \in Block /\ b.made = c
        BY <3>1
      <3> QED
        BY <3>3, <3>4, <3>5, <3>6
    <2>2. cli[c].phase = "idle" /\ file' = file
      BY <1>3 DEF ReadFile
    <2>3. Blocks' = Blocks /\ \A i \in DOMAIN Blocks : Blocks[i].made # c
      BY <2>2 DEF MadeOnce, Blocks
    <2>4. \A d \in Cli : d # c => cli'[d] = cli[d]
      BY <1>1, <2>1
    <2> QED
      BY <1>1, <1>7, <2>1, <2>3, <2>4 DEF MadeOnce
  <1>4. ASSUME NEW c \in Cli, WriteFile(c) PROVE MadeOnce'
    <2>1. PICK b \in Block : b = cli[c].block /\ b.made = c
      BY <1>4 DEF WriteFile, IInv, CliRuns, MadeOnce
    <2>2. cli[c].phase # "done"
      BY <1>4 DEF WriteFile
    <2>3. file' \in Seq(Block) /\ (file' = <<b>> \/ file' = Append(Blocks, b))
      BY <1>1, <1>4, <2>1 DEF WriteFile
    <2>4. Blocks' = file'
      BY <2>3, MissingAssumption DEF Blocks
    <2>5. /\ cli'[c].phase = "done"
          /\ \A d \in Cli : d # c => cli'[d] = cli[d]
      BY <1>1, <1>4 DEF WriteFile, CliState
    <2>6. \A i \in DOMAIN Blocks : Blocks[i].made # c /\ Blocks[i].made \in Cli
      BY <1>7, <2>2 DEF MadeOnce
    <2>7. /\ \A i, k \in DOMAIN Blocks' : Blocks'[i].made = Blocks'[k].made => i = k
          /\ \A i \in DOMAIN Blocks' : cli'[Blocks'[i].made].phase = "done"
      <3>1. CASE file' = <<b>>
        BY <2>1, <2>4, <2>5, <3>1
      <3>2. CASE file' = Append(Blocks, b)
        <4>1. /\ DOMAIN Blocks' = 1..(Len(Blocks) + 1)
              /\ Blocks'[Len(Blocks) + 1] = b
              /\ \A i \in 1..Len(Blocks) : Blocks'[i] = Blocks[i]
              /\ DOMAIN Blocks = 1..Len(Blocks) /\ Len(Blocks) \in Nat
          BY <1>1, <2>4, <3>2
        <4>2. \A i \in 1..(Len(Blocks) + 1) :
                 i = Len(Blocks) + 1 \/ i \in 1..Len(Blocks)
          BY <4>1
        <4> QED
          BY <2>1, <2>5, <2>6, <4>1, <4>2 DEF MadeOnce
      <3> QED
        BY <2>3, <3>1, <3>2
    <2> QED
      BY <2>5, <2>7 DEF MadeOnce
  <1>5. ASSUME RemoveBlock PROVE MadeOnce'
    <2>1. PICK i \in DOMAIN Blocks : file' = RemoveAt(file, i)
      BY <1>5 DEF RemoveBlock
    <2>2. PICK f \in Seq(Block) : f = file /\ f = Blocks /\ i \in 1..Len(f)
      BY <1>1, <2>1 DEF Blocks
    <2>3. PICK g \in Seq(Block) :
            /\ g = file' /\ Len(g) = Len(f) - 1
            /\ \A k \in 1..(Len(f) - 1) :
                 g[k] = IF k < i THEN f[k] ELSE f[k + 1]
      BY <2>1, <2>2, RemoveAtFacts
    <2>4. Blocks' = g /\ DOMAIN g = 1..(Len(f) - 1)
      BY <2>3, MissingAssumption DEF Blocks
    <2>5. cli' = cli
      BY <1>5 DEF RemoveBlock
    <2>6. /\ DOMAIN f = 1..Len(f) /\ Len(f) \in Nat /\ i \in Int
          /\ \A j, k \in DOMAIN f : f[j].made = f[k].made => j = k
          /\ \A k \in DOMAIN f : cli[f[k].made].phase = "done"
      BY <2>2 DEF MadeOnce
    <2>7. \A k \in 1..(Len(f) - 1) :
            \E j \in DOMAIN f : /\ g[k] = f[j]
                                /\ j = IF k < i THEN k ELSE k + 1
      BY <2>3, <2>6
    <2>8. ASSUME NEW j \in DOMAIN g, NEW k \in DOMAIN g, g[j].made = g[k].made
          PROVE  j = k
      <3>1. j \in 1..(Len(f) - 1) /\ k \in 1..(Len(f) - 1)
        BY <2>4, <2>8
      <3>2. PICK m \in DOMAIN f : /\ g[j] = f[m]
                                  /\ m = IF j < i THEN j ELSE j + 1
        BY <2>7, <3>1
      <3>3. PICK n \in DOMAIN f : /\ g[k] = f[n]
                                  /\ n = IF k < i THEN k ELSE k + 1
        BY <2>7, <3>1
      <3>4. m = n
        BY <2>6, <2>8, <3>2, <3>3
      <3> QED
        BY <2>6, <3>1, <3>2, <3>3, <3>4
    <2>9. \A k \in DOMAIN g : cli[g[k].made].phase = "done"
      BY <2>4, <2>6, <2>7
    <2>10. \A c \in Cli :
             cli[c].phase \in {"creating", "appending"} => cli[c].block.made = c
      BY DEF MadeOnce
    <2> QED
      BY <2>4, <2>5, <2>8, <2>9, <2>10 DEF MadeOnce
  <1>6. ASSUME NEW t \in Tenant, CopyBlock(t) PROVE FALSE
    BY <1>1, <1>6 DEF CopyBlock
  <1> QED
    BY <1>2, <1>3, <1>4, <1>5, <1>6
       DEF Next, vars, provisioningVars, Provision, Boot, Start, Create,
           CreateList, CreateListAt, AddList

(* Whatever order runs of the tool and services come in, mixed profiles of*)
(* one tenant are the only thing that keeps a service from starting.      *)
THEOREM OnlyMixesRefuse == Spec => []OnlyMixesAreRefused
  <1>1. Init => MadeOnce
    BY DEF Init, ProvisioningInit, MadeOnce, Blocks
  <1>2. IInv /\ MadeOnce => OnlyMixesAreRefused
    <2> SUFFICES ASSUME IInv, MadeOnce, MaxBlocks = 0
                 PROVE  LoadTenants(Blocks) = Refused
                          <=> \E t \in Tenant : MixesProfiles(Blocks, t)
      BY DEF OnlyMixesAreRefused
    <2>1. PICK f \in Seq(Block) : f = Blocks
      BY BlocksType DEF IInv
    <2>2. \A i, j \in DOMAIN f : f[i].made = f[j].made => i = j
      BY <2>1 DEF MadeOnce
    <2>3. ASSUME NEW t \in Tenant, NEW u \in Tenant, SharesToken(f, t, u)
          PROVE  FALSE
      <3>1. PICK i \in DOMAIN f : f[i].tenant = t /\ Latest(f, t) = f[i]
        BY <2>3, LatestIsMine DEF SharesToken
      <3>2. PICK j \in DOMAIN f : f[j].tenant = u /\ Latest(f, u) = f[j]
        BY <2>3, LatestIsMine DEF SharesToken
      <3> QED
        BY <2>2, <2>3, <3>1, <3>2 DEF SharesToken
    <2> QED
      BY <2>1, <2>3, LoadFacts
  <1> QED
    BY <1>1, <1>2, MadeOnceKept, Invariance, PTL DEF Spec

-----------------------------------------------------------------------------
(* How a tenant can vanish from the env file.                              *)

(* The care that is asked of whoever provisions: a run that is to write    *)
(* the file rather than append to it is started only while there really is *)
(* none, so its read did not just fail, and while no other such run is on  *)
(* its way.                                                                *)
FirstRunAlone ==
  \A c \in Cli :
     cli[c].phase = "idle" /\ cli'[c].phase = "creating" =>
       file = Missing /\ \A d \in Cli : cli[d].phase # "creating"

(* Every block stays where it is, unless a hand takes one out.             *)
OnlyHandsRemove == IsPrefix(Blocks, Blocks') \/ RemoveBlock

(* What that care keeps true: a run writes the file only if it is still    *)
(* not there, and appends to one that is.                                  *)
WritesAreSafe ==
  /\ \A c \in Cli : cli[c].phase = "appending" => file # Missing
  /\ \A c, d \in Cli :
       cli[c].phase = "creating" =>
         file = Missing /\ (cli[d].phase = "creating" => c = d)

LEMMA ReadFilePhase ==
  ASSUME NEW c \in Cli, ReadFile(c), cli \in [Cli -> CliState]
  PROVE  /\ cli[c].phase = "idle" /\ file' = file
         /\ cli'[c].phase \in {"creating", "appending", "failed"}
         /\ cli'[c].phase = "appending" => file # Missing
         /\ \A d \in Cli : d # c => cli'[d] = cli[d]
  <1>1. PICK b \in {b \in Block : b.made = c}, force \in BOOLEAN,
             readable \in BOOLEAN :
          LET phase == IF file = Missing \/ ~readable THEN "creating"
                       ELSE IF HasTenant(file, b.tenant) /\ ~force THEN "failed"
                       ELSE "appending"
          IN cli' = [cli EXCEPT ![c] =
                       [phase |-> phase, force |-> force /\ phase # "failed",
                        block |-> IF phase = "failed" THEN None ELSE b]]
    BY DEF ReadFile
  <1> PICK ph : ph = IF file = Missing \/ ~readable THEN "creating"
                     ELSE IF HasTenant(file, b.tenant) /\ ~force THEN "failed"
                     ELSE "appending"
    OBVIOUS
  <1>2. /\ ph \in {"creating", "appending", "failed"}
        /\ ph = "appending" => file # Missing
    OBVIOUS
  <1>3. cli' = [cli EXCEPT ![c] =
                  [phase |-> ph, force |-> force /\ ph # "failed",
                   block |-> IF ph = "failed" THEN None ELSE b]]
    BY <1>1
  <1>4. cli'[c].phase = ph /\ \A d \in Cli : d # c => cli'[d] = cli[d]
    BY <1>3
  <1>5. cli[c].phase = "idle" /\ file' = file
    BY DEF ReadFile
  <1> QED
    BY <1>2, <1>4, <1>5

LEMMA FileStep ==
  ASSUME IInv, WritesAreSafe, FirstRunAlone, [Next]_vars
  PROVE  WritesAreSafe' /\ OnlyHandsRemove
  <1>1. /\ Blocks \in Seq(Block) /\ cli \in [Cli -> CliState]
        /\ file # Missing => file = Blocks
        /\ file = Missing => Blocks = <<>>
    BY BlocksType DEF IInv, TypeOK, ProvisioningTypeOK, Blocks
  <1>2. file' = file => IsPrefix(Blocks, Blocks')
    BY <1>1 DEF Blocks, IsPrefix
  <1>3. ASSUME NEW c \in Cli, ReadFile(c)
        PROVE  WritesAreSafe' /\ file' = file
    <2>1. /\ cli[c].phase = "idle" /\ file' = file
          /\ cli'[c].phase = "appending" => file # Missing
          /\ \A d \in Cli : d # c => cli'[d] = cli[d]
      BY <1>1, <1>3, ReadFilePhase
    <2>2. cli'[c].phase = "creating" =>
            file = Missing /\ \A d \in Cli : cli[d].phase # "creating"
      BY <2>1 DEF FirstRunAlone
    <2> QED
      BY <2>1, <2>2 DEF WritesAreSafe
  <1>4. ASSUME NEW c \in Cli, WriteFile(c)
        PROVE  WritesAreSafe' /\ IsPrefix(Blocks, Blocks')
    <2>1. /\ cli'[c].phase = "done"
          /\ \A d \in Cli : d # c => cli'[d] = cli[d]
      BY <1>1, <1>4 DEF WriteFile, CliState
    <2>2. cli[c].block \in Block /\ cli[c].phase \in {"creating", "appending"}
      BY <1>4 DEF WriteFile, IInv, CliRuns
    <2>3. file' = Append(Blocks, cli[c].block)
      <3>1. CASE cli[c].phase = "creating"
        <4>1. Blocks = <<>> /\ file' = <<cli[c].block>>
          BY <1>1, <1>4, <3>1 DEF WriteFile, WritesAreSafe
        <4> QED
          BY <2>2, <4>1
      <3>2. CASE cli[c].phase = "appending"
        BY <1>4, <3>2 DEF WriteFile
      <3> QED
        BY <2>2, <3>1, <3>2
    <2>4. IsPrefix(Blocks, Blocks') /\ file' # Missing
      BY <1>1, <2>2, <2>3, AppendIsPrefix
    <2>5. \A d \in Cli : cli'[d].phase # "creating"
      <3>1. CASE cli[c].phase = "creating"
        BY <2>1, <3>1 DEF WritesAreSafe
      <3>2. CASE cli[c].phase = "appending"
        BY <2>1, <3>2 DEF WritesAreSafe
      <3> QED
        BY <2>2, <3>1, <3>2
    <2> QED
      BY <2>4, <2>5 DEF WritesAreSafe
  <1>5. ASSUME RemoveBlock
        PROVE  WritesAreSafe'
    <2>1. PICK i \in DOMAIN Blocks : file' = RemoveAt(file, i) /\ cli' = cli
      BY <1>5 DEF RemoveBlock
    <2>2. file # Missing /\ file \in Seq(Block) /\ i \in 1 .. Len(file)
      BY <1>1, <2>1
    <2>3. file' \in Seq(Block)
      BY <2>1, <2>2 DEF RemoveAt
    <2> QED
      BY <2>1, <2>2, <2>3, MissingAssumption DEF WritesAreSafe
  <1>6. ASSUME NEW t \in Tenant, CopyBlock(t)
        PROVE  WritesAreSafe' /\ IsPrefix(Blocks, Blocks')
    <2>1. PICK i \in DOMAIN Blocks :
            file' = Append(file, [file[i] EXCEPT !.tenant = t])
      BY <1>6 DEF CopyBlock
    <2>2. file # Missing /\ file = Blocks /\ i \in 1 .. Len(file)
      BY <1>1, <2>1
    <2>3. [file[i] EXCEPT !.tenant = t] \in Block
      <3>1. file[i] \in Block
        BY <1>1, <2>2
      <3> QED
        BY <3>1 DEF Block
    <2>4. IsPrefix(Blocks, Blocks') /\ file' # Missing
      BY <1>1, <2>1, <2>2, <2>3, AppendIsPrefix
    <2> QED
      BY <1>6, <2>2, <2>4 DEF WritesAreSafe, CopyBlock
  <1>7. CASE UNCHANGED <<file, cli>>
    BY <1>2, <1>7 DEF WritesAreSafe, OnlyHandsRemove
  <1>8. \/ \E c \in Cli : ReadFile(c) \/ WriteFile(c)
        \/ RemoveBlock \/ \E t \in Tenant : CopyBlock(t)
        \/ UNCHANGED <<file, cli>>
    BY DEF Next, Provision, Boot, Start, Create, CreateList, CreateListAt,
           AddList, provisioningVars, vars
  <1> QED
    BY <1>2, <1>3, <1>4, <1>5, <1>6, <1>7, <1>8 DEF OnlyHandsRemove

(* With that care no tenant ever vanishes from the file but by hand,       *)
(* however runs, copies and starts of the service interleave.  Without it  *)
(* one does: the read that counts any error as no file, and two runs that  *)
(* both find none (appendEnvBlock of cli/provisioning.ts), are the only    *)
(* ways to lose one.                                                       *)
THEOREM CareKeepsTenants ==
  Spec /\ [][FirstRunAlone]_vars => [][OnlyHandsRemove]_vars
  <1>1. Init => WritesAreSafe
    BY DEF Init, ProvisioningInit, WritesAreSafe
  <1>2. /\ IInv /\ WritesAreSafe /\ [Next]_vars /\ [FirstRunAlone]_vars
        => WritesAreSafe' /\ [OnlyHandsRemove]_vars
    <2> SUFFICES ASSUME IInv, WritesAreSafe, [Next]_vars, [FirstRunAlone]_vars
                 PROVE  WritesAreSafe' /\ [OnlyHandsRemove]_vars
      OBVIOUS
    <2>1. CASE UNCHANGED vars
      BY <2>1 DEF vars, provisioningVars, WritesAreSafe
    <2>2. CASE FirstRunAlone
      BY <2>2, FileStep
    <2> QED
      BY <2>1, <2>2
  <1> QED
    BY <1>1, <1>2, Invariance, PTL DEF Spec
=============================================================================
