------------------------------ MODULE Tenancy ------------------------------
(***************************************************************************)
(* Who owns lists and where they are found, over the life of a deployment: *)
(* tenants are provisioned in the env file, the service reads it when it   *)
(* starts, callers authenticate as a tenant (auth.ts) and create lists     *)
(* under URLs (createStatusListHandler of routes/status-lists.ts), and     *)
(* anybody looks for a list under a host and a path.                       *)
(*                                                                         *)
(* Handlers are single steps here: what happens between their awaits is in *)
(* SignOnUpdate, Allocation and StatusService.                             *)
(***************************************************************************)
EXTENDS Provisioning, Deployment

CONSTANTS
  Environments,  \* the environments the service may be started in
  Down,          \* no registry, because no service is running
  MaxLists       \* bounds the lists there are in all stores

ASSUME EnvironmentsAssumption ==
  Environments \subseteq Environment /\ Domain \subseteq Host

ASSUME MaxListsAssumption == MaxLists \in Nat

VARIABLES
  config,    \* the configuration of the last start, or RefusedConfig
  registry,  \* the tenants of the running service, or Down
  stored,    \* the owner and URL of each list in each store, by its id
  created    \* history: what creates in files and databases were answered

vars == <<provisioningVars, config, registry, stored, created>>

ListRecord == [tenant : Tenant, url : Url]

Creation == [store : Durable, tenant : Tenant, url : Url]

ASSUME DistinctAssumption ==
  None \notin ListRecord /\ NoSlug \notin Slug /\ RefusedConfig \notin Config

NoLists == [s \in Slug |-> None]

(* The registry of a service that is configured with none.                 *)
NoTenants == [t \in Tenant |-> None]

TypeOK ==
  /\ ProvisioningTypeOK
  /\ config \in Config \cup {RefusedConfig}
  /\ registry \in [Tenant -> TenantRecord \cup {None}] \cup {Down}
  /\ stored \in [Store -> [Slug -> ListRecord \cup {None}]]
  /\ created \subseteq Creation

Init ==
  /\ ProvisioningInit
  /\ config = RefusedConfig
  /\ registry = Down
  /\ stored = [store \in Store |-> NoLists]
  /\ created = {}

(* The lists of the running service, and the places taken in any store.    *)
Lists == stored[config.store]

Kept == {p \in Store \X Slug : stored[p[1]][p[2]] # None}

(* A start reads the registry; there is no service if it, or the           *)
(* configuration, is refused.                                              *)
Start(env) ==
  /\ config' = ParseConfig(env)
  /\ registry' =
       LET tenants == LoadTenants(Blocks) IN
       IF config' = RefusedConfig THEN Down
       ELSE IF config'.registry = "memory" THEN NoTenants
       ELSE IF tenants = Refused THEN Down ELSE tenants
  /\ UNCHANGED <<provisioningVars, created>>

(* The service starts, or starts again, in any environment: what was in    *)
(* memory is gone, and init leaves the lists it finds.                     *)
(* Mutant: init makes the tables anew.                                     *)
BootAfresh(env) ==
  /\ Start(env)
  /\ LET gone == IF config' = RefusedConfig THEN {InMemory}
                 ELSE {InMemory, config'.store}
     IN stored' = [store \in Store |->
                     IF store \in gone THEN NoLists ELSE stored[store]]

Boot(env) ==
  /\ Start(env)
  /\ stored' = [stored EXCEPT ![InMemory] = NoLists]

-----------------------------------------------------------------------------
(* Authentication                                                          *)

(* A static token, or an access token that names a tenant.                 *)
Credential == [token : Cli] \cup [sub : Tenant]

Known(t) == registry # Down /\ registry[t] # None

(* resolveTenant: an access token counts only if there is a secret to      *)
(* verify it with, and it is never looked up as a static one.              *)
Authenticates(credential, t) ==
  /\ Known(t)
  /\ IF "sub" \in DOMAIN credential
     THEN config.accessTokens /\ credential.sub = t
     ELSE registry[t].token = credential.token

(* The domains of a tenant; one that left the registry has none.           *)
Domains(t) == IF Known(t) THEN registry[t].domains ELSE {}

-----------------------------------------------------------------------------
(* The insert of a create whose id is free.                                *)
AddList(t, slug, url) ==
  /\ Lists[slug] = None
  /\ Cardinality(Kept) < MaxLists
  /\ stored' = [stored EXCEPT ![config.store][slug] =
                  [tenant |-> t, url |-> url]]
  /\ created' = IF config.store = InMemory THEN created
                ELSE created \cup
                       {[store |-> config.store, tenant |-> t, url |-> url]}
  /\ UNCHANGED <<provisioningVars, config, registry>>

(* A create with no id gets a new one.                                     *)
CreateList(t) ==
  \E slug \in Slug : AddList(t, slug, StatusListUrl(config.own, slug))

(* A create with an id gets it, if the tenant may have it and if it is the *)
(* URL of a list.                                                          *)
CreateListAt(t, url) ==
  /\ url.host \in AuthorizedHosts(Domains(t), config.own)
  /\ SlugFromListUrl(url) # NoSlug
  /\ AddList(t, SlugFromListUrl(url), url)

Create ==
  \E credential \in Credential, t \in Tenant :
     /\ Authenticates(credential, t)
     /\ CreateList(t) \/ \E url \in Url : CreateListAt(t, url)

(* getStatusListHandler: the list that is served under a host and a path,  *)
(* or NoSlug.                                                              *)
Served(url) ==
  LET slug == RouteParam(url.path) IN
  IF slug = NoSlug THEN NoSlug
  ELSE IF Lists[slug] = None THEN NoSlug
  ELSE IF url.host \in AuthorizedHosts(Domains(Lists[slug].tenant), config.own)
    THEN slug
  ELSE NoSlug

(* listFromUrl: the list an explicit selector names, or NoSlug.            *)
(* Mutant: the route's idea of a path.                                     *)
ListFromRoutedUrl(url) ==
  LET slug == SlugFromExactUrl(url) IN
  IF slug = NoSlug THEN NoSlug
  ELSE IF Lists[slug] # None /\ Lists[slug].url = url THEN slug ELSE NoSlug

ListFromUrl(url) ==
  LET slug == SlugFromListUrl(url) IN
  IF slug = NoSlug THEN NoSlug
  ELSE IF Lists[slug] # None /\ Lists[slug].url = url THEN slug ELSE NoSlug

Next ==
  \/ Provision /\ UNCHANGED <<config, registry, stored, created>>
  \/ \E env \in Environments : Boot(env)
  \/ Create

Spec == Init /\ [][Next]_vars

-----------------------------------------------------------------------------
(* Properties                                                              *)

(* A tenant of the registry has the token, the suite and the key of one    *)
(* block, though blocks shadow each other variable by variable, and no two *)
(* tenants have one token, though hands copy blocks (parseKeyMaterial of   *)
(* tenants-env.ts and add of tenants-memory.ts).                           *)
TenantsAreCoherent ==
  registry # Down =>
    \A t \in Tenant :
       Known(t) =>
         /\ registry[t].key = [kind |-> registry[t].suite,
                               made |-> registry[t].token]
         /\ \A u \in Tenant \ {t} :
              Known(u) => registry[t].token # registry[u].token

(* Every list whose URL is routed answers at that URL exactly as long as   *)
(* its tenant holds the host or it is the service's own now, whatever has  *)
(* become of the tenant and the configuration since it was created         *)
(* (getStatusListHandler against createStatusListHandler).                 *)
ListsAnswerAtHome ==
  registry # Down =>
    \A s \in Slug :
       Lists[s] # None /\ RouteParam(Lists[s].url.path) # NoSlug =>
         LET url == Lists[s].url IN
         (Served(url) = s)
           <=> (url.host \in Domains(Lists[s].tenant) \cup {config.own})

(* The URL in a list's credential, and no other, selects the list, however *)
(* it is written: what the create accepts, the update finds (listFromUrl   *)
(* of routes/credentials-status.ts, "a plausible-looking URL cannot        *)
(* address a list that does not answer to it").                            *)
SelectorFindsLists ==
  registry # Down =>
    \A s \in Slug : \A url \in Url :
       Lists[s] # None => ((ListFromUrl(url) = s) <=> (url = Lists[s].url))

(* The list that a create in a store was answered with is there, under its *)
(* URL and with its owner, for a service that runs on this store.          *)
StillFound(c) ==
  /\ ListFromUrl(c.url) # NoSlug
  /\ Lists[ListFromUrl(c.url)].tenant = c.tenant

(* A service on a file or a database finds every list that was ever        *)
(* created in it, through any starts in between, on other backends and     *)
(* under other configurations, and whatever was created there (init and    *)
(* createStatusList of storage-sql.ts).                                    *)
ListsArePermanent ==
  registry # Down /\ config.store \in Durable =>
    \A c \in created : c.store = config.store => StillFound(c)

(* "refuses storage that forgets its lists in production" (config.test.ts):*)
(* a production service that starts again in the environment it was        *)
(* started in finds the lists it had.                                      *)
ProductionRemembers ==
  [][/\ registry # Down /\ config.production
     /\ registry' # Down /\ config' = config
     => \A s \in Slug : Lists[s] # None => Lists'[s] = Lists[s]]_vars

(* A start reads each tenant as its last block says, its token, suite and  *)
(* key, though blocks shadow each other variable by variable; only its     *)
(* domains are those of the last block that names any.  It fails exactly   *)
(* if a tenant's blocks are of both profiles or two tenants have one token *)
(* (parseTenantsFromEnv of tenants-env.ts, add of tenants-memory.ts).      *)
LatestBlockIsRead ==
  LET tenants == LoadTenants(Blocks) IN
  /\ tenants = Refused
       <=> \/ \E t \in Tenant : MixesProfiles(Blocks, t)
           \/ \E t, u \in Tenant : SharesToken(Blocks, t, u)
  /\ tenants # Refused =>
       \A t \in Tenant :
          tenants[t] =
            IF HasTenant(Blocks, t)
            THEN LET b == Latest(Blocks, t)
                 IN [token |-> b.made, suite |-> b.profile,
                     key |-> [kind |-> b.profile, made |-> b.made],
                     domains |-> NamedLast(Blocks, t)]
            ELSE None

(* "pass --force to append a second block that will shadow it"             *)
(* (appendEnvBlock of cli/provisioning.ts): the next start of the service  *)
(* would find a tenant's latest block.                                     *)
LatestBlockShadows ==
  \A c \in Cli :
     cli[c].force /\ Blocks # <<>> =>
       LET latest == Last(Blocks) IN
       latest.made = c =>
         /\ LoadTenants(Blocks) # Refused
         /\ LoadTenants(Blocks)[latest.tenant].token = c
=============================================================================
