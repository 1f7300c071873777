---------------------------- MODULE Provisioning ----------------------------
(***************************************************************************)
(* Provisioning a tenant: runs of cli/provision-tenant.ts, which read the  *)
(* env file, look for the tenant and append a block (appendEnvBlock of     *)
(* cli/provisioning.ts), and the hands that edit the file too.             *)
(***************************************************************************)
EXTENDS EnvFile, Naturals

CONSTANTS
  Missing,    \* there is no file
  MaxBlocks   \* bounds what hands add: the blocks of the longest file edited

ASSUME MaxBlocksAssumption == MaxBlocks \in Nat

ASSUME MissingAssumption == Missing \notin Seq(Block)

VARIABLES
  file,   \* the blocks of the env file, or Missing
  cli     \* each run: its phase, its block until it is written and whether
          \* it is forced

provisioningVars == <<file, cli>>

CliPhase == {"idle", "creating", "appending", "done", "failed"}

CliState ==
  [phase : CliPhase, block : Block \cup {None}, force : BOOLEAN]

ProvisioningTypeOK ==
  /\ file \in Seq(Block) \cup {Missing}
  /\ cli \in [Cli -> CliState]

ProvisioningInit ==
  /\ file = Missing
  /\ cli = [c \in Cli |-> [phase |-> "idle", block |-> None, force |-> FALSE]]

Blocks == IF file = Missing THEN <<>> ELSE file

(* A run generates its secrets, reads the file and looks for the tenant in *)
(* it.  Any error of the read counts as no file.                           *)
ReadFile(c) ==
  /\ cli[c].phase = "idle"
  /\ \E b \in {b \in Block : b.made = c}, force \in BOOLEAN,
        readable \in BOOLEAN :
       LET phase == IF file = Missing \/ ~readable THEN "creating"
                    ELSE IF HasTenant(file, b.tenant) /\ ~force THEN "failed"
                    ELSE "appending"
       IN cli' = [cli EXCEPT ![c] =
                    [phase |-> phase, force |-> force /\ phase # "failed",
                     block |-> IF phase = "failed" THEN None ELSE b]]
  /\ UNCHANGED file

(* It writes, whatever has become of the file since: a run that saw none   *)
(* writes all of it, any other appends.                                    *)
WriteFile(c) ==
  /\ cli[c].phase \in {"creating", "appending"}
  /\ cli' = [cli EXCEPT ![c].phase = "done", ![c].block = None]
  /\ file' = IF cli[c].phase = "creating" THEN <<cli[c].block>>
             ELSE Append(Blocks, cli[c].block)

(* By hand: a block is taken out of the file, or copied for another        *)
(* tenant, secrets and all.                                                *)
RemoveBlock ==
  /\ \E i \in DOMAIN Blocks : file' = RemoveAt(file, i)
  /\ UNCHANGED cli

CopyBlock(t) ==
  /\ Len(Blocks) < MaxBlocks
  /\ \E i \in DOMAIN Blocks :
        /\ file[i].tenant # t
        /\ file' = Append(file, [file[i] EXCEPT !.tenant = t])
  /\ UNCHANGED cli

Provision ==
  \/ \E c \in Cli : ReadFile(c) \/ WriteFile(c)
  \/ RemoveBlock
  \/ \E t \in Tenant : CopyBlock(t)
=============================================================================
