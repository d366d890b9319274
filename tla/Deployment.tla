----------------------------- MODULE Deployment -----------------------------
(***************************************************************************)
(* Setting an extension up and verifying it: scripts/pre-build.sh with     *)
(* deploy-contract and register-extension, register-extension by hand,     *)
(* start-services.sh, allow-tee-version, set-governance, verify-deploy.    *)
(*                                                                         *)
(* Every transaction is sent, mined and confirmed separately.  A tool that *)
(* dies or waits longer than CheckTx does leaves its transaction behind,   *)
(* and transactions of one key are mined in the order sent.  Nothing that  *)
(* SetupExtension does is undone or taken up again by a later run: it      *)
(* registers a new extension.  Meanwhile other parties register extensions *)
(* with any instruction sender they like, anybody makes the auction        *)
(* contract look for its extension id, and the operator switches .env and  *)
(* config/extension.env.                                                   *)
(***************************************************************************)
EXTENDS Validate, Sequences

CONSTANTS
  Keys,          \* accounts of the operator
  DevKey,        \* the key used when DEPLOYMENT_PRIVATE_KEY is not set
  DevOwner,      \* INITIAL_OWNER of docker-compose.yaml when .env sets none
  Other,         \* any other account
  DotEnvs,       \* the .env files of the operator
  HandFiles,     \* extension.env files that no pre-build wrote here
  Situations,    \* how verify-deploy is called and what it meets: --config,
                 \* --checks, the addresses file, the failing reads, the
                 \* balance of the key, variables
  CodeHashes,
  OwnerLists,    \* lists of allowed owners that register() may put the owner on
  MaxContracts, MaxSetups, MaxLaunches, MaxMishaps   \* bounds: the first
                 \* MaxSetups launches may register an extension; a mishap is a
                 \* fault, a foreign registration or a change of configuration

VARIABLES
  exts,       \* the registry: extension id -> its record
  deployed,   \* auction contracts with code
  cached,     \* contract -> its extensionId, 0 while unset
  pending,    \* key -> transactions that are not yet mined
  tool,       \* the tool that is running
  file,       \* config/extension.env
  builtBy,    \* key of the pre-build that wrote file
  dotenv, node,
  claims,     \* what tools that ended well have established
  verdict,    \* what the last verify-deploy that exited with 0 had seen
  used        \* how much of each bound is used up

chainVars == <<exts, deployed, cached, pending>>
localVars == <<file, builtBy, dotenv, node>>
historyVars == <<claims, verdict>>
depVars == <<chainVars, tool, localVars, historyVars, used>>

Contracts == 1 .. MaxContracts
NoFile == [exists |-> FALSE, id |-> Unset, sender |-> Unset]
EmptyFile == [exists |-> TRUE, id |-> Unset, sender |-> Unset]
Values == Nat \cup {Unset, Malformed}
Files == {f \in [exists : BOOLEAN, id : Values, sender : Values] :
            ~f.exists => f.id = Unset /\ f.sender = Unset}
Receipts == [ok : BOOLEAN, id : Nat]
NotRunning == [id |-> 0, code |-> Unset, governance |-> Unset, env |-> Unset]
NoVerdict == [step |-> "none", unique |-> FALSE]

\* The operator's .env names its own keys, and an extension.env has values
\* only if it exists.
ASSUME OperatorAssumption ==
  /\ \A env \in DotEnvs : env.key \in Keys /\ env.EXTENSION_OWNER_KEY \in Keys \cup {Unset}
  /\ HandFiles \subseteq Files
ASSUME UnsetAssumption ==
  /\ Unset \notin Nat \cup Keys \cup CodeHashes \cup Receipts
  /\ Malformed \notin Nat
ASSUME DeploymentBounds ==
  {MaxContracts, MaxSetups, MaxLaunches, MaxMishaps} \subseteq Nat

\* A run of some tool: quiet says that nothing was outstanding when it
\* started, receipt is that of the transaction it waits for.
Run(pc, key, quiet) ==
  [pc |-> pc, key |-> key, quiet |-> quiet, waiting |-> FALSE, receipt |-> Unset,
   sender |-> 0, id |-> 0, byHand |-> FALSE, code |-> Unset, governance |-> Unset, env |-> Unset]
Idle == Run("idle", Unset, FALSE)

DepInit ==
  /\ exts = <<>>
  /\ deployed = {}
  /\ cached = [c \in Contracts |-> 0]
  /\ pending = [k \in Keys |-> <<>>]
  /\ tool = Idle
  /\ file = NoFile
  /\ builtBy = Unset
  /\ dotenv \in DotEnvs
  /\ node = NotRunning
  /\ claims = {}
  /\ verdict = NoVerdict
  /\ used = [contracts |-> 0, launches |-> 0, mishaps |-> 0]

Within(counter, bound) ==
  /\ used[counter] < bound
  /\ used' = [used EXCEPT ![counter] = @ + 1]

-----------------------------------------------------------------------------
(* The chain.                                                              *)

\* register(): the caller owns the extension.  Whether the registry already
\* counts the owner among the two kinds of allowed owners is left open, as
\* SetupExtension leaves it.
NewExtension(owner, sender, lists) ==
  [owner |-> owner, sender |-> sender,
   machineOwners |-> IF "machine" \in lists THEN {owner} ELSE {},
   projectOwners |-> IF "project" \in lists THEN {owner} ELSE {},
   evm |-> FALSE, versions |-> {}, governance |-> Unset]

\* Only the owner configures an extension; a code hash is added once.
Succeeds(tx, k) ==
  tx.op \in {"machineOwner", "projectOwner", "keyType", "version", "governance"} =>
    /\ exts[tx.id].owner = k
    /\ tx.op = "version" => tx.code \notin exts[tx.id].versions

\* The registry after tx of k, for each way it may fill in a new extension.
Registries(tx, k) ==
  IF ~Succeeds(tx, k) THEN {exts}
  ELSE CASE tx.op \in {"token", "deploy"} -> {exts}
         [] tx.op = "register" ->
              {Append(exts, NewExtension(k, tx.sender, lists)) : lists \in OwnerLists}
         [] tx.op = "machineOwner" -> {[exts EXCEPT ![tx.id].machineOwners = @ \cup {k}]}
         [] tx.op = "projectOwner" -> {[exts EXCEPT ![tx.id].projectOwners = @ \cup {k}]}
         [] tx.op = "keyType" -> {[exts EXCEPT ![tx.id].evm = TRUE]}
         [] tx.op = "version" -> {[exts EXCEPT ![tx.id].versions = @ \cup {tx.code}]}
         [] tx.op = "governance" -> {[exts EXCEPT ![tx.id].governance = tx.governance]}

\* A running tool waits for the transaction it sent last.
Land(k) ==
  /\ pending[k] # <<>>
  /\ LET tx == Head(pending[k]) IN
       /\ exts' \in Registries(tx, k)
       /\ deployed' = deployed \cup (IF tx.op = "deploy" THEN {tx.sender} ELSE {})
       /\ tool' = IF tool.waiting /\ tool.key = k /\ Len(pending[k]) = 1
                  THEN [tool EXCEPT !.receipt = [ok |-> Succeeds(tx, k), id |-> Len(exts')]]
                  ELSE tool
  /\ pending' = [pending EXCEPT ![k] = Tail(@)]
  /\ UNCHANGED <<cached, localVars, historyVars, used>>

RegisterOther(sender) ==
  /\ Within("mishaps", MaxMishaps)
  /\ exts' = Append(exts, NewExtension(Other, sender, {}))
  /\ UNCHANGED <<deployed, cached, pending, tool, localVars, historyVars>>

\* setExtensionId: the first extension whose instruction sender is the
\* contract, kept for ever.
ExtensionsOf(sender) == {i \in DOMAIN exts : exts[i].sender = sender}
FirstExtensionOf(sender) == CHOOSE i \in ExtensionsOf(sender) : \A j \in ExtensionsOf(sender) : i <= j

SetExtensionId(c) ==
  /\ c \in deployed /\ cached[c] = 0 /\ ExtensionsOf(c) # {}
  /\ cached' = [cached EXCEPT ![c] = FirstExtensionOf(c)]
  /\ UNCHANGED <<exts, deployed, pending, tool, localVars, historyVars, used>>

-----------------------------------------------------------------------------
(* Starting the tools.                                                     *)

NewRun(pc, key) == Run(pc, key, \A k \in Keys : pending[k] = <<>>)

Launch(run) ==
  /\ tool = Idle
  /\ Within("launches", MaxLaunches)
  /\ tool' = run
  /\ verdict' = NoVerdict
  /\ UNCHANGED <<chainVars, localVars, claims>>

\* resolveTokens: both given and different, or fresh test tokens, which
\* LOCAL_MODE=false forbids, in whatever case it is written ("False" stands
\* for every other spelling).  (A given address that is no token ends the run
\* before anything is sent.)
TokensGiven == Unset \notin {dotenv.BASE_TOKEN, dotenv.QUOTE_TOKEN}
resolveTokens ==
  IF TokensGiven THEN dotenv.BASE_TOKEN # dotenv.QUOTE_TOKEN ELSE dotenv.LOCAL_MODE \notin {"false", "False"}

\* pre-build.sh, once its preflight has passed; a preflight that fails
\* changes nothing.
PreBuild ==
  /\ resolveTokens
  /\ used.launches < MaxSetups /\ used.contracts < MaxContracts
  /\ Launch([NewRun(IF TokensGiven THEN "deploy" ELSE "base", dotenv.key) EXCEPT
               !.sender = used.contracts + 1])

\* register-extension for a contract that has code.
RegisterByHand(sender) ==
  /\ sender \in deployed
  /\ used.launches < MaxSetups
  /\ Launch([NewRun("register", dotenv.key) EXCEPT !.sender = sender, !.byHand = TRUE])

OwnerKey(env) == IF env.EXTENSION_OWNER_KEY = Unset THEN env.key ELSE env.EXTENSION_OWNER_KEY

\* The proxy's /info tells the extension id and the code hash.
AllowTeeVersion ==
  /\ node # NotRunning
  /\ Launch([NewRun("version", OwnerKey(dotenv)) EXCEPT !.id = node.id, !.code = node.code])

\* The signers are those of .env or one default; the threshold is 1 if .env
\* gives one of the values in asOne.
Governance(env, fallback, asOne) ==
  [signers |-> IF env.GOVERNANCE_SIGNERS = {} THEN {fallback} ELSE env.GOVERNANCE_SIGNERS,
   threshold |-> IF env.GOVERNANCE_THRESHOLD \in asOne THEN 1 ELSE env.GOVERNANCE_THRESHOLD]

\* Faulty variant: the default signer is always the key of the caller.
ToolGovernanceOfCaller(env) == Governance(env, OwnerKey(env), {Unset, Malformed, 0})

\* parseSigners and parseThreshold of set-governance, and the same variables
\* as docker-compose.yaml passes them to the node, which gets an unusable
\* threshold as it is.
ToolGovernance(env) ==
  Governance(env, IF env.INITIAL_OWNER = Unset THEN OwnerKey(env) ELSE env.INITIAL_OWNER,
             {Unset, Malformed, 0})
NodeGovernance(env) ==
  Governance(env, IF env.INITIAL_OWNER = Unset THEN DevOwner ELSE env.INITIAL_OWNER, {Unset})

SetGovernance ==
  /\ node # NotRunning
  /\ ToolGovernance(dotenv).threshold <= Cardinality(ToolGovernance(dotenv).signers)
  /\ Launch([NewRun("governance", OwnerKey(dotenv)) EXCEPT
               !.id = node.id, !.governance = ToolGovernance(dotenv), !.env = dotenv])

-----------------------------------------------------------------------------
(* Steps of the running tool.                                              *)

SetupSteps ==
  <<"base", "quote", "deploy", "register", "machineOwner", "projectOwner", "keyType", "write">>

Following(pc) ==
  IF pc \in {"version", "governance"} THEN "done"
  ELSE LET i == CHOOSE j \in DOMAIN SetupSteps : SetupSteps[j] = pc IN SetupSteps[i + 1]

Transaction ==
  CASE tool.pc \in {"base", "quote"} -> [op |-> "token"]
    [] tool.pc \in {"deploy", "register"} -> [op |-> tool.pc, sender |-> tool.sender]
    [] tool.pc \in {"machineOwner", "projectOwner", "keyType"} -> [op |-> tool.pc, id |-> tool.id]
    [] tool.pc = "version" -> [op |-> "version", id |-> tool.id, code |-> tool.code]
    [] tool.pc = "governance" -> [op |-> "governance", id |-> tool.id, governance |-> tool.governance]

\* Faulty variant: both owner steps ask about machine owners.
AlreadyDoneMixed ==
  LET e == exts[tool.id]
  IN  CASE tool.pc \in {"machineOwner", "projectOwner"} -> tool.key \in e.machineOwners
        [] tool.pc = "keyType" -> e.evm
        [] tool.pc = "version" -> tool.code \in e.versions
        [] tool.pc = "governance" -> e.governance = tool.governance
        [] OTHER -> FALSE

\* The reads that make a step unnecessary.
AlreadyDone ==
  LET e == exts[tool.id]
  IN  CASE tool.pc = "machineOwner" -> tool.key \in e.machineOwners
        [] tool.pc = "projectOwner" -> tool.key \in e.projectOwners
        [] tool.pc = "keyType" -> e.evm
        [] tool.pc = "version" -> tool.code \in e.versions
        [] tool.pc = "governance" -> e.governance = tool.governance
        [] OTHER -> FALSE

Working(pcs) == tool.pc \in pcs /\ ~tool.waiting
TxSteps == {"base", "quote", "deploy", "register", "machineOwner", "projectOwner", "keyType",
            "version", "governance"}

SkipStep ==
  /\ Working(TxSteps) /\ AlreadyDone
  /\ tool' = [tool EXCEPT !.pc = Following(@)]
  /\ UNCHANGED <<chainVars, localVars, historyVars, used>>

\* A contract's address is fixed when its transaction is sent; sending a new
\* governance withdraws what was claimed about the old one.  SetTeeGovernance
\* sends also when it could not read what is on chain.
SendStep ==
  /\ Working(TxSteps) /\ (AlreadyDone => tool.pc = "governance")
  /\ pending' = [pending EXCEPT ![tool.key] = Append(@, Transaction)]
  /\ tool' = [tool EXCEPT !.waiting = TRUE]
  /\ used' = [used EXCEPT !.contracts = IF tool.pc = "deploy" THEN tool.sender ELSE @]
  /\ claims' = {c \in claims : ~(tool.pc = "governance" /\ c.op = "governance" /\ c.id = tool.id)}
  /\ UNCHANGED <<exts, deployed, cached, localVars, verdict>>

\* registerExtension takes the id from the event of its own transaction.
IdFromReceipt == IF tool.pc = "register" THEN tool.receipt.id ELSE tool.id

Confirmed ==
  /\ tool.waiting /\ tool.receipt # Unset
  /\ tool.receipt.ok
  /\ tool' = [tool EXCEPT !.pc = Following(@), !.waiting = FALSE, !.receipt = Unset,
                          !.id = IdFromReceipt]
  /\ UNCHANGED <<chainVars, localVars, historyVars, used>>

\* Faulty variant: any failed version transaction passes for that error.
ToleratedAlways == tool.pc = "version"

\* A version that was added meanwhile is as good as added, if the error text
\* names VersionAlreadyExists, which depends on the RPC node; every other
\* revert is fatal.
Tolerated == tool.pc = "version" /\ tool.code \in exts[tool.id].versions

Reverted ==
  /\ tool.waiting /\ tool.receipt # Unset
  /\ ~tool.receipt.ok
  /\ \/ tool' = Idle
     \/ Tolerated /\ tool' = [tool EXCEPT !.pc = "done", !.waiting = FALSE, !.receipt = Unset]
  /\ UNCHANGED <<chainVars, localVars, historyVars, used>>

\* The end of pre-build.sh: Step 4, Write config.
WriteConfig ==
  /\ Working({"write"}) /\ ~tool.byHand
  /\ file' = [exists |-> TRUE, id |-> tool.id, sender |-> tool.sender]
  /\ builtBy' = tool.key
  /\ tool' = Idle
  /\ UNCHANGED <<chainVars, dotenv, node, historyVars, used>>

\* register-extension by hand prints the id; nothing reads it.
EndByHand ==
  /\ Working({"write"}) /\ tool.byHand
  /\ tool' = Idle
  /\ UNCHANGED <<chainVars, localVars, historyVars, used>>

\* A transaction of an earlier run may still undo a governance, so that is
\* claimed only by a run that started with nothing outstanding, of any key:
\* whoever finds what it wants already on chain sends nothing, owner or not.
EndWell ==
  /\ Working({"done"})
  /\ claims' = claims \cup
       (IF tool.code # Unset THEN {[op |-> "version", id |-> tool.id, code |-> tool.code]}
        ELSE IF tool.quiet
        THEN {[op |-> "governance", id |-> tool.id, governance |-> tool.governance, env |-> tool.env]}
        ELSE {})
  /\ tool' = Idle
  /\ UNCHANGED <<chainVars, localVars, verdict, used>>

\* A kill, a read that fails, or the two minutes of CheckTx.
GiveUp ==
  /\ tool # Idle
  /\ Within("mishaps", MaxMishaps)
  /\ tool' = Idle
  /\ UNCHANGED <<chainVars, localVars, historyVars>>

\* Killed between the truncation of extension.env and the write.
GiveUpWriting ==
  /\ Working({"write"}) /\ ~tool.byHand
  /\ Within("mishaps", MaxMishaps)
  /\ file' = EmptyFile
  /\ builtBy' = Unset
  /\ tool' = Idle
  /\ UNCHANGED <<chainVars, dotenv, node, historyVars>>

-----------------------------------------------------------------------------
(* The operator.                                                           *)

StartServices(code) ==
  /\ tool = Idle
  /\ WellFormed(file.id) /\ file.id \in DOMAIN exts
  /\ node' = [id |-> file.id, code |-> code, governance |-> NodeGovernance(dotenv), env |-> dotenv]
  /\ UNCHANGED <<chainVars, tool, file, builtBy, dotenv, historyVars, used>>

UseChain(env) ==
  /\ tool = Idle
  /\ env # dotenv
  /\ Within("mishaps", MaxMishaps)
  /\ dotenv' = env
  /\ verdict' = NoVerdict
  /\ UNCHANGED <<chainVars, tool, file, builtBy, node, claims>>

PutFile(f) ==
  /\ tool = Idle
  /\ Within("mishaps", MaxMishaps)
  /\ file' = f
  /\ builtBy' = Unset
  /\ verdict' = NoVerdict
  /\ UNCHANGED <<chainVars, tool, dotenv, node, claims>>

\* What verify-deploy sees.  With a wrong addresses file there is no registry
\* to read from.
World(s) ==
  [config |-> s.config, file |-> file,
   managerZero |-> s.addresses = "zero", hasCode |-> s.addresses = "right",
   hasFunds |-> s.hasFunds,
   counter |-> Len(exts) + 1,
   senderOf |-> [i \in Nat |-> IF i \in DOMAIN exts THEN exts[i].sender ELSE Unset],
   machineOwners |-> {i \in DOMAIN exts : dotenv.key \in exts[i].machineOwners},
   keyTypes |-> {i \in DOMAIN exts : exts[i].evm},
   down |-> s.down \cup (IF s.addresses = "right" THEN {}
                         ELSE {"counter", "sender", "owner", "keyType", "scan"}),
   vars |-> [DEPLOYMENT_PRIVATE_KEY |-> dotenv.key # DevKey,
             EXTENSION_OWNER_KEY |-> dotenv.EXTENSION_OWNER_KEY # Unset,
             LOCAL_MODE |-> dotenv.LOCAL_MODE,
             PROXY_PRIVATE_KEY |-> s.PROXY_PRIVATE_KEY, SIMULATED_TEE |-> s.SIMULATED_TEE,
             EXT_PROXY_URL |-> s.EXT_PROXY_URL, NORMAL_PROXY_URL |-> s.NORMAL_PROXY_URL,
             portInUse |-> s.portInUse]]

\* Of an unfiltered run over the file that exits with 0 the operator remembers
\* the step if it vouches for more than formats, and whether R7 passed with
\* every extension read.  (Verifying again reaches no other state than not
\* having verified before.)
Verify(step, s) ==
  LET w == World(s)
  IN  /\ tool = Idle /\ verdict = NoVerdict
      /\ ExitsOk(step, s.checks, w)
      /\ verdict' = IF s.config /\ s.checks = {} /\ step \in {"register", "services", "all"}
                    THEN [step |-> step,
                          unique |-> /\ [id |-> "R7", status |-> "PASS"] \in Report(step, w)
                                     /\ Answers(w, "scan")]
                    ELSE NoVerdict
      /\ UNCHANGED <<chainVars, tool, localVars, claims, used>>

ToolStep ==
  \/ SkipStep \/ SendStep \/ Confirmed \/ Reverted
  \/ WriteConfig \/ EndByHand \/ EndWell \/ GiveUp \/ GiveUpWriting

DepNext ==
  \/ \E k \in Keys : Land(k)
  \/ \E c \in Contracts : RegisterOther(c) \/ SetExtensionId(c) \/ RegisterByHand(c)
  \/ PreBuild \/ AllowTeeVersion \/ SetGovernance
  \/ ToolStep
  \/ \E code \in CodeHashes : StartServices(code)
  \/ \E env \in DotEnvs : UseChain(env)
  \/ \E f \in HandFiles : PutFile(f)
  \/ \E step \in Steps, s \in Situations : Verify(step, s)

DepSpec == DepInit /\ [][DepNext]_depVars

-----------------------------------------------------------------------------
(* Properties                                                              *)

\* An extension.env written by pre-build.sh is the truth, whatever other
\* parties registered meanwhile and whatever earlier runs left behind: it
\* names an extension of the deployed contract that is fully set up for the
\* key that built it.
BuiltConfigComplete ==
  builtBy # Unset =>
    /\ file.sender \in deployed
    /\ file.id \in DOMAIN exts
    /\ exts[file.id].sender = file.sender
    /\ exts[file.id].owner = builtBy
    /\ builtBy \in exts[file.id].machineOwners \cap exts[file.id].projectOwners
    /\ exts[file.id].evm

\* After a pre-build that ended well verify-deploy has nothing to complain
\* about (edgecase-scenarios.md: "verify-after-prebuild ... Expected:
\* PASSes"), as long as the key is the same and the network answers, even if
\* others register extensions with the same instruction sender.  D5 asks for
\* the balance deploy-contract asked for before it paid for anything, so the
\* key must still have that much.
BuiltConfigVerifies ==
  builtBy # Unset /\ dotenv.key = builtBy =>
    \A step \in Steps, s \in Situations :
      s.config /\ s.addresses = "right" /\ s.down = {} /\ s.hasFunds =>
        ExitsOk(step, s.checks, World(s))

\* Exit status 0 stands for what the checks are about, and stays true while
\* the operator changes nothing, no matter which reads failed: there is an id
\* to start the services with, and after "register" and "all" the extension
\* in the file has the sender in the file, this deployer among its machine
\* owners and the key type.
VerdictSound ==
  LET after(steps) == verdict.step \in steps
  IN  /\ after({"services", "all"}) => WellFormed(file.id)
      /\ after({"all"}) => WellFormed(file.sender)
      /\ after({"register", "all"}) /\ WellFormed(file.id) =>
           /\ dotenv.key \in exts[file.id].machineOwners
           /\ exts[file.id].evm
           /\ WellFormed(file.sender) => exts[file.id].sender = file.sender

\* A report that calls the instruction sender unique settles for good which
\* extension the contract will find when it looks for its id, or has found:
\* the one in the file, which the node is started with.
UniqueMeansPinned ==
  verdict.unique =>
    /\ FirstExtensionOf(file.sender) = file.id
    /\ cached[file.sender] \in {0, file.id}

\* allow-tee-version and set-governance report success only for what is on
\* chain, also when transactions of earlier runs arrive late.
SuccessIsOnChain ==
  \A c \in claims :
    IF c.op = "version" THEN c.code \in exts[c.id].versions
    ELSE exts[c.id].governance = c.governance

\* "The scaffold reads both from .env to guarantee that" (SetTeeGovernance):
\* after a set-governance under the .env the node was started with, the chain
\* has the governance the node signs with, provided .env names the signers or
\* INITIAL_OWNER (the two defaults for INITIAL_OWNER differ) and does not give
\* a threshold that is no positive number (the tool takes 1 for it).
GovernanceMatchesNode ==
  \A c \in claims :
    /\ c.op = "governance" /\ node # NotRunning
    /\ c.id = node.id /\ c.env = node.env
    /\ \/ c.env.GOVERNANCE_SIGNERS # {}
       \/ c.env.INITIAL_OWNER # Unset
    /\ c.env.GOVERNANCE_THRESHOLD \notin {Malformed, 0}
    => exts[c.id].governance = node.governance

-----------------------------------------------------------------------------
(* What makes these inductive                                              *)

Accounts == Keys \cup {Other}
Governances == {ToolGovernance(env) : env \in DotEnvs}
ExtensionRecords ==
  [owner : Accounts, sender : Contracts, machineOwners : SUBSET Accounts,
   projectOwners : SUBSET Accounts, evm : BOOLEAN, versions : SUBSET CodeHashes,
   governance : Governances \cup {Unset}]
Txs(ids) ==
  [op : {"token"}]
    \cup [op : {"deploy", "register"}, sender : Contracts]
    \cup [op : {"machineOwner", "projectOwner", "keyType"}, id : ids]
    \cup [op : {"version"}, id : ids, code : CodeHashes]
    \cup [op : {"governance"}, id : ids, governance : Governances]
Tools ==
  [pc : TxSteps \cup {"idle", "write", "done"}, key : Keys \cup {Unset}, quiet : BOOLEAN,
   waiting : BOOLEAN, receipt : Receipts \cup {Unset}, sender : 0 .. MaxContracts, id : Nat,
   byHand : BOOLEAN, code : CodeHashes \cup {Unset}, governance : Governances \cup {Unset},
   env : DotEnvs \cup {Unset}]
Nodes == [id : DOMAIN exts, code : CodeHashes, governance : {NodeGovernance(env) : env \in DotEnvs},
          env : DotEnvs]

DepShape ==
  /\ exts \in Seq(ExtensionRecords)
  /\ deployed \subseteq Contracts
  /\ cached \in [Contracts -> Nat]
  /\ pending \in [Keys -> Seq(Txs(DOMAIN exts))]
  /\ tool \in Tools
  /\ file \in Files /\ builtBy \in Keys \cup {Unset}
  /\ dotenv \in DotEnvs
  /\ node # NotRunning => node \in Nodes /\ node.governance = NodeGovernance(node.env)
  /\ used \in [contracts : 0 .. MaxContracts, launches : Nat, mishaps : Nat]

\* What a run has achieved: the steps of a setup follow each other.
IsExtensionOf(id, sender, owner) ==
  id \in DOMAIN exts /\ exts[id].sender = sender /\ exts[id].owner = owner
Achieved(step, id) ==
  CASE step = "deploy" -> tool.sender \in deployed
    [] step = "register" -> IsExtensionOf(id, tool.sender, tool.key)
    [] step = "machineOwner" -> tool.key \in exts[id].machineOwners
    [] step = "projectOwner" -> tool.key \in exts[id].projectOwners
    [] step = "keyType" -> exts[id].evm
    [] step = "version" -> tool.code \in exts[id].versions
    [] step = "governance" -> tool.quiet => exts[id].governance = tool.governance
    [] OTHER -> TRUE
ToolProgress ==
  /\ tool.pc = "idle" => tool = Idle
  /\ tool.pc # "idle" => tool.key \in Keys
  /\ tool.pc \in {"base", "quote", "deploy", "register"} => tool.sender \in Contracts
  /\ tool.pc \in {"register", "machineOwner", "projectOwner", "keyType", "write"} =>
       Achieved("deploy", tool.id)
  /\ tool.pc \in {"machineOwner", "projectOwner", "keyType", "write"} => Achieved("register", tool.id)
  /\ tool.pc \in {"projectOwner", "keyType", "write"} => Achieved("machineOwner", tool.id)
  /\ tool.pc \in {"keyType", "write"} => Achieved("projectOwner", tool.id)
  /\ tool.pc = "write" => Achieved("keyType", tool.id)
  /\ tool.pc \in {"version", "governance", "done"} =>
       /\ tool.id \in DOMAIN exts
       /\ tool.pc = "version" => tool.code # Unset
       /\ tool.pc = "governance" => tool.code = Unset
       /\ tool.code = Unset => tool.env \in DotEnvs /\ tool.governance = ToolGovernance(tool.env)
       /\ tool.pc = "done" /\ tool.code # Unset => Achieved("version", tool.id)
       /\ tool.pc = "done" /\ tool.code = Unset => Achieved("governance", tool.id)

\* A tool waits for the last transaction of its key, and then knows what it did.
ToolWaits ==
  IF ~tool.waiting THEN tool.receipt = Unset
  ELSE /\ tool.pc \in TxSteps
       /\ IF tool.receipt = Unset
          THEN /\ pending[tool.key] # <<>>
               /\ pending[tool.key][Len(pending[tool.key])] = Transaction
          ELSE /\ pending[tool.key] = <<>>
               /\ tool.receipt.ok => Achieved(tool.pc, IdFromReceipt)

\* While a run that started quietly lasts, only its own transaction is outstanding.
ToolQuiet ==
  tool.pc # "idle" /\ tool.quiet =>
    /\ \A k \in Keys \ {tool.key} : pending[k] = <<>>
    /\ pending[tool.key] = <<>> \/ (tool.waiting /\ Len(pending[tool.key]) = 1)

ClaimsHold ==
  \A c \in claims :
    /\ c.id \in DOMAIN exts
    /\ c.op = "version" => c.code \in exts[c.id].versions
    /\ c.op # "version" =>
         /\ c.op = "governance" /\ c.env \in DotEnvs
         /\ c.governance = ToolGovernance(c.env)
         /\ exts[c.id].governance = c.governance
         /\ \A k \in Keys : \A p \in DOMAIN pending[k] :
              pending[k][p].op = "governance" => pending[k][p].id # c.id

IsFirstOf(id, sender) == id \in ExtensionsOf(sender) /\ \A j \in ExtensionsOf(sender) : id <= j
CachedFirst == \A c \in Contracts : cached[c] # 0 => IsFirstOf(cached[c], c)

VerdictHolds ==
  verdict # NoVerdict =>
    /\ tool = Idle
    /\ VerdictSound
    /\ verdict.step \in {"register", "all"} /\ WellFormed(file.id) => file.id \in DOMAIN exts
    /\ verdict.unique => IsFirstOf(file.id, file.sender)

BuiltFile == builtBy # Unset => file.exists /\ BuiltConfigComplete

DepInv ==
  /\ DepShape /\ ToolProgress /\ ToolWaits /\ ToolQuiet
  /\ ClaimsHold /\ CachedFirst /\ VerdictHolds /\ BuiltFile
=============================================================================
