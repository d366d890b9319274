-------------------------- MODULE DeploymentProofs --------------------------
(***************************************************************************)
(* Theorems about Deployment and the validation it runs, for any keys,     *)
(* .env files, situations and bounds.                                      *)
(***************************************************************************)
EXTENDS Deployment, SetLemmas, SequenceTheorems, TLAPS

-----------------------------------------------------------------------------
(* The registry only grows.                                                *)

\* An extension keeps its sender and its owner, and loses nothing.
Kept(e, f) ==
  /\ f.sender = e.sender /\ f.owner = e.owner
  /\ e.machineOwners \subseteq f.machineOwners
  /\ e.projectOwners \subseteq f.projectOwners
  /\ e.evm => f.evm
  /\ e.versions \subseteq f.versions

Grown ==
  /\ exts' \in Seq(ExtensionRecords)
  /\ DOMAIN exts = 1 .. Len(exts) /\ DOMAIN exts' = 1 .. Len(exts')
  /\ Len(exts) \in Nat /\ Len(exts') \in Nat /\ Len(exts) <= Len(exts')
  /\ \A i \in DOMAIN exts : i \in DOMAIN exts' /\ Kept(exts[i], exts'[i])

\* What extensions have as governance, up to one that tx may have set.
GovernanceKept(tx) ==
  \A i \in DOMAIN exts : exts'[i].governance = exts[i].governance
                         \/ (tx.op = "governance" /\ tx.id = i)

\* A step that leaves the registry alone is one in which it grows.
LEMMA SameGrown ==
  ASSUME DepShape, exts' = exts
  PROVE  Grown
  BY DEF DepShape, Grown, Kept

\* A new extension comes after the others.
LEMMA AppendGrows ==
  ASSUME DepShape, NEW e \in ExtensionRecords, exts' = Append(exts, e)
  PROVE  /\ Grown /\ Len(exts') = Len(exts) + 1 /\ exts'[Len(exts')] = e
         /\ \A i \in DOMAIN exts : exts'[i] = exts[i]
  <1>1. exts \in Seq(ExtensionRecords)
    BY DEF DepShape
  <1>2. /\ exts' \in Seq(ExtensionRecords) /\ Len(exts') = Len(exts) + 1
        /\ exts'[Len(exts')] = e
        /\ \A i \in 1 .. Len(exts) : exts'[i] = exts[i]
    BY <1>1, AppendProperties
  <1>3. /\ DOMAIN exts = 1 .. Len(exts) /\ DOMAIN exts' = 1 .. Len(exts')
        /\ Len(exts) \in Nat /\ Len(exts') \in Nat
    BY <1>1, <1>2, LenProperties
  <1>. QED
    BY <1>2, <1>3 DEF Grown, Kept

\* A changed extension stays where it is.
LEMMA ChangeGrows ==
  ASSUME DepShape, NEW i \in DOMAIN exts, NEW e \in ExtensionRecords, Kept(exts[i], e),
         exts' = [exts EXCEPT ![i] = e]
  PROVE  Grown /\ exts'[i] = e /\ \A j \in DOMAIN exts : j # i => exts'[j] = exts[j]
  <1>1. exts \in Seq(ExtensionRecords)
    BY DEF DepShape
  <1>2. exts' \in Seq(ExtensionRecords) /\ Len(exts') = Len(exts)
    BY <1>1, ExceptSeq
  <1>3. /\ DOMAIN exts = 1 .. Len(exts) /\ DOMAIN exts' = 1 .. Len(exts')
        /\ Len(exts) \in Nat /\ Len(exts') \in Nat
    BY <1>1, <1>2, LenProperties
  <1>. QED
    BY <1>2, <1>3 DEF Grown, Kept

\* The extension that register() makes.
LEMMA NewExtensionTyped ==
  ASSUME NEW owner \in Accounts, NEW sender \in Contracts, NEW lists
  PROVE  /\ NewExtension(owner, sender, lists) \in ExtensionRecords
         /\ NewExtension(owner, sender, lists).sender = sender
         /\ NewExtension(owner, sender, lists).owner = owner
  BY DEF NewExtension, ExtensionRecords

\* What a transaction of k does once it succeeds.
Effect(tx, k) ==
  /\ tx.op = "register" =>
       /\ Len(exts') = Len(exts) + 1
       /\ exts'[Len(exts')].sender = tx.sender /\ exts'[Len(exts')].owner = k
  /\ tx.op = "machineOwner" => k \in exts'[tx.id].machineOwners
  /\ tx.op = "projectOwner" => k \in exts'[tx.id].projectOwners
  /\ tx.op = "keyType" => exts'[tx.id].evm
  /\ tx.op = "version" => tx.code \in exts'[tx.id].versions
  /\ tx.op = "governance" => exts'[tx.id].governance = tx.governance

\* The registry after a transaction.
LEMMA RegistryGrows ==
  ASSUME DepShape, NEW k \in Keys, NEW tx \in Txs(DOMAIN exts), exts' \in Registries(tx, k)
  PROVE  Grown /\ GovernanceKept(tx) /\ (Succeeds(tx, k) => Effect(tx, k))
  <1>1. CASE ~Succeeds(tx, k) \/ tx.op \in {"token", "deploy"}
    <2>1. exts' = exts
      BY <1>1 DEF Registries
    <2>. QED
      BY <1>1, <2>1, SameGrown DEF GovernanceKept, Effect
  <1>2. CASE Succeeds(tx, k) /\ tx.op = "register"
    <2>1. tx.sender \in Contracts
      BY <1>2 DEF Txs
    <2>2. PICK lists \in OwnerLists : exts' = Append(exts, NewExtension(k, tx.sender, lists))
      BY <1>2 DEF Registries
    <2> DEFINE e == NewExtension(k, tx.sender, lists)
    <2>3. e \in ExtensionRecords /\ e.sender = tx.sender /\ e.owner = k
      BY <2>1, NewExtensionTyped DEF Accounts
    <2> HIDE DEF e
    <2>4. /\ Grown /\ Len(exts') = Len(exts) + 1 /\ exts'[Len(exts')] = e
          /\ \A i \in DOMAIN exts : exts'[i] = exts[i]
      BY <2>2, <2>3, AppendGrows DEF e
    <2>. QED
      BY <1>2, <2>3, <2>4 DEF GovernanceKept, Effect
  <1>3. CASE /\ Succeeds(tx, k)
             /\ tx.op \in {"machineOwner", "projectOwner", "keyType", "version", "governance"}
    <2>1. tx.id \in DOMAIN exts
      BY <1>3 DEF Txs
    <2> DEFINE old == exts[tx.id]
               e == CASE tx.op = "machineOwner" -> [old EXCEPT !.machineOwners = @ \cup {k}]
                      [] tx.op = "projectOwner" -> [old EXCEPT !.projectOwners = @ \cup {k}]
                      [] tx.op = "keyType" -> [old EXCEPT !.evm = TRUE]
                      [] tx.op = "version" -> [old EXCEPT !.versions = @ \cup {tx.code}]
                      [] tx.op = "governance" -> [old EXCEPT !.governance = tx.governance]
    <2>2. exts' = [exts EXCEPT ![tx.id] = e]
      BY <1>3, <2>1 DEF Registries
    <2>3. old \in ExtensionRecords
      BY <2>1, ElementOfSeq, LenProperties DEF DepShape
    <2>4. /\ tx.op = "version" => tx.code \in CodeHashes
          /\ tx.op = "governance" => tx.governance \in Governances
      BY DEF Txs
    <2> HIDE DEF old
    <2>5. /\ e \in ExtensionRecords /\ Kept(old, e)
          /\ e.governance = old.governance \/ tx.op = "governance"
          /\ tx.op = "machineOwner" => k \in e.machineOwners
          /\ tx.op = "projectOwner" => k \in e.projectOwners
          /\ tx.op = "keyType" => e.evm
          /\ tx.op = "version" => tx.code \in e.versions
          /\ tx.op = "governance" => e.governance = tx.governance
      BY <1>3, <2>3, <2>4, ZenonT(60) DEF ExtensionRecords, Kept, Accounts
    <2> HIDE DEF e
    <2>6. Grown /\ exts'[tx.id] = e /\ \A j \in DOMAIN exts : j # tx.id => exts'[j] = exts[j]
      BY <2>1, <2>2, <2>5, ChangeGrows DEF old
    <2>. QED
      BY <1>3, <2>1, <2>5, <2>6 DEF GovernanceKept, Effect, old
  <1>. QED
    BY <1>1, <1>2, <1>3 DEF Txs

-----------------------------------------------------------------------------
(* What growth of the registry preserves.                                  *)

\* Extensions of a sender, before and after.
LEMMA MoreExtensions ==
  ASSUME Grown, NEW c
  PROVE  /\ ExtensionsOf(c) \subseteq ExtensionsOf(c)'
         /\ \A i \in ExtensionsOf(c)' : i \in ExtensionsOf(c) \/ i > Len(exts)
         /\ ExtensionsOf(c) \subseteq 1 .. Len(exts)
  BY DEF Grown, Kept, ExtensionsOf

\* The first extension of a sender stays the first.
LEMMA FirstStaysFirst ==
  ASSUME Grown, NEW c, NEW id, IsFirstOf(id, c)
  PROVE  IsFirstOf(id, c)'
  <1>1. id \in ExtensionsOf(c) /\ \A j \in ExtensionsOf(c) : id <= j
    BY DEF IsFirstOf
  <1>2. id \in ExtensionsOf(c)' /\ id \in 1 .. Len(exts)
    BY <1>1, MoreExtensions
  <1>3. ASSUME NEW j \in ExtensionsOf(c)' PROVE id <= j
    <2>1. CASE j \in ExtensionsOf(c)
      BY <1>1, <2>1
    <2>2. CASE j > Len(exts)
      <3>1. j \in Nat /\ Len(exts) \in Nat
        BY DEF Grown, ExtensionsOf
      <3>. QED
        BY <1>2, <2>2, <3>1
    <2>. QED
      BY <2>1, <2>2, MoreExtensions
  <1>. QED
    BY <1>2, <1>3 DEF IsFirstOf

\* What the contract has found stays the first extension.
LEMMA GrowthKeepsCached ==
  ASSUME CachedFirst, Grown, UNCHANGED cached
  PROVE  CachedFirst'
  BY FirstStaysFirst DEF CachedFirst

\* A file that pre-build wrote stays true.
LEMMA GrowthKeepsBuilt ==
  ASSUME BuiltFile, Grown, deployed \subseteq deployed', UNCHANGED <<file, builtBy>>
  PROVE  BuiltFile'
  BY DEF BuiltFile, BuiltConfigComplete, Grown, Kept

\* So does a verdict.
LEMMA GrowthKeepsVerdict ==
  ASSUME VerdictHolds, Grown, UNCHANGED <<tool, file, dotenv, verdict>>
  PROVE  VerdictHolds'
  <1> SUFFICES ASSUME verdict # NoVerdict
               PROVE  /\ tool' = Idle
                      /\ VerdictSound'
                      /\ verdict.step \in {"register", "all"} /\ WellFormed(file.id) => file.id \in DOMAIN exts'
                      /\ verdict.unique => IsFirstOf(file.id, file.sender)'
    BY DEF VerdictHolds, WellFormed, IsFirstOf, ExtensionsOf, VerdictSound
  <1>1. verdict.unique => IsFirstOf(file.id, file.sender)'
    BY FirstStaysFirst DEF VerdictHolds
  <1>2. VerdictSound'
    BY DEF VerdictHolds, VerdictSound, Grown, Kept, WellFormed
  <1>. QED
    BY <1>1, <1>2 DEF VerdictHolds, Grown

\* A step that at most gives the running tool its receipt.
SameRun ==
  /\ tool'.pc = tool.pc /\ tool'.key = tool.key /\ tool'.quiet = tool.quiet
  /\ tool'.waiting = tool.waiting /\ tool'.sender = tool.sender /\ tool'.id = tool.id
  /\ tool'.code = tool.code /\ tool'.governance = tool.governance /\ tool'.env = tool.env
  /\ tool.pc = "idle" => tool' = tool

\* What a run has achieved is not undone.
LEMMA StaysAchieved ==
  ASSUME Grown, deployed \subseteq deployed', SameRun, NEW step, NEW id, Achieved(step, id),
         step # "deploy" => id \in DOMAIN exts,
         step = "governance" /\ tool.quiet => exts'[id].governance = exts[id].governance
  PROVE  Achieved(step, id)'
  <1>1. step # "deploy" => id \in DOMAIN exts /\ id \in DOMAIN exts' /\ Kept(exts[id], exts'[id])
    BY DEF Grown
  <1>. QED
    BY <1>1 DEF Achieved, SameRun, IsExtensionOf, Kept

\* Nor is its progress.
LEMMA GrowthKeepsProgress ==
  ASSUME ToolProgress, Grown, deployed \subseteq deployed', SameRun,
         tool.pc = "done" /\ tool.quiet => exts'[tool.id].governance = exts[tool.id].governance
  PROVE  ToolProgress'
  <1>1. ASSUME NEW step \in {"deploy", "register", "machineOwner", "projectOwner", "keyType", "version"},
               Achieved(step, tool.id), step # "deploy" => tool.id \in DOMAIN exts
        PROVE  Achieved(step, tool.id)'
    BY <1>1, StaysAchieved DEF SameRun
  <1>2. tool.pc \in {"machineOwner", "projectOwner", "keyType", "write"} => tool.id \in DOMAIN exts
    BY DEF ToolProgress, Achieved, IsExtensionOf
  <1>4. tool.pc \in {"register", "machineOwner", "projectOwner", "keyType", "write"} =>
          Achieved("deploy", tool.id)'
    BY <1>1 DEF ToolProgress
  <1>5. tool.pc \in {"machineOwner", "projectOwner", "keyType", "write"} => Achieved("register", tool.id)'
    BY <1>1, <1>2 DEF ToolProgress
  <1>6. tool.pc \in {"projectOwner", "keyType", "write"} => Achieved("machineOwner", tool.id)'
    BY <1>1, <1>2 DEF ToolProgress
  <1>7. tool.pc \in {"keyType", "write"} => Achieved("projectOwner", tool.id)'
    BY <1>1, <1>2 DEF ToolProgress
  <1>8. tool.pc = "write" => Achieved("keyType", tool.id)'
    BY <1>1, <1>2 DEF ToolProgress
  <1>9. /\ tool.pc = "done" /\ tool.code # Unset => Achieved("version", tool.id)'
        /\ tool.pc = "done" /\ tool.code = Unset => Achieved("governance", tool.id)'
    <2>1. tool.pc = "done" /\ tool.code # Unset => Achieved("version", tool.id)'
      BY <1>1 DEF ToolProgress
    <2>2. tool.pc = "done" /\ tool.code = Unset => Achieved("governance", tool.id)'
      BY StaysAchieved DEF ToolProgress, SameRun
    <2>. QED
      BY <2>1, <2>2
  <1>10. tool.pc \in {"version", "governance", "done"} => tool.id \in DOMAIN exts'
    BY DEF ToolProgress, Grown
  <1>. QED
    BY <1>4, <1>5, <1>6, <1>7, <1>8, <1>9, <1>10 DEF ToolProgress, SameRun
-----------------------------------------------------------------------------
(* The chain.                                                              *)

\* Transactions stay well-formed as the registry grows.
LEMMA TxsGrow ==
  ASSUME NEW S, NEW T, S \subseteq T
  PROVE  Txs(S) \subseteq Txs(T) /\ Seq(Txs(S)) \subseteq Seq(Txs(T))
  <1>1. Txs(S) \subseteq Txs(T)
    BY DEF Txs
  <1>. QED
    BY <1>1, SeqMonotonic

\* The transactions of a key after the first was mined.
LEMMA Mined ==
  ASSUME DepShape, NEW k \in Keys, pending[k] # <<>>,
         pending' = [pending EXCEPT ![k] = Tail(@)]
  PROVE  /\ Head(pending[k]) \in Txs(DOMAIN exts) /\ Head(pending[k]) = pending[k][1]
         /\ 1 \in DOMAIN pending[k]
         /\ Len(pending[k]) \in Nat /\ Len(pending[k]) >= 1
         /\ pending'[k] \in Seq(Txs(DOMAIN exts))
         /\ Len(pending'[k]) = Len(pending[k]) - 1
         /\ Len(pending[k]) = 1 <=> pending'[k] = <<>>
         /\ \A p \in DOMAIN pending'[k] : p + 1 \in DOMAIN pending[k] /\ pending'[k][p] = pending[k][p + 1]
         /\ Len(pending[k]) > 1 => pending'[k][Len(pending'[k])] = pending[k][Len(pending[k])]
         /\ \A j \in Keys : j # k => pending'[j] = pending[j]
         /\ DOMAIN pending' = Keys
  <1>1. pending[k] \in Seq(Txs(DOMAIN exts)) /\ pending'[k] = Tail(pending[k])
        /\ DOMAIN pending' = Keys /\ \A j \in Keys : j # k => pending'[j] = pending[j]
    BY DEF DepShape
  <1> DEFINE q == pending[k]
  <1> HIDE DEF q
  <1>2. q \in Seq(Txs(DOMAIN exts)) /\ q # <<>> /\ pending'[k] = Tail(q)
    BY <1>1 DEF q
  <1>3. /\ Len(q) \in Nat /\ Len(q) >= 1 /\ DOMAIN q = 1 .. Len(q)
        /\ Head(q) \in Txs(DOMAIN exts) /\ Head(q) = q[1]
        /\ Tail(q) \in Seq(Txs(DOMAIN exts)) /\ Len(Tail(q)) = Len(q) - 1
        /\ DOMAIN Tail(q) = 1 .. Len(q) - 1
        /\ \A p \in 1 .. Len(q) - 1 : Tail(q)[p] = q[p + 1]
    BY <1>2
  <1>4. Len(q) = 1 <=> Tail(q) = <<>>
    <2>1. Tail(q) = <<>> <=> Len(Tail(q)) = 0
      BY <1>3, EmptySeq, Zenon
    <2>2. Len(Tail(q)) = 0 <=> Len(q) = 1
      BY <1>3
    <2>. QED
      BY <2>1, <2>2, Zenon
  <1>5. Len(q) > 1 => Tail(q)[Len(Tail(q))] = q[Len(q)]
    BY <1>3
  <1>. QED
    BY <1>1, <1>2, <1>3, <1>4, <1>5, SMTT(30) DEF q

\* Types across a step that lets the registry grow.
LEMMA GrowthKeepsShape ==
  ASSUME DepShape, Grown, deployed' \subseteq Contracts, tool' \in Tools,
         DOMAIN pending' = Keys, \A k \in Keys : pending'[k] \in Seq(Txs(DOMAIN exts)),
         pending' = [k \in Keys |-> pending'[k]],
         used' \in [contracts : 0 .. MaxContracts, launches : Nat, mishaps : Nat],
         UNCHANGED <<cached, localVars>>
  PROVE  DepShape'
  <1>1. DOMAIN exts \subseteq DOMAIN exts'
    BY DEF Grown
  <1>2. pending' \in [Keys -> Seq(Txs(DOMAIN exts'))]
    BY <1>1, TxsGrow
  <1>3. Nodes \subseteq Nodes'
    BY <1>1 DEF Nodes
  <1>. QED
    BY <1>2, <1>3 DEF DepShape, Grown, localVars

\* A transaction is mined.
LEMMA LandInv ==
  ASSUME DepInv, NEW k \in Keys, Land(k)
  PROVE  DepInv'
  <1> DEFINE tx == Head(pending[k])
             hit == tool.waiting /\ tool.key = k /\ Len(pending[k]) = 1
  <1>1. /\ DepShape /\ ToolProgress /\ ToolWaits /\ ToolQuiet
        /\ ClaimsHold /\ CachedFirst /\ VerdictHolds /\ BuiltFile
    BY DEF DepInv
  <1>2. /\ pending[k] # <<>> /\ exts' \in Registries(tx, k)
        /\ deployed' = deployed \cup (IF tx.op = "deploy" THEN {tx.sender} ELSE {})
        /\ tool' = IF hit THEN [tool EXCEPT !.receipt = [ok |-> Succeeds(tx, k), id |-> Len(exts')]]
                   ELSE tool
        /\ pending' = [pending EXCEPT ![k] = Tail(@)]
        /\ UNCHANGED <<cached, localVars, historyVars, used>>
    BY DEF Land
  <1>3. /\ tx \in Txs(DOMAIN exts) /\ tx = pending[k][1] /\ 1 \in DOMAIN pending[k]
        /\ Len(pending[k]) \in Nat /\ Len(pending[k]) >= 1
        /\ pending'[k] \in Seq(Txs(DOMAIN exts))
        /\ Len(pending'[k]) = Len(pending[k]) - 1
        /\ Len(pending[k]) = 1 <=> pending'[k] = <<>>
        /\ \A p \in DOMAIN pending'[k] : p + 1 \in DOMAIN pending[k] /\ pending'[k][p] = pending[k][p + 1]
        /\ Len(pending[k]) > 1 => pending'[k][Len(pending'[k])] = pending[k][Len(pending[k])]
        /\ \A j \in Keys : j # k => pending'[j] = pending[j]
        /\ DOMAIN pending' = Keys
    BY <1>1, <1>2, Mined
  <1> HIDE DEF tx
  <1>4. Grown /\ GovernanceKept(tx) /\ (Succeeds(tx, k) => Effect(tx, k))
    BY <1>1, <1>2, <1>3, RegistryGrows
  <1>5. deployed \subseteq deployed' /\ deployed' \subseteq Contracts
    BY <1>1, <1>2, <1>3 DEF DepShape, Txs
  <1>6. Len(exts') \in Nat /\ Succeeds(tx, k) \in BOOLEAN
    BY <1>4 DEF Grown, Succeeds
  <1>7. tool' \in Tools
    <2>1. tool \in Tools
      BY <1>1 DEF DepShape
    <2>. QED
      BY <1>2, <1>6, <2>1 DEF Tools, Receipts
  <1>8. hit => /\ tool'.receipt = [ok |-> Succeeds(tx, k), id |-> Len(exts')]
               /\ tool'.receipt # Unset
               /\ tool'.receipt.ok = Succeeds(tx, k) /\ tool'.receipt.id = Len(exts')
    <2>1. tool \in Tools
      BY <1>1 DEF DepShape
    <2>2. hit => tool'.receipt = [ok |-> Succeeds(tx, k), id |-> Len(exts')]
      BY <1>2, <2>1 DEF Tools
    <2>3. [ok |-> Succeeds(tx, k), id |-> Len(exts')] \in Receipts
      BY <1>6 DEF Receipts
    <2>. QED
      BY <2>2, <2>3, UnsetAssumption
  <1>9. SameRun /\ (hit => tool.pc \in TxSteps)
    <2>1. tool \in Tools
      BY <1>1 DEF DepShape
    <2>2. hit => tool.pc \in TxSteps
      BY <1>1 DEF ToolWaits
    <2>. QED
      BY <1>2, <2>1, <2>2 DEF SameRun, Tools, TxSteps
  <1>10. DepShape'
    <2>1. pending' = [j \in Keys |-> pending'[j]] /\ \A j \in Keys : pending'[j] \in Seq(Txs(DOMAIN exts))
      BY <1>1, <1>2, <1>3 DEF DepShape
    <2>. QED
      BY <1>1, <1>2, <1>3, <1>4, <1>5, <1>7, <2>1, GrowthKeepsShape DEF DepShape
  \* A quiet run has nothing outstanding but what it waits for.
  <1>11. tool.pc # "idle" /\ tool.quiet => k = tool.key /\ tool.waiting /\ Len(pending[k]) = 1
    BY <1>1, <1>2, <1>3 DEF ToolQuiet
  <1>12. ToolProgress'
    <2>1. ~(tool.pc = "done" /\ tool.quiet)
      BY <1>1, <1>11 DEF ToolWaits, TxSteps
    <2>. QED
      BY <1>1, <1>4, <1>5, <1>9, <2>1, GrowthKeepsProgress
  <1>13. ToolWaits'
    <2>1. CASE hit
      <3>1. tool.waiting /\ tool.key = k /\ Len(pending[k]) = 1
        BY <2>1
      <3>2. tool.receipt = Unset /\ tx = Transaction
        BY <1>1, <1>2, <1>3, <3>1 DEF ToolWaits
      <3>3. ASSUME Succeeds(tx, k) PROVE Achieved(tool.pc, IdFromReceipt)'
        <4>1. Effect(tx, k)
          BY <1>4, <3>3
        <4>2. IdFromReceipt' = IF tool.pc = "register" THEN Len(exts') ELSE tool.id
          BY <1>8, <1>9, <2>1 DEF IdFromReceipt, SameRun
        <4>3. CASE tool.pc = "deploy"
          <5>1. tx.op = "deploy" /\ tx.sender = tool.sender
            BY <3>2, <4>3 DEF Transaction
          <5>. QED
            BY <1>2, <1>9, <4>3, <5>1 DEF Achieved, SameRun
        <4>4. CASE tool.pc = "register"
          <5>1. tx.op = "register" /\ tx.sender = tool.sender
            BY <3>2, <4>4 DEF Transaction
          <5>2. Len(exts') = Len(exts) + 1
            BY <4>1, <5>1 DEF Effect
          <5>3. /\ Len(exts) \in Nat /\ Len(exts') \in Nat
                /\ DOMAIN exts' = 1 .. Len(exts')
            BY <1>4 DEF Grown
          <5>4. Len(exts') \in DOMAIN exts'
            BY <5>2, <5>3
          <5>. QED
            BY <1>9, <3>1, <4>1, <4>2, <4>4, <5>1, <5>4 DEF Achieved, SameRun, Effect, IsExtensionOf
        <4>5. CASE tool.pc \in {"machineOwner", "projectOwner", "keyType"}
          <5>1. tx.op = tool.pc /\ tx.id = tool.id
            BY <3>2, <4>5 DEF Transaction
          <5>. QED
            BY <1>9, <3>1, <4>1, <4>2, <4>5, <5>1 DEF Achieved, SameRun, Effect
        <4>6. CASE tool.pc = "version"
          <5>1. tx.op = "version" /\ tx.id = tool.id /\ tx.code = tool.code
            BY <3>2, <4>6 DEF Transaction
          <5>. QED
            BY <1>9, <4>1, <4>2, <4>6, <5>1 DEF Achieved, SameRun, Effect
        <4>7. CASE tool.pc = "governance"
          <5>1. tx.op = "governance" /\ tx.id = tool.id /\ tx.governance = tool.governance
            BY <3>2, <4>7 DEF Transaction
          <5>. QED
            BY <1>9, <4>1, <4>2, <4>7, <5>1 DEF Achieved, SameRun, Effect
        <4>8. CASE tool.pc \in {"base", "quote"}
          BY <1>9, <4>8 DEF Achieved, SameRun
        <4>. QED
          BY <1>9, <2>1, <4>3, <4>4, <4>5, <4>6, <4>7, <4>8 DEF TxSteps
      <3>. QED
        BY <1>3, <1>8, <1>9, <2>1, <3>1, <3>3 DEF ToolWaits, SameRun
    <2>2. CASE ~hit /\ ~tool.waiting
      BY <1>1, <1>2, <2>2 DEF ToolWaits
    <2>3. CASE ~hit /\ tool.waiting /\ tool.receipt = Unset
      <3>1. tool' = tool /\ Transaction' = Transaction
        BY <1>2, <2>3 DEF Transaction
      <3>2. tool.pc \in TxSteps /\ pending[tool.key] # <<>>
            /\ pending[tool.key][Len(pending[tool.key])] = Transaction
        BY <1>1, <2>3 DEF ToolWaits
      <3>3. tool.key \in Keys
        BY <1>1, <3>2 DEF ToolProgress, TxSteps
      <3>4. CASE tool.key = k
        BY <1>3, <2>3, <3>1, <3>2, <3>4 DEF ToolWaits
      <3>5. CASE tool.key # k
        BY <1>3, <2>3, <3>1, <3>2, <3>3, <3>5 DEF ToolWaits
      <3>. QED
        BY <3>4, <3>5
    <2>4. CASE ~hit /\ tool.waiting /\ tool.receipt # Unset
      <3>1. tool' = tool /\ IdFromReceipt' = IdFromReceipt
        BY <1>2, <2>4 DEF IdFromReceipt
      <3>2. /\ tool.pc \in TxSteps /\ pending[tool.key] = <<>>
            /\ tool.receipt.ok => Achieved(tool.pc, IdFromReceipt)
        BY <1>1, <2>4 DEF ToolWaits
      <3>3. tool.key \in Keys /\ tool.key # k
        BY <1>1, <1>2, <3>2 DEF ToolProgress, TxSteps
      <3>4. ~tool.quiet
        BY <1>11, <3>2, <3>3 DEF TxSteps
      <3>5. ASSUME tool.receipt.ok PROVE Achieved(tool.pc, IdFromReceipt)'
        <4>1. tool.pc \in {"register", "machineOwner", "projectOwner", "keyType", "version", "governance"} =>
                IdFromReceipt \in DOMAIN exts
          BY <1>1, <3>2, <3>5 DEF ToolProgress, Achieved, IsExtensionOf, IdFromReceipt
        <4>2. CASE tool.pc \in {"base", "quote"}
          BY <3>1, <4>2 DEF Achieved
        <4>3. CASE tool.pc \notin {"base", "quote"}
          <5>1. tool.pc # "deploy" => IdFromReceipt \in DOMAIN exts
            BY <3>2, <4>1, <4>3 DEF TxSteps
          <5> DEFINE i == IdFromReceipt
                     st == tool.pc
          <5>2. Achieved(st, i) /\ (st # "deploy" => i \in DOMAIN exts)
            BY <3>2, <3>5, <5>1
          <5>3. i' = i /\ st' = st
            BY <3>1
          <5> HIDE DEF i, st
          <5>4. Achieved(st, i)'
            BY <1>4, <1>5, <1>9, <3>4, <5>2, <5>3, StaysAchieved
          <5>. QED
            BY <5>4 DEF i, st
        <4>. QED
          BY <4>2, <4>3
      <3>. QED
        BY <1>3, <2>4, <3>1, <3>2, <3>3, <3>5 DEF ToolWaits
    <2>. QED
      BY <2>1, <2>2, <2>3, <2>4
  <1>14. ToolQuiet'
    BY <1>1, <1>3, <1>9, <1>11 DEF ToolQuiet, SameRun
  <1>15. ClaimsHold'
    <2> SUFFICES ASSUME NEW c \in claims
                 PROVE  /\ c.id \in DOMAIN exts'
                        /\ c.op = "version" => c.code \in exts'[c.id].versions
                        /\ c.op # "version" =>
                             /\ c.op = "governance" /\ c.env \in DotEnvs
                             /\ c.governance = ToolGovernance(c.env)
                             /\ exts'[c.id].governance = c.governance
                             /\ \A j \in Keys : \A p \in DOMAIN pending'[j] :
                                  pending'[j][p].op = "governance" => pending'[j][p].id # c.id
      BY <1>2 DEF ClaimsHold, historyVars
    <2>1. /\ c.id \in DOMAIN exts
          /\ c.op = "version" => c.code \in exts[c.id].versions
          /\ c.op # "version" =>
               /\ c.op = "governance" /\ c.env \in DotEnvs
               /\ c.governance = ToolGovernance(c.env)
               /\ exts[c.id].governance = c.governance
               /\ \A j \in Keys : \A p \in DOMAIN pending[j] :
                    pending[j][p].op = "governance" => pending[j][p].id # c.id
      BY <1>1 DEF ClaimsHold
    <2>2. c.id \in DOMAIN exts' /\ (c.op = "version" => c.code \in exts'[c.id].versions)
      BY <1>4, <2>1 DEF Grown, Kept
    <2>3. ASSUME c.op # "version" PROVE exts'[c.id].governance = c.governance
      <3>1. tx.op = "governance" => tx.id # c.id
        BY <1>3, <2>1, <2>3
      <3>. QED
        BY <1>4, <2>1, <2>3, <3>1 DEF GovernanceKept
    <2>4. ASSUME c.op # "version", NEW j \in Keys, NEW p \in DOMAIN pending'[j],
                 pending'[j][p].op = "governance"
          PROVE  pending'[j][p].id # c.id
      BY <1>3, <2>1, <2>4
    <2>. QED
      BY <2>1, <2>2, <2>3, <2>4
  <1>16. CachedFirst'
    BY <1>1, <1>2, <1>4, GrowthKeepsCached
  <1>17. BuiltFile'
    BY <1>1, <1>2, <1>4, <1>5, GrowthKeepsBuilt DEF localVars
  <1>18. VerdictHolds'
    <2>1. CASE verdict = NoVerdict
      BY <1>2, <2>1 DEF VerdictHolds, historyVars
    <2>2. CASE verdict # NoVerdict
      <3>1. tool = Idle
        BY <1>1, <2>2 DEF VerdictHolds
      <3>2. tool' = tool
        BY <1>2, <3>1 DEF Idle, Run
      <3>. QED
        BY <1>1, <1>2, <1>4, <3>2, GrowthKeepsVerdict DEF localVars, historyVars
    <2>. QED
      BY <2>1, <2>2
  <1>. QED
    BY <1>10, <1>12, <1>13, <1>14, <1>15, <1>16, <1>17, <1>18 DEF DepInv
-----------------------------------------------------------------------------
(* Steps of others.                                                        *)

UsedTyped == used \in [contracts : 0 .. MaxContracts, launches : Nat, mishaps : Nat]

\* Counting a launch or a mishap.
LEMMA WithinTyped ==
  ASSUME DepShape, NEW counter \in {"launches", "mishaps"}, NEW bound, Within(counter, bound)
  PROVE  UsedTyped' /\ used'.contracts = used.contracts
  <1>1. used \in [contracts : 0 .. MaxContracts, launches : Nat, mishaps : Nat]
    BY DEF DepShape
  <1>2. used' = [used EXCEPT ![counter] = @ + 1]
    BY DEF Within
  <1>3. CASE counter = "launches"
    BY <1>1, <1>2, <1>3 DEF UsedTyped
  <1>4. CASE counter = "mishaps"
    BY <1>1, <1>2, <1>4 DEF UsedTyped
  <1>. QED
    BY <1>3, <1>4

\* The registry grows, and no governance changes: nothing else is affected.
LEMMA NeutralGrowth ==
  ASSUME DepInv, Grown, \A i \in DOMAIN exts : exts'[i].governance = exts[i].governance,
         UNCHANGED <<deployed, pending, tool, localVars, historyVars>>
  PROVE  ToolProgress' /\ ToolWaits' /\ ToolQuiet' /\ ClaimsHold' /\ VerdictHolds' /\ BuiltFile'
  <1>1. /\ DepShape /\ ToolProgress /\ ToolWaits /\ ToolQuiet
        /\ ClaimsHold /\ CachedFirst /\ VerdictHolds /\ BuiltFile
    BY DEF DepInv
  <1>2. SameRun
    BY DEF SameRun
  <1>3. tool.pc \in {"version", "governance", "done"} => tool.id \in DOMAIN exts
    BY <1>1 DEF ToolProgress
  <1>4. ToolProgress'
    BY <1>1, <1>2, <1>3, GrowthKeepsProgress
  <1>5. ToolWaits'
    <2>1. CASE tool.waiting /\ tool.receipt # Unset /\ tool.receipt.ok
      <3> DEFINE i == IdFromReceipt
                 st == tool.pc
      <3>1. st \in TxSteps /\ pending[tool.key] = <<>> /\ Achieved(st, i)
        BY <1>1, <2>1 DEF ToolWaits
      <3>2. st \in {"base", "quote", "deploy"} \/ i \in DOMAIN exts
        BY <1>1, <3>1 DEF ToolProgress, Achieved, IsExtensionOf, IdFromReceipt, TxSteps
      <3>3. st' = st /\ i' = i
        BY DEF IdFromReceipt
      <3> HIDE DEF i, st
      <3>4. Achieved(st, i)'
        <4>1. CASE st \in {"base", "quote"}
          BY <3>3, <4>1 DEF Achieved
        <4>2. CASE st \notin {"base", "quote"}
          BY <1>2, <3>1, <3>2, <3>3, <4>2, StaysAchieved
        <4>. QED
          BY <4>1, <4>2
      <3>. QED
        BY <2>1, <3>1, <3>4 DEF ToolWaits, i, st
    <2>2. CASE ~(tool.waiting /\ tool.receipt # Unset /\ tool.receipt.ok)
      <3>1. Transaction' = Transaction
        BY DEF Transaction
      <3>. QED
        BY <1>1, <2>2, <3>1 DEF ToolWaits
    <2>. QED
      BY <2>1, <2>2
  <1>6. ToolQuiet'
    BY <1>1 DEF ToolQuiet
  <1>7. ClaimsHold'
    BY <1>1 DEF ClaimsHold, Grown, Kept, historyVars
  <1>8. VerdictHolds' /\ BuiltFile'
    BY <1>1, GrowthKeepsVerdict, GrowthKeepsBuilt DEF localVars, historyVars
  <1>. QED
    BY <1>4, <1>5, <1>6, <1>7, <1>8

\* Somebody else registers an extension.
LEMMA RegisterOtherInv ==
  ASSUME DepInv, NEW c \in Contracts, RegisterOther(c)
  PROVE  DepInv'
  <1> DEFINE e == NewExtension(Other, c, {})
  <1>1. DepShape /\ CachedFirst
    BY DEF DepInv
  <1>2. e \in ExtensionRecords
    BY NewExtensionTyped DEF Accounts
  <1> HIDE DEF e
  <1>3. Grown /\ \A i \in DOMAIN exts : exts'[i] = exts[i]
    BY <1>1, <1>2, AppendGrows DEF RegisterOther, e
  <1>4. UsedTyped'
    BY <1>1, WithinTyped DEF RegisterOther
  <1>5. ToolProgress' /\ ToolWaits' /\ ToolQuiet' /\ ClaimsHold' /\ VerdictHolds' /\ BuiltFile'
    BY <1>3, NeutralGrowth DEF RegisterOther
  <1>6. DepShape'
    <2>1. /\ \A k \in Keys : pending'[k] \in Seq(Txs(DOMAIN exts))
          /\ DOMAIN pending' = Keys /\ pending' = [k \in Keys |-> pending'[k]]
          /\ deployed' \subseteq Contracts /\ tool' \in Tools
      BY <1>1 DEF RegisterOther, DepShape
    <2>. QED
      BY <1>1, <1>3, <1>4, <2>1, GrowthKeepsShape DEF RegisterOther, UsedTyped
  <1>7. CachedFirst'
    BY <1>1, <1>3, GrowthKeepsCached DEF RegisterOther
  <1>. QED
    BY <1>5, <1>6, <1>7 DEF DepInv

\* A sender with extensions has a first one.
LEMMA FirstExists ==
  ASSUME DepShape, NEW c, ExtensionsOf(c) # {}
  PROVE  IsFirstOf(FirstExtensionOf(c), c)
  <1>1. ExtensionsOf(c) \subseteq Nat
    BY LenProperties DEF DepShape, ExtensionsOf
  <1>2. \E i \in ExtensionsOf(c) : \A j \in ExtensionsOf(c) : i <= j
    BY <1>1, LeastNat
  <1>. QED
    BY <1>2 DEF IsFirstOf, FirstExtensionOf

\* Somebody makes the contract look for its extension id.
LEMMA SetExtensionIdInv ==
  ASSUME DepInv, NEW c \in Contracts, SetExtensionId(c)
  PROVE  DepInv'
  <1>1. DepShape /\ CachedFirst
    BY DEF DepInv
  <1>2. Grown
    BY <1>1, SameGrown DEF SetExtensionId
  <1>3. ToolProgress' /\ ToolWaits' /\ ToolQuiet' /\ ClaimsHold' /\ VerdictHolds' /\ BuiltFile'
    BY <1>2, NeutralGrowth DEF SetExtensionId
  <1>4. IsFirstOf(FirstExtensionOf(c), c)
    BY <1>1, FirstExists DEF SetExtensionId
  <1>5. FirstExtensionOf(c) \in Nat
    <2>1. FirstExtensionOf(c) \in DOMAIN exts
      BY <1>4 DEF IsFirstOf, ExtensionsOf
    <2>. QED
      BY <1>1, <2>1, LenProperties DEF DepShape
  <1>6. DepShape'
    BY <1>1, <1>5 DEF DepShape, SetExtensionId, localVars, Nodes
  <1>7. CachedFirst'
    <2>1. \A d, i : IsFirstOf(i, d)' <=> IsFirstOf(i, d)
      BY DEF SetExtensionId, IsFirstOf, ExtensionsOf
    <2>. QED
      BY <1>1, <1>4, <2>1 DEF CachedFirst, SetExtensionId, DepShape
  <1>. QED
    BY <1>3, <1>6, <1>7 DEF DepInv
-----------------------------------------------------------------------------
(* Starting the tools.                                                     *)

\* What steps that send and mine nothing leave alone.
LEMMA SameChain ==
  ASSUME DepInv, UNCHANGED chainVars
  PROVE  /\ CachedFirst'
         /\ UNCHANGED <<file, builtBy>> => BuiltFile'
         /\ claims' = claims => ClaimsHold'
         /\ UNCHANGED localVars /\ tool' \in Tools /\ UsedTyped' => DepShape'
  <1>1. DepShape /\ ClaimsHold /\ CachedFirst /\ BuiltFile
    BY DEF DepInv
  <1>2. exts' = exts /\ deployed' = deployed /\ cached' = cached /\ pending' = pending
    BY DEF chainVars
  <1>3. CachedFirst'
    BY <1>1, <1>2 DEF CachedFirst, IsFirstOf, ExtensionsOf
  <1>4. UNCHANGED <<file, builtBy>> => BuiltFile'
    BY <1>1, <1>2 DEF BuiltFile, BuiltConfigComplete
  <1>5. claims' = claims => ClaimsHold'
    BY <1>1, <1>2 DEF ClaimsHold
  <1>6. UNCHANGED localVars /\ tool' \in Tools /\ UsedTyped' => DepShape'
    BY <1>1, <1>2 DEF DepShape, UsedTyped, localVars, Nodes
  <1>. QED
    BY <1>3, <1>4, <1>5, <1>6

\* A new run waits for nothing, and is quiet if nothing is outstanding.
LEMMA NewRunTyped ==
  ASSUME NEW pc \in TxSteps, NEW key \in Keys
  PROVE  /\ NewRun(pc, key) \in Tools
         /\ NewRun(pc, key).pc = pc /\ NewRun(pc, key).key = key
         /\ NewRun(pc, key).waiting = FALSE /\ NewRun(pc, key).receipt = Unset
         /\ NewRun(pc, key).quiet => \A k \in Keys : pending[k] = <<>>
         /\ NewRun(pc, key).code = Unset
  <1> DEFINE q == \A k \in Keys : pending[k] = <<>>
  <1>1. q \in BOOLEAN
    OBVIOUS
  <1> HIDE DEF q
  <1>2. NewRun(pc, key) = Run(pc, key, q)
    BY DEF NewRun, q
  <1>3. /\ Run(pc, key, q) \in Tools
        /\ Run(pc, key, q).pc = pc /\ Run(pc, key, q).key = key
        /\ Run(pc, key, q).waiting = FALSE /\ Run(pc, key, q).receipt = Unset
        /\ Run(pc, key, q).quiet = q
        /\ Run(pc, key, q).code = Unset
    BY <1>1, DeploymentBounds DEF Run, Tools
  <1>. QED
    BY <1>2, <1>3 DEF q

\* Whatever tool is launched.
LEMMA LaunchInv ==
  ASSUME DepInv, NEW run \in Tools, Launch(run), run.pc \in TxSteps,
         ~run.waiting, run.receipt = Unset,
         run.quiet => \A k \in Keys : pending[k] = <<>>,
         ToolProgress'
  PROVE  DepInv'
  <1>1. DepShape /\ tool' = run /\ verdict' = NoVerdict /\ UNCHANGED <<chainVars, localVars, claims>>
    BY DEF DepInv, Launch
  <1>2. UsedTyped'
    BY <1>1, WithinTyped DEF Launch
  <1>3. DepShape' /\ CachedFirst' /\ BuiltFile' /\ ClaimsHold'
    BY <1>1, <1>2, SameChain DEF localVars
  <1>4. ToolWaits'
    BY <1>1 DEF ToolWaits
  <1>5. run.key \in Keys
    BY <1>1 DEF ToolProgress, TxSteps
  <1>6. ToolQuiet'
    BY <1>1, <1>5 DEF ToolQuiet, chainVars
  <1>7. VerdictHolds'
    BY <1>1 DEF VerdictHolds
  <1>. QED
    BY <1>3, <1>4, <1>6, <1>7 DEF DepInv

\* pre-build.sh.
LEMMA PreBuildInv ==
  ASSUME DepInv, PreBuild
  PROVE  DepInv'
  <1> DEFINE pc == IF TokensGiven THEN "deploy" ELSE "base"
             run == [NewRun(pc, dotenv.key) EXCEPT !.sender = used.contracts + 1]
  <1>1. pc \in TxSteps /\ pc \in {"deploy", "base"}
    BY DEF TxSteps
  <1> HIDE DEF pc
  <1>2. dotenv.key \in Keys
    BY OperatorAssumption DEF DepInv, DepShape
  <1>3. used.contracts + 1 \in Contracts
    BY DeploymentBounds DEF PreBuild, DepInv, DepShape, Contracts
  <1>4. /\ run \in Tools /\ run.pc = pc /\ run.key = dotenv.key /\ run.sender = used.contracts + 1
        /\ ~run.waiting /\ run.receipt = Unset
        /\ run.quiet => \A k \in Keys : pending[k] = <<>>
    <2> DEFINE r == NewRun(pc, dotenv.key)
    <2>1. /\ r \in Tools /\ r.pc = pc /\ r.key = dotenv.key /\ r.waiting = FALSE /\ r.receipt = Unset
          /\ r.quiet => \A k \in Keys : pending[k] = <<>>
      BY <1>1, <1>2, NewRunTyped, ZenonT(60)
    <2> HIDE DEF r
    <2>2. run = [r EXCEPT !.sender = used.contracts + 1]
      BY DEF r
    <2>. QED
      BY <1>3, <2>1, <2>2 DEF Tools, Contracts
  <1>5. Launch(run)
    BY DEF PreBuild, pc
  <1> HIDE DEF run
  <1>6. tool' = run
    BY <1>5 DEF Launch
  <1>7. ToolProgress'
    BY <1>1, <1>2, <1>3, <1>4, <1>6 DEF ToolProgress
  <1>. QED
    BY <1>1, <1>4, <1>5, <1>7, LaunchInv

\* register-extension by hand.
LEMMA RegisterByHandInv ==
  ASSUME DepInv, NEW c \in Contracts, RegisterByHand(c)
  PROVE  DepInv'
  <1> DEFINE run == [NewRun("register", dotenv.key) EXCEPT !.sender = c, !.byHand = TRUE]
  <1>1. dotenv.key \in Keys
    BY OperatorAssumption DEF DepInv, DepShape
  <1>2. /\ run \in Tools /\ run.pc = "register" /\ run.key = dotenv.key /\ run.sender = c
        /\ ~run.waiting /\ run.receipt = Unset
        /\ run.quiet => \A k \in Keys : pending[k] = <<>>
    <2> DEFINE r == NewRun("register", dotenv.key)
    <2>1. "register" \in TxSteps
      BY DEF TxSteps
    <2>2. /\ r \in Tools /\ r.pc = "register" /\ r.key = dotenv.key /\ r.waiting = FALSE
          /\ r.receipt = Unset
          /\ r.quiet => \A k \in Keys : pending[k] = <<>>
      BY <1>1, <2>1, NewRunTyped, ZenonT(60)
    <2> HIDE DEF r
    <2>3. run = [r EXCEPT !.sender = c, !.byHand = TRUE]
      BY DEF r
    <2>4. c \in 0 .. MaxContracts
      BY DeploymentBounds DEF Contracts
    <2>. QED
      BY <2>2, <2>3, <2>4, ZenonT(60) DEF Tools
  <1>3. Launch(run)
    BY DEF RegisterByHand
  <1> HIDE DEF run
  <1>4. tool' = run /\ c \in deployed'
    BY <1>3 DEF Launch, RegisterByHand, chainVars
  <1>5. ToolProgress'
    BY <1>1, <1>2, <1>4 DEF ToolProgress, Achieved
  <1>. QED
    BY <1>2, <1>3, <1>5, LaunchInv DEF TxSteps

\* The key of the owner tools.
LEMMA OwnerKeyTyped ==
  ASSUME NEW env \in DotEnvs
  PROVE  OwnerKey(env) \in Keys
  BY OperatorAssumption DEF OwnerKey

\* allow-tee-version.
LEMMA AllowTeeVersionInv ==
  ASSUME DepInv, AllowTeeVersion
  PROVE  DepInv'
  <1> DEFINE run == [NewRun("version", OwnerKey(dotenv)) EXCEPT !.id = node.id, !.code = node.code]
  <1>1. OwnerKey(dotenv) \in Keys
    BY OwnerKeyTyped DEF DepInv, DepShape
  <1>2. node.id \in DOMAIN exts /\ node.id \in Nat /\ node.code \in CodeHashes
    <2>1. node \in Nodes /\ exts \in Seq(ExtensionRecords)
      BY DEF AllowTeeVersion, DepInv, DepShape
    <2>2. node.id \in DOMAIN exts /\ node.code \in CodeHashes
      BY <2>1 DEF Nodes
    <2>. QED
      BY <2>1, <2>2, LenProperties
  <1>3. /\ run \in Tools /\ run.pc = "version" /\ run.key = OwnerKey(dotenv)
        /\ run.id = node.id /\ run.code = node.code
        /\ ~run.waiting /\ run.receipt = Unset
        /\ run.quiet => \A k \in Keys : pending[k] = <<>>
    <2> DEFINE r == NewRun("version", OwnerKey(dotenv))
    <2>1. "version" \in TxSteps
      BY DEF TxSteps
    <2>2. /\ r \in Tools /\ r.pc = "version" /\ r.key = OwnerKey(dotenv) /\ r.waiting = FALSE
          /\ r.receipt = Unset
          /\ r.quiet => \A k \in Keys : pending[k] = <<>>
      BY <1>1, <2>1, NewRunTyped, ZenonT(60)
    <2> HIDE DEF r
    <2>3. run = [r EXCEPT !.id = node.id, !.code = node.code]
      BY DEF r
    <2>. QED
      BY <1>2, <2>2, <2>3 DEF Tools
  <1>4. Launch(run)
    BY DEF AllowTeeVersion
  <1> HIDE DEF run
  <1>5. tool' = run /\ exts' = exts
    BY <1>4 DEF Launch, chainVars
  <1>6. ToolProgress'
    BY <1>1, <1>2, <1>3, <1>5, UnsetAssumption DEF ToolProgress
  <1>. QED
    BY <1>3, <1>4, <1>6, LaunchInv DEF TxSteps

\* set-governance.
LEMMA SetGovernanceInv ==
  ASSUME DepInv, SetGovernance
  PROVE  DepInv'
  <1> DEFINE g == ToolGovernance(dotenv)
             run == [NewRun("governance", OwnerKey(dotenv)) EXCEPT
                       !.id = node.id, !.governance = g, !.env = dotenv]
  <1>1. OwnerKey(dotenv) \in Keys /\ dotenv \in DotEnvs /\ g \in Governances
    BY OwnerKeyTyped DEF DepInv, DepShape, Governances
  <1>2. node.id \in DOMAIN exts /\ node.id \in Nat
    <2>1. node \in Nodes /\ exts \in Seq(ExtensionRecords)
      BY DEF SetGovernance, DepInv, DepShape
    <2>2. node.id \in DOMAIN exts
      BY <2>1 DEF Nodes
    <2>. QED
      BY <2>1, <2>2, LenProperties
  <1>3. Launch(run)
    BY DEF SetGovernance
  <1>4. g = ToolGovernance(dotenv)
    OBVIOUS
  <1> HIDE DEF g
  <1>5. /\ run \in Tools /\ run.pc = "governance" /\ run.key = OwnerKey(dotenv)
        /\ run.id = node.id /\ run.code = Unset /\ run.governance = g /\ run.env = dotenv
        /\ ~run.waiting /\ run.receipt = Unset
        /\ run.quiet => \A k \in Keys : pending[k] = <<>>
    <2> DEFINE r == NewRun("governance", OwnerKey(dotenv))
    <2>1. "governance" \in TxSteps
      BY DEF TxSteps
    <2>2. /\ r \in Tools /\ r.pc = "governance" /\ r.key = OwnerKey(dotenv) /\ r.waiting = FALSE
          /\ r.receipt = Unset /\ r.code = Unset
          /\ r.quiet => \A k \in Keys : pending[k] = <<>>
      BY <1>1, <2>1, NewRunTyped, ZenonT(60)
    <2> HIDE DEF r
    <2>3. run = [r EXCEPT !.id = node.id, !.governance = g, !.env = dotenv]
      BY DEF r
    <2>. QED
      BY <1>1, <1>2, <2>2, <2>3 DEF Tools
  <1> HIDE DEF run
  <1>6. tool' = run /\ exts' = exts
    BY <1>3 DEF Launch, chainVars
  <1>7. ToolProgress'
    BY <1>1, <1>2, <1>4, <1>5, <1>6 DEF ToolProgress
  <1>. QED
    BY <1>3, <1>5, <1>7, LaunchInv DEF TxSteps
-----------------------------------------------------------------------------
(* Steps of the running tool.                                              *)

\* The order of the steps.
LEMMA FollowingIs ==
  /\ Following("base") = "quote" /\ Following("quote") = "deploy"
  /\ Following("deploy") = "register" /\ Following("register") = "machineOwner"
  /\ Following("machineOwner") = "projectOwner" /\ Following("projectOwner") = "keyType"
  /\ Following("keyType") = "write"
  /\ Following("version") = "done" /\ Following("governance") = "done"
  <1>1. /\ DOMAIN SetupSteps = 1 .. 8
        /\ SetupSteps[1] = "base" /\ SetupSteps[2] = "quote" /\ SetupSteps[3] = "deploy"
        /\ SetupSteps[4] = "register" /\ SetupSteps[5] = "machineOwner"
        /\ SetupSteps[6] = "projectOwner" /\ SetupSteps[7] = "keyType" /\ SetupSteps[8] = "write"
    BY DEF SetupSteps
  <1>2. \A i, j \in 1 .. 8 : SetupSteps[i] = SetupSteps[j] => i = j
    BY <1>1
  <1>3. \A i \in 1 .. 7 : (CHOOSE j \in DOMAIN SetupSteps : SetupSteps[j] = SetupSteps[i]) = i
    BY <1>1, <1>2
  <1>4. ASSUME NEW pc, NEW i \in 1 .. 7, pc = SetupSteps[i]
        PROVE  Following(pc) = SetupSteps[i + 1]
    <2>1. pc \notin {"version", "governance"}
      BY <1>1, <1>4
    <2>. QED
      BY <1>3, <1>4, <2>1 DEF Following
  <1>5. Following("version") = "done" /\ Following("governance") = "done"
    BY DEF Following
  <1>. QED
    BY <1>1, <1>4, <1>5

\* The running tool goes on to the next step, with id from now on.
Advanced(id) ==
  /\ tool' \in Tools
  /\ tool'.pc = Following(tool.pc) /\ tool'.id = id
  /\ tool'.waiting = FALSE /\ tool'.receipt = Unset
  /\ tool'.key = tool.key /\ tool'.quiet = tool.quiet /\ tool'.sender = tool.sender
  /\ tool'.code = tool.code /\ tool'.governance = tool.governance /\ tool'.env = tool.env

\* It may go on once the step is achieved.
LEMMA AdvanceInv ==
  ASSUME DepInv, tool.pc \in TxSteps, NEW id, tool.pc # "register" => id = tool.id,
         Achieved(tool.pc, id), Advanced(id),
         tool.quiet => pending[tool.key] = <<>>,
         UNCHANGED <<chainVars, localVars, historyVars, used>>
  PROVE  DepInv'
  <1>1. /\ DepShape /\ ToolProgress /\ ToolWaits /\ ToolQuiet /\ VerdictHolds
    BY DEF DepInv
  <1>2. exts' = exts /\ deployed' = deployed /\ pending' = pending
    BY DEF chainVars
  <1>3. UsedTyped'
    BY <1>1 DEF DepShape, UsedTyped
  <1>4. DepShape' /\ CachedFirst' /\ BuiltFile' /\ ClaimsHold'
    BY <1>3, SameChain DEF Advanced, localVars, historyVars
  <1>5. verdict = NoVerdict /\ tool.key \in Keys
    BY <1>1 DEF VerdictHolds, ToolProgress, TxSteps, Idle, Run
  <1>6. VerdictHolds' /\ ToolWaits'
    BY <1>5 DEF VerdictHolds, ToolWaits, Advanced, historyVars
  <1>7. ToolQuiet'
    BY <1>1, <1>2 DEF ToolQuiet, Advanced, TxSteps
  <1>9. ToolProgress'
    <2>1. CASE tool.pc \in {"base", "quote"}
      BY <1>1, <1>5, <2>1, FollowingIs DEF ToolProgress, Advanced
    <2>2. CASE tool.pc = "deploy"
      BY <1>1, <1>2, <1>5, <2>2, FollowingIs DEF ToolProgress, Advanced, Achieved
    <2>3. CASE tool.pc = "register"
      BY <1>1, <1>2, <1>5, <2>3, FollowingIs DEF ToolProgress, Advanced, Achieved, IsExtensionOf
    <2>4. CASE tool.pc \in {"machineOwner", "projectOwner", "keyType"}
      BY <1>1, <1>2, <1>5, <2>4, FollowingIs DEF ToolProgress, Advanced, Achieved, IsExtensionOf
    <2>5. CASE tool.pc = "version"
      BY <1>1, <1>2, <1>5, <2>5, FollowingIs DEF ToolProgress, Advanced, Achieved
    <2>6. CASE tool.pc = "governance"
      BY <1>1, <1>2, <1>5, <2>6, FollowingIs DEF ToolProgress, Advanced, Achieved
    <2>. QED
      BY <2>1, <2>2, <2>3, <2>4, <2>5, <2>6 DEF TxSteps
  <1>. QED
    BY <1>4, <1>6, <1>7, <1>9 DEF DepInv

\* The step after a transaction is one that the tool knows.
LEMMA FollowingTyped ==
  ASSUME NEW pc \in TxSteps
  PROVE  Following(pc) \in TxSteps \cup {"idle", "write", "done"}
  BY FollowingIs DEF TxSteps

\* A step that is already done is skipped.
LEMMA SkipStepInv ==
  ASSUME DepInv, SkipStep
  PROVE  DepInv'
  <1>1. tool \in Tools /\ tool.pc \in TxSteps /\ ~tool.waiting /\ tool.receipt = Unset
        /\ AlreadyDone /\ tool' = [tool EXCEPT !.pc = Following(@)]
    BY DEF DepInv, DepShape, ToolWaits, SkipStep, Working
  <1>2. Following(tool.pc) \in TxSteps \cup {"idle", "write", "done"}
    BY <1>1, FollowingTyped
  <1>3. Advanced(tool.id)
    BY <1>1, <1>2 DEF Advanced, Tools
  <1>4. Achieved(tool.pc, tool.id)
    BY <1>1 DEF AlreadyDone, Achieved, TxSteps
  <1>5. tool.quiet => pending[tool.key] = <<>>
    BY <1>1 DEF DepInv, ToolQuiet, TxSteps
  <1>. QED
    BY <1>1, <1>3, <1>4, <1>5, AdvanceInv DEF SkipStep

\* A step is confirmed by the receipt of its transaction.
LEMMA ConfirmedInv ==
  ASSUME DepInv, Confirmed
  PROVE  DepInv'
  <1>1. tool \in Tools /\ tool.waiting /\ tool.receipt # Unset /\ tool.receipt.ok
    BY DEF DepInv, DepShape, Confirmed
  <1>2. tool.pc \in TxSteps /\ pending[tool.key] = <<>> /\ Achieved(tool.pc, IdFromReceipt)
    BY <1>1 DEF DepInv, ToolWaits
  <1>3. Following(tool.pc) \in TxSteps \cup {"idle", "write", "done"}
    BY <1>2, FollowingTyped
  <1>4. IdFromReceipt \in Nat /\ (tool.pc # "register" => IdFromReceipt = tool.id)
    BY <1>1 DEF IdFromReceipt, Tools, Receipts
  <1> DEFINE id == IdFromReceipt
  <1>5. tool' = [tool EXCEPT !.pc = Following(@), !.waiting = FALSE, !.receipt = Unset, !.id = id]
    BY DEF Confirmed
  <1>6. id \in Nat /\ (tool.pc # "register" => id = tool.id) /\ Achieved(tool.pc, id)
    BY <1>2, <1>4
  <1> HIDE DEF id
  <1>7. Advanced(id)
    BY <1>1, <1>3, <1>5, <1>6 DEF Advanced, Tools
  <1>. QED
    BY <1>2, <1>6, <1>7, AdvanceInv DEF Confirmed
\* What a tool sends is well-formed.
LEMMA TransactionTyped ==
  ASSUME DepShape, ToolProgress, tool.pc \in TxSteps
  PROVE  /\ Transaction \in Txs(DOMAIN exts)
         /\ Transaction.op = "governance" => tool.pc = "governance" /\ Transaction.id = tool.id
  <1>1. tool \in Tools
    BY DEF DepShape
  <1>2. CASE tool.pc \in {"base", "quote"}
    BY <1>2 DEF Transaction, Txs
  <1>3. CASE tool.pc \in {"deploy", "register"}
    BY <1>3 DEF Transaction, Txs, ToolProgress
  <1>4. CASE tool.pc \in {"machineOwner", "projectOwner", "keyType"}
    BY <1>4 DEF Transaction, Txs, ToolProgress, Achieved, IsExtensionOf
  <1>5. CASE tool.pc = "version"
    <2>1. tool.id \in DOMAIN exts /\ tool.code \in CodeHashes
      BY <1>1, <1>5 DEF ToolProgress, Tools
    <2>. QED
      BY <1>5, <2>1 DEF Transaction, Txs
  <1>6. CASE tool.pc = "governance"
    <2>1. tool.id \in DOMAIN exts /\ tool.governance \in Governances
      BY <1>6 DEF ToolProgress, Governances
    <2>. QED
      BY <1>6, <2>1 DEF Transaction, Txs
  <1>. QED
    BY <1>2, <1>3, <1>4, <1>5, <1>6 DEF TxSteps

\* A transaction is sent.
LEMMA SendStepInv ==
  ASSUME DepInv, SendStep
  PROVE  DepInv'
  <1> DEFINE k == tool.key
             tx == Transaction
  <1>1. /\ DepShape /\ ToolProgress /\ ToolWaits /\ ToolQuiet
        /\ ClaimsHold /\ CachedFirst /\ VerdictHolds /\ BuiltFile
    BY DEF DepInv
  <1>2. /\ tool.pc \in TxSteps /\ ~tool.waiting /\ tool \in Tools
        /\ pending' = [pending EXCEPT ![k] = Append(@, tx)]
        /\ tool' = [tool EXCEPT !.waiting = TRUE]
        /\ used' = [used EXCEPT !.contracts = IF tool.pc = "deploy" THEN tool.sender ELSE @]
        /\ claims' = {c \in claims : ~(tool.pc = "governance" /\ c.op = "governance" /\ c.id = tool.id)}
        /\ UNCHANGED <<exts, deployed, cached, localVars, verdict>>
    BY <1>1 DEF SendStep, Working, DepShape
  <1>3. k \in Keys /\ tool.receipt = Unset /\ verdict = NoVerdict
    BY <1>1, <1>2 DEF ToolProgress, TxSteps, ToolWaits, VerdictHolds, Idle, Run
  <1>4. tx \in Txs(DOMAIN exts) /\ (tx.op = "governance" => tool.pc = "governance" /\ tx.id = tool.id)
    BY <1>1, <1>2, TransactionTyped
  <1>5. /\ tool' \in Tools /\ tool'.waiting /\ tool'.pc = tool.pc /\ tool'.key = k
        /\ tool'.receipt = Unset /\ tool'.quiet = tool.quiet /\ tool'.sender = tool.sender
        /\ tool'.id = tool.id /\ tool'.code = tool.code /\ tool'.governance = tool.governance
        /\ tool'.env = tool.env
    BY <1>2, <1>3 DEF Tools
  <1>6. tx' = tx
    BY <1>5 DEF Transaction
  <1> HIDE DEF tx, k
  <1>7. /\ pending[k] \in Seq(Txs(DOMAIN exts)) /\ pending'[k] = Append(pending[k], tx)
        /\ DOMAIN pending' = Keys /\ \A j \in Keys : j # k => pending'[j] = pending[j]
    BY <1>1, <1>2, <1>3 DEF DepShape
  <1>8. /\ pending'[k] \in Seq(Txs(DOMAIN exts)) /\ Len(pending'[k]) = Len(pending[k]) + 1
        /\ pending'[k][Len(pending'[k])] = tx
        /\ Len(pending[k]) \in Nat /\ DOMAIN pending[k] = 1 .. Len(pending[k])
        /\ DOMAIN pending'[k] = 1 .. Len(pending'[k])
        /\ \A p \in 1 .. Len(pending[k]) : pending'[k][p] = pending[k][p]
        /\ pending'[k] # <<>>
    <2>1. Append(pending[k], tx) # <<>>
      BY <1>4, <1>7
    <2>. QED
      BY <1>4, <1>7, <2>1, AppendProperties, LenProperties
  <1>9. DepShape'
    <2>1. \A j \in Keys : pending'[j] \in Seq(Txs(DOMAIN exts))
      BY <1>1, <1>7, <1>8 DEF DepShape
    <2>2. pending' \in [Keys -> Seq(Txs(DOMAIN exts))]
      BY <1>1, <1>2, <1>7, <2>1 DEF DepShape
    <2>3. UsedTyped'
      BY <1>1, <1>2, DeploymentBounds DEF DepShape, UsedTyped, Tools
    <2>. QED
      BY <1>1, <1>2, <1>5, <2>2, <2>3 DEF DepShape, UsedTyped, localVars, Nodes
  <1>10. ToolProgress'
    BY <1>1, <1>2, <1>5 DEF ToolProgress, Achieved, IsExtensionOf, TxSteps
  <1>11. ToolWaits'
    BY <1>2, <1>5, <1>6, <1>8 DEF ToolWaits, tx
  <1>12. ToolQuiet'
    <2>1. tool.quiet => pending[k] = <<>> /\ \A j \in Keys \ {k} : pending[j] = <<>>
      BY <1>1, <1>2 DEF ToolQuiet, TxSteps, k
    <2>2. pending[k] = <<>> => Len(pending'[k]) = 1
      BY <1>8
    <2>. QED
      BY <1>2, <1>5, <1>7, <2>1, <2>2 DEF ToolQuiet
  <1>13. ClaimsHold'
    <2> SUFFICES ASSUME NEW c \in claims'
                 PROVE  /\ c.id \in DOMAIN exts
                        /\ c.op = "version" => c.code \in exts[c.id].versions
                        /\ c.op # "version" =>
                             /\ c.op = "governance" /\ c.env \in DotEnvs
                             /\ c.governance = ToolGovernance(c.env)
                             /\ exts[c.id].governance = c.governance
                             /\ \A j \in Keys : \A p \in DOMAIN pending'[j] :
                                  pending'[j][p].op = "governance" => pending'[j][p].id # c.id
      BY <1>2 DEF ClaimsHold
    <2>1. c \in claims /\ ~(tool.pc = "governance" /\ c.op = "governance" /\ c.id = tool.id)
      BY <1>2
    <2>2. /\ c.id \in DOMAIN exts
          /\ c.op = "version" => c.code \in exts[c.id].versions
          /\ c.op # "version" =>
               /\ c.op = "governance" /\ c.env \in DotEnvs
               /\ c.governance = ToolGovernance(c.env)
               /\ exts[c.id].governance = c.governance
               /\ \A j \in Keys : \A p \in DOMAIN pending[j] :
                    pending[j][p].op = "governance" => pending[j][p].id # c.id
      BY <1>1, <2>1 DEF ClaimsHold
    <2>3. ASSUME c.op # "version", NEW j \in Keys, NEW p \in DOMAIN pending'[j],
                 pending'[j][p].op = "governance"
          PROVE  pending'[j][p].id # c.id
      <3>1. CASE j # k
        BY <1>7, <2>2, <2>3, <3>1
      <3>2. CASE j = k /\ p \in 1 .. Len(pending[k])
        BY <1>3, <1>8, <2>2, <2>3, <3>2
      <3>3. CASE j = k /\ p = Len(pending'[k])
        BY <1>4, <1>8, <2>1, <2>2, <2>3, <3>3
      <3>. QED
        BY <1>8, <2>3, <3>1, <3>2, <3>3
    <2>. QED
      BY <2>2, <2>3
  <1>14. CachedFirst' /\ BuiltFile'
    BY <1>1, <1>2 DEF CachedFirst, IsFirstOf, ExtensionsOf, BuiltFile, BuiltConfigComplete, localVars
  <1>15. VerdictHolds'
    BY <1>2, <1>3 DEF VerdictHolds
  <1>. QED
    BY <1>9, <1>10, <1>11, <1>12, <1>13, <1>14, <1>15 DEF DepInv

\* No tool runs after one has ended.
LEMMA IdleTool ==
  ASSUME tool' = Idle
  PROVE  /\ tool' \in Tools /\ ToolProgress' /\ ToolWaits' /\ ToolQuiet'
  <1>1. /\ Idle.pc = "idle" /\ Idle.waiting = FALSE /\ Idle.receipt = Unset
    BY DEF Idle, Run
  <1>2. Idle \in Tools
    BY DeploymentBounds DEF Idle, Run, Tools
  <1>3. ToolProgress'
    BY <1>1 DEF ToolProgress
  <1>4. ToolWaits' /\ ToolQuiet'
    BY <1>1 DEF ToolWaits, ToolQuiet
  <1>. QED
    BY <1>2, <1>3, <1>4

\* While a tool runs there is no verdict.
LEMMA NoVerdictWhileRunning ==
  ASSUME DepInv, tool.pc # "idle" \/ tool.waiting
  PROVE  verdict = NoVerdict /\ tool # Idle
  <1>1. tool # Idle
    BY DEF Idle, Run
  <1>. QED
    BY <1>1 DEF DepInv, VerdictHolds

\* A tool ends and changes nothing.
LEMMA StopInv ==
  ASSUME DepInv, tool # Idle, tool' = Idle, UNCHANGED <<chainVars, localVars, historyVars>>, UsedTyped'
  PROVE  DepInv'
  <1>1. verdict' = NoVerdict
    BY DEF DepInv, VerdictHolds, historyVars
  <1>2. tool' \in Tools /\ ToolProgress' /\ ToolWaits' /\ ToolQuiet'
    BY IdleTool
  <1>3. DepShape' /\ CachedFirst' /\ BuiltFile' /\ ClaimsHold'
    BY <1>2, SameChain DEF localVars, historyVars
  <1>. QED
    BY <1>1, <1>2, <1>3 DEF DepInv, VerdictHolds

\* A transaction failed.
LEMMA RevertedInv ==
  ASSUME DepInv, Reverted
  PROVE  DepInv'
  <1>1. /\ tool.waiting /\ tool.receipt # Unset /\ tool \in Tools
        /\ UNCHANGED <<chainVars, localVars, historyVars, used>>
    BY DEF DepInv, DepShape, Reverted
  <1>2. CASE tool' = Idle
    <2>1. UsedTyped'
      BY <1>1 DEF DepInv, DepShape, UsedTyped
    <2>. QED
      BY <1>1, <1>2, <2>1, StopInv, NoVerdictWhileRunning
  <1>3. CASE Tolerated /\ tool' = [tool EXCEPT !.pc = "done", !.waiting = FALSE, !.receipt = Unset]
    <2>1. tool.pc = "version" /\ tool.code \in exts[tool.id].versions
      BY <1>3 DEF Tolerated
    <2>2. Advanced(tool.id)
      BY <1>1, <1>3, <2>1, FollowingIs DEF Advanced, Tools
    <2>3. pending[tool.key] = <<>>
      BY <1>1 DEF DepInv, ToolWaits
    <2>4. Achieved(tool.pc, tool.id)
      BY <2>1 DEF Achieved
    <2>. QED
      BY <1>1, <2>1, <2>2, <2>3, <2>4, AdvanceInv DEF TxSteps
  <1>. QED
    BY <1>2, <1>3 DEF Reverted
\* pre-build writes extension.env.
LEMMA WriteConfigInv ==
  ASSUME DepInv, WriteConfig
  PROVE  DepInv'
  <1>1. DepShape /\ ToolProgress /\ tool \in Tools
    BY DEF DepInv, DepShape
  <1>2. /\ tool.pc = "write" /\ file' = [exists |-> TRUE, id |-> tool.id, sender |-> tool.sender]
        /\ builtBy' = tool.key /\ tool' = Idle
        /\ UNCHANGED <<chainVars, dotenv, node, historyVars, used>>
    BY DEF WriteConfig, Working
  <1>3. verdict' = NoVerdict
    BY <1>2, NoVerdictWhileRunning DEF historyVars
  <1>4. tool' \in Tools /\ ToolProgress' /\ ToolWaits' /\ ToolQuiet'
    BY <1>2, IdleTool
  <1>5. CachedFirst' /\ ClaimsHold'
    BY <1>2, SameChain DEF historyVars
  <1>6. tool.key \in Keys /\ tool.id \in Nat /\ tool.sender \in Nat
    BY <1>1, <1>2, DeploymentBounds DEF ToolProgress, Tools
  <1>7. file' \in Files
    BY <1>2, <1>6 DEF Files, Values
  <1>8. DepShape'
    BY <1>1, <1>2, <1>4, <1>6, <1>7 DEF DepShape, Nodes, chainVars
  <1>9. BuiltFile'
    BY <1>1, <1>2 DEF BuiltFile, BuiltConfigComplete, ToolProgress, Achieved, IsExtensionOf, chainVars
  <1>. QED
    BY <1>3, <1>4, <1>5, <1>8, <1>9 DEF DepInv, VerdictHolds

\* register-extension by hand ends.
LEMMA EndByHandInv ==
  ASSUME DepInv, EndByHand
  PROVE  DepInv'
  <1>1. UsedTyped' /\ tool.pc = "write"
    BY DEF EndByHand, Working, DepInv, DepShape, UsedTyped
  <1>2. tool # Idle
    BY <1>1, NoVerdictWhileRunning
  <1>. QED
    BY <1>1, <1>2, StopInv DEF EndByHand

\* allow-tee-version and set-governance end well.
LEMMA EndWellInv ==
  ASSUME DepInv, EndWell
  PROVE  DepInv'
  <1>1. DepShape /\ ToolProgress /\ ToolQuiet /\ ClaimsHold
    BY DEF DepInv
  <1>2. /\ tool.pc = "done" /\ ~tool.waiting /\ tool' = Idle
        /\ UNCHANGED <<chainVars, localVars, verdict, used>>
    BY DEF EndWell, Working
  <1>3. verdict' = NoVerdict
    BY <1>2, NoVerdictWhileRunning
  <1>4. tool' \in Tools /\ ToolProgress' /\ ToolWaits' /\ ToolQuiet'
    BY <1>2, IdleTool
  <1>5. UsedTyped'
    BY <1>1, <1>2 DEF DepShape, UsedTyped
  <1>6. DepShape' /\ CachedFirst' /\ BuiltFile'
    BY <1>2, <1>4, <1>5, SameChain DEF localVars
  <1>7. exts' = exts /\ pending' = pending
    BY <1>2 DEF chainVars
  <1> DEFINE vc == [op |-> "version", id |-> tool.id, code |-> tool.code]
             gc == [op |-> "governance", id |-> tool.id, governance |-> tool.governance,
                    env |-> tool.env]
  <1>8. claims' \subseteq claims \cup (IF tool.code # Unset THEN {vc} ELSE IF tool.quiet THEN {gc} ELSE {})
    BY DEF EndWell
  <1>9. ClaimsHold'
    <2>1. ASSUME NEW c \in claims'
          PROVE  /\ c.id \in DOMAIN exts
                 /\ c.op = "version" => c.code \in exts[c.id].versions
                 /\ c.op # "version" =>
                      /\ c.op = "governance" /\ c.env \in DotEnvs
                      /\ c.governance = ToolGovernance(c.env)
                      /\ exts[c.id].governance = c.governance
                      /\ \A k \in Keys : \A p \in DOMAIN pending[k] :
                           pending[k][p].op = "governance" => pending[k][p].id # c.id
      <3>1. CASE c \in claims
        BY <1>1, <3>1 DEF ClaimsHold
      <3>2. CASE tool.code # Unset /\ c = vc
        BY <1>1, <1>2, <3>2 DEF ToolProgress, Achieved
      <3>3. CASE tool.code = Unset /\ tool.quiet /\ c = gc
        <4>1. tool.id \in DOMAIN exts /\ exts[tool.id].governance = tool.governance
              /\ tool.env \in DotEnvs /\ tool.governance = ToolGovernance(tool.env)
          BY <1>1, <1>2, <3>3 DEF ToolProgress, Achieved
        <4>2. \A k \in Keys : pending[k] = <<>>
          BY <1>1, <1>2, <3>3 DEF ToolQuiet
        <4>3. \A k \in Keys : DOMAIN pending[k] = {}
          BY <4>2
        <4>. QED
          BY <3>3, <4>1, <4>3
      <3>. QED
        BY <1>8, <2>1, <3>1, <3>2, <3>3
    <2>. QED
      BY <1>7, <2>1 DEF ClaimsHold
  <1>. QED
    BY <1>3, <1>4, <1>6, <1>9 DEF DepInv, VerdictHolds

\* A tool is killed or gives up.
LEMMA GiveUpInv ==
  ASSUME DepInv, GiveUp
  PROVE  DepInv'
  <1>1. UsedTyped'
    BY WithinTyped DEF GiveUp, DepInv
  <1>. QED
    BY <1>1, StopInv DEF GiveUp

\* It is killed while it writes extension.env.
LEMMA GiveUpWritingInv ==
  ASSUME DepInv, GiveUpWriting
  PROVE  DepInv'
  <1>1. /\ DepShape /\ tool.pc = "write" /\ file' = EmptyFile /\ builtBy' = Unset /\ tool' = Idle
        /\ UNCHANGED <<chainVars, dotenv, node, historyVars>>
    BY DEF GiveUpWriting, Working, DepInv
  <1>2. verdict' = NoVerdict
    BY <1>1, NoVerdictWhileRunning DEF historyVars
  <1>3. tool' \in Tools /\ ToolProgress' /\ ToolWaits' /\ ToolQuiet'
    BY <1>1, IdleTool
  <1>4. CachedFirst' /\ ClaimsHold'
    BY <1>1, SameChain DEF historyVars
  <1>5. UsedTyped'
    BY <1>1, WithinTyped DEF GiveUpWriting
  <1>6. file' \in Files
    BY <1>1 DEF EmptyFile, Files, Values
  <1>7. DepShape'
    BY <1>1, <1>3, <1>5, <1>6 DEF DepShape, UsedTyped, Nodes, chainVars
  <1>. QED
    BY <1>1, <1>2, <1>3, <1>4, <1>7 DEF DepInv, VerdictHolds, BuiltFile

-----------------------------------------------------------------------------
(* The operator.                                                           *)

\* While no tool runs.
LEMMA StaysIdle ==
  ASSUME DepInv, tool = Idle, tool' = tool
  PROVE  tool' \in Tools /\ ToolProgress' /\ ToolWaits' /\ ToolQuiet'
  BY IdleTool

\* The services are started.
LEMMA StartServicesInv ==
  ASSUME DepInv, NEW code \in CodeHashes, StartServices(code)
  PROVE  DepInv'
  <1>1. /\ DepShape /\ VerdictHolds /\ tool = Idle /\ tool' = tool /\ file.id \in DOMAIN exts
        /\ node' = [id |-> file.id, code |-> code, governance |-> NodeGovernance(dotenv), env |-> dotenv]
        /\ UNCHANGED <<chainVars, tool, file, builtBy, dotenv, historyVars, used>>
    BY DEF StartServices, DepInv
  <1>2. tool' \in Tools /\ ToolProgress' /\ ToolWaits' /\ ToolQuiet'
    BY <1>1, StaysIdle
  <1>3. CachedFirst' /\ ClaimsHold' /\ BuiltFile'
    BY <1>1, SameChain DEF historyVars
  <1>4. Grown
    BY <1>1, SameGrown DEF chainVars
  <1>5. VerdictHolds'
    BY <1>1, <1>4, GrowthKeepsVerdict DEF historyVars
  <1>6. node' \in Nodes' /\ node'.governance = NodeGovernance(node'.env)
    <2> DEFINE g == NodeGovernance(dotenv)
    <2>1. dotenv \in DotEnvs /\ g \in {NodeGovernance(env) : env \in DotEnvs}
      BY <1>1 DEF DepShape
    <2>2. node' = [id |-> file.id, code |-> code, governance |-> g, env |-> dotenv]
      BY <1>1
    <2>3. g = NodeGovernance(dotenv)
      OBVIOUS
    <2> HIDE DEF g
    <2>4. node'.governance = g /\ node'.env = dotenv
      BY <2>2
    <2>. QED
      BY <1>1, <2>1, <2>2, <2>3, <2>4 DEF Nodes, chainVars
  <1>7. DepShape'
    BY <1>1, <1>2, <1>6 DEF DepShape, chainVars
  <1>. QED
    BY <1>2, <1>3, <1>5, <1>7 DEF DepInv

\* The operator switches to another .env.
LEMMA UseChainInv ==
  ASSUME DepInv, NEW env \in DotEnvs, UseChain(env)
  PROVE  DepInv'
  <1>1. /\ DepShape /\ tool = Idle /\ tool' = tool /\ dotenv' = env /\ verdict' = NoVerdict
        /\ UNCHANGED <<chainVars, tool, file, builtBy, node, claims>>
    BY DEF UseChain, DepInv
  <1>2. tool' \in Tools /\ ToolProgress' /\ ToolWaits' /\ ToolQuiet'
    BY <1>1, StaysIdle
  <1>3. CachedFirst' /\ ClaimsHold' /\ BuiltFile'
    BY <1>1, SameChain
  <1>4. UsedTyped'
    BY <1>1, WithinTyped DEF UseChain
  <1>5. DepShape'
    BY <1>1, <1>2, <1>4 DEF DepShape, UsedTyped, chainVars, Nodes
  <1>. QED
    BY <1>1, <1>2, <1>3, <1>5 DEF DepInv, VerdictHolds

\* The operator puts another extension.env in place.
LEMMA PutFileInv ==
  ASSUME DepInv, NEW f \in HandFiles, PutFile(f)
  PROVE  DepInv'
  <1>1. /\ DepShape /\ tool = Idle /\ tool' = tool /\ file' = f /\ builtBy' = Unset
        /\ verdict' = NoVerdict
        /\ UNCHANGED <<chainVars, tool, dotenv, node, claims>>
    BY DEF PutFile, DepInv
  <1>2. tool' \in Tools /\ ToolProgress' /\ ToolWaits' /\ ToolQuiet'
    BY <1>1, StaysIdle
  <1>3. CachedFirst' /\ ClaimsHold'
    BY <1>1, SameChain
  <1>4. UsedTyped'
    BY <1>1, WithinTyped DEF PutFile
  <1>5. DepShape'
    BY <1>1, <1>2, <1>4, OperatorAssumption DEF DepShape, UsedTyped, chainVars, Nodes
  <1>. QED
    BY <1>1, <1>2, <1>3, <1>5 DEF DepInv, VerdictHolds, BuiltFile
-----------------------------------------------------------------------------
(* The checks of verify-deploy.                                            *)

\* A report without failures has none in its parts.
LEMMA PartPasses ==
  ASSUME NEW whole, NEW part, part \subseteq whole, ~HasFailures(whole)
  PROVE  ~HasFailures(part)
  BY DEF HasFailures, Has

\* A check that is not failed although it can be.
LEMMA CheckPasses ==
  ASSUME NEW id, NEW condition, ~HasFailures(Check(id, PassOr("FAIL", condition)))
  PROVE  condition
  BY DEF HasFailures, Has, Check, PassOr

\* What a file without complaints about its registration is like on chain.
LEMMA RegistrationPasses ==
  ASSUME NEW w, w.config, WellFormed(parseExtensionEnv(w).id),
         ~HasFailures(RegisterRegistrationChecks(w))
  PROVE  /\ parseExtensionEnv(w).id \in w.machineOwners \cap w.keyTypes
         /\ WellFormed(parseExtensionEnv(w).sender) =>
              w.senderOf[parseExtensionEnv(w).id] = parseExtensionEnv(w).sender
  <1> DEFINE id == parseExtensionEnv(w).id
             sender == parseExtensionEnv(w).sender
  <1>1. RegisterRegistrationChecks(w) =
          NextIdCheck(w) \cup (SenderCheck(w, id, sender) \cup OwnerCheck(w, id)
            \cup KeyTypeCheck(w, id) \cup UniqueSenderCheck(w, sender))
    BY DEF RegisterRegistrationChecks, WellFormed
  <1> HIDE DEF id, sender
  <1>2. /\ ~HasFailures(SenderCheck(w, id, sender)) /\ ~HasFailures(OwnerCheck(w, id))
        /\ ~HasFailures(KeyTypeCheck(w, id))
    BY <1>1, PartPasses
  <1>3. id \in w.machineOwners
    BY <1>2, CheckPasses DEF OwnerCheck
  <1>4. id \in w.keyTypes
    BY <1>2, CheckPasses DEF KeyTypeCheck
  <1>5. ASSUME WellFormed(sender) PROVE w.senderOf[id] = sender
    <2>1. ~HasFailures(Check("R2", PassOr("FAIL", Answers(w, "sender") /\ w.senderOf[id] = sender)))
      BY <1>2, <1>5 DEF SenderCheck, When
    <2>. QED
      BY <2>1, CheckPasses
  <1>. QED
    BY <1>3, <1>4, <1>5 DEF id, sender

\* The checks of the services want an id.
LEMMA ServicesPass ==
  ASSUME NEW w, w.config, ~HasFailures(RegisterServicesChecks(w))
  PROVE  WellFormed(parseExtensionEnv(w).id)
  <1>1. Check("S2", PassOr("FAIL", WellFormed(parseExtensionEnv(w).id)))
          \subseteq RegisterServicesChecks(w)
    BY DEF RegisterServicesChecks
  <1>. QED
    BY <1>1, PartPasses, CheckPasses

\* Those of the deployment want a sender if there is a file.
LEMMA DeployPasses ==
  ASSUME NEW w, w.config, w.file.exists, ~HasFailures(RegisterDeployChecks(w))
  PROVE  WellFormed(w.file.sender)
  <1>1. Check("D7", PassOr("FAIL", WellFormed(w.file.sender))) \subseteq CheckExtensionEnvFormat(w)
    BY DEF CheckExtensionEnvFormat
  <1>2. CheckExtensionEnvFormat(w) \subseteq RegisterDeployChecks(w)
    BY DEF RegisterDeployChecks, When
  <1>. QED
    BY <1>1, <1>2, PartPasses, CheckPasses

\* Only the check of the sender's uniqueness is called R7.
LEMMA UniqueReported ==
  ASSUME NEW w, NEW step \in {"register", "services", "all"},
         [id |-> "R7", status |-> "PASS"] \in Report(step, w)
  PROVE  /\ step # "services"
         /\ WellFormed(parseExtensionEnv(w).id) /\ WellFormed(parseExtensionEnv(w).sender)
         /\ Cardinality(MatchingIds(w, parseExtensionEnv(w).sender)) <= 1
  <1> DEFINE r == [id |-> "R7", status |-> "PASS"]
             id == parseExtensionEnv(w).id
             sender == parseExtensionEnv(w).sender
  <1>1. ASSUME NEW i, i # "R7", NEW status PROVE r \notin Check(i, status)
    BY <1>1 DEF Check
  <1> HIDE DEF r
  <1>2. r \notin RegisterServicesChecks(w)
    BY <1>1 DEF RegisterServicesChecks, ReachableCheck
  <1>3. r \notin RegisterTeeVersionChecks(w) \cup RegisterTeeMachineChecks(w)
    BY <1>1 DEF RegisterTeeVersionChecks, RegisterTeeMachineChecks, ReachableCheck
  <1>4. r \notin RegisterTestChecks(w)
    BY <1>1 DEF RegisterTestChecks, ReachableCheck
  <1>5. r \notin RegisterDeployChecks(w)
    <2>1. r \notin CheckExtensionEnvFormat(w)
      BY <1>1 DEF CheckExtensionEnvFormat
    <2>2. r \notin CheckDeployerKeySource(w) /\ r \notin checkChainID(w)
      BY <1>1 DEF CheckDeployerKeySource, checkChainID
    <2>. QED
      BY <1>1, <2>1, <2>2 DEF RegisterDeployChecks, When
  <1>6. step # "services" /\ r \in RegisterRegistrationChecks(w)
    BY <1>2, <1>3, <1>4, <1>5 DEF Report, r
  <1>7. WellFormed(id) /\ r \in UniqueSenderCheck(w, sender)
    <2>1. /\ r \notin Check("R1-R7", "SKIP") /\ r \notin NextIdCheck(w) /\ r \notin Check("R2", "FAIL")
          /\ r \notin SenderCheck(w, id, sender) /\ r \notin OwnerCheck(w, id)
          /\ r \notin KeyTypeCheck(w, id)
      BY <1>1 DEF NextIdCheck, SenderCheck, OwnerCheck, KeyTypeCheck, When
    <2>. QED
      BY <1>6, <2>1 DEF RegisterRegistrationChecks
  <1> HIDE DEF id, sender
  <1>8. WellFormed(sender) /\ r \in Check("R7", PassOr("WARN", Cardinality(MatchingIds(w, sender)) <= 1))
    BY <1>7 DEF UniqueSenderCheck, When
  <1>9. Cardinality(MatchingIds(w, sender)) <= 1
    BY <1>8 DEF Check, PassOr, r
  <1>. QED
    BY <1>6, <1>7, <1>8, <1>9 DEF id, sender
\* What verify-deploy sees of the registry and of the file.
LEMMA WorldSees ==
  ASSUME DepShape, NEW s
  PROVE  /\ World(s).config = s.config /\ World(s).file = file
         /\ World(s).counter = Len(exts) + 1
         /\ \A i \in DOMAIN exts : i \in Nat /\ World(s).senderOf[i] = exts[i].sender
         /\ \A i : i \in World(s).machineOwners <=>
                     i \in DOMAIN exts /\ dotenv.key \in exts[i].machineOwners
         /\ \A i : i \in World(s).keyTypes <=> i \in DOMAIN exts /\ exts[i].evm
         /\ WellFormed(parseExtensionEnv(World(s)).id) =>
              file.exists /\ parseExtensionEnv(World(s)).id = file.id
         /\ file.exists => /\ parseExtensionEnv(World(s)).id = file.id
                           /\ parseExtensionEnv(World(s)).sender = file.sender
         /\ WellFormed(file.id) => file.exists
  <1> DEFINE w == World(s)
  <1>1. \A i \in DOMAIN exts : i \in Nat
    BY LenProperties DEF DepShape
  <1>2. /\ w.config = s.config /\ w.file = file /\ w.counter = Len(exts) + 1
        /\ w.senderOf = [i \in Nat |-> IF i \in DOMAIN exts THEN exts[i].sender ELSE Unset]
        /\ w.machineOwners = {i \in DOMAIN exts : dotenv.key \in exts[i].machineOwners}
        /\ w.keyTypes = {i \in DOMAIN exts : exts[i].evm}
    BY DEF World
  <1> HIDE DEF w
  <1>3. WellFormed(file.id) => file.exists
    BY DEF DepShape, Files, WellFormed
  <1>4. WellFormed(parseExtensionEnv(w).id) => file.exists
    BY <1>2 DEF parseExtensionEnv, WellFormed
  <1>5. file.exists => parseExtensionEnv(w).id = file.id /\ parseExtensionEnv(w).sender = file.sender
    BY <1>2 DEF parseExtensionEnv
  <1>6. \A i \in DOMAIN exts : w.senderOf[i] = exts[i].sender
    BY <1>1, <1>2
  <1>. QED
    BY <1>1, <1>2, <1>3, <1>4, <1>5, <1>6 DEF w

\* If every extension was read and at most one has the sender, the one in the
\* file is the first.
LEMMA UniqueIsFirst ==
  ASSUME DepShape, NEW s, Answers(World(s), "scan"), file.id \in ExtensionsOf(file.sender),
         Cardinality(MatchingIds(World(s), file.sender)) <= 1
  PROVE  IsFirstOf(file.id, file.sender)
  <1> DEFINE w == World(s)
             M == MatchingIds(w, file.sender)
  <1>1. Len(exts) \in Nat /\ DOMAIN exts = 1 .. Len(exts)
    BY LenProperties DEF DepShape
  <1>2. w.counter = Len(exts) + 1 /\ \A i \in DOMAIN exts : w.senderOf[i] = exts[i].sender
    BY WorldSees
  <1>3. ExtensionsOf(file.sender) \subseteq M /\ M \subseteq 0 .. Len(exts)
    BY <1>1, <1>2 DEF ExtensionsOf, MatchingIds
  <1>4. IsFiniteSet(M)
    <2>1. IsFiniteSet(0 .. Len(exts))
      BY <1>1, FS_Interval
    <2>. QED
      BY <1>3, <2>1, FS_Subset
  <1> HIDE DEF M
  <1>5. ASSUME NEW j \in ExtensionsOf(file.sender) PROVE j = file.id
    <2>1. file.id \in M /\ j \in M /\ Cardinality(M) <= 1 /\ Cardinality(M) \in Nat
      BY <1>3, <1>4, FS_CardinalityType DEF M
    <2>2. IsFiniteSet({file.id, j}) /\ (j # file.id => Cardinality({file.id, j}) = 2)
      <3>1. IsFiniteSet({file.id}) /\ Cardinality({file.id}) = 1
        BY FS_Singleton
      <3>2. IsFiniteSet({file.id} \cup {j})
            /\ (j \notin {file.id} => Cardinality({file.id} \cup {j}) = 2)
        BY <3>1, FS_AddElement
      <3>3. {file.id} \cup {j} = {file.id, j}
        OBVIOUS
      <3>. QED
        BY <3>2, <3>3
    <2>3. Cardinality({file.id, j}) <= Cardinality(M)
      BY <1>4, <2>1, FS_Subset
    <2>. QED
      BY <2>1, <2>2, <2>3
  <1>6. file.id \in Nat
    BY <1>1 DEF ExtensionsOf
  <1>. QED
    BY <1>5, <1>6 DEF IsFirstOf

\* verify-deploy.
LEMMA VerifyInv ==
  ASSUME DepInv, NEW step \in Steps, NEW s, Verify(step, s)
  PROVE  DepInv'
  <1> DEFINE w == World(s)
             unique == [id |-> "R7", status |-> "PASS"] \in Report(step, w) /\ Answers(w, "scan")
             kept == s.config /\ s.checks = {} /\ step \in {"register", "services", "all"}
  <1>1. /\ DepShape /\ tool = Idle /\ tool' = tool /\ ExitsOk(step, s.checks, w)
        /\ verdict' = IF kept THEN [step |-> step, unique |-> unique] ELSE NoVerdict
        /\ UNCHANGED <<chainVars, tool, localVars, claims, used>>
    BY DEF Verify, DepInv
  <1>2. tool' \in Tools /\ ToolProgress' /\ ToolWaits' /\ ToolQuiet'
    BY <1>1, StaysIdle
  <1>3. UsedTyped'
    BY <1>1 DEF DepShape, UsedTyped
  <1>4. DepShape' /\ CachedFirst' /\ ClaimsHold' /\ BuiltFile'
    BY <1>1, <1>2, <1>3, SameChain DEF localVars
  <1>5. UNCHANGED <<exts, file, dotenv>>
    BY <1>1 DEF chainVars, localVars
  <1>6. /\ w.config = s.config /\ w.file = file
        /\ \A i \in DOMAIN exts : i \in Nat /\ w.senderOf[i] = exts[i].sender
        /\ \A i : i \in w.machineOwners <=> i \in DOMAIN exts /\ dotenv.key \in exts[i].machineOwners
        /\ \A i : i \in w.keyTypes <=> i \in DOMAIN exts /\ exts[i].evm
        /\ WellFormed(parseExtensionEnv(w).id) => file.exists /\ parseExtensionEnv(w).id = file.id
        /\ file.exists => parseExtensionEnv(w).id = file.id /\ parseExtensionEnv(w).sender = file.sender
        /\ WellFormed(file.id) => file.exists
    BY <1>1, WorldSees
  <1>7. unique \in BOOLEAN
    OBVIOUS
  <1> HIDE DEF w, unique
  <1>8. CASE kept
    <2>1. ~HasFailures(Report(step, w))
      <3>1. Filtered(Report(step, w), s.checks) = Report(step, w)
        BY <1>8 DEF Filtered
      <3>. QED
        BY <1>1, <3>1 DEF ExitsOk
    <2>2. step \in {"services", "all"} => ~HasFailures(RegisterServicesChecks(w))
      BY <2>1, PartPasses DEF Report
    <2>3. step \in {"register", "all"} => ~HasFailures(RegisterRegistrationChecks(w))
      BY <2>1, PartPasses DEF Report
    <2>4. step = "all" => ~HasFailures(RegisterDeployChecks(w))
      BY <2>1, PartPasses DEF Report
    <2>5. step \in {"services", "all"} => file.exists /\ WellFormed(file.id)
      BY <1>6, <1>8, <2>2, ServicesPass
    <2>6. step = "all" => WellFormed(file.sender)
      BY <1>6, <1>8, <2>4, <2>5, DeployPasses
    <2>7. ASSUME step \in {"register", "all"}, WellFormed(file.id)
          PROVE  /\ file.id \in DOMAIN exts /\ dotenv.key \in exts[file.id].machineOwners
                 /\ exts[file.id].evm
                 /\ WellFormed(file.sender) => exts[file.id].sender = file.sender
      <3>1. parseExtensionEnv(w).id = file.id /\ parseExtensionEnv(w).sender = file.sender
        BY <1>6, <2>7
      <3>2. /\ file.id \in w.machineOwners \cap w.keyTypes
            /\ WellFormed(file.sender) => w.senderOf[file.id] = file.sender
        BY <1>6, <1>8, <2>3, <2>7, <3>1, RegistrationPasses
      <3>. QED
        BY <1>6, <3>2
    <2>8. ASSUME unique PROVE IsFirstOf(file.id, file.sender)
      <3>1. /\ step # "services" /\ WellFormed(parseExtensionEnv(w).id)
            /\ WellFormed(parseExtensionEnv(w).sender)
            /\ Cardinality(MatchingIds(w, parseExtensionEnv(w).sender)) <= 1
            /\ Answers(w, "scan")
        BY <1>8, <2>8, UniqueReported DEF unique
      <3>2. parseExtensionEnv(w).id = file.id /\ parseExtensionEnv(w).sender = file.sender
        BY <1>6, <3>1
      <3>3. file.id \in ExtensionsOf(file.sender)
        BY <1>8, <2>7, <3>1, <3>2 DEF ExtensionsOf
      <3>. QED
        BY <1>1, <3>1, <3>2, <3>3, UniqueIsFirst DEF w
    <2>9. verdict'.step = step /\ verdict'.unique = unique
      BY <1>1, <1>8
    <2>10. IsFirstOf(file.id, file.sender)' <=> IsFirstOf(file.id, file.sender)
      BY <1>5 DEF IsFirstOf, ExtensionsOf
    <2>11. VerdictSound'
      BY <1>5, <2>5, <2>6, <2>7, <2>9 DEF VerdictSound, WellFormed
    <2>12. verdict'.step \in {"register", "all"} /\ WellFormed(file.id)' => file'.id \in DOMAIN exts'
      BY <1>5, <2>7, <2>9 DEF WellFormed
    <2>13. verdict'.unique => IsFirstOf(file.id, file.sender)'
      BY <2>8, <2>9, <2>10
    <2>14. VerdictHolds'
      BY <1>1, <2>11, <2>12, <2>13 DEF VerdictHolds
    <2>. QED
      BY <1>2, <1>4, <2>14 DEF DepInv
  <1>9. CASE ~kept
    <2>1. VerdictHolds'
      BY <1>1, <1>9 DEF VerdictHolds
    <2>. QED
      BY <1>2, <1>4, <2>1 DEF DepInv
  <1>. QED
    BY <1>8, <1>9
-----------------------------------------------------------------------------
(* The specification.                                                      *)

\* Before anything is deployed.
LEMMA DepInitInv ==
  ASSUME DepInit
  PROVE  DepInv
  <1>1. Idle.pc = "idle" /\ Idle.waiting = FALSE /\ Idle.receipt = Unset /\ Idle \in Tools
    BY DeploymentBounds DEF Idle, Run, Tools
  <1>2. DepShape
    BY <1>1, DeploymentBounds DEF DepInit, DepShape, NoFile, Files, Values
  <1>3. ToolProgress
    BY <1>1 DEF DepInit, ToolProgress
  <1>4. ToolWaits /\ ToolQuiet
    BY <1>1 DEF DepInit, ToolWaits, ToolQuiet
  <1>5. ClaimsHold /\ VerdictHolds /\ BuiltFile
    BY DEF DepInit, ClaimsHold, VerdictHolds, BuiltFile
  <1>6. CachedFirst
    BY DEF DepInit, CachedFirst
  <1>. QED
    BY <1>2, <1>3, <1>4, <1>5, <1>6 DEF DepInv

\* A stuttering step.
LEMMA DepStutter ==
  ASSUME DepInv, UNCHANGED depVars
  PROVE  DepInv'
  <1>1. /\ DepShape /\ ToolProgress /\ ToolWaits /\ ToolQuiet
        /\ ClaimsHold /\ CachedFirst /\ VerdictHolds /\ BuiltFile
    BY DEF DepInv
  <1>2. UNCHANGED <<chainVars, tool, localVars, historyVars, used>>
    BY DEF depVars
  <1>3. Grown
    BY <1>1, <1>2, SameGrown DEF chainVars
  <1>4. ToolProgress' /\ ToolWaits' /\ ToolQuiet' /\ ClaimsHold' /\ VerdictHolds' /\ BuiltFile'
    BY <1>2, <1>3, NeutralGrowth DEF chainVars
  <1>5. DepShape' /\ CachedFirst'
    BY <1>1, <1>2, SameChain DEF DepShape, UsedTyped
  <1>. QED
    BY <1>4, <1>5 DEF DepInv

\* Each step of the tools, of the operator and of the chain preserves what
\* holds together.
LEMMA DepNextInv ==
  ASSUME DepInv, [DepNext]_depVars
  PROVE  DepInv'
  <1>1. CASE \E k \in Keys : Land(k)
    BY <1>1, LandInv
  <1>2. CASE \E c \in Contracts : RegisterOther(c) \/ SetExtensionId(c) \/ RegisterByHand(c)
    BY <1>2, RegisterOtherInv, SetExtensionIdInv, RegisterByHandInv
  <1>3. CASE PreBuild \/ AllowTeeVersion \/ SetGovernance
    BY <1>3, PreBuildInv, AllowTeeVersionInv, SetGovernanceInv
  <1>4. CASE SkipStep \/ SendStep \/ Confirmed \/ Reverted
    BY <1>4, SkipStepInv, SendStepInv, ConfirmedInv, RevertedInv
  <1>5. CASE WriteConfig \/ EndByHand \/ EndWell \/ GiveUp \/ GiveUpWriting
    BY <1>5, WriteConfigInv, EndByHandInv, EndWellInv, GiveUpInv, GiveUpWritingInv
  <1>6. CASE \E code \in CodeHashes : StartServices(code)
    BY <1>6, StartServicesInv
  <1>7. CASE \E env \in DotEnvs : UseChain(env)
    BY <1>7, UseChainInv
  <1>8. CASE \E f \in HandFiles : PutFile(f)
    BY <1>8, PutFileInv
  <1>9. CASE \E step \in Steps, s \in Situations : Verify(step, s)
    BY <1>9, VerifyInv
  <1>10. CASE UNCHANGED depVars
    BY <1>10, DepStutter
  <1>. QED
    BY <1>1, <1>2, <1>3, <1>4, <1>5, <1>6, <1>7, <1>8, <1>9, <1>10 DEF DepNext, ToolStep

\* The inductive invariant of setting up and verifying an extension: where a
\* running tool stands, what its transactions have done, what is outstanding,
\* and what files, verdicts and successes rest on.
THEOREM DepInvariant == DepSpec => []DepInv
  <1>1. DepInit => DepInv
    BY DepInitInv
  <1>2. DepInv /\ [DepNext]_depVars => DepInv'
    BY DepNextInv
  <1>. QED
    BY <1>1, <1>2, PTL DEF DepSpec

\* An extension.env that pre-build.sh wrote names an extension of the
\* deployed contract that is fully set up for the key that built it, whatever
\* others register and whichever runs were given up before and after.
THEOREM BuiltConfigCompleteHolds == DepSpec => []BuiltConfigComplete
  <1>1. DepInv => BuiltConfigComplete
    BY DEF DepInv, BuiltFile, BuiltConfigComplete
  <1>. QED
    BY <1>1, DepInvariant, PTL

\* Success of allow-tee-version and set-governance is on chain and stays
\* there, also when transactions of earlier runs arrive late.
THEOREM SuccessIsOnChainHolds == DepSpec => []SuccessIsOnChain
  <1>1. DepInv => SuccessIsOnChain
    BY DEF DepInv, ClaimsHold, SuccessIsOnChain
  <1>. QED
    BY <1>1, DepInvariant, PTL

\* After a set-governance under the .env that the node was started with, the
\* chain has the governance the node signs with, if .env determines the
\* signers for both and gives no threshold but a positive one.
THEOREM GovernanceMatchesNodeHolds == DepSpec => []GovernanceMatchesNode
  <1>1. ASSUME DepInv, NEW c \in claims, c.op = "governance", node # NotRunning, c.env = node.env,
               c.env.GOVERNANCE_SIGNERS # {} \/ c.env.INITIAL_OWNER # Unset,
               c.env.GOVERNANCE_THRESHOLD \notin {Malformed, 0}
        PROVE  exts[c.id].governance = node.governance
    <2>1. exts[c.id].governance = ToolGovernance(c.env)
      BY <1>1 DEF DepInv, ClaimsHold
    <2>2. node.governance = NodeGovernance(c.env)
      BY <1>1 DEF DepInv, DepShape
    <2>3. ToolGovernance(c.env) = NodeGovernance(c.env)
      BY <1>1 DEF ToolGovernance, NodeGovernance, Governance
    <2>. QED
      BY <2>1, <2>2, <2>3
  <1>2. DepInv => GovernanceMatchesNode
    BY <1>1 DEF GovernanceMatchesNode
  <1>. QED
    BY <1>2, DepInvariant, PTL

\* Exit status 0 of verify-deploy stands for what the checks are about, and
\* stays true while the operator changes nothing.
THEOREM VerdictSoundHolds == DepSpec => []VerdictSound
  <1>1. DepInv /\ verdict # NoVerdict => VerdictSound
    BY DEF DepInv, VerdictHolds
  <1>2. verdict = NoVerdict => VerdictSound
    BY DEF VerdictSound, NoVerdict
  <1>3. DepInv => VerdictSound
    BY <1>1, <1>2
  <1>. QED
    BY <1>3, DepInvariant, PTL

\* A report that calls the instruction sender unique settles which extension
\* the contract finds or has found.
THEOREM UniqueMeansPinnedHolds == DepSpec => []UniqueMeansPinned
  <1>1. ASSUME DepInv, verdict.unique
        PROVE  FirstExtensionOf(file.sender) = file.id /\ cached[file.sender] \in {0, file.id}
    <2>1. IsFirstOf(file.id, file.sender) /\ DepShape /\ CachedFirst
      BY <1>1 DEF DepInv, VerdictHolds, NoVerdict
    <2>2. ASSUME NEW i, IsFirstOf(i, file.sender) PROVE i = file.id
      <3>1. /\ i \in ExtensionsOf(file.sender) /\ file.id \in ExtensionsOf(file.sender)
            /\ i <= file.id /\ file.id <= i
        BY <2>1, <2>2 DEF IsFirstOf
      <3>2. ExtensionsOf(file.sender) \subseteq Nat
        BY <2>1, LenProperties DEF DepShape, ExtensionsOf
      <3>. QED
        BY <3>1, <3>2
    <2>3. IsFirstOf(FirstExtensionOf(file.sender), file.sender)
      BY <2>1, FirstExists DEF IsFirstOf
    <2>4. file.sender \in Contracts
      <3>1. file.id \in DOMAIN exts /\ exts[file.id].sender = file.sender
        BY <2>1 DEF IsFirstOf, ExtensionsOf
      <3>2. exts[file.id] \in ExtensionRecords
        BY <2>1, <3>1, ElementOfSeq, LenProperties DEF DepShape
      <3>. QED
        BY <3>1, <3>2 DEF ExtensionRecords
    <2>5. cached[file.sender] # 0 => IsFirstOf(cached[file.sender], file.sender)
      BY <2>1, <2>4 DEF CachedFirst
    <2>. QED
      BY <2>2, <2>3, <2>5
  <1>2. DepInv => UniqueMeansPinned
    BY <1>1 DEF UniqueMeansPinned
  <1>. QED
    BY <1>2, DepInvariant, PTL
-----------------------------------------------------------------------------
(* A file that pre-build wrote passes every check.                         *)

Clean(report) == ~HasFailures(report)

\* Reports without failures together have none.
LEMMA CleanTogether ==
  ASSUME NEW A, NEW B, Clean(A), Clean(B)
  PROVE  Clean(A \cup B)
  BY DEF Clean, HasFailures, Has

\* A check that holds, or that can at most warn, does not fail.
LEMMA CleanCheck ==
  ASSUME NEW id, NEW status, status # "FAIL"
  PROVE  Clean(Check(id, status))
  BY DEF Clean, HasFailures, Has, Check

\* No check, no failure.
LEMMA CleanWhen ==
  ASSUME NEW condition, NEW report, Clean(report)
  PROVE  Clean(When(condition, report))
  BY DEF Clean, HasFailures, Has, When

\* The reachability of a proxy is worth a warning at most.
LEMMA CleanReachable ==
  ASSUME NEW id, NEW url
  PROVE  Clean(ReachableCheck(id, url))
  BY CleanCheck DEF ReachableCheck, PassOr

\* What the checks ask for.
Sound(w) ==
  /\ w.down = {} /\ w.config /\ ~w.managerZero /\ w.hasCode /\ w.hasFunds
  /\ w.file.exists /\ WellFormed(w.file.id) /\ WellFormed(w.file.sender)
  /\ w.senderOf[w.file.id] = w.file.sender
  /\ w.file.id \in w.machineOwners \cap w.keyTypes

\* None of them fails on what it asks for, whatever the variables are and
\* whoever else registered the sender.
LEMMA SoundIsClean ==
  ASSUME NEW w, Sound(w), NEW step \in Steps
  PROVE  Clean(Report(step, w))
  <1>1. \A read : Answers(w, read)
    BY DEF Sound, Answers
  <1>2. parseExtensionEnv(w).id = w.file.id /\ parseExtensionEnv(w).sender = w.file.sender
    BY DEF Sound, parseExtensionEnv
  <1>3. ASSUME NEW id, NEW condition, NEW otherwise, condition \/ otherwise # "FAIL"
        PROVE  Clean(Check(id, PassOr(otherwise, condition)))
    BY <1>3, CleanCheck DEF PassOr
  <1>4. Clean(RegisterDeployChecks(w))
    <2>1. /\ Clean(Check("D3", PassOr("FAIL", AddressNotZero(w))))
          /\ Clean(Check("D1", PassOr("FAIL", AddressHasCode(w))))
          /\ Clean(Check("D5", PassOr("FAIL", KeyHasFunds(w))))
      BY <1>1, <1>3 DEF Sound, AddressNotZero, AddressHasCode, KeyHasFunds
    <2>2. Clean(CheckDeployerKeySource(w)) /\ Clean(checkChainID(w))
      BY <1>1, <1>3 DEF CheckDeployerKeySource, checkChainID
    <2>3. Clean(CheckExtensionEnvFormat(w))
      BY <1>3, CleanTogether DEF CheckExtensionEnvFormat, Sound
    <2>4. /\ Clean(When(AddressNotZero(w), Check("D1", PassOr("FAIL", AddressHasCode(w)))))
          /\ Clean(When(w.config, CheckExtensionEnvFormat(w)))
      BY <2>1, <2>3, CleanWhen
    <2>. QED
      BY <2>1, <2>2, <2>4, CleanTogether DEF RegisterDeployChecks
  <1>5. Clean(RegisterRegistrationChecks(w))
    <2> DEFINE id == w.file.id
               sender == w.file.sender
    <2>1. Clean(NextIdCheck(w))
      BY <1>1, <1>3 DEF NextIdCheck
    <2>2. Clean(SenderCheck(w, id, sender))
      BY <1>1, <1>3, CleanWhen DEF SenderCheck, Sound
    <2>3. Clean(OwnerCheck(w, id)) /\ Clean(KeyTypeCheck(w, id))
      BY <1>1, <1>3 DEF OwnerCheck, KeyTypeCheck, Sound
    <2>4. Clean(UniqueSenderCheck(w, sender))
      BY <1>3, CleanWhen DEF UniqueSenderCheck
    <2>5. RegisterRegistrationChecks(w) =
            NextIdCheck(w) \cup (SenderCheck(w, id, sender) \cup OwnerCheck(w, id)
              \cup KeyTypeCheck(w, id) \cup UniqueSenderCheck(w, sender))
      BY <1>2 DEF RegisterRegistrationChecks, WellFormed, Sound
    <2>. QED
      BY <2>1, <2>2, <2>3, <2>4, <2>5, CleanTogether
  <1>6. Clean(RegisterServicesChecks(w))
    <2>1. Clean(Check("S2", IF ~w.config THEN "SKIP" ELSE PassOr("FAIL", WellFormed(parseExtensionEnv(w).id))))
      BY <1>2, <1>3 DEF Sound
    <2>2. Clean(Check("S5", PassOr("WARN", ~w.vars.portInUse)))
      BY <1>3
    <2>3. Clean(Check("S7", "PASS"))
      BY CleanCheck
    <2>4. Clean(ReachableCheck("S9", w.vars.EXT_PROXY_URL))
      BY CleanReachable
    <2>5. Clean(Check("S10", PassOr("WARN", w.vars.LOCAL_MODE # "false" \/ w.vars.PROXY_PRIVATE_KEY)))
      BY <1>3
    <2>. QED
      BY <2>1, <2>2, <2>3, <2>4, <2>5, CleanTogether DEF RegisterServicesChecks
  <1>7. Clean(RegisterTeeVersionChecks(w))
    <2>1. Clean(Check("V2", PassOr("WARN", \/ w.vars.EXTENSION_OWNER_KEY
                                           \/ w.vars.DEPLOYMENT_PRIVATE_KEY
                                           \/ LocalMode(w))))
      BY <1>3
    <2>2. Clean(Check("V4", IF ~w.config \/ ~w.file.exists THEN "SKIP"
                            ELSE PassOr("FAIL", WellFormed(parseExtensionEnv(w).id))))
      BY <1>2, <1>3 DEF Sound
    <2>3. Clean(ReachableCheck("V6", w.vars.EXT_PROXY_URL))
      BY CleanReachable
    <2>. QED
      BY <2>1, <2>2, <2>3, CleanTogether DEF RegisterTeeVersionChecks
  <1>8. Clean(RegisterTeeMachineChecks(w))
    <2>1. Clean(Check("T1", PassOr("WARN", ~(w.vars.SIMULATED_TEE /\ w.vars.LOCAL_MODE = "false"))))
      BY <1>3
    <2>2. Clean(ReachableCheck("T5", w.vars.NORMAL_PROXY_URL))
          /\ Clean(ReachableCheck("T10", w.vars.EXT_PROXY_URL))
      BY CleanReachable
    <2>. QED
      BY <2>1, <2>2, CleanTogether DEF RegisterTeeMachineChecks
  <1>9. Clean(RegisterTestChecks(w))
    <2>1. Clean(Check("E1", IF ~w.config \/ ~w.file.exists THEN "SKIP"
                            ELSE PassOr("FAIL", WellFormed(parseExtensionEnv(w).sender))))
      BY <1>2, <1>3 DEF Sound
    <2>2. Clean(ReachableCheck("E3", w.vars.EXT_PROXY_URL)) /\ Clean(Check("E6", "PASS"))
      BY CleanReachable, CleanCheck
    <2>. QED
      BY <2>1, <2>2, CleanTogether DEF RegisterTestChecks
  <1>10. Clean(RegisterDeployChecks(w) \cup RegisterRegistrationChecks(w) \cup RegisterServicesChecks(w)
           \cup RegisterTeeVersionChecks(w) \cup RegisterTeeMachineChecks(w) \cup RegisterTestChecks(w))
    BY <1>4, <1>5, <1>6, <1>7, <1>8, <1>9, CleanTogether
  <1>. QED
    BY <1>4, <1>5, <1>6, <1>7, <1>8, <1>9, <1>10 DEF Report, Steps

\* After a pre-build that ended well verify-deploy exits with 0 at every step
\* and with every filter, as long as the key is the same and still has the
\* minimum balance and the network answers, even if others register the same
\* instruction sender.
THEOREM BuiltConfigVerifiesHolds == DepSpec => []BuiltConfigVerifies
  <1>1. ASSUME DepInv, builtBy # Unset, dotenv.key = builtBy, NEW step \in Steps, NEW s \in Situations,
               s.config, s.addresses = "right", s.down = {}, s.hasFunds
        PROVE  ExitsOk(step, s.checks, World(s))
    <2> DEFINE w == World(s)
    <2>1. DepShape /\ file.exists /\ BuiltConfigComplete
      BY <1>1 DEF DepInv, BuiltFile
    <2>2. /\ w.config /\ w.file = file
          /\ \A i \in DOMAIN exts : i \in Nat /\ w.senderOf[i] = exts[i].sender
          /\ \A i : i \in w.machineOwners <=> i \in DOMAIN exts /\ dotenv.key \in exts[i].machineOwners
          /\ \A i : i \in w.keyTypes <=> i \in DOMAIN exts /\ exts[i].evm
      BY <1>1, <2>1, WorldSees
    <2>3. w.down = {} /\ ~w.managerZero /\ w.hasCode /\ w.hasFunds
      BY <1>1 DEF World
    <2> HIDE DEF w
    <2>4. WellFormed(file.id) /\ WellFormed(file.sender)
      <3>1. file.id \in DOMAIN exts /\ file.sender \in Contracts
        BY <1>1, <2>1 DEF BuiltConfigComplete, DepShape
      <3>2. file.id \in Nat /\ file.sender \in Nat
        BY <2>2, <3>1, DeploymentBounds DEF Contracts
      <3>. QED
        BY <3>2, UnsetAssumption DEF WellFormed
    <2>5. Sound(w)
      BY <1>1, <2>1, <2>2, <2>3, <2>4 DEF Sound, BuiltConfigComplete
    <2>6. Clean(Report(step, w))
      BY <2>5, SoundIsClean
    <2>7. ~HasFailures(Filtered(Report(step, w), s.checks))
      BY <2>6 DEF Clean, HasFailures, Has, Filtered
    <2>8. NewSupport(w)
      BY <2>3 DEF NewSupport, Answers
    <2>. QED
      BY <2>7, <2>8 DEF ExitsOk, w
  <1>2. DepInv => BuiltConfigVerifies
    BY <1>1 DEF BuiltConfigVerifies
  <1>. QED
    BY <1>2, DepInvariant, PTL
=============================================================================
