---------------------------- MODULE Registration ----------------------------
(***************************************************************************)
(* register-tee: the multi-step registration of a TEE machine, its state   *)
(* file, and the chain it talks to.                                        *)
(*                                                                         *)
(* A run takes the machine the proxy serves through the steps of its       *)
(* command: r (pre-registration), R (fresh attestation), a (availability   *)
(* check), p (production).  Each step is a transaction that the run sends, *)
(* waits for and records in the state file.  The run may be killed, or     *)
(* lose an RPC call, at any point; its transaction may be mined after the  *)
(* run has given up waiting for it.  A restart of tee-node gives the       *)
(* machine behind the proxy a new identity.                                *)
(***************************************************************************)
EXTENDS Integers, Sequences

CONSTANTS
  MaxTee,      \* bound on identities: machines are numbered as they appear
  Commands,    \* the -command values in use, each a set of step letters
  Resumes,     \* the -resume values in use
  Attestable,  \* the states in which the registry takes a further attestation
               \* request for a machine; the documents disagree on them
  MaxFaults,   \* bound on kills, lost calls, expiries and failed file operations
  MaxReruns    \* bound on runs that cannot bring a machine into production

Tees == 1 .. MaxTee
Letters == {"r", "R", "a", "p"}

ASSUME RegistrationAssumption ==
  /\ MaxTee \in Nat \ {0}
  /\ Commands \subseteq SUBSET Letters
  /\ Resumes \subseteq BOOLEAN
  /\ MaxFaults \in Nat /\ MaxReruns \in Nat

\* It takes none for a machine it does not know.
ASSUME AttestAssumption == Attestable \subseteq {"Initialized", "Production", "Paused"}

\* Every command that the scripts and documents use begins with r.
ASSUME CommandAssumption == \A c \in Commands : "r" \in c

VARIABLES
  live,      \* the identity the proxy serves
  lag,       \* signing policy of the FTDC proxy minus the reward epoch
  registry,  \* FlareTeeManager
  mempool,   \* transactions sent and not mined, in nonce order
  receipt,   \* what the process waiting for the last transaction sees
  file,      \* the state file
  tool,      \* the register-tee process
  faults, reruns

regVars == <<live, lag, registry, mempool, receipt, file, tool, faults, reruns>>

NoId == 0   \* the zero hash

-----------------------------------------------------------------------------
(* The chain                                                               *)

\* sent: the instructions, an instruction's id being its position;
\* open: challenges neither used nor expired; proven: checks with a proof.
EmptyRegistry ==
  [status |-> [t \in Tees |-> "None"], sent |-> <<>>, open |-> {}, proven |-> {}]

Tx(op, t, challenge) == [op |-> op, tee |-> t, challenge |-> challenge]

Accepts(tx) ==
  CASE tx.op = "register" -> registry.status[tx.tee] = "None"
    [] tx.op = "attest"   -> registry.status[tx.tee] \in Attestable
    [] tx.op = "check"    -> /\ tx.challenge \in registry.open
                             /\ registry.sent[tx.challenge].tee = tx.tee
    [] tx.op = "produce"  -> registry.status[tx.tee] \in {"Initialized", "Paused"}
    [] tx.op = "pause"    -> registry.status[tx.tee] = "Production"

policyInSync(l) == l \in {0, 1}

\* A check is proven only if the providers can cosign it.
Instruction(kind, t) ==
  [kind |-> kind, tee |-> t, provable |-> kind = "check" /\ policyInSync(lag)]

Applied(tx) ==
  LET id == Len(registry.sent) + 1
      Issue(kind) == Append(registry.sent, Instruction(kind, tx.tee))
  IN CASE tx.op = "register" ->
            [registry EXCEPT !.status[tx.tee] = "Initialized",
                             !.sent = Issue("attest"), !.open = @ \cup {id}]
       [] tx.op = "attest" ->
            [registry EXCEPT !.sent = Issue("attest"), !.open = @ \cup {id}]
       [] tx.op = "check" ->
            [registry EXCEPT !.sent = Issue("check"), !.open = @ \ {tx.challenge}]
       [] tx.op = "produce" -> [registry EXCEPT !.status[tx.tee] = "Production"]
       [] tx.op = "pause" -> [registry EXCEPT !.status[tx.tee] = "Paused"]

Active == {t \in Tees : registry.status[t] = "Production"}

NoReceipt == [state |-> "none", id |-> NoId]
Pending == [state |-> "pending", id |-> NoId]

\* The head of the queue is mined or reverts.  Whoever waits, waits for the
\* last transaction: all are sent with one key, one after the other.
Mine ==
  /\ mempool # <<>>
  /\ LET ok == Accepts(Head(mempool)) IN
     /\ registry' = IF ok THEN Applied(Head(mempool)) ELSE registry
     /\ receipt' = IF receipt = Pending /\ Len(mempool) = 1
                   THEN [state |-> IF ok THEN "mined" ELSE "reverted",
                         id |-> Len(registry'.sent)]
                   ELSE receipt
  /\ mempool' = Tail(mempool)
  /\ UNCHANGED <<live, lag, file, tool, faults, reruns>>

-----------------------------------------------------------------------------
(* The surroundings                                                        *)

Costs(fault) ==
  /\ faults' = faults + (IF fault THEN 1 ELSE 0)
  /\ faults' <= MaxFaults

\* tee-node restarts: its key is in memory only.
Rotate ==
  /\ live < MaxTee
  /\ live' = live + 1
  /\ UNCHANGED <<lag, registry, mempool, receipt, file, tool, faults, reruns>>

ExpireChallenge(id) ==
  /\ Costs(TRUE)
  /\ registry' = [registry EXCEPT !.open = @ \ {id}]
  /\ UNCHANGED <<live, lag, mempool, receipt, file, tool, reruns>>

NewRewardEpoch ==
  /\ lag >= 0
  /\ Costs(TRUE)
  /\ lag' = lag - 1
  /\ UNCHANGED <<live, registry, mempool, receipt, file, tool, reruns>>

NewSigningPolicy ==
  /\ lag < 1
  /\ lag' = lag + 1
  /\ UNCHANGED <<live, registry, mempool, receipt, file, tool, faults, reruns>>

\* The checks that providers will still prove: the machine must answer.
Provable ==
  {id \in DOMAIN registry.sent \ registry.proven :
     registry.sent[id].provable /\ registry.sent[id].tee = live}

Prove(id) ==
  /\ registry' = [registry EXCEPT !.proven = @ \cup {id}]
  /\ UNCHANGED <<live, lag, mempool, receipt, file, tool, faults, reruns>>

-----------------------------------------------------------------------------
(* The state file (registrationState)                                      *)

NoFile == [content |-> "absent", completedSteps |-> {},
           teeAttestInstructionID |-> NoId, instructionID |-> NoId]
CorruptFile == [NoFile EXCEPT !.content = "corrupt"]

\* A missing file reads as the zero state.
loadState(f) == [f EXCEPT !.content = "json"]

-----------------------------------------------------------------------------
(* A run of register-tee                                                   *)

IdleTool(outcome) ==
  [pc |-> "idle", tee |-> NoId, command |-> {}, state |-> loadState(NoFile),
   attest |-> NoId, check |-> NoId,
   fresh |-> FALSE, since |-> 0,   \* history: began without a file; instructions so far
   outcome |-> outcome]

\* The machine whose key the proxy's /info carries.
TeeProxyId == live

\* main: removes the file unless resuming (a failure is a warning), reads the
\* identity the proxy serves, and enters RegisterNode, which loads the file.
Launch(c, resume) ==
  /\ tool.pc = "idle"
  /\ \E removed, reached \in BOOLEAN :
       /\ resume => ~removed
       /\ Costs((~resume /\ ~removed) \/ ~reached)
       /\ file' = IF removed THEN NoFile ELSE file
       /\ tool' = IF ~reached \/ file'.content = "corrupt" THEN IdleTool("error")
                  ELSE [IdleTool("none") EXCEPT
                          !.pc = "r", !.tee = TeeProxyId, !.command = c,
                          !.state = loadState(file'),
                          !.fresh = file' = NoFile, !.since = Len(registry.sent)]
  /\ UNCHANGED <<live, lag, registry, mempool, receipt>>

After(pc) ==
  CASE pc = "r" -> "R" [] pc = "R" -> "a" [] pc = "a" -> "poll" [] pc = "poll" -> "p"

\* A step that the command does not name, or that the file says is done: its
\* instruction is taken from the file.
SkipStep ==
  LET s == tool.pc IN
  /\ s \in {"r", "R", "a"} /\ receipt = NoReceipt
  /\ s \notin tool.command \ tool.state.completedSteps
  /\ tool' = [tool EXCEPT
       !.pc = After(s),
       !.attest = IF s # "a" /\ s \in tool.command
                  THEN tool.state.teeAttestInstructionID ELSE @,
       !.check = IF s = "a" /\ s \in tool.command
                 THEN tool.state.instructionID ELSE @]
  /\ UNCHANGED <<live, lag, registry, mempool, receipt, file, faults, reruns>>

\* Faulty variant: a step is sent again while its transaction is pending.
ToDoAgain(s) == tool.pc = s /\ s \in tool.command \ tool.state.completedSteps

ToDo(s) ==
  /\ tool.pc = s /\ receipt = NoReceipt
  /\ s \in tool.command \ tool.state.completedSteps

\* Sending estimates gas, which fails if the call would revert now.
Send(tx) ==
  IF Accepts(tx)
  THEN /\ mempool' = Append(mempool, tx)
       /\ receipt' = Pending
       /\ UNCHANGED tool
  ELSE tool' = IdleTool("error") /\ UNCHANGED <<mempool, receipt>>

\* Faulty variant: a machine the registry knows needs nothing.
PreRegistrationSkipped ==
  /\ ToDo("r")
  /\ IF registry.status[tool.tee] # "None"
     THEN tool' = [tool EXCEPT !.pc = After("r")] /\ UNCHANGED <<mempool, receipt>>
     ELSE Send(Tx("register", tool.tee, NoId))
  /\ UNCHANGED <<live, lag, registry, file, faults, reruns>>

\* r: a machine the registry knows gets a fresh attestation instead.  A failed
\* lookup counts as unknown.
PreRegistration ==
  /\ ToDo("r")
  /\ LET known == registry.status[tool.tee] # "None" IN
     \E found \in {known, FALSE} :
       /\ Costs(found # known)
       /\ Send(Tx(IF found THEN "attest" ELSE "register", tool.tee, NoId))
  /\ UNCHANGED <<live, lag, registry, file, reruns>>

RequestTeeAttestation ==
  /\ ToDo("R")
  /\ Send(Tx("attest", tool.tee, NoId))
  /\ UNCHANGED <<live, lag, registry, file, faults, reruns>>

\* Refused on a confirmed policy mismatch only; a failed lookup passes.
CheckFTDCProxyPolicyConsistency(refused) ==
  /\ refused => ~policyInSync(lag)
  /\ Costs(~refused /\ ~policyInSync(lag))

RequestFTDCAvailabilityCheck ==
  /\ ToDo("a")
  /\ \E refused \in BOOLEAN :
       /\ CheckFTDCProxyPolicyConsistency(refused)
       /\ IF refused THEN tool' = IdleTool("error") /\ UNCHANGED <<mempool, receipt>>
          ELSE Send(Tx("check", tool.tee, tool.attest))
  /\ UNCHANGED <<live, lag, registry, file, reruns>>

\* Faulty variant: both kinds of instruction go into one field.
RecordedInOneField(state, s, id) ==
  [state EXCEPT !.completedSteps = @ \cup {s}, !.teeAttestInstructionID = id]

\* What a finished step leaves in registrationState.
Recorded(state, s, id) ==
  [state EXCEPT !.completedSteps = @ \cup {s},
                !.teeAttestInstructionID = IF s = "a" THEN @ ELSE id,
                !.instructionID = IF s = "a" THEN id ELSE @]

\* The receipt is in: the step is recorded and the file saved (a failure is a
\* warning).
CompleteStep ==
  LET s == tool.pc
      state == Recorded(tool.state, s, receipt.id)
  IN
  /\ s \in {"r", "R", "a"} /\ receipt.state = "mined"
  /\ tool' = [tool EXCEPT !.pc = After(s), !.state = state,
                          !.attest = IF s = "a" THEN @ ELSE receipt.id,
                          !.check = IF s = "a" THEN receipt.id ELSE @]
  /\ receipt' = NoReceipt
  /\ \E saved \in BOOLEAN : /\ Costs(~saved)
                            /\ file' = IF saved THEN state ELSE file
  /\ UNCHANGED <<live, lag, registry, mempool, reruns>>

\* CheckTx: the transaction was mined with status 0.
StepReverted ==
  /\ receipt.state = "reverted" /\ tool.pc # "idle"
  /\ tool' = IdleTool("error")
  /\ receipt' = NoReceipt
  /\ UNCHANGED <<live, lag, registry, mempool, file, faults, reruns>>

\* All steps done: the file is deleted, and the outcome of that ignored.
Finish ==
  /\ tool' = IdleTool("ok")
  /\ \E removed \in BOOLEAN : /\ Costs(~removed)
                              /\ file' = IF removed THEN NoFile ELSE file

FinishWithoutProduction ==
  /\ tool.pc = "poll" /\ "p" \notin tool.command
  /\ Finish
  /\ UNCHANGED <<live, lag, registry, mempool, receipt, reruns>>

GetFTDCAvailabilityCheckResult ==
  /\ tool.pc = "poll" /\ "p" \in tool.command
  /\ tool.check \in registry.proven
  /\ tool' = [tool EXCEPT !.pc = After("poll")]
  /\ UNCHANGED <<live, lag, registry, mempool, receipt, file, faults, reruns>>

\* No proof within the fifteen attempts of ActionResult.
PollExhausted ==
  /\ tool.pc = "poll" /\ "p" \in tool.command
  /\ tool.check \notin registry.proven
  /\ Costs(tool.check \in Provable)
  /\ tool' = IdleTool("error")
  /\ UNCHANGED <<live, lag, registry, mempool, receipt, file, reruns>>

\* The machine promoted is the one the proof names.
ToProduction ==
  /\ tool.pc = "p" /\ receipt = NoReceipt
  /\ Send(Tx("produce", registry.sent[tool.check].tee, NoId))
  /\ UNCHANGED <<live, lag, registry, file, faults, reruns>>

\* Faulty variant: success is reported without waiting for the receipt.
ProductionSent ==
  /\ tool.pc = "p" /\ receipt # NoReceipt
  /\ Finish
  /\ receipt' = NoReceipt
  /\ UNCHANGED <<live, lag, registry, mempool, reruns>>

ProductionMined ==
  /\ tool.pc = "p" /\ receipt.state = "mined"
  /\ Finish
  /\ receipt' = NoReceipt
  /\ UNCHANGED <<live, lag, registry, mempool, reruns>>

\* The run is killed, an RPC call fails, or the wait for a receipt times out;
\* a kill while the file is being written leaves it unreadable.  What was sent
\* stays sent.
Interrupted ==
  /\ tool.pc # "idle"
  /\ Costs(TRUE)
  /\ tool' = IdleTool("error")
  /\ receipt' = NoReceipt
  /\ file' \in {file} \cup (IF receipt.state = "mined" /\ tool.pc # "p"
                            THEN {CorruptFile} ELSE {})
  /\ UNCHANGED <<live, lag, registry, mempool, reruns>>

-----------------------------------------------------------------------------
RegInit ==
  /\ live = 1 /\ lag = 0
  /\ registry = EmptyRegistry
  /\ mempool = <<>> /\ receipt = NoReceipt
  /\ file = NoFile
  /\ tool = IdleTool("none")
  /\ faults = 0 /\ reruns = 0

ToolStep ==
  \/ SkipStep \/ PreRegistration \/ RequestTeeAttestation \/ RequestFTDCAvailabilityCheck
  \/ CompleteStep \/ StepReverted \/ FinishWithoutProduction
  \/ GetFTDCAvailabilityCheckResult \/ ToProduction \/ ProductionMined
  \/ (PollExhausted /\ tool.check \notin Provable)

ProveSome == \E id \in Provable : Prove(id)

Surroundings ==
  \/ Mine \/ Rotate \/ NewRewardEpoch \/ NewSigningPolicy \/ ProveSome
  \/ \E id \in registry.open : ExpireChallenge(id)

\* Only the number of runs that cannot promote the machine is bounded.
Rerun(needless) ==
  /\ reruns' = reruns + (IF needless THEN 1 ELSE 0)
  /\ reruns' <= MaxReruns

LaunchSome ==
  \E c \in Commands, resume \in Resumes :
    /\ Launch(c, resume)
    /\ Rerun(live \in Active \/ "p" \notin c \/ ~policyInSync(lag))

RegNext == LaunchSome \/ ToolStep \/ PollExhausted \/ Interrupted \/ Surroundings

RegSpec == RegInit /\ [][RegNext]_regVars

-----------------------------------------------------------------------------
(* Properties                                                              *)

Ids == 0 .. Len(registry.sent)

\* Type invariant: registry, file and tool agree on what an instruction id,
\* a step and a machine are; only faults leave transactions behind.
RegTypeOK ==
  /\ live \in Tees /\ lag \in -1 .. 1
  /\ registry.status \in [Tees -> {"None", "Initialized", "Production", "Paused"}]
  /\ registry.open \cup registry.proven \subseteq DOMAIN registry.sent
  /\ Len(mempool) <= faults + 1
  /\ receipt.state \in {"none", "pending", "mined", "reverted"} /\ receipt.id \in Ids
  /\ file.content \in {"absent", "corrupt", "json"}
  /\ file.completedSteps \subseteq {"r", "R", "a"}
  /\ tool.pc \in {"idle", "r", "R", "a", "poll", "p"}
  /\ tool.attest \in Ids /\ tool.check \in Ids

\* The file never claims more than the chain shows (loadState, saveState):
\* whatever the kills, lost calls and late transactions, a recorded
\* attestation and a recorded check were requested, and for the same machine.
FileMatchesChain ==
  file.content = "json" =>
    LET attest == file.teeAttestInstructionID
        check == file.instructionID
    IN /\ file.completedSteps \cap {"r", "R"} # {} =>
            attest \in DOMAIN registry.sent /\ registry.sent[attest].kind = "attest"
       /\ "a" \in file.completedSteps =>
            /\ check \in DOMAIN registry.sent /\ registry.sent[check].kind = "check"
            /\ registry.sent[check].tee = registry.sent[attest].tee

\* "request a FRESH attestation to get a valid challenge": a run that began
\* without a state file checks availability with a challenge that it
\* requested itself, for its own machine, whatever earlier runs left behind.
FreshRunUsesOwnChallenge ==
  tool.pc = "a" /\ tool.fresh =>
    /\ tool.attest > tool.since
    /\ registry.sent[tool.attest].tee = tool.tee

\* RegisterNode reports success with the production step done.
ReportsProduction ==
  tool.pc # "idle" /\ tool'.outcome = "ok" /\ "p" \in tool.command

\* When a run that began without a state file reports success, the machine it
\* names is in production, even if the identity behind the proxy has changed
\* since and whatever transactions of earlier runs came through late.
FreshRunPromotesItsMachine ==
  [][ReportsProduction /\ tool.fresh => tool.tee \in Active]_regVars

\* "Registered TEE node with id ..." is logged of every successful run,
\* resumed ones included (register-tee): the machine named is in production.
SuccessMeansProduction ==
  [][ReportsProduction => tool.tee \in Active]_regVars

-----------------------------------------------------------------------------
(* What makes these inductive                                              *)

Statuses == {"None", "Initialized", "Production", "Paused"}
SentInstructions == [kind : {"attest", "check"}, tee : Tees, provable : BOOLEAN]
Registries ==
  [status : [Tees -> Statuses], sent : Seq(SentInstructions),
   open : SUBSET Nat, proven : SUBSET Nat]
Txs == [op : {"register", "attest", "check", "produce"}, tee : Tees, challenge : Nat]
FileStates ==
  [content : {"absent", "corrupt", "json"}, completedSteps : SUBSET {"r", "R", "a"},
   teeAttestInstructionID : Nat, instructionID : Nat]
Tools ==
  [pc : {"idle", "r", "R", "a", "poll", "p"}, tee : 0 .. MaxTee, command : SUBSET Letters,
   state : FileStates, attest : Nat, check : Nat, fresh : BOOLEAN, since : Nat,
   outcome : {"none", "ok", "error"}]

Running == tool.pc # "idle"

\* Types; a transaction that nobody waits for was abandoned by a fault, and
\* whoever waits has a step to do.
RegShape ==
  /\ live \in Tees /\ lag \in -1 .. 1 /\ faults \in Nat
  /\ registry \in Registries
  /\ registry.open \cup registry.proven \subseteq DOMAIN registry.sent
  /\ mempool \in Seq(Txs)
  /\ Len(mempool) <= faults + (IF receipt = Pending THEN 1 ELSE 0)
  /\ receipt \in [state : {"none", "pending", "mined", "reverted"}, id : Ids]
  /\ receipt.state = "none" => receipt = NoReceipt
  /\ receipt.state = "pending" => receipt = Pending /\ mempool # <<>>
  /\ file \in FileStates /\ (file.content # "json" => file \in {NoFile, CorruptFile})
  /\ tool \in Tools /\ tool.attest \in Ids /\ tool.check \in Ids
  /\ Running => /\ tool.tee \in 1 .. live /\ tool.command \in Commands
                /\ tool.state.content = "json" /\ tool.since <= Len(registry.sent)
                /\ tool.outcome = "none"
  /\ receipt # NoReceipt =>
       \/ tool.pc = "p"
       \/ tool.pc \in {"r", "R", "a"} /\ tool.pc \in tool.command \ tool.state.completedSteps

\* Machines that are, or are about to be, registered; nothing on its way to
\* the chain is about a machine that appeared after the run began.
Known ==
  {t \in Tees : \/ registry.status[t] # "None"
                \/ \E p \in DOMAIN mempool : mempool[p].op = "register" /\ mempool[p].tee = t}
Newest == IF Running THEN tool.tee ELSE live
RegBound ==
  /\ \A t \in Known : t <= Newest
  /\ \A p \in DOMAIN mempool : mempool[p].tee <= Newest
  /\ \A i \in DOMAIN registry.sent : registry.sent[i].tee <= Newest

\* A file state agrees with the instructions sent, starts with r, and no
\* machine newer than the one it is about is known.
Matches(state, sent, known) ==
  LET attest == state.teeAttestInstructionID
      check == state.instructionID
  IN  state.completedSteps # {} =>
        /\ "r" \in state.completedSteps
        /\ attest \in DOMAIN sent /\ sent[attest].kind = "attest"
        /\ \A t \in known : t <= sent[attest].tee
        /\ "a" \in state.completedSteps =>
             /\ check \in DOMAIN sent /\ sent[check].kind = "check"
             /\ sent[check].tee = sent[attest].tee

\* The transaction of the step at hand, and what its receipt tells.
OwnTx(tx) ==
  \/ tool.pc = "r" /\ tx.op \in {"register", "attest"} /\ tx.tee = tool.tee
  \/ tool.pc = "R" /\ tx.op = "attest" /\ tx.tee = tool.tee
  \/ tool.pc = "a" /\ tx.op = "check" /\ tx.tee = tool.tee /\ tx.challenge = tool.attest
  \/ tool.pc = "p" /\ tx.op = "produce" /\ tx.tee = registry.sent[tool.check].tee
OwnReceipt(id) ==
  /\ tool.pc # "p" => /\ id \in DOMAIN registry.sent /\ id > tool.since
                      /\ registry.sent[id].tee = tool.tee
                      /\ registry.sent[id].kind = IF tool.pc = "a" THEN "check" ELSE "attest"
  /\ tool.pc \in {"r", "R"} => registry.status[tool.tee] # "None"
  /\ tool.pc = "a" => /\ tool.attest \in DOMAIN registry.sent
                      /\ registry.sent[tool.attest].tee = tool.tee
  /\ tool.pc = "p" => registry.status[registry.sent[tool.check].tee] = "Production"
RegLink ==
  /\ receipt = Pending => OwnTx(mempool[Len(mempool)])
  /\ receipt.state = "mined" => mempool = <<>> /\ OwnReceipt(receipt.id)

\* A run's own account of its steps is the chain's, and not behind the file.
RegRun ==
  Running =>
    /\ Matches(tool.state, registry.sent, Known)
    /\ tool.state.completedSteps # {} =>
         registry.sent[tool.state.teeAttestInstructionID].tee <= tool.tee
    /\ file.completedSteps # {} => tool.state.completedSteps # {}
    /\ tool.pc # "r" => "r" \in tool.state.completedSteps
    /\ tool.attest \in {NoId, tool.state.teeAttestInstructionID}
    /\ tool.pc = "p" => tool.check \in registry.proven

\* A run that began without a file uses nothing of earlier runs.
RegFresh ==
  Running /\ tool.fresh =>
    /\ tool.pc = "r" => tool.state.completedSteps = {}
    /\ tool.pc = "R" => tool.state.completedSteps = {"r"}
    /\ tool.pc = "a" => "a" \notin tool.state.completedSteps
    /\ tool.pc # "r" => /\ tool.attest > tool.since /\ tool.attest \in DOMAIN registry.sent
                        /\ registry.sent[tool.attest].tee = tool.tee
    /\ tool.check # NoId => /\ tool.check \in DOMAIN registry.sent
                            /\ registry.sent[tool.check].tee = tool.tee

RegFile == Matches(file, registry.sent, Known)

RegInv == RegShape /\ RegBound /\ RegFile /\ RegLink /\ RegRun /\ RegFresh
=============================================================================
