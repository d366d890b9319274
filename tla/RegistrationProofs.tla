------------------------- MODULE RegistrationProofs -------------------------
(***************************************************************************)
(* What register-tee guarantees, for any number of machines, runs, kills   *)
(* and lost calls; and what refresh-tee.sh, which runs it, leaves behind.  *)
(***************************************************************************)
EXTENDS Refresh, TLAPS

-----------------------------------------------------------------------------
(* Consequences of the types                                               *)

\* The elements of a sequence belong to its element set.
LEMMA SeqElements ==
  ASSUME NEW S, NEW s \in Seq(S)
  PROVE  DOMAIN s = 1 .. Len(s) /\ Len(s) \in Nat /\ \A p \in DOMAIN s : s[p] \in S
  OBVIOUS

\* Instructions are numbered from one, and each names a machine.
LEMMA SentElements ==
  ASSUME RegShape
  PROVE  /\ DOMAIN registry.sent = 1 .. Len(registry.sent) /\ Len(registry.sent) \in Nat
         /\ \A i \in DOMAIN registry.sent : registry.sent[i] \in SentInstructions
         /\ \A i \in DOMAIN registry.sent : registry.sent[i].tee \in Tees
  <1>1. registry.sent \in Seq(SentInstructions)
    BY DEF RegShape, Registries
  <1>2. \A x \in SentInstructions : x.tee \in Tees
    BY DEF SentInstructions
  <1>. QED
    BY <1>1, <1>2, SeqElements

\* Every transaction in the pool names a machine.
LEMMA MempoolElements ==
  ASSUME RegShape
  PROVE  /\ DOMAIN mempool = 1 .. Len(mempool) /\ Len(mempool) \in Nat
         /\ \A p \in DOMAIN mempool : mempool[p] \in Txs
         /\ \A p \in DOMAIN mempool : mempool[p].tee \in Tees
  <1>1. mempool \in Seq(Txs)
    BY DEF RegShape
  <1>2. \A x \in Txs : x.tee \in Tees
    BY DEF Txs
  <1>. QED
    BY <1>1, <1>2, SeqElements

\* Machines are numbered in the order in which they appear.
LEMMA TeesAreNumbers == Tees \subseteq Nat /\ \A t \in Tees : t \in Int /\ t > 0
  BY RegistrationAssumption DEF Tees

\* The newest machine that the chain can have heard of is a machine.
LEMMA NewestIsTee ==
  ASSUME RegShape
  PROVE  Newest \in Tees
  BY RegistrationAssumption DEF RegShape, Newest, Running, Tees

\* What is bounded by the newest machine is bounded by a newer one.
LEMMA BoundsGrow ==
  ASSUME RegShape, RegBound, NEW n \in Int, Newest <= n
  PROVE  /\ \A t \in Known : t <= n
         /\ \A p \in DOMAIN mempool : mempool[p].tee <= n
         /\ \A i \in DOMAIN registry.sent : registry.sent[i].tee <= n
  <1>1. Newest \in Int
    BY NewestIsTee, TeesAreNumbers
  <1>2. Known \subseteq Tees
    BY DEF Known
  <1>3. \A x \in Int : x <= Newest => x <= n
    BY <1>1
  <1>4. /\ \A p \in DOMAIN mempool : mempool[p].tee \in Int
        /\ \A i \in DOMAIN registry.sent : registry.sent[i].tee \in Int
    BY TeesAreNumbers, SentElements, MempoolElements
  <1>. QED
    BY <1>2, <1>3, <1>4, TeesAreNumbers DEF RegBound

-----------------------------------------------------------------------------
(* Steps of the surroundings: no transaction is sent or mined              *)

QuietStep ==
  /\ registry' \in Registries
  /\ registry'.sent = registry.sent /\ registry'.status = registry.status
  /\ registry'.open \cup registry'.proven \subseteq DOMAIN registry.sent
  /\ registry.proven \subseteq registry'.proven
  /\ live' \in Tees /\ live <= live' /\ lag' \in -1 .. 1
  /\ faults' \in Nat /\ faults <= faults'
  /\ UNCHANGED <<mempool, receipt, file, tool>>

\* The surroundings keep the types.
LEMMA QuietKeepsShape ==
  ASSUME RegShape, QuietStep
  PROVE  RegShape'
  <1>1. Ids' = Ids /\ tool' = tool /\ receipt' = receipt /\ mempool' = mempool /\ file' = file
    BY DEF QuietStep, Ids
  <1>2. live \in Int /\ live' \in Int /\ tool.tee \in Int /\ Len(mempool) \in Int
    BY RegistrationAssumption DEF RegShape, QuietStep, Tees, Tools
  <1>3. Running => tool.tee \in 1 .. live'
    BY <1>2 DEF RegShape, QuietStep
  <1>4. Len(mempool) <= faults' + (IF receipt = Pending THEN 1 ELSE 0)
    BY <1>2 DEF RegShape, QuietStep
  <1>. QED
    BY <1>1, <1>3, <1>4 DEF RegShape, QuietStep, Running

\* The surroundings keep what the file, the run and the receipt claim.
LEMMA QuietKeepsRest ==
  ASSUME RegInv, QuietStep
  PROVE  RegBound' /\ RegFile' /\ RegLink' /\ RegRun' /\ RegFresh'
  <1>1. /\ registry'.sent = registry.sent /\ registry'.status = registry.status
        /\ registry.proven \subseteq registry'.proven
        /\ mempool' = mempool /\ receipt' = receipt /\ file' = file /\ tool' = tool
    BY DEF QuietStep
  <1>2. Known' = Known
    BY <1>1 DEF Known
  <1>3. RegBound'
    <2>1. Newest <= Newest'
      BY <1>1, RegistrationAssumption
      DEF RegInv, RegShape, QuietStep, Newest, Running, Tees, Tools
    <2>2. Newest' \in Int
      BY <1>1, RegistrationAssumption
      DEF RegInv, RegShape, QuietStep, Newest, Running, Tees, Tools
    <2>. QED
      BY <1>1, <1>2, <2>1, <2>2, BoundsGrow DEF RegInv, RegBound
  <1>4. RegFile'
    BY <1>1, <1>2 DEF RegInv, RegFile
  <1>5. RegLink'
    BY <1>1 DEF RegInv, RegLink, OwnTx, OwnReceipt
  <1>6. RegRun'
    BY <1>1, <1>2 DEF RegInv, RegRun, Running
  <1>7. RegFresh'
    BY <1>1 DEF RegInv, RegFresh, Running
  <1>. QED
    BY <1>3, <1>4, <1>5, <1>6, <1>7

-----------------------------------------------------------------------------
(* Steps that end a run                                                    *)

\* The run is over; the file is kept, removed or spoilt.
EndStep(outcome) ==
  /\ tool' = IdleTool(outcome) /\ outcome \in {"none", "ok", "error"}
  /\ receipt' = NoReceipt
  /\ file' \in {file, NoFile, CorruptFile}
  /\ faults' \in Nat /\ Len(mempool) <= faults'
  /\ UNCHANGED <<live, lag, registry, mempool>>

\* Whatever a run leaves behind when it ends is consistent.
LEMMA EndKeepsInv ==
  ASSUME RegInv, NEW outcome, EndStep(outcome)
  PROVE  RegInv'
  <1>1. /\ registry' = registry /\ mempool' = mempool /\ live' = live
        /\ receipt' = NoReceipt /\ receipt' # Pending /\ receipt'.state = "none"
    BY DEF EndStep, NoReceipt, Pending
  <1>2. /\ tool' \in Tools /\ ~Running' /\ tool'.pc = "idle"
        /\ tool'.attest = 0 /\ tool'.check = 0
    BY RegistrationAssumption
    DEF EndStep, IdleTool, Tools, Running, loadState, NoFile, NoId, FileStates, Letters
  <1>3. /\ file' \in FileStates /\ (file'.content # "json" => file' \in {NoFile, CorruptFile})
    BY DEF EndStep, RegInv, RegShape, NoFile, CorruptFile, FileStates, NoId
  <1>4. RegShape'
    <2>1. receipt' \in [state : {"none", "pending", "mined", "reverted"}, id : Ids'] /\ 0 \in Ids'
      BY <1>1, SentElements DEF Ids, RegInv, NoReceipt, NoId
    <2>2. faults' \in Nat
      BY DEF EndStep
    <2>3. (Len(mempool) <= faults + (IF receipt = Pending THEN 1 ELSE 0))'
      <3>1. \A k \in Nat : k + 0 = k
        OBVIOUS
      <3>. QED
        BY <1>1, <2>2, <3>1 DEF EndStep
    <2>. QED
      BY <1>1, <1>2, <1>3, <2>1, <2>2, <2>3 DEF RegInv, RegShape, EndStep
  <1>5. Known' = Known
    BY <1>1 DEF Known
  <1>6. RegBound'
    <2>1. Newest' = live /\ live \in Int /\ Newest <= live
      BY <1>1, <1>2, RegistrationAssumption DEF RegInv, RegShape, Newest, Running, Tees
    <2>. QED
      BY <1>1, <1>5, <2>1, BoundsGrow DEF RegInv, RegBound
  <1>7. RegFile'
    <2>1. file' # file => file'.completedSteps = {}
      BY DEF EndStep, NoFile, CorruptFile
    <2>. QED
      BY <1>1, <1>5, <2>1 DEF RegInv, RegFile, Matches
  <1>8. RegLink' /\ RegRun' /\ RegFresh'
    BY <1>1, <1>2 DEF RegLink, RegRun, RegFresh
  <1>. QED
    BY <1>4, <1>6, <1>7, <1>8 DEF RegInv

\* Only a wait keeps a transaction in the pool without a fault.
LEMMA NotWaiting ==
  ASSUME RegShape
  PROVE  /\ receipt # Pending => Len(mempool) <= faults
         /\ Len(mempool) <= faults + 1
         /\ faults \in Nat /\ Len(mempool) \in Nat
         /\ tool.pc \in {"idle", "poll"} => receipt = NoReceipt
         /\ receipt.state \in {"none", "mined", "reverted"} => receipt # Pending
  <1>1. faults \in Nat /\ Len(mempool) \in Nat
    BY MempoolElements DEF RegShape
  <1>2. Len(mempool) <= faults + (IF receipt = Pending THEN 1 ELSE 0)
    BY DEF RegShape
  <1>3. tool.pc \in {"idle", "poll"} => receipt = NoReceipt
    BY DEF RegShape
  <1>4. receipt.state \in {"none", "mined", "reverted"} => receipt # Pending
    BY DEF Pending
  <1>. QED
    BY <1>1, <1>2, <1>3, <1>4

\* A fault is counted.
LEMMA CostsCount ==
  ASSUME faults \in Nat, NEW fault \in BOOLEAN, Costs(fault)
  PROVE  faults' \in Nat /\ faults <= faults' /\ (fault => faults' = faults + 1)
  BY RegistrationAssumption DEF Costs

\* The steps that end a run, one by one.
LEMMA EndingSteps ==
  ASSUME RegInv, StepReverted \/ FinishWithoutProduction \/ ProductionMined
                   \/ PollExhausted \/ Interrupted
  PROVE  RegInv'
  <1>0. RegShape
    BY DEF RegInv
  <1>1. CASE StepReverted
    <2>1. Len(mempool) <= faults /\ faults \in Nat
      BY <1>0, <1>1, NotWaiting DEF StepReverted
    <2>2. EndStep("error")
      BY <1>1, <2>1 DEF StepReverted, EndStep
    <2>. QED
      BY <2>2, EndKeepsInv
  <1>2. CASE FinishWithoutProduction
    <2>1. Len(mempool) <= faults /\ receipt = NoReceipt
      BY <1>0, <1>2, NotWaiting DEF FinishWithoutProduction, NoReceipt
    <2>2. PICK removed \in BOOLEAN : Costs(~removed) /\ file' = IF removed THEN NoFile ELSE file
      BY <1>2 DEF FinishWithoutProduction, Finish
    <2>3. faults' \in Nat /\ faults <= faults'
      BY <1>0, <2>2, NotWaiting DEF Costs
    <2>5. Len(mempool) <= faults'
      BY <1>0, <2>1, <2>3, NotWaiting
    <2>4. EndStep("ok")
      BY <1>2, <2>1, <2>2, <2>3, <2>5 DEF FinishWithoutProduction, Finish, EndStep
    <2>. QED
      BY <2>4, EndKeepsInv
  <1>3. CASE ProductionMined
    <2>1. Len(mempool) <= faults
      BY <1>0, <1>3, NotWaiting DEF ProductionMined
    <2>2. PICK removed \in BOOLEAN : Costs(~removed) /\ file' = IF removed THEN NoFile ELSE file
      BY <1>3 DEF ProductionMined, Finish
    <2>3. faults' \in Nat /\ faults <= faults'
      BY <1>0, <2>2, NotWaiting DEF Costs
    <2>5. Len(mempool) <= faults'
      BY <1>0, <2>1, <2>3, NotWaiting
    <2>4. EndStep("ok")
      BY <1>3, <2>2, <2>3, <2>5 DEF ProductionMined, Finish, EndStep
    <2>. QED
      BY <2>4, EndKeepsInv
  <1>4. CASE PollExhausted
    <2>1. Len(mempool) <= faults /\ receipt = NoReceipt
      BY <1>0, <1>4, NotWaiting DEF PollExhausted, NoReceipt
    <2>2. faults' \in Nat /\ faults <= faults'
      BY <1>0, <1>4, NotWaiting DEF PollExhausted, Costs
    <2>3. Len(mempool) <= faults'
      BY <1>0, <2>1, <2>2, NotWaiting
    <2>4. EndStep("error")
      BY <1>4, <2>1, <2>2, <2>3 DEF PollExhausted, EndStep
    <2>. QED
      BY <2>4, EndKeepsInv
  <1>5. CASE Interrupted
    <2>1. Costs(TRUE)
      BY <1>5 DEF Interrupted
    <2>2. faults' = faults + 1 /\ faults' \in Nat
      BY <1>0, <2>1, CostsCount, NotWaiting
    <2>3. Len(mempool) <= faults'
      BY <1>0, <2>2, NotWaiting
    <2>4. EndStep("error")
      BY <1>5, <2>2, <2>3 DEF Interrupted, EndStep
    <2>. QED
      BY <2>4, EndKeepsInv
  <1>. QED
    BY <1>1, <1>2, <1>3, <1>4, <1>5

\* The steps of the surroundings, one by one.
LEMMA SurroundingSteps ==
  ASSUME RegInv,
         \/ Rotate \/ NewRewardEpoch \/ NewSigningPolicy \/ ProveSome
         \/ \E id \in registry.open : ExpireChallenge(id)
         \/ UNCHANGED regVars
  PROVE  RegInv'
  <1>0. RegShape
    BY DEF RegInv
  <1>1. /\ live \in Tees /\ lag \in -1 .. 1 /\ faults \in Nat /\ registry \in Registries
        /\ registry.open \cup registry.proven \subseteq DOMAIN registry.sent
        /\ live <= live /\ faults <= faults
    BY <1>0, TeesAreNumbers DEF RegShape
  <1>2. CASE Rotate
    <2>1. live' \in Tees /\ live <= live'
      BY <1>1, <1>2, RegistrationAssumption DEF Rotate, Tees
    <2>2. QuietStep
      BY <1>1, <1>2, <2>1 DEF Rotate, QuietStep
    <2>. QED
      BY <1>0, <2>2, QuietKeepsShape, QuietKeepsRest DEF RegInv
  <1>3. CASE NewRewardEpoch
    <2>1. lag' \in -1 .. 1
      BY <1>1, <1>3 DEF NewRewardEpoch
    <2>2. faults' \in Nat /\ faults <= faults'
      BY <1>1, <1>3, CostsCount DEF NewRewardEpoch
    <2>3. QuietStep
      BY <1>1, <1>3, <2>1, <2>2 DEF NewRewardEpoch, QuietStep
    <2>. QED
      BY <1>0, <2>3, QuietKeepsShape, QuietKeepsRest DEF RegInv
  <1>4. CASE NewSigningPolicy
    <2>1. lag' \in -1 .. 1
      BY <1>1, <1>4 DEF NewSigningPolicy
    <2>2. QuietStep
      BY <1>1, <1>4, <2>1 DEF NewSigningPolicy, QuietStep
    <2>. QED
      BY <1>0, <2>2, QuietKeepsShape, QuietKeepsRest DEF RegInv
  <1>5. CASE ProveSome
    <2>1. PICK id \in DOMAIN registry.sent : Prove(id)
      BY <1>5 DEF ProveSome, Provable
    <2>2. /\ registry' \in Registries /\ registry'.sent = registry.sent
          /\ registry'.status = registry.status /\ registry'.open = registry.open
          /\ registry'.proven = registry.proven \cup {id}
      BY <1>0, <1>1, <2>1, SentElements, SMTT(30) DEF Prove, Registries
    <2>3. QuietStep
      BY <1>1, <2>1, <2>2 DEF Prove, QuietStep
    <2>. QED
      BY <1>0, <2>3, QuietKeepsShape, QuietKeepsRest DEF RegInv
  <1>6. CASE \E id \in registry.open : ExpireChallenge(id)
    <2>1. PICK id \in registry.open : ExpireChallenge(id)
      BY <1>6
    <2>2. /\ registry' \in Registries /\ registry'.sent = registry.sent
          /\ registry'.status = registry.status /\ registry'.proven = registry.proven
          /\ registry'.open = registry.open \ {id}
      BY <1>1, <2>1 DEF ExpireChallenge, Registries
    <2>3. faults' \in Nat /\ faults <= faults'
      BY <1>1, <2>1, CostsCount DEF ExpireChallenge
    <2>4. QuietStep
      BY <1>1, <2>1, <2>2, <2>3 DEF ExpireChallenge, QuietStep
    <2>. QED
      BY <1>0, <2>4, QuietKeepsShape, QuietKeepsRest DEF RegInv
  <1>7. CASE UNCHANGED regVars
    <2>1. QuietStep
      BY <1>1, <1>7 DEF regVars, QuietStep
    <2>. QED
      BY <1>0, <2>1, QuietKeepsShape, QuietKeepsRest DEF RegInv
  <1>. QED
    BY <1>2, <1>3, <1>4, <1>5, <1>6, <1>7

-----------------------------------------------------------------------------
(* Steps that send a transaction                                           *)

\* What a sequence holds after Append.
LEMMA AppendElements ==
  ASSUME NEW S, NEW s \in Seq(S), NEW e \in S
  PROVE  /\ Append(s, e) \in Seq(S) /\ Len(Append(s, e)) = Len(s) + 1
         /\ DOMAIN Append(s, e) = (DOMAIN s) \cup {Len(s) + 1}
         /\ \A i \in DOMAIN s : Append(s, e)[i] = s[i]
         /\ Append(s, e)[Len(s) + 1] = e
         /\ Append(s, e) # <<>>
  OBVIOUS

StepAtHand ==
  \/ tool.pc = "p"
  \/ tool.pc \in {"r", "R", "a"} /\ tool.pc \in tool.command \ tool.state.completedSteps

SendStep(tx) ==
  /\ receipt = NoReceipt /\ StepAtHand
  /\ tx \in Txs /\ OwnTx(tx)
  /\ mempool' = Append(mempool, tx) /\ receipt' = Pending
  /\ faults' \in Nat /\ faults <= faults'
  /\ UNCHANGED <<live, lag, registry, file, tool>>

\* A sent transaction keeps the types: one is waited for at a time.
LEMMA SendKeepsShape ==
  ASSUME RegInv, NEW tx, SendStep(tx)
  PROVE  RegShape'
  <1>0. RegShape
    BY DEF RegInv
  <1>1. /\ registry' = registry /\ live' = live /\ file' = file /\ tool' = tool /\ lag' = lag
        /\ receipt' = Pending /\ faults' \in Nat /\ faults <= faults'
    BY DEF SendStep
  <1>2. Ids' = Ids /\ 0 \in Ids
    BY <1>0, <1>1, SentElements DEF Ids
  <1>3. mempool \in Seq(Txs) /\ tx \in Txs
    BY <1>0 DEF RegShape, SendStep
  <1>4. mempool' \in Seq(Txs) /\ Len(mempool') = Len(mempool) + 1 /\ mempool' # <<>>
    BY <1>3, AppendElements DEF SendStep
  <1>5. Len(mempool) <= faults
    BY <1>0, NotWaiting DEF SendStep, NoReceipt, Pending
  <1>6. (Len(mempool) <= faults + (IF receipt = Pending THEN 1 ELSE 0))'
    <2>1. Len(mempool) + 1 <= faults' + 1
      BY <1>0, <1>1, <1>5, NotWaiting
    <2>. QED
      BY <1>1, <1>4, <2>1
  <1>7. receipt' \in [state : {"none", "pending", "mined", "reverted"}, id : Ids']
    BY <1>1, <1>2 DEF Pending, NoId
  <1>8. receipt'.state = "pending"
    BY <1>1 DEF Pending
  <1>. QED
    BY <1>0, <1>1, <1>2, <1>4, <1>6, <1>7, <1>8 DEF RegShape, SendStep, StepAtHand, Running

\* Only a machine that is about to be registered becomes known; it is the
\* run's own, and then neither the run nor the file has recorded anything.
LEMMA SendMakesKnown ==
  ASSUME RegInv, NEW tx, SendStep(tx)
  PROVE  /\ Known' \subseteq Known \cup {tool.tee}
         /\ \/ Known' = Known
            \/ tool.state.completedSteps = {} /\ file.completedSteps = {}
  <1>0. RegShape
    BY DEF RegInv
  <1>1. registry' = registry
    BY DEF SendStep
  <1>2. mempool \in Seq(Txs) /\ tx \in Txs
    BY <1>0 DEF RegShape, SendStep
  <1>3. /\ DOMAIN mempool' = (DOMAIN mempool) \cup {Len(mempool) + 1}
        /\ \A i \in DOMAIN mempool : mempool'[i] = mempool[i]
        /\ mempool'[Len(mempool) + 1] = tx
    BY <1>2, AppendElements DEF SendStep
  <1>4. tx.op = "register" => tx.tee = tool.tee /\ tool.pc = "r"
    BY DEF SendStep, OwnTx
  <1>5. \A t : t \in Known' <=> t \in Known \/ (t \in Tees /\ tx.op = "register" /\ tx.tee = t)
    BY <1>1, <1>3 DEF Known
  <1>6. tx.op # "register" => Known' = Known
    BY <1>5
  <1>7. tool.pc = "r" => tool.state.completedSteps = {} /\ file.completedSteps = {}
    <2>1. ASSUME tool.pc = "r" PROVE "r" \notin tool.state.completedSteps
      BY <2>1 DEF SendStep, StepAtHand
    <2>. QED
      BY <2>1 DEF RegInv, RegRun, Running, Matches
  <1>. QED
    BY <1>4, <1>5, <1>6, <1>7

\* A sent transaction is the run's own and contradicts nothing recorded.
LEMMA SendKeepsInv ==
  ASSUME RegInv, NEW tx, SendStep(tx)
  PROVE  RegInv'
  <1>0. RegShape
    BY DEF RegInv
  <1>1. /\ registry' = registry /\ live' = live /\ file' = file /\ tool' = tool
        /\ receipt' = Pending
    BY DEF SendStep
  <1>2. Running /\ Running' /\ Newest = tool.tee /\ Newest' = tool.tee
    BY <1>1 DEF SendStep, StepAtHand, Running, Newest
  <1>3. mempool \in Seq(Txs) /\ tx \in Txs /\ Len(mempool) \in Nat
    BY <1>0, MempoolElements DEF RegShape, SendStep
  <1>4. /\ DOMAIN mempool' = (DOMAIN mempool) \cup {Len(mempool) + 1}
        /\ \A i \in DOMAIN mempool : mempool'[i] = mempool[i]
        /\ mempool'[Len(mempool) + 1] = tx
        /\ Len(mempool') = Len(mempool) + 1
    BY <1>3, AppendElements DEF SendStep
  <1>5. tool.tee \in Int
    BY <1>0, TeesAreNumbers, NewestIsTee, <1>2
  <1>6. RegBound'
    <2>1. tx.tee <= tool.tee
      <3>1. tool.pc = "p" => registry.sent[tool.check].tee <= tool.tee
        BY <1>2 DEF RegInv, RegShape, RegRun, RegBound
      <3>. QED
        BY <1>5, <3>1 DEF SendStep, OwnTx
    <2>2. \A t \in Known' : t <= tool.tee
      BY <1>2, <1>5, SendMakesKnown DEF RegInv, RegBound
    <2>3. \A p \in DOMAIN mempool' : mempool'[p].tee <= tool.tee
      BY <1>2, <1>4, <2>1 DEF RegInv, RegBound
    <2>. QED
      BY <1>1, <1>2, <2>2, <2>3 DEF RegInv, RegBound
  <1>7. RegFile'
    BY <1>1, SendMakesKnown DEF RegInv, RegFile, Matches
  <1>8. RegLink'
    <2>1. receipt'.state = "pending"
      BY <1>1 DEF Pending
    <2>3. mempool'[Len(mempool')] = tx
      BY <1>4
    <2>4. OwnTx(mempool[Len(mempool)])'
      BY <1>1, <2>3 DEF SendStep, OwnTx
    <2>. QED
      BY <2>1, <2>4 DEF RegLink
  <1>9. RegRun'
    <2>1. Matches(tool.state, registry.sent, Known')
      BY <1>2, SendMakesKnown DEF RegInv, RegRun, Matches
    <2>. QED
      BY <1>1, <1>2, <2>1 DEF RegInv, RegRun
  <1>10. RegFresh'
    BY <1>1, <1>2 DEF RegInv, RegFresh
  <1>. QED
    BY <1>6, <1>7, <1>8, <1>9, <1>10, SendKeepsShape DEF RegInv

\* A send either puts the transaction of the step into the pool or ends the run.
LEMMA SendOrEnd ==
  ASSUME RegInv, receipt = NoReceipt, StepAtHand, NEW tx \in Txs, OwnTx(tx),
         Send(tx), faults' \in Nat, faults <= faults',
         UNCHANGED <<live, lag, registry, file>>
  PROVE  RegInv'
  <1>0. RegShape
    BY DEF RegInv
  <1>1. CASE Accepts(tx)
    <2>1. SendStep(tx)
      BY <1>1 DEF Send, SendStep
    <2>. QED
      BY <2>1, SendKeepsInv
  <1>2. CASE ~Accepts(tx)
    <2>1. receipt # Pending
      BY DEF NoReceipt, Pending
    <2>2. Len(mempool) <= faults'
      BY <1>0, <2>1, NotWaiting
    <2>3. EndStep("error")
      BY <1>2, <2>2 DEF Send, EndStep
    <2>. QED
      BY <2>3, EndKeepsInv
  <1>. QED
    BY <1>1, <1>2

\* A run is about a machine.
LEMMA RunHasMachine ==
  ASSUME RegShape, Running
  PROVE  tool.tee \in Tees /\ tool.attest \in Nat
  BY RegistrationAssumption DEF RegShape, Tees, Tools

\* The steps that send a transaction, one by one.
LEMMA SendingSteps ==
  ASSUME RegInv, PreRegistration \/ RequestTeeAttestation
                   \/ RequestFTDCAvailabilityCheck \/ ToProduction
  PROVE  RegInv'
  <1>0. RegShape /\ faults \in Nat /\ faults <= faults
    BY NotWaiting DEF RegInv
  <1>1. CASE PreRegistration
    <2>1. receipt = NoReceipt /\ StepAtHand /\ tool.pc = "r" /\ Running
      BY <1>1 DEF PreRegistration, ToDo, StepAtHand, Running
    <2>2. PICK found \in BOOLEAN :
            /\ Costs(found # (registry.status[tool.tee] # "None"))
            /\ Send(Tx(IF found THEN "attest" ELSE "register", tool.tee, NoId))
      BY <1>1 DEF PreRegistration
    <2>3. faults' \in Nat /\ faults <= faults'
      BY <1>0, <2>2 DEF Costs
    <2> DEFINE tx == Tx(IF found THEN "attest" ELSE "register", tool.tee, NoId)
    <2>4. tx \in Txs /\ OwnTx(tx)
      BY <1>0, <2>1, RunHasMachine DEF Tx, Txs, OwnTx, NoId
    <2>5. UNCHANGED <<live, lag, registry, file>>
      BY <1>1 DEF PreRegistration
    <2> HIDE DEF tx
    <2>6. Send(tx)
      BY <2>2 DEF tx
    <2>. QED
      BY <2>1, <2>3, <2>4, <2>5, <2>6, SendOrEnd
  <1>2. CASE RequestTeeAttestation
    <2>1. receipt = NoReceipt /\ StepAtHand /\ tool.pc = "R" /\ Running
      BY <1>2 DEF RequestTeeAttestation, ToDo, StepAtHand, Running
    <2> DEFINE tx == Tx("attest", tool.tee, NoId)
    <2>2. tx \in Txs /\ OwnTx(tx)
      BY <1>0, <2>1, RunHasMachine DEF Tx, Txs, OwnTx, NoId
    <2>3. Send(tx) /\ faults' = faults /\ UNCHANGED <<live, lag, registry, file>>
      BY <1>2 DEF RequestTeeAttestation
    <2> HIDE DEF tx
    <2>. QED
      BY <1>0, <2>1, <2>2, <2>3, SendOrEnd
  <1>3. CASE RequestFTDCAvailabilityCheck
    <2>1. receipt = NoReceipt /\ StepAtHand /\ tool.pc = "a" /\ Running
      BY <1>3 DEF RequestFTDCAvailabilityCheck, ToDo, StepAtHand, Running
    <2> DEFINE tx == Tx("check", tool.tee, tool.attest)
    <2>2. tx \in Txs /\ OwnTx(tx)
      BY <1>0, <2>1, RunHasMachine DEF Tx, Txs, OwnTx
    <2>3. /\ faults' \in Nat /\ faults <= faults'
          /\ UNCHANGED <<live, lag, registry, file>>
          /\ \/ tool' = IdleTool("error") /\ UNCHANGED <<mempool, receipt>>
             \/ Send(tx)
      BY <1>0, <1>3 DEF RequestFTDCAvailabilityCheck, CheckFTDCProxyPolicyConsistency, Costs
    <2> HIDE DEF tx
    <2>4. CASE Send(tx)
      BY <2>1, <2>2, <2>3, <2>4, SendOrEnd
    <2>5. CASE tool' = IdleTool("error") /\ UNCHANGED <<mempool, receipt>>
      <3>1. receipt # Pending
        BY <2>1 DEF NoReceipt, Pending
      <3>2. Len(mempool) <= faults'
        BY <1>0, <2>3, <3>1, NotWaiting
      <3>3. EndStep("error")
        BY <2>1, <2>3, <2>5, <3>2 DEF EndStep
      <3>. QED
        BY <3>3, EndKeepsInv
    <2>. QED
      BY <2>3, <2>4, <2>5
  <1>4. CASE ToProduction
    <2>1. receipt = NoReceipt /\ StepAtHand /\ tool.pc = "p" /\ Running
      BY <1>4 DEF ToProduction, StepAtHand, Running
    <2> DEFINE tx == Tx("produce", registry.sent[tool.check].tee, NoId)
    <2>2. tool.check \in DOMAIN registry.sent
      BY <2>1 DEF RegInv, RegRun, RegShape
    <2>3. tx \in Txs /\ OwnTx(tx)
      BY <1>0, <2>1, <2>2, SentElements DEF Tx, Txs, OwnTx, NoId
    <2>4. Send(tx) /\ faults' = faults /\ UNCHANGED <<live, lag, registry, file>>
      BY <1>4 DEF ToProduction
    <2> HIDE DEF tx
    <2>. QED
      BY <1>0, <2>1, <2>3, <2>4, SendOrEnd
  <1>. QED
    BY <1>1, <1>2, <1>3, <1>4

-----------------------------------------------------------------------------
(* A transaction is mined                                                  *)

\* What a sequence holds after Tail.
LEMMA TailElements ==
  ASSUME NEW S, NEW s \in Seq(S), s # <<>>
  PROVE  /\ Head(s) = s[1] /\ 1 \in DOMAIN s /\ Len(s) > 0
         /\ Tail(s) \in Seq(S) /\ Len(Tail(s)) = Len(s) - 1
         /\ \A p \in DOMAIN Tail(s) : p + 1 \in DOMAIN s /\ Tail(s)[p] = s[p + 1]
         /\ Len(s) = 1 => Tail(s) = <<>>
         /\ Len(s) > 1 => Tail(s) # <<>> /\ Tail(s)[Len(Tail(s))] = s[Len(s)]
  <1>1. Len(s) \in Nat /\ Len(s) > 0 /\ DOMAIN s = 1 .. Len(s) /\ Head(s) = s[1]
    OBVIOUS
  <1>2. Tail(s) \in Seq(S) /\ Len(Tail(s)) = Len(s) - 1 /\ DOMAIN Tail(s) = 1 .. Len(s) - 1
    BY <1>1
  <1>3. \A p \in 1 .. Len(s) - 1 : Tail(s)[p] = s[p + 1]
    BY <1>1
  <1>4. Len(s) = 1 => Tail(s) = <<>>
    BY <1>1, <1>2
  <1>5. Len(s) > 1 => Tail(s) # <<>>
    <2>1. ASSUME Len(s) > 1, Tail(s) = <<>> PROVE FALSE
      <3>1. Len(Tail(s)) = 0
        BY <2>1, SMTT(30)
      <3>. QED
        BY <1>1, <1>2, <2>1, <3>1, SMTT(30)
    <2>. QED
      BY <2>1
  <1>. QED
    BY <1>1, <1>2, <1>3, <1>4, <1>5

\* What one transaction adds to the registry.
Grows(old, new, tx) ==
  /\ new \in Registries /\ new.proven = old.proven
  /\ new.open \cup new.proven \subseteq DOMAIN new.sent
  /\ Len(old.sent) <= Len(new.sent)
  /\ DOMAIN old.sent \subseteq DOMAIN new.sent
  /\ \A i \in DOMAIN old.sent : new.sent[i] = old.sent[i]
  /\ \A i \in (DOMAIN new.sent) \ DOMAIN old.sent : new.sent[i].tee = tx.tee
  /\ \A t \in Tees : new.status[t] # "None" =>
       old.status[t] # "None" \/ (tx.op = "register" /\ t = tx.tee)

\* An instruction is added at the end and disturbs no earlier one.
LEMMA IssueGrows ==
  ASSUME RegShape, NEW tx \in Txs, NEW kind \in {"attest", "check"}, NEW r \in Registries,
         r.sent = Append(registry.sent, Instruction(kind, tx.tee)),
         r.proven = registry.proven,
         r.open \subseteq registry.open \cup {Len(registry.sent) + 1},
         \A t \in Tees : r.status[t] # "None" =>
           registry.status[t] # "None" \/ (tx.op = "register" /\ t = tx.tee)
  PROVE  /\ Grows(registry, r, tx)
         /\ Len(r.sent) = Len(registry.sent) + 1 /\ Len(r.sent) \in DOMAIN r.sent
         /\ r.sent[Len(r.sent)].kind = kind /\ r.sent[Len(r.sent)].tee = tx.tee
  <1>1. Instruction(kind, tx.tee) \in SentInstructions
    BY DEF Instruction, SentInstructions, Txs
  <1>2. registry.sent \in Seq(SentInstructions) /\ Len(registry.sent) \in Nat
    BY SentElements DEF RegShape, Registries
  <1>3. /\ r.sent \in Seq(SentInstructions) /\ Len(r.sent) = Len(registry.sent) + 1
        /\ DOMAIN r.sent = (DOMAIN registry.sent) \cup {Len(registry.sent) + 1}
        /\ \A i \in DOMAIN registry.sent : r.sent[i] = registry.sent[i]
        /\ r.sent[Len(registry.sent) + 1] = Instruction(kind, tx.tee)
    BY <1>1, <1>2, AppendElements
  <1>4. Instruction(kind, tx.tee).kind = kind /\ Instruction(kind, tx.tee).tee = tx.tee
    BY DEF Instruction
  <1>5. registry.open \cup registry.proven \subseteq DOMAIN registry.sent
    BY DEF RegShape
  <1>6. Len(registry.sent) <= Len(r.sent)
    BY <1>2, <1>3
  <1>. QED
    BY <1>3, <1>4, <1>5, <1>6 DEF Grows

\* What an accepted transaction does to the registry.
LEMMA AcceptedGrows ==
  ASSUME RegShape, NEW tx \in Txs, Accepts(tx), NEW r, r = Applied(tx)
  PROVE  /\ Grows(registry, r, tx)
         /\ tx.op # "produce" =>
              /\ Len(r.sent) = Len(registry.sent) + 1 /\ Len(r.sent) \in DOMAIN r.sent
              /\ r.sent[Len(r.sent)].kind = IF tx.op = "check" THEN "check" ELSE "attest"
              /\ r.sent[Len(r.sent)].tee = tx.tee
         /\ tx.op \in {"register", "attest"} => r.status[tx.tee] # "None"
         /\ tx.op = "check" => /\ tx.challenge \in DOMAIN registry.sent
                               /\ registry.sent[tx.challenge].tee = tx.tee
         /\ tx.op = "produce" => r.status[tx.tee] = "Production"
  <1>0. /\ registry \in Registries /\ Len(registry.sent) \in Nat
        /\ registry.open \cup registry.proven \subseteq DOMAIN registry.sent
        /\ registry.sent \in Seq(SentInstructions) /\ tx.tee \in Tees
    BY SentElements DEF RegShape, Registries, Txs
  <1>1. ASSUME NEW kind \in {"attest", "check"}
        PROVE  Append(registry.sent, Instruction(kind, tx.tee)) \in Seq(SentInstructions)
    <2>1. Instruction(kind, tx.tee) \in SentInstructions
      BY DEF Instruction, SentInstructions, Txs
    <2>. QED
      BY <1>0, <2>1, AppendElements
  <1>2. CASE tx.op = "register"
    <2> DEFINE st == [registry.status EXCEPT ![tx.tee] = "Initialized"]
               sn == Append(registry.sent, Instruction("attest", tx.tee))
               op == registry.open \cup {Len(registry.sent) + 1}
    <2>1. r = [registry EXCEPT !.status = st, !.sent = sn, !.open = op]
      BY <1>2 DEF Applied
    <2>2. sn \in Seq(SentInstructions) /\ op \in SUBSET Nat
      BY <1>0, <1>1 DEF Registries
    <2>10. st \in [Tees -> Statuses]
      BY <1>0 DEF Registries, Statuses
    <2> HIDE DEF st, sn, op
    <2>11. /\ r \in Registries /\ r.sent = sn /\ r.open = op
           /\ r.proven = registry.proven /\ r.status = st
      BY <1>0, <2>1, <2>2, <2>10 DEF Registries
    <2>3. /\ r \in Registries /\ r.sent = sn /\ r.open = op /\ r.proven = registry.proven
          /\ r.status = [registry.status EXCEPT ![tx.tee] = "Initialized"]
      BY <2>11 DEF st
    <2>4. registry.status \in [Tees -> Statuses]
      BY <1>0 DEF Registries
    <2>5. /\ \A t \in Tees : t = tx.tee \/ r.status[t] = registry.status[t]
          /\ r.status[tx.tee] # "None"
      BY <1>0, <2>3, <2>4
    <2>6. \A t \in Tees : r.status[t] # "None" =>
            registry.status[t] # "None" \/ (tx.op = "register" /\ t = tx.tee)
      BY <1>2, <2>5
    <2>7. r.sent = Append(registry.sent, Instruction("attest", tx.tee))
      BY <2>3 DEF sn
    <2>8. r.open \subseteq registry.open \cup {Len(registry.sent) + 1}
      BY <2>3 DEF op
    <2>9. /\ Grows(registry, r, tx)
          /\ Len(r.sent) = Len(registry.sent) + 1 /\ Len(r.sent) \in DOMAIN r.sent
          /\ r.sent[Len(r.sent)].kind = "attest" /\ r.sent[Len(r.sent)].tee = tx.tee
      BY <2>3, <2>6, <2>7, <2>8, IssueGrows, ZenonT(30)
    <2>. QED
      BY <1>2, <2>5, <2>9
  <1>3. CASE tx.op = "attest"
    <2> DEFINE sn == Append(registry.sent, Instruction("attest", tx.tee))
               op == registry.open \cup {Len(registry.sent) + 1}
    <2>1. r = [registry EXCEPT !.sent = sn, !.open = op]
      BY <1>3 DEF Applied
    <2>2. sn \in Seq(SentInstructions) /\ op \in SUBSET Nat /\ "None" \in Statuses
      BY <1>0, <1>1 DEF Registries, Statuses
    <2> HIDE DEF sn, op
    <2>3. /\ r \in Registries /\ r.sent = sn /\ r.open = op /\ r.proven = registry.proven
          /\ r.status = registry.status
      BY <1>0, <2>1, <2>2 DEF Registries
    <2>4. r.sent = Append(registry.sent, Instruction("attest", tx.tee))
      BY <2>3 DEF sn
    <2>5. r.open \subseteq registry.open \cup {Len(registry.sent) + 1}
      BY <2>3 DEF op
    <2>6. /\ Grows(registry, r, tx)
          /\ Len(r.sent) = Len(registry.sent) + 1 /\ Len(r.sent) \in DOMAIN r.sent
          /\ r.sent[Len(r.sent)].kind = "attest" /\ r.sent[Len(r.sent)].tee = tx.tee
      BY <2>3, <2>4, <2>5, IssueGrows
    <2>7. registry.status[tx.tee] # "None"
      BY <1>3, AttestAssumption DEF Accepts
    <2>. QED
      BY <1>3, <2>3, <2>6, <2>7
  <1>4. CASE tx.op = "check"
    <2> DEFINE sn == Append(registry.sent, Instruction("check", tx.tee))
               op == registry.open \ {tx.challenge}
    <2>1. r = [registry EXCEPT !.sent = sn, !.open = op]
      BY <1>4 DEF Applied
    <2>2. sn \in Seq(SentInstructions) /\ op \in SUBSET Nat /\ "None" \in Statuses
      BY <1>0, <1>1 DEF Registries, Statuses
    <2> HIDE DEF sn, op
    <2>3. /\ r \in Registries /\ r.sent = sn /\ r.open = op /\ r.proven = registry.proven
          /\ r.status = registry.status
      BY <1>0, <2>1, <2>2 DEF Registries
    <2>4. r.sent = Append(registry.sent, Instruction("check", tx.tee))
      BY <2>3 DEF sn
    <2>5. r.open \subseteq registry.open \cup {Len(registry.sent) + 1}
      BY <2>3 DEF op
    <2>6. /\ Grows(registry, r, tx)
          /\ Len(r.sent) = Len(registry.sent) + 1 /\ Len(r.sent) \in DOMAIN r.sent
          /\ r.sent[Len(r.sent)].kind = "check" /\ r.sent[Len(r.sent)].tee = tx.tee
      BY <2>3, <2>4, <2>5, IssueGrows
    <2>7. tx.challenge \in registry.open /\ registry.sent[tx.challenge].tee = tx.tee
      BY <1>4 DEF Accepts
    <2>. QED
      BY <1>0, <1>4, <2>6, <2>7
  <1>5. CASE tx.op = "produce"
    <2>1. r = [registry EXCEPT !.status[tx.tee] = "Production"]
      BY <1>5 DEF Applied
    <2>2. "Production" \in Statuses /\ {} \in SUBSET Nat
      BY DEF Statuses
    <2>3. /\ r \in Registries /\ r.sent = registry.sent
          /\ r.proven = registry.proven /\ r.open = registry.open
          /\ r.status = [registry.status EXCEPT ![tx.tee] = "Production"]
      BY <1>0, <2>1, <2>2 DEF Registries
    <2>4. registry.status \in [Tees -> Statuses]
      BY <1>0 DEF Registries
    <2>5. registry.status[tx.tee] # "None"
      BY <1>5 DEF Accepts
    <2>6. /\ \A t \in Tees : t = tx.tee \/ r.status[t] = registry.status[t]
          /\ r.status[tx.tee] = "Production"
      BY <1>0, <2>3, <2>4
    <2>7. \A t \in Tees : r.status[t] # "None" => registry.status[t] # "None"
      BY <2>5, <2>6
    <2>8. Len(registry.sent) <= Len(registry.sent)
      BY <1>0
    <2>9. Grows(registry, r, tx)
      BY <1>0, <2>3, <2>7, <2>8 DEF Grows
    <2>. QED
      BY <1>5, <2>6, <2>9
  <1>. QED
    BY <1>2, <1>3, <1>4, <1>5 DEF Txs

\* The transaction mined is the head of the pool; the last one stays last.
LEMMA MinedTx ==
  ASSUME RegShape, Mine
  PROVE  /\ mempool[1] \in Txs /\ Head(mempool) = mempool[1] /\ 1 \in DOMAIN mempool
         /\ mempool' \in Seq(Txs) /\ Len(mempool') = Len(mempool) - 1
         /\ \A p \in DOMAIN mempool' : p + 1 \in DOMAIN mempool /\ mempool'[p] = mempool[p + 1]
         /\ Len(mempool) = 1 => mempool' = <<>>
         /\ Len(mempool) > 1 => /\ mempool' # <<>>
                                /\ mempool'[Len(mempool')] = mempool[Len(mempool)]
  <1>1. mempool \in Seq(Txs) /\ mempool # <<>> /\ mempool' = Tail(mempool)
    BY DEF Mine, RegShape
  <1>. QED
    BY <1>1, TailElements, MempoolElements

\* Mined or reverted, a transaction only adds to the registry.
LEMMA MineGrows ==
  ASSUME RegShape, Mine
  PROVE  Grows(registry, registry', mempool[1])
  <1>1. mempool[1] \in Txs /\ Head(mempool) = mempool[1]
    BY MinedTx
  <1>2. CASE Accepts(mempool[1])
    <2>1. registry' = Applied(mempool[1])
      BY <1>1, <1>2 DEF Mine
    <2>. QED
      BY <1>1, <1>2, <2>1, AcceptedGrows
  <1>3. CASE ~Accepts(mempool[1])
    <2>1. registry' = registry
      BY <1>1, <1>3 DEF Mine
    <2>2. Len(registry.sent) <= Len(registry.sent)
      BY SentElements
    <2>. QED
      BY <2>1, <2>2 DEF Grows, RegShape
  <1>. QED
    BY <1>2, <1>3

\* Mining makes no machine known that was not on its way.
LEMMA MineKnown ==
  ASSUME RegShape, Mine
  PROVE  Known' \subseteq Known
  <1>1. ASSUME NEW t \in Tees, registry'.status[t] # "None" PROVE t \in Known
    <2>1. registry.status[t] # "None" \/ (mempool[1].op = "register" /\ t = mempool[1].tee)
      BY <1>1, MineGrows DEF Grows
    <2>. QED
      BY <2>1, MinedTx DEF Known
  <1>2. ASSUME NEW p \in DOMAIN mempool', mempool'[p].op = "register", mempool'[p].tee \in Tees
        PROVE  mempool'[p].tee \in Known
    BY <1>2, MinedTx DEF Known
  <1>. QED
    BY <1>1, <1>2 DEF Known

\* A claim about the chain survives its growth.
LEMMA MatchesKept ==
  ASSUME NEW s, NEW old, NEW new, NEW known, NEW knew, Matches(s, old, known),
         DOMAIN old \subseteq DOMAIN new, \A i \in DOMAIN old : new[i] = old[i],
         knew \subseteq known
  PROVE  Matches(s, new, knew)
  BY DEF Matches

\* The receipt the run waited for: the head of the pool was its own.
LEMMA MineReceipt ==
  ASSUME RegInv, Mine
  PROVE  \/ receipt' = receipt /\ receipt.state # "mined"
            /\ (receipt = Pending => Len(mempool) # 1)
         \/ /\ receipt = Pending /\ Len(mempool) = 1
            /\ receipt' = [state |-> "mined", id |-> Len(registry'.sent)]
            /\ OwnReceipt(Len(registry.sent))'
         \/ /\ receipt = Pending /\ Len(mempool) = 1
            /\ receipt' = [state |-> "reverted", id |-> Len(registry'.sent)]
  <1>0. RegShape
    BY DEF RegInv
  <1> DEFINE tx == mempool[1]
  <1>1. tx \in Txs /\ Head(mempool) = tx /\ mempool # <<>> /\ tool' = tool
    BY <1>0, MinedTx DEF Mine
  <1>2. receipt.state # "mined"
    BY <1>1 DEF RegInv, RegLink
  <1>3. CASE ~(receipt = Pending /\ Len(mempool) = 1)
    BY <1>2, <1>3 DEF Mine
  <1>4. CASE receipt = Pending /\ Len(mempool) = 1 /\ ~Accepts(tx)
    BY <1>1, <1>4 DEF Mine
  <1>5. CASE receipt = Pending /\ Len(mempool) = 1 /\ Accepts(tx)
    <2>1. registry' = Applied(tx)
      BY <1>1, <1>5 DEF Mine
    <2>2. receipt' = [state |-> "mined", id |-> Len(registry'.sent)]
      BY <1>1, <1>5 DEF Mine
    <2>3. OwnTx(tx)
      BY <1>5 DEF RegInv, RegLink
    <2>4. PICK r : r = Applied(tx)
      OBVIOUS
    <2> HIDE DEF tx
    <2>5. /\ Grows(registry, r, tx)
          /\ tx.op # "produce" =>
               /\ Len(r.sent) = Len(registry.sent) + 1 /\ Len(r.sent) \in DOMAIN r.sent
               /\ r.sent[Len(r.sent)].kind = IF tx.op = "check" THEN "check" ELSE "attest"
               /\ r.sent[Len(r.sent)].tee = tx.tee
          /\ tx.op \in {"register", "attest"} => r.status[tx.tee] # "None"
          /\ tx.op = "check" => /\ tx.challenge \in DOMAIN registry.sent
                                /\ registry.sent[tx.challenge].tee = tx.tee
          /\ tx.op = "produce" => r.status[tx.tee] = "Production"
      BY <1>0, <1>1, <1>5, <2>4, AcceptedGrows
    <2>6. registry' = r
      BY <2>1, <2>4
    <2>7. tool.pc = "p" => r.sent[tool.check] = registry.sent[tool.check]
      <3>1. tool.pc = "p" => tool.check \in DOMAIN registry.sent
        BY DEF RegInv, RegRun, RegShape, Running
      <3>. QED
        BY <2>5, <3>1 DEF Grows
    <2>8. tool.pc # "p" => Len(r.sent) > tool.since
      <3>1. Running
        BY <2>3 DEF OwnTx, Running
      <3>2. tool.since <= Len(registry.sent) /\ tool.since \in Nat
        BY <1>0, <3>1 DEF RegShape, Tools
      <3>3. Len(registry.sent) \in Nat
        BY <1>0, SentElements
      <3>4. tool.pc # "p" => Len(r.sent) = Len(registry.sent) + 1
        BY <2>3, <2>5 DEF OwnTx
      <3>. QED
        BY <3>2, <3>3, <3>4
    <2>9. /\ tool.pc # "p" => /\ Len(r.sent) \in DOMAIN r.sent
                              /\ r.sent[Len(r.sent)].tee = tool.tee
                              /\ r.sent[Len(r.sent)].kind
                                   = IF tool.pc = "a" THEN "check" ELSE "attest"
          /\ tool.pc \in {"r", "R"} => r.status[tool.tee] # "None"
      BY <2>3, <2>5 DEF OwnTx
    <2>10. tool.pc = "a" => tool.attest \in DOMAIN r.sent /\ r.sent[tool.attest].tee = tool.tee
      BY <2>3, <2>5 DEF OwnTx, Grows
    <2>11. tool.pc = "p" => r.status[r.sent[tool.check].tee] = "Production"
      BY <2>3, <2>5, <2>7 DEF OwnTx
    <2>12. OwnReceipt(Len(registry.sent))'
      BY <1>1, <2>6, <2>8, <2>9, <2>10, <2>11 DEF OwnReceipt
    <2>. QED
      BY <1>5, <2>2, <2>12
  <1>. QED
    BY <1>3, <1>4, <1>5

\* Mining keeps the types.
LEMMA MineKeepsShape ==
  ASSUME RegInv, Mine
  PROVE  RegShape'
  <1>0. RegShape
    BY DEF RegInv
  <1>1. /\ live' = live /\ lag' = lag /\ file' = file /\ tool' = tool /\ faults' = faults
        /\ mempool # <<>>
    BY DEF Mine
  <1>2. /\ registry' \in Registries /\ Len(registry.sent) <= Len(registry'.sent)
        /\ registry'.open \cup registry'.proven \subseteq DOMAIN registry'.sent
    BY <1>0, MineGrows DEF Grows
  <1>3. Len(registry.sent) \in Nat /\ Len(registry'.sent) \in Nat
    <2>1. registry'.sent \in Seq(SentInstructions)
      BY <1>2 DEF Registries
    <2>. QED
      BY <1>0, <2>1, SentElements, SeqElements
  <1>4. Ids \subseteq Ids' /\ Len(registry'.sent) \in Ids'
    BY <1>2, <1>3 DEF Ids
  <1>5. mempool' \in Seq(Txs)
    BY <1>0, MinedTx
  <1>6. /\ faults \in Nat /\ Len(mempool) \in Nat /\ Len(mempool') = Len(mempool) - 1
        /\ Len(mempool) <= faults + 1 /\ (receipt # Pending => Len(mempool) <= faults)
        /\ Len(mempool) > 0
    <2>1. Len(mempool) > 0
      BY <1>0, <1>1, MempoolElements, MinedTx
    <2>. QED
      BY <1>0, <2>1, NotWaiting, MinedTx
  <1>7. (Len(mempool) <= faults + (IF receipt = Pending THEN 1 ELSE 0))'
    BY <1>1, <1>6
  <1>8. /\ receipt' \in [state : {"none", "pending", "mined", "reverted"}, id : Ids']
        /\ receipt'.state = "none" => receipt' = NoReceipt
        /\ receipt'.state = "pending" => receipt' = Pending /\ mempool' # <<>>
        /\ receipt' # NoReceipt => receipt # NoReceipt
    <2>1. CASE receipt' = receipt /\ (receipt = Pending => Len(mempool) # 1)
      <3>1. receipt = Pending => mempool' # <<>>
        BY <1>0, <1>6, <2>1, MinedTx
      <3>. QED
        BY <1>0, <1>4, <2>1, <3>1 DEF RegShape
    <2>2. CASE /\ receipt = Pending
               /\ \E st \in {"mined", "reverted"} :
                    receipt' = [state |-> st, id |-> Len(registry'.sent)]
      BY <1>4, <2>2 DEF Pending, NoReceipt
    <2>. QED
      BY <2>1, <2>2, MineReceipt
  <1>9. /\ tool.attest \in Ids' /\ tool.check \in Ids'
        /\ Running => tool.since <= Len(registry'.sent)
    <2>1. tool.since \in Nat
      BY <1>0 DEF RegShape, Tools
    <2>. QED
      BY <1>0, <1>2, <1>3, <1>4, <2>1 DEF RegShape
  <1>. QED
    BY <1>0, <1>1, <1>2, <1>5, <1>7, <1>8, <1>9 DEF RegShape, Running

\* Mining keeps what the file, the run and the receipt claim.
LEMMA MineKeepsInv ==
  ASSUME RegInv, Mine
  PROVE  RegInv'
  <1>0. RegShape
    BY DEF RegInv
  <1>1. live' = live /\ file' = file /\ tool' = tool /\ Newest' = Newest /\ (Running' <=> Running)
    BY DEF Mine, Newest, Running
  <1>2. /\ DOMAIN registry.sent \subseteq DOMAIN registry'.sent
        /\ \A i \in DOMAIN registry.sent : registry'.sent[i] = registry.sent[i]
        /\ \A i \in (DOMAIN registry'.sent) \ DOMAIN registry.sent :
             registry'.sent[i].tee = mempool[1].tee
        /\ registry'.proven = registry.proven
    BY <1>0, MineGrows DEF Grows
  <1>3. RegBound'
    <2>1. \A t \in Known' : t <= Newest
      BY <1>0, MineKnown DEF RegInv, RegBound
    <2>2. \A p \in DOMAIN mempool' : mempool'[p].tee <= Newest
      BY <1>0, MinedTx DEF RegInv, RegBound
    <2>3. \A i \in DOMAIN registry'.sent : registry'.sent[i].tee <= Newest
      BY <1>0, <1>2, MinedTx DEF RegInv, RegBound
    <2>. QED
      BY <1>1, <2>1, <2>2, <2>3 DEF RegBound
  <1>4. RegFile'
    BY <1>0, <1>1, <1>2, MineKnown, MatchesKept DEF RegInv, RegFile
  <1>5. tool.pc = "p" => tool.check \in DOMAIN registry.sent
    BY DEF RegInv, RegRun, RegShape, Running
  <1>6. RegLink'
    <2>1. ASSUME receipt' = Pending PROVE OwnTx(mempool[Len(mempool)])'
      <3>1. receipt = Pending /\ Len(mempool) # 1
        BY <2>1, MineReceipt DEF Pending
      <3>2. OwnTx(mempool[Len(mempool)])
        BY <3>1 DEF RegInv, RegLink
      <3>3. mempool'[Len(mempool')] = mempool[Len(mempool)]
        <4>1. Len(mempool) > 1
          BY <1>0, <3>1, MinedTx, MempoolElements
        <4>. QED
          BY <1>0, <4>1, MinedTx
      <3>. QED
        BY <1>1, <1>2, <1>5, <3>2, <3>3 DEF OwnTx
    <2>2. ASSUME receipt'.state = "mined" PROVE mempool' = <<>> /\ OwnReceipt(receipt.id)'
      <3>1. /\ Len(mempool) = 1 /\ receipt'.id = Len(registry'.sent)
            /\ OwnReceipt(Len(registry.sent))'
        BY <2>2, MineReceipt
      <3>2. mempool' = <<>>
        BY <1>0, <3>1, MinedTx
      <3>3. OwnReceipt(receipt.id)'
        BY <3>1 DEF OwnReceipt
      <3>. QED
        BY <3>2, <3>3
    <2>. QED
      BY <2>1, <2>2 DEF RegLink
  <1>7. RegRun'
    <2>1. Running => Matches(tool.state, registry'.sent, Known')
      BY <1>0, <1>2, MineKnown, MatchesKept DEF RegInv, RegRun
    <2>2. Running /\ tool.state.completedSteps # {} =>
            registry'.sent[tool.state.teeAttestInstructionID].tee <= tool.tee
      BY <1>2 DEF RegInv, RegRun, Matches
    <2>. QED
      BY <1>1, <1>2, <2>1, <2>2 DEF RegInv, RegRun
  <1>8. RegFresh'
    BY <1>1, <1>2 DEF RegInv, RegFresh
  <1>. QED
    BY <1>3, <1>4, <1>6, <1>7, <1>8, MineKeepsShape DEF RegInv

-----------------------------------------------------------------------------
(* Steps of a run that touch neither the registry nor the pool             *)

\* The run moves on, and its own account of its steps with it.
RunStep(pc, state, attest, check) ==
  /\ Running
  /\ tool' = [tool EXCEPT !.pc = pc, !.state = state, !.attest = attest, !.check = check]
  /\ pc \in {"R", "a", "poll", "p"} /\ receipt' = NoReceipt
  /\ file' \in {file, state}
  /\ faults' \in Nat /\ faults <= faults' /\ receipt # Pending
  /\ UNCHANGED <<live, lag, registry, mempool>>

\* What the step has to establish.
RunGoal(pc, state, attest, check) ==
  /\ state \in FileStates /\ state.content = "json" /\ attest \in Ids /\ check \in Ids
  /\ Matches(state, registry.sent, Known)
  /\ "r" \in state.completedSteps
  /\ registry.sent[state.teeAttestInstructionID].tee <= tool.tee
  /\ attest \in {NoId, state.teeAttestInstructionID}
  /\ pc = "p" => check \in registry.proven
  /\ tool.fresh =>
       /\ pc = "R" => state.completedSteps = {"r"}
       /\ pc = "a" => "a" \notin state.completedSteps
       /\ attest > tool.since /\ attest \in DOMAIN registry.sent
       /\ registry.sent[attest].tee = tool.tee
       /\ check # NoId => check \in DOMAIN registry.sent /\ registry.sent[check].tee = tool.tee

\* What the process is after such a step.
LEMMA RunStepTool ==
  ASSUME RegShape, NEW pc, NEW state, NEW attest, NEW check,
         RunStep(pc, state, attest, check), RunGoal(pc, state, attest, check)
  PROVE  /\ tool' \in Tools /\ tool'.pc = pc /\ tool'.state = state
         /\ tool'.attest = attest /\ tool'.check = check
         /\ tool'.tee = tool.tee /\ tool'.command = tool.command
         /\ tool'.fresh = tool.fresh /\ tool'.since = tool.since /\ tool'.outcome = tool.outcome
  <1>1. tool \in Tools /\ state \in FileStates
    BY DEF RegShape, RunGoal
  <1>2. attest \in Nat /\ check \in Nat
    BY SentElements DEF RunGoal, Ids
  <1>3. /\ pc \in {"idle", "r", "R", "a", "poll", "p"}
        /\ tool' = [tool EXCEPT !.pc = pc, !.state = state, !.attest = attest, !.check = check]
    BY DEF RunStep
  <1>. QED
    BY <1>1, <1>2, <1>3 DEF Tools

\* It is enough that the run's account of its steps stays the chain's.
LEMMA RunStepKeepsInv ==
  ASSUME RegInv, NEW pc, NEW state, NEW attest, NEW check,
         RunStep(pc, state, attest, check), RunGoal(pc, state, attest, check)
  PROVE  RegInv'
  <1>0. RegShape
    BY DEF RegInv
  <1>1. /\ registry' = registry /\ mempool' = mempool /\ live' = live /\ lag' = lag
        /\ receipt' = NoReceipt /\ receipt' # Pending /\ receipt'.state = "none"
        /\ Known' = Known
    BY DEF RunStep, NoReceipt, Pending, Known
  <1>2. Running /\ Running' /\ Newest' = Newest /\ Newest = tool.tee
    BY <1>0, RunStepTool DEF RunStep, Running, Newest
  <1>3. RegShape'
    <2>1. receipt' \in [state : {"none", "pending", "mined", "reverted"}, id : Ids'] /\ Ids' = Ids
      BY <1>0, <1>1, SentElements DEF Ids, NoReceipt, NoId
    <2>2. (Len(mempool) <= faults + (IF receipt = Pending THEN 1 ELSE 0))'
      <3>1. Len(mempool) <= faults /\ faults \in Nat /\ Len(mempool) \in Nat
        BY <1>0, NotWaiting DEF RunStep
      <3>2. faults' \in Nat /\ faults <= faults'
        BY DEF RunStep
      <3>. QED
        BY <1>1, <3>1, <3>2
    <2>3. file' \in FileStates /\ (file'.content # "json" => file' \in {NoFile, CorruptFile})
      BY <1>0 DEF RegShape, RunStep, RunGoal
    <2>4. tool'.attest \in Ids /\ tool'.check \in Ids /\ tool'.state.content = "json"
      BY <1>0, RunStepTool DEF RunGoal
    <2>5. faults' \in Nat
      BY DEF RunStep
    <2>6. /\ tool'.tee \in 1 .. live /\ tool'.command \in Commands
          /\ tool'.since <= Len(registry.sent) /\ tool'.outcome = "none"
      BY <1>0, <1>2, RunStepTool DEF RegShape
    <2>7. tool' \in Tools
      BY <1>0, RunStepTool
    <2>. QED
      BY <1>0, <1>1, <2>1, <2>2, <2>3, <2>4, <2>5, <2>6, <2>7 DEF RegShape
  <1>4. RegBound'
    BY <1>1, <1>2 DEF RegInv, RegBound
  <1>5. RegFile'
    BY <1>1 DEF RegInv, RegFile, RunStep, RunGoal
  <1>6. RegLink'
    BY <1>1 DEF RegLink
  <1>7. RegRun'
    <2>1. tool'.state.completedSteps # {} /\ tool'.pc # "r"
      BY <1>0, RunStepTool, ZenonT(30) DEF RunGoal, RunStep
    <2>. QED
      BY <1>0, <1>1, <2>1, RunStepTool DEF RunGoal, RegRun
  <1>8. RegFresh'
    <2>1. /\ tool'.pc = pc /\ tool'.state = state /\ tool'.attest = attest
          /\ tool'.check = check /\ tool'.tee = tool.tee
          /\ tool'.fresh = tool.fresh /\ tool'.since = tool.since
      BY <1>0, RunStepTool
    <2>2. pc # "r"
      BY DEF RunStep
    <2>3. CASE tool.fresh
      <3>1. /\ pc = "R" => state.completedSteps = {"r"}
            /\ pc = "a" => "a" \notin state.completedSteps
            /\ attest > tool.since /\ attest \in DOMAIN registry.sent
            /\ registry.sent[attest].tee = tool.tee
            /\ check # NoId =>
                 check \in DOMAIN registry.sent /\ registry.sent[check].tee = tool.tee
        BY <2>3 DEF RunGoal
      <3>. QED
        BY <1>1, <2>1, <2>2, <3>1 DEF RegFresh
    <2>4. CASE ~tool.fresh
      BY <2>1, <2>4 DEF RegFresh
    <2>. QED
      BY <2>3, <2>4
  <1>. QED
    BY <1>3, <1>4, <1>5, <1>6, <1>7, <1>8 DEF RegInv

\* The check is proven.
LEMMA PollStep ==
  ASSUME RegInv, GetFTDCAvailabilityCheckResult
  PROVE  RegInv'
  <1>0. RegShape /\ Running /\ tool.pc = "poll" /\ receipt = NoReceipt /\ faults \in Nat
    BY NotWaiting DEF RegInv, GetFTDCAvailabilityCheckResult, Running
  <1>1. RunStep("p", tool.state, tool.attest, tool.check)
    <2>1. tool' = [tool EXCEPT !.pc = "p", !.state = tool.state,
                               !.attest = tool.attest, !.check = tool.check]
      <3>1. tool' = [tool EXCEPT !.pc = "p"] /\ tool \in Tools
        BY <1>0 DEF GetFTDCAvailabilityCheckResult, After, RegShape
      <3>. QED
        BY <3>1 DEF Tools
    <2>2. receipt # Pending /\ faults <= faults
      BY <1>0 DEF NoReceipt, Pending
    <2>. QED
      BY <1>0, <2>1, <2>2 DEF RunStep, GetFTDCAvailabilityCheckResult
  <1>2. RunGoal("p", tool.state, tool.attest, tool.check)
    <2>1. /\ Matches(tool.state, registry.sent, Known) /\ "r" \in tool.state.completedSteps
          /\ registry.sent[tool.state.teeAttestInstructionID].tee <= tool.tee
          /\ tool.attest \in {NoId, tool.state.teeAttestInstructionID}
      BY <1>0 DEF RegInv, RegRun
    <2>2. tool.state \in FileStates /\ tool.state.content = "json"
      BY <1>0 DEF RegShape, Tools
    <2>3. tool.attest \in Ids /\ tool.check \in Ids
      BY <1>0 DEF RegShape
    <2>4. tool.check \in registry.proven
      BY DEF GetFTDCAvailabilityCheckResult
    <2>5. tool.fresh =>
            /\ tool.attest > tool.since /\ tool.attest \in DOMAIN registry.sent
            /\ registry.sent[tool.attest].tee = tool.tee
            /\ tool.check # NoId => /\ tool.check \in DOMAIN registry.sent
                                    /\ registry.sent[tool.check].tee = tool.tee
      BY <1>0 DEF RegInv, RegFresh
    <2>. QED
      BY <2>1, <2>2, <2>3, <2>4, <2>5 DEF RunGoal
  <1>. QED
    BY <1>1, <1>2, RunStepKeepsInv

\* A step that the file says is done has its instruction on the chain; a fresh
\* run skips only what its command does not name.
LEMMA SkippingStep ==
  ASSUME RegInv, SkipStep
  PROVE  RegInv'
  <1>0. /\ RegShape /\ Running /\ receipt = NoReceipt /\ faults \in Nat
        /\ tool.pc \in {"r", "R", "a"}
        /\ tool.pc \in tool.command => tool.pc \in tool.state.completedSteps
    BY NotWaiting DEF RegInv, SkipStep, Running
  <1>1. "r" \in tool.command
    BY <1>0, CommandAssumption DEF RegShape
  <1>2. /\ Matches(tool.state, registry.sent, Known)
        /\ tool.state.completedSteps # {} =>
             registry.sent[tool.state.teeAttestInstructionID].tee <= tool.tee
        /\ tool.pc # "r" => "r" \in tool.state.completedSteps
        /\ tool.attest \in {NoId, tool.state.teeAttestInstructionID}
    BY <1>0 DEF RegInv, RegRun
  <1>3. "r" \in tool.state.completedSteps
    BY <1>0, <1>1, <1>2
  <1>4. PICK attest : attest = IF tool.pc # "a" /\ tool.pc \in tool.command
                               THEN tool.state.teeAttestInstructionID ELSE tool.attest
    OBVIOUS
  <1>5. PICK check : check = IF tool.pc = "a" /\ tool.pc \in tool.command
                             THEN tool.state.instructionID ELSE tool.check
    OBVIOUS
  <1>6. RunStep(After(tool.pc), tool.state, attest, check)
    <2>1. tool' = [tool EXCEPT !.pc = After(tool.pc), !.attest = attest, !.check = check]
      BY <1>4, <1>5 DEF SkipStep
    <2>2. tool' = [tool EXCEPT !.pc = After(tool.pc), !.state = tool.state,
                               !.attest = attest, !.check = check]
      <3>1. tool \in Tools
        BY <1>0 DEF RegShape
      <3>. QED
        BY <2>1, <3>1 DEF Tools
    <2>3. receipt # Pending /\ faults <= faults
      BY <1>0 DEF NoReceipt, Pending
    <2>4. After(tool.pc) \in {"R", "a", "poll", "p"}
      BY <1>0 DEF After
    <2>. QED
      BY <1>0, <2>2, <2>3, <2>4 DEF RunStep, SkipStep
  <1>7. RunGoal(After(tool.pc), tool.state, attest, check)
    <2>1. tool.state \in FileStates /\ tool.state.content = "json"
      BY <1>0 DEF RegShape, Tools
    <2>2. DOMAIN registry.sent \subseteq Ids
      BY <1>0, SentElements DEF Ids
    <2>3. attest \in Ids /\ attest \in {NoId, tool.state.teeAttestInstructionID}
      BY <1>0, <1>2, <1>3, <1>4, <2>2 DEF RegShape, Matches
    <2>4. check \in Ids
      BY <1>0, <1>2, <1>3, <1>5, <2>2 DEF RegShape, Matches
    <2>5. After(tool.pc) # "p"
      BY <1>0 DEF After
    <2>6. ASSUME tool.fresh
          PROVE  /\ After(tool.pc) = "R" => tool.state.completedSteps = {"r"}
                 /\ After(tool.pc) = "a" => "a" \notin tool.state.completedSteps
                 /\ attest > tool.since /\ attest \in DOMAIN registry.sent
                 /\ registry.sent[attest].tee = tool.tee
                 /\ check # NoId =>
                      check \in DOMAIN registry.sent /\ registry.sent[check].tee = tool.tee
      <3>1. /\ tool.pc = "r" => tool.state.completedSteps = {}
            /\ tool.pc = "R" => tool.state.completedSteps = {"r"}
            /\ tool.pc = "a" => "a" \notin tool.state.completedSteps
            /\ tool.pc # "r" => /\ tool.attest > tool.since /\ tool.attest \in DOMAIN registry.sent
                                /\ registry.sent[tool.attest].tee = tool.tee
            /\ tool.check # NoId => /\ tool.check \in DOMAIN registry.sent
                                    /\ registry.sent[tool.check].tee = tool.tee
        BY <1>0, <2>6 DEF RegInv, RegFresh
      <3>2. tool.pc # "r" /\ tool.pc \notin tool.command
        BY <1>0, <1>3, <3>1
      <3>3. attest = tool.attest /\ check = tool.check
        BY <1>4, <1>5, <3>2
      <3>4. CASE tool.pc = "R"
        BY <3>1, <3>3, <3>4 DEF After
      <3>5. CASE tool.pc = "a"
        BY <3>1, <3>3, <3>5 DEF After
      <3>. QED
        BY <1>0, <3>2, <3>4, <3>5
    <2>. QED
      BY <1>2, <1>3, <2>1, <2>3, <2>4, <2>5, <2>6 DEF RunGoal
  <1>. QED
    BY <1>6, <1>7, RunStepKeepsInv

\* A finished step is recorded.  The hard case is R on a file that already
\* holds a check: the machine of the new attestation is known to the
\* registry, so it is not newer than the checked one, and not older either.
LEMMA RecordedMatches ==
  ASSUME RegInv, Running, receipt.state = "mined", tool.pc \in {"r", "R", "a"},
         NEW new, new = Recorded(tool.state, tool.pc, receipt.id)
  PROVE  /\ new \in FileStates /\ new.content = "json"
         /\ Matches(new, registry.sent, Known)
         /\ "r" \in new.completedSteps
         /\ registry.sent[new.teeAttestInstructionID].tee <= tool.tee
         /\ tool.pc = "a" => tool.attest = new.teeAttestInstructionID
         /\ tool.pc # "a" => receipt.id = new.teeAttestInstructionID
  <1>0. RegShape /\ OwnReceipt(receipt.id)
    BY DEF RegInv, RegLink
  <1> DEFINE id == receipt.id
             old == tool.state
             sent == registry.sent
  <1>1. old \in FileStates /\ old.content = "json" /\ id \in Nat
    BY <1>0, SentElements DEF RegShape, Tools, Ids
  <1>2. /\ new \in FileStates /\ new.content = "json"
        /\ new.completedSteps = old.completedSteps \cup {tool.pc}
        /\ new.teeAttestInstructionID = IF tool.pc = "a" THEN old.teeAttestInstructionID ELSE id
        /\ new.instructionID = IF tool.pc = "a" THEN id ELSE old.instructionID
    BY <1>1 DEF Recorded, FileStates
  <1>3. /\ Matches(old, sent, Known)
        /\ old.completedSteps # {} => sent[old.teeAttestInstructionID].tee <= tool.tee
        /\ tool.pc # "r" => "r" \in old.completedSteps
        /\ tool.attest \in {NoId, old.teeAttestInstructionID}
    BY DEF RegInv, RegRun
  <1>4. /\ id \in DOMAIN sent /\ sent[id].tee = tool.tee
        /\ sent[id].kind = IF tool.pc = "a" THEN "check" ELSE "attest"
        /\ tool.pc \in {"r", "R"} => registry.status[tool.tee] # "None"
        /\ tool.pc = "a" => tool.attest \in DOMAIN sent /\ sent[tool.attest].tee = tool.tee
    BY <1>0 DEF OwnReceipt
  <1>5. tool.tee \in Tees /\ tool.tee \in Int
    BY <1>0, RunHasMachine, TeesAreNumbers
  <1>6. \A t \in Known : t <= tool.tee
    BY DEF RegInv, RegBound, Newest
  <1>7. tool.pc \notin old.completedSteps
    BY <1>0 DEF RegShape, NoReceipt
  <1>8. CASE tool.pc = "r"
    <2>1. old.completedSteps = {}
      BY <1>3, <1>7, <1>8 DEF Matches
    <2>2. "a" \notin new.completedSteps /\ "r" \in new.completedSteps
      BY <1>2, <1>8, <2>1
    <2>3. Matches(new, sent, Known)
      BY <1>2, <1>4, <1>6, <1>8, <2>2 DEF Matches
    <2>. QED
      BY <1>2, <1>4, <1>5, <1>8, <2>2, <2>3
  <1>9. CASE tool.pc = "R"
    <2>1. "r" \in old.completedSteps /\ old.completedSteps # {}
      BY <1>3, <1>9
    <2>2. tool.tee \in Known
      BY <1>4, <1>5, <1>9 DEF Known
    <2>3. sent[old.teeAttestInstructionID].tee = tool.tee
      <3>1. old.teeAttestInstructionID \in DOMAIN sent
        BY <1>3, <2>1 DEF Matches
      <3>2. sent[old.teeAttestInstructionID].tee \in Int
        BY <1>0, <3>1, SentElements, TeesAreNumbers
      <3>3. tool.tee <= sent[old.teeAttestInstructionID].tee
        BY <1>3, <2>1, <2>2 DEF Matches
      <3>4. sent[old.teeAttestInstructionID].tee <= tool.tee
        BY <1>3, <2>1
      <3>. QED
        BY <1>5, <3>2, <3>3, <3>4
    <2>4. "a" \in new.completedSteps => "a" \in old.completedSteps
      BY <1>2, <1>9
    <2>5. Matches(new, sent, Known)
      BY <1>2, <1>3, <1>4, <1>6, <1>9, <2>1, <2>3, <2>4 DEF Matches
    <2>. QED
      BY <1>2, <1>4, <1>5, <1>9, <2>1, <2>5
  <1>10. CASE tool.pc = "a"
    <2>1. "r" \in old.completedSteps /\ old.completedSteps # {}
      BY <1>3, <1>10
    <2>2. tool.attest = old.teeAttestInstructionID
      <3>1. tool.attest # NoId
        BY <1>0, <1>4, <1>10, SentElements DEF NoId
      <3>. QED
        BY <1>3, <3>1
    <2>3. Matches(new, sent, Known)
      BY <1>2, <1>3, <1>4, <1>10, <2>1, <2>2 DEF Matches
    <2>. QED
      BY <1>2, <1>3, <1>10, <2>1, <2>2, <2>3
  <1>. QED
    BY <1>8, <1>9, <1>10

\* The receipt is in, and what it tells is recorded.
LEMMA CompletingStep ==
  ASSUME RegInv, CompleteStep
  PROVE  RegInv'
  <1>0. /\ RegShape /\ Running /\ tool.pc \in {"r", "R", "a"} /\ receipt.state = "mined"
        /\ OwnReceipt(receipt.id) /\ faults \in Nat
    BY NotWaiting DEF RegInv, RegLink, CompleteStep, Running
  <1>1. PICK new : new = Recorded(tool.state, tool.pc, receipt.id)
    OBVIOUS
  <1>2. PICK attest : attest = IF tool.pc = "a" THEN tool.attest ELSE receipt.id
    OBVIOUS
  <1>3. PICK check : check = IF tool.pc = "a" THEN receipt.id ELSE tool.check
    OBVIOUS
  <1>4. RunStep(After(tool.pc), new, attest, check)
    <2>1. tool' = [tool EXCEPT !.pc = After(tool.pc), !.state = new,
                               !.attest = attest, !.check = check]
      BY <1>1, <1>2, <1>3 DEF CompleteStep
    <2>2. file' \in {file, new} /\ faults' \in Nat /\ faults <= faults'
      BY <1>0, <1>1 DEF CompleteStep, Costs
    <2>3. After(tool.pc) \in {"R", "a", "poll", "p"}
      BY <1>0 DEF After
    <2>4. receipt # Pending
      BY <1>0 DEF Pending
    <2>. QED
      BY <1>0, <2>1, <2>2, <2>3, <2>4 DEF RunStep, CompleteStep
  <1>5. RunGoal(After(tool.pc), new, attest, check)
    <2>1. /\ new \in FileStates /\ new.content = "json"
          /\ Matches(new, registry.sent, Known)
          /\ "r" \in new.completedSteps
          /\ registry.sent[new.teeAttestInstructionID].tee <= tool.tee
          /\ tool.pc = "a" => tool.attest = new.teeAttestInstructionID
          /\ tool.pc # "a" => receipt.id = new.teeAttestInstructionID
      BY <1>0, <1>1, RecordedMatches
    <2>2. attest = new.teeAttestInstructionID
      BY <1>2, <2>1
    <2>3. attest \in Ids /\ check \in Ids
      BY <1>0, <1>2, <1>3 DEF RegShape
    <2>4. After(tool.pc) # "p"
      BY <1>0 DEF After
    <2>5. /\ receipt.id \in DOMAIN registry.sent /\ receipt.id > tool.since
          /\ registry.sent[receipt.id].tee = tool.tee
      BY <1>0 DEF OwnReceipt
    <2>6. tool.state \in FileStates /\ receipt.id \in Nat
      BY <1>0, SentElements DEF RegShape, Tools, Ids
    <2>7. new.completedSteps = tool.state.completedSteps \cup {tool.pc}
      BY <1>0, <1>1, <2>6 DEF Recorded, FileStates
    <2>8. ASSUME tool.fresh
          PROVE  /\ After(tool.pc) = "R" => new.completedSteps = {"r"}
                 /\ After(tool.pc) = "a" => "a" \notin new.completedSteps
                 /\ attest > tool.since /\ attest \in DOMAIN registry.sent
                 /\ registry.sent[attest].tee = tool.tee
                 /\ check # NoId =>
                      check \in DOMAIN registry.sent /\ registry.sent[check].tee = tool.tee
      <3>1. /\ tool.pc = "r" => tool.state.completedSteps = {}
            /\ tool.pc = "R" => tool.state.completedSteps = {"r"}
            /\ tool.pc # "r" => /\ tool.attest > tool.since /\ tool.attest \in DOMAIN registry.sent
                                /\ registry.sent[tool.attest].tee = tool.tee
            /\ tool.check # NoId => /\ tool.check \in DOMAIN registry.sent
                                    /\ registry.sent[tool.check].tee = tool.tee
        BY <1>0, <2>8 DEF RegInv, RegFresh
      <3>2. CASE tool.pc = "r"
        BY <1>2, <1>3, <2>5, <2>7, <3>1, <3>2 DEF After
      <3>3. CASE tool.pc = "R"
        BY <1>2, <1>3, <2>5, <2>7, <3>1, <3>3 DEF After
      <3>4. CASE tool.pc = "a"
        BY <1>2, <1>3, <2>5, <3>1, <3>4 DEF After
      <3>. QED
        BY <1>0, <3>2, <3>3, <3>4
    <2>. QED
      BY <2>1, <2>2, <2>3, <2>4, <2>8 DEF RunGoal
  <1>. QED
    BY <1>4, <1>5, RunStepKeepsInv

-----------------------------------------------------------------------------
(* A run begins                                                            *)

StartStep(c) ==
  /\ tool.pc = "idle" /\ c \in Commands
  /\ file' \in {file, NoFile} /\ file'.content # "corrupt"
  /\ tool' = [IdleTool("none") EXCEPT
                !.pc = "r", !.tee = TeeProxyId, !.command = c, !.state = loadState(file'),
                !.fresh = file' = NoFile, !.since = Len(registry.sent)]
  /\ faults' \in Nat /\ faults <= faults'
  /\ UNCHANGED <<live, lag, registry, mempool, receipt>>

\* A run that begins believes the file, and the file is right.
LEMMA StartKeepsInv ==
  ASSUME RegInv, NEW c, StartStep(c)
  PROVE  RegInv'
  <1>0. RegShape /\ receipt = NoReceipt /\ live \in Tees /\ live \in Int
    BY NotWaiting, TeesAreNumbers DEF RegInv, StartStep, RegShape
  <1>1. /\ registry' = registry /\ mempool' = mempool /\ live' = live /\ lag' = lag
        /\ receipt' = NoReceipt /\ receipt' # Pending /\ receipt'.state = "none"
        /\ Known' = Known
    BY <1>0 DEF StartStep, NoReceipt, Pending, Known
  <1>2. file' \in FileStates /\ (file'.content # "json" => file' \in {NoFile, CorruptFile})
    BY <1>0 DEF StartStep, RegShape, NoFile, FileStates, NoId
  <1>3. PICK st : st = loadState(file')
    OBVIOUS
  <1>4. /\ st \in FileStates /\ st.content = "json"
        /\ st.completedSteps = file'.completedSteps
        /\ st.teeAttestInstructionID = file'.teeAttestInstructionID
        /\ st.instructionID = file'.instructionID
    BY <1>2, <1>3 DEF loadState, FileStates
  <1>5. c \in SUBSET Letters /\ Len(registry.sent) \in Nat
    BY <1>0, RegistrationAssumption, SentElements DEF StartStep
  <1>6. /\ tool' \in Tools /\ tool'.pc = "r" /\ tool'.tee = live /\ tool'.command = c
        /\ tool'.state = st /\ tool'.attest = 0 /\ tool'.check = 0
        /\ tool'.since = Len(registry.sent) /\ (tool'.fresh <=> file' = NoFile)
        /\ tool'.outcome = "none"
    <2>1. PICK f \in BOOLEAN : f <=> file' = NoFile
      OBVIOUS
    <2>2. tool' = [pc |-> "r", tee |-> live, command |-> c, state |-> st, attest |-> 0,
                   check |-> 0, fresh |-> f, since |-> Len(registry.sent), outcome |-> "none"]
      BY <1>3, <2>1 DEF StartStep, IdleTool, TeeProxyId, NoId
    <2>. QED
      BY <1>0, <1>4, <1>5, <2>1, <2>2, RegistrationAssumption DEF Tools, Tees
  <1>7. ~Running /\ Running' /\ Newest' = live /\ Newest = live
    BY <1>6 DEF StartStep, Running, Newest
  <1>8. RegShape'
    <2>1. receipt' \in [state : {"none", "pending", "mined", "reverted"}, id : Ids'] /\ 0 \in Ids'
      BY <1>0, <1>1, SentElements DEF Ids, NoReceipt, NoId
    <2>2. (Len(mempool) <= faults + (IF receipt = Pending THEN 1 ELSE 0))'
      <3>1. Len(mempool) <= faults /\ faults \in Nat /\ Len(mempool) \in Nat
        BY <1>0, <1>1, NotWaiting
      <3>2. faults' \in Nat /\ faults <= faults'
        BY DEF StartStep
      <3>. QED
        BY <1>1, <3>1, <3>2
    <2>3. /\ tool'.tee \in 1 .. live' /\ tool'.command \in Commands
          /\ tool'.state.content = "json" /\ tool'.since <= Len(registry'.sent)
      <3>1. live \in 1 .. live
        BY <1>0, TeesAreNumbers
      <3>2. Len(registry.sent) <= Len(registry.sent)
        BY <1>5
      <3>. QED
        BY <1>1, <1>4, <1>6, <3>1, <3>2 DEF StartStep
    <2>4. faults' \in Nat
      BY DEF StartStep
    <2>. QED
      BY <1>0, <1>1, <1>2, <1>6, <2>1, <2>2, <2>3, <2>4 DEF RegShape
  <1>9. RegBound'
    BY <1>1, <1>7 DEF RegInv, RegBound
  <1>10. RegFile'
    <2>1. file' = file \/ file'.completedSteps = {}
      BY DEF StartStep, NoFile
    <2>. QED
      BY <1>1, <2>1 DEF RegInv, RegFile, Matches
  <1>11. RegLink'
    BY <1>1 DEF RegLink
  <1>12. RegRun'
    <2>1. Matches(st, registry.sent, Known)
      BY <1>1, <1>4, <1>10 DEF RegFile, Matches
    <2>2. st.completedSteps # {} => registry.sent[st.teeAttestInstructionID].tee <= live
      BY <1>7, <2>1 DEF Matches, RegInv, RegBound
    <2>. QED
      BY <1>1, <1>4, <1>6, <2>1, <2>2 DEF RegRun, NoId
  <1>13. RegFresh'
    <2>1. file' = NoFile => st.completedSteps = {}
      BY <1>4 DEF NoFile
    <2>. QED
      BY <1>6, <2>1 DEF RegFresh, NoId
  <1>. QED
    BY <1>8, <1>9, <1>10, <1>11, <1>12, <1>13 DEF RegInv

\* A launch begins a run or fails.
LEMMA LaunchingStep ==
  ASSUME RegInv, LaunchSome
  PROVE  RegInv'
  <1>0. RegShape
    BY DEF RegInv
  <1>1. PICK c \in Commands, resume \in Resumes : Launch(c, resume)
    BY DEF LaunchSome
  <1>2. PICK removed \in BOOLEAN, reached \in BOOLEAN :
          /\ Costs((~resume /\ ~removed) \/ ~reached)
          /\ file' = IF removed THEN NoFile ELSE file
          /\ tool' = IF ~reached \/ file'.content = "corrupt" THEN IdleTool("error")
                     ELSE [IdleTool("none") EXCEPT
                             !.pc = "r", !.tee = TeeProxyId, !.command = c,
                             !.state = loadState(file'),
                             !.fresh = file' = NoFile, !.since = Len(registry.sent)]
    BY <1>1 DEF Launch
  <1>3. tool.pc = "idle" /\ UNCHANGED <<live, lag, registry, mempool, receipt>>
    BY <1>1 DEF Launch
  <1>4. faults' \in Nat /\ faults <= faults'
    BY <1>0, <1>2, NotWaiting DEF Costs
  <1>5. file' \in {file, NoFile}
    BY <1>2
  <1>6. CASE ~reached \/ file'.content = "corrupt"
    <2>1. receipt = NoReceipt /\ receipt # Pending
      BY <1>0, <1>3, NotWaiting DEF NoReceipt, Pending
    <2>2. Len(mempool) <= faults'
      BY <1>0, <1>4, <2>1, NotWaiting
    <2>3. EndStep("error")
      BY <1>2, <1>3, <1>4, <1>5, <1>6, <2>1, <2>2 DEF EndStep
    <2>. QED
      BY <2>3, EndKeepsInv
  <1>7. CASE ~(~reached \/ file'.content = "corrupt")
    <2>1. StartStep(c)
      BY <1>2, <1>3, <1>4, <1>5, <1>7 DEF StartStep
    <2>. QED
      BY <2>1, StartKeepsInv
  <1>. QED
    BY <1>6, <1>7

-----------------------------------------------------------------------------
(* The theorems                                                            *)

\* The invariant holds at first.
LEMMA InitEstablishesInv ==
  ASSUME RegInit
  PROVE  RegInv
  <1>1. /\ tool = IdleTool("none") /\ file = NoFile /\ receipt = NoReceipt /\ mempool = <<>>
        /\ registry = EmptyRegistry /\ live = 1 /\ lag = 0 /\ faults = 0
    BY DEF RegInit
  <1>2. /\ tool \in Tools /\ ~Running /\ tool.pc = "idle" /\ tool.attest = 0 /\ tool.check = 0
    BY <1>1, RegistrationAssumption
    DEF IdleTool, Tools, Running, loadState, NoFile, NoId, FileStates, Letters
  <1>3. file \in FileStates /\ file \in {NoFile, CorruptFile} /\ file.completedSteps = {}
    BY <1>1 DEF NoFile, FileStates, NoId
  <1>4. /\ registry \in Registries /\ registry.sent = <<>> /\ registry.open = {}
        /\ registry.proven = {} /\ \A t \in Tees : registry.status[t] = "None"
    BY <1>1 DEF EmptyRegistry, Registries, Statuses
  <1>5. receipt \in [state : {"none", "pending", "mined", "reverted"}, id : Ids] /\ 0 \in Ids
    BY <1>1, <1>4 DEF Ids, NoReceipt, NoId
  <1>6. receipt.state = "none" /\ receipt # Pending
    BY <1>1 DEF NoReceipt, Pending
  <1>7. live \in Tees /\ lag \in -1 .. 1 /\ faults \in Nat
    BY <1>1, RegistrationAssumption DEF Tees
  <1>8. mempool \in Seq(Txs) /\ Len(mempool) <= faults + (IF receipt = Pending THEN 1 ELSE 0)
    BY <1>1
  <1>9. RegShape
    BY <1>1, <1>2, <1>3, <1>4, <1>5, <1>6, <1>7, <1>8 DEF RegShape
  <1>10. RegBound
    <2>1. Known = {}
      BY <1>1, <1>4 DEF Known
    <2>. QED
      BY <1>1, <1>4, <2>1 DEF RegBound
  <1>11. RegFile /\ RegLink /\ RegRun /\ RegFresh
    BY <1>2, <1>3, <1>6 DEF RegFile, Matches, RegLink, RegRun, RegFresh
  <1>. QED
    BY <1>9, <1>10, <1>11 DEF RegInv

\* Every step keeps the invariant.
LEMMA NextKeepsInv ==
  ASSUME RegInv, [RegNext]_regVars
  PROVE  RegInv'
  <1>1. CASE LaunchSome
    BY <1>1, LaunchingStep
  <1>2. CASE ToolStep
    <2>1. CASE SkipStep
      BY <2>1, SkippingStep
    <2>2. CASE PreRegistration \/ RequestTeeAttestation
                 \/ RequestFTDCAvailabilityCheck \/ ToProduction
      BY <2>2, SendingSteps
    <2>3. CASE CompleteStep
      BY <2>3, CompletingStep
    <2>4. CASE GetFTDCAvailabilityCheckResult
      BY <2>4, PollStep
    <2>5. CASE StepReverted \/ FinishWithoutProduction \/ ProductionMined \/ PollExhausted
      BY <2>5, EndingSteps
    <2>. QED
      BY <1>2, <2>1, <2>2, <2>3, <2>4, <2>5 DEF ToolStep
  <1>3. CASE PollExhausted \/ Interrupted
    BY <1>3, EndingSteps
  <1>4. CASE Surroundings
    BY <1>4, MineKeepsInv, SurroundingSteps DEF Surroundings
  <1>5. CASE UNCHANGED regVars
    BY <1>5, SurroundingSteps
  <1>. QED
    BY <1>1, <1>2, <1>3, <1>4, <1>5 DEF RegNext

\* The inductive invariant of register-tee.
THEOREM RegistrationInvariance == RegSpec => []RegInv
  <1>1. RegInit => RegInv
    BY InitEstablishesInv
  <1>2. RegInv /\ [RegNext]_regVars => RegInv'
    BY NextKeepsInv
  <1>. QED
    BY <1>1, <1>2, PTL DEF RegSpec

\* The registry, the state file and the process agree on what an instruction
\* and a step are, and each transaction nobody waits for is due to a fault.
THEOREM RegistrationTypeCorrect == RegSpec => []RegTypeOK
  <1>1. RegInv => RegTypeOK
    <2> SUFFICES ASSUME RegInv PROVE RegTypeOK
      OBVIOUS
    <2>1. RegShape /\ Len(mempool) <= faults + 1
      BY NotWaiting DEF RegInv
    <2>2. registry.status \in [Tees -> {"None", "Initialized", "Production", "Paused"}]
      BY <2>1 DEF RegShape, Registries, Statuses
    <2>3. receipt.state \in {"none", "pending", "mined", "reverted"} /\ receipt.id \in Ids
      BY <2>1 DEF RegShape
    <2>4. /\ file.content \in {"absent", "corrupt", "json"}
          /\ file.completedSteps \subseteq {"r", "R", "a"}
      BY <2>1 DEF RegShape, FileStates
    <2>5. tool.pc \in {"idle", "r", "R", "a", "poll", "p"}
      BY <2>1 DEF RegShape, Tools
    <2>. QED
      BY <2>1, <2>2, <2>3, <2>4, <2>5 DEF RegTypeOK, RegShape
  <1>. QED
    BY <1>1, RegistrationInvariance, PTL

\* The state file never claims more than the chain shows, whatever is killed,
\* lost, late or resumed.
THEOREM FileAgreesWithChain == RegSpec => []FileMatchesChain
  <1>1. RegInv => FileMatchesChain
    BY DEF RegInv, RegFile, Matches, FileMatchesChain
  <1>. QED
    BY <1>1, RegistrationInvariance, PTL

\* A run that began without a state file checks availability with a challenge
\* that it requested itself, for its own machine.
THEOREM FreshRunsAreSelfContained == RegSpec => []FreshRunUsesOwnChallenge
  <1>1. RegInv => FreshRunUsesOwnChallenge
    BY DEF RegInv, RegFresh, Running, FreshRunUsesOwnChallenge
  <1>. QED
    BY <1>1, RegistrationInvariance, PTL

\* Only the end of a run reports anything.
LEMMA ReportsAtTheEnd ==
  ASSUME RegInv, RegNext, ReportsProduction
  PROVE  ProductionMined
  <1>0. tool.outcome = "none" /\ tool \in Tools /\ tool'.outcome = "ok" /\ tool.pc # "idle"
    BY DEF RegInv, RegShape, Running, ReportsProduction
  <1>1. tool' # tool /\ \A o : tool' = IdleTool(o) => o = "ok"
    BY <1>0 DEF IdleTool
  <1>2. ~LaunchSome
    BY <1>0 DEF LaunchSome, Launch
  <1>3. ~Surroundings /\ ~Interrupted /\ ~PollExhausted /\ ~StepReverted
    BY <1>1 DEF Surroundings, Mine, Rotate, NewRewardEpoch, NewSigningPolicy, ProveSome, Prove,
                ExpireChallenge, Interrupted, PollExhausted, StepReverted
  <1>5. ~SkipStep /\ ~CompleteStep /\ ~GetFTDCAvailabilityCheckResult
    BY <1>0 DEF Tools, SkipStep, CompleteStep, GetFTDCAvailabilityCheckResult
  <1>6. ASSUME NEW tx PROVE ~Send(tx)
    BY <1>1 DEF Send
  <1>7. ~PreRegistration /\ ~RequestTeeAttestation /\ ~ToProduction
    BY <1>6 DEF PreRegistration, RequestTeeAttestation, ToProduction
  <1>8. ~RequestFTDCAvailabilityCheck
    BY <1>1, <1>6 DEF RequestFTDCAvailabilityCheck
  <1>9. ~FinishWithoutProduction
    BY DEF FinishWithoutProduction, ReportsProduction
  <1>. QED
    BY <1>2, <1>3, <1>5, <1>7, <1>8, <1>9 DEF RegNext, ToolStep

\* When a run that began without a state file reports success, the machine it
\* names is in production.
THEOREM FreshRunsPromoteTheirMachine == RegSpec => FreshRunPromotesItsMachine
  <1>1. ASSUME RegInv, [RegNext]_regVars
        PROVE  [ReportsProduction /\ tool.fresh => tool.tee \in Active]_regVars
    <2>1. SUFFICES ASSUME RegNext, ReportsProduction, tool.fresh PROVE tool.tee \in Active
      BY <1>1
    <2>2. ProductionMined
      BY <1>1, <2>1, ReportsAtTheEnd
    <2>3. /\ Running /\ RegShape /\ tool.pc = "p"
          /\ registry.status[registry.sent[tool.check].tee] = "Production"
          /\ tool.check \in DOMAIN registry.sent
      BY <1>1, <2>2 DEF ProductionMined, RegInv, RegLink, OwnReceipt, RegRun, RegShape, Running
    <2>4. tool.check # NoId
      BY <2>3, SentElements DEF NoId
    <2>5. registry.sent[tool.check].tee = tool.tee
      BY <1>1, <2>1, <2>3, <2>4 DEF RegInv, RegFresh
    <2>6. tool.tee \in Tees
      BY <2>3, RunHasMachine
    <2>. QED
      BY <2>3, <2>5, <2>6 DEF Active
  <1>. QED
    BY <1>1, RegistrationInvariance, PTL DEF RegSpec, FreshRunPromotesItsMachine

-----------------------------------------------------------------------------
(* The refresh job                                                         *)

\* As long as nothing was interrupted.
Untroubled == RefreshShape /\ OneAtATime /\ RenewalHarmless /\ StaleListed

\* A fault ends that.
LEMMA UntroubledCosts ==
  ASSUME faults \in Nat, NEW fault \in BOOLEAN, Costs(fault)
  PROVE  faults' \in Nat /\ (faults' = 0 => faults = 0 /\ ~fault)
  BY RegistrationAssumption DEF Costs

\* Nobody waits, so nothing is under way.
LEMMA NothingUnderWay ==
  ASSUME OneAtATime, receipt # Pending
  PROVE  mempool = <<>>
  BY DEF OneAtATime

\* The fields of the registry and of the process.
LEMMA RefreshFields ==
  /\ DOMAIN EmptyRegistry = {"status", "sent", "open", "proven"}
  /\ \A o : /\ DOMAIN IdleTool(o) = {"pc", "tee", "command", "state", "attest", "check", "fresh",
                                      "since", "outcome"}
            /\ IdleTool(o).pc = "idle" /\ IdleTool(o).outcome = o
  /\ NoReceipt # Pending /\ NoReceipt.state = "none" /\ Pending.state = "pending"
  BY DEF EmptyRegistry, IdleTool, NoReceipt, Pending

\* Steps of register-tee: it ends, sends, or goes on, with nothing else
\* under way.
ToolMoves ==
  /\ UNCHANGED <<live, registry, script>>
  /\ tool.pc # "idle" /\ mempool = <<>> /\ DOMAIN tool' = DOMAIN IdleTool("none")
  /\ \/ tool'.pc = "idle" /\ mempool' = <<>> /\ receipt' = NoReceipt
     \/ /\ tool' = tool /\ tool.pc \in {"r", "R", "a", "p"} /\ receipt' = Pending
        /\ \E tx : /\ mempool' = <<tx>>
                   /\ tx.op \in {"register", "attest", "check", "produce"}
                   /\ tx.op = "produce" => tool.pc = "p"
     \/ /\ tool'.pc \in {"R", "a", "poll", "p"} /\ tool'.command = tool.command
        /\ tool'.pc = "p" => "p" \in tool.command
        /\ mempool' = <<>> /\ receipt' = NoReceipt

\* They change no status, and a renewal never comes to the production step.
LEMMA ToolMovesUntroubled ==
  ASSUME Untroubled, ToolMoves
  PROVE  Untroubled'
  <1>1. script.pc \in {"renewing", "registering"} /\ UNCHANGED <<live, registry, script>>
    BY DEF ToolMoves, Untroubled, OneAtATime
  <1>2. Active' = Active
    BY <1>1 DEF Active
  <1>3. RefreshShape'
    BY <1>1 DEF Untroubled, RefreshShape, ToolMoves, ScriptRecords, EmptyRegistry, IdleTool, loadState, NoFile
  <1>4. "p" \notin RenewOnly
    BY DEF RenewOnly
  <1>5. CASE mempool' = <<>> /\ receipt' = NoReceipt
    <2>1. OneAtATime'
      BY <1>1, <1>5 DEF OneAtATime
    <2>2. RenewalHarmless'
      BY <1>1, <1>2, <1>4, <1>5 DEF RenewalHarmless, Untroubled, ToolMoves, RenewOnly
    <2>3. StaleListed'
      BY <1>1 DEF StaleListed
    <2>. QED
      BY <1>3, <2>1, <2>2, <2>3 DEF Untroubled
  <1>6. ASSUME NEW tx, mempool' = <<tx>>, tx.op \in {"register", "attest", "check", "produce"},
               tx.op = "produce" => tool.pc = "p",
               tool' = tool, tool.pc \in {"r", "R", "a", "p"}, receipt' = Pending
        PROVE  Untroubled'
    <2>1. mempool'[1] = tx /\ mempool' = <<mempool'[1]>>
      BY <1>6
    <2>2. OneAtATime'
      BY <1>1, <1>6, <2>1 DEF OneAtATime, Pending
    <2>3. RenewalHarmless'
      BY <1>1, <1>2, <1>6, <2>1 DEF RenewalHarmless, Untroubled, RenewOnly
    <2>4. StaleListed'
      BY <1>1 DEF StaleListed
    <2>. QED
      BY <1>3, <2>2, <2>3, <2>4 DEF Untroubled
  <1>. QED
    BY <1>5, <1>6 DEF ToolMoves

\* Sending, where that is a step of the run.
LEMMA SendMoves ==
  ASSUME Untroubled, UNCHANGED <<live, registry, script>>, NEW tx, Send(tx), receipt = NoReceipt,
         tool.pc \in {"r", "R", "a", "p"},
         tx.op \in {"register", "attest", "check", "produce"}, tx.op = "produce" => tool.pc = "p"
  PROVE  ToolMoves
  <1>1. mempool = <<>> /\ DOMAIN tool = DOMAIN IdleTool("none")
    BY NothingUnderWay, RefreshFields DEF Untroubled, RefreshShape
  <1>2. CASE Accepts(tx)
    <2>1. mempool' = Append(mempool, tx) /\ receipt' = Pending /\ tool' = tool
      BY <1>2 DEF Send
    <2>2. mempool' = <<tx>>
      BY <1>1, <2>1
    <2>. QED
      BY <1>1, <2>1, <2>2 DEF ToolMoves
  <1>3. CASE ~Accepts(tx)
    <2>1. tool' = IdleTool("error") /\ mempool' = <<>> /\ receipt' = NoReceipt
      BY <1>1, <1>3 DEF Send
    <2>. QED
      BY <1>1, <2>1, RefreshFields DEF ToolMoves
  <1>. QED
    BY <1>2, <1>3

\* The step letter follows another.
LEMMA AfterStep ==
  /\ \A s \in {"r", "R", "a"} : After(s) \in {"R", "a", "poll"}
  /\ After("poll") = "p"
  BY DEF After

\* Every step of register-tee moves so.
LEMMA ToolStepMoves ==
  ASSUME Untroubled, ToolStep \/ PollExhausted, UNCHANGED script
  PROVE  ToolMoves
  <1>1. /\ DOMAIN tool = DOMAIN IdleTool("none") /\ OneAtATime
        /\ tool.pc = "poll" => receipt = NoReceipt
    BY DEF Untroubled, RefreshShape, OneAtATime
  <1>2. CASE SkipStep \/ GetFTDCAvailabilityCheckResult
    <2>1. /\ tool.pc # "idle" /\ receipt = NoReceipt
          /\ UNCHANGED <<live, registry, mempool, receipt>>
      BY <1>1, <1>2 DEF SkipStep, GetFTDCAvailabilityCheckResult
    <2>2. mempool = <<>>
      BY <1>1, <2>1, NothingUnderWay, RefreshFields
    <2>3. /\ DOMAIN tool' = DOMAIN tool /\ tool'.command = tool.command
          /\ tool'.pc \in {"R", "a", "poll", "p"}
          /\ tool'.pc = "p" => "p" \in tool.command
      <3>1. CASE SkipStep
        <4>1. PICK x, y : tool' = [tool EXCEPT !.pc = After(tool.pc), !.attest = x, !.check = y]
          BY <3>1, Zenon DEF SkipStep
        <4>2. After(tool.pc) \in {"R", "a", "poll"}
          BY <3>1, AfterStep DEF SkipStep
        <4>. QED
          BY <1>1, <4>1, <4>2, RefreshFields
      <3>2. CASE GetFTDCAvailabilityCheckResult
        <4>1. tool' = [tool EXCEPT !.pc = "p"] /\ "p" \in tool.command
          BY <3>2, AfterStep DEF GetFTDCAvailabilityCheckResult
        <4>. QED
          BY <1>1, <4>1, RefreshFields
      <3>. QED
        BY <1>2, <3>1, <3>2
    <2>. QED
      BY <1>1, <2>1, <2>2, <2>3 DEF ToolMoves
  <1>3. CASE CompleteStep
    <2>1. /\ tool.pc \in {"r", "R", "a"} /\ receipt.state = "mined" /\ receipt' = NoReceipt
          /\ UNCHANGED <<live, registry, mempool>>
      BY <1>3 DEF CompleteStep
    <2>2. mempool = <<>>
      BY <1>1, <2>1, NothingUnderWay, RefreshFields
    <2>3. /\ DOMAIN tool' = DOMAIN tool /\ tool'.command = tool.command
          /\ tool'.pc \in {"R", "a", "poll"}
      BY <1>1, <1>3, AfterStep, RefreshFields DEF CompleteStep
    <2>. QED
      BY <1>1, <2>1, <2>2, <2>3 DEF ToolMoves
  <1>4. CASE PreRegistration \/ RequestTeeAttestation \/ ToProduction
    <2>1. PICK tx : /\ Send(tx) /\ tx.op \in {"register", "attest", "check", "produce"}
                    /\ tx.op = "produce" => tool.pc = "p"
      <3>1. \A op, t : Tx(op, t, NoId).op = op
        BY DEF Tx
      <3>2. CASE PreRegistration
        <4>1. PICK op \in {"attest", "register"} : Send(Tx(op, tool.tee, NoId))
          BY <3>2 DEF PreRegistration
        <4>. QED
          BY <3>1, <4>1
      <3>3. CASE RequestTeeAttestation
        BY <3>1, <3>3 DEF RequestTeeAttestation
      <3>4. CASE ToProduction
        BY <3>1, <3>4 DEF ToProduction
      <3>. QED
        BY <1>4, <3>2, <3>3, <3>4
    <2>2. /\ receipt = NoReceipt /\ tool.pc \in {"r", "R", "a", "p"} /\ UNCHANGED <<live, registry, script>>
      BY <1>4 DEF PreRegistration, RequestTeeAttestation, ToProduction, ToDo
    <2>. QED
      BY <2>1, <2>2, SendMoves
  <1>5. CASE RequestFTDCAvailabilityCheck
    <2>1. receipt = NoReceipt /\ tool.pc = "a" /\ UNCHANGED <<live, registry, script>>
      BY <1>5 DEF RequestFTDCAvailabilityCheck, ToDo
    <2>2. CASE Send(Tx("check", tool.tee, tool.attest))
      <3>1. Tx("check", tool.tee, tool.attest).op = "check"
        BY DEF Tx
      <3>. QED
        BY <2>1, <2>2, <3>1, SendMoves
    <2>3. CASE tool' = IdleTool("error") /\ UNCHANGED <<mempool, receipt>>
      <3>1. mempool = <<>>
        BY <1>1, <2>1, NothingUnderWay, RefreshFields
      <3>. QED
        BY <2>1, <2>3, <3>1, RefreshFields DEF ToolMoves
    <2>. QED
      BY <1>5, <2>2, <2>3 DEF RequestFTDCAvailabilityCheck
  <1>6. CASE StepReverted \/ ProductionMined \/ FinishWithoutProduction \/ PollExhausted
    <2>1. /\ tool.pc # "idle" /\ receipt # Pending /\ receipt' = NoReceipt
          /\ UNCHANGED <<live, registry, mempool, script>>
      BY <1>1, <1>6, RefreshFields DEF StepReverted, ProductionMined, FinishWithoutProduction, PollExhausted
    <2>2. mempool = <<>>
      BY <1>1, <2>1, NothingUnderWay
    <2>3. \E o : tool' = IdleTool(o)
      BY <1>6 DEF StepReverted, ProductionMined, FinishWithoutProduction, PollExhausted, Finish
    <2>4. tool'.pc = "idle" /\ DOMAIN tool' = DOMAIN IdleTool("none")
      BY <2>3, RefreshFields
    <2>. QED
      BY <2>1, <2>2, <2>4 DEF ToolMoves
  <1>. QED
    BY <1>2, <1>3, <1>4, <1>5, <1>6 DEF ToolStep
\* The same registry shows the same machines, and a list of them is one of
\* the script's.
LEMMA ActiveIsStatus ==
  /\ registry'.status = registry.status => Active' = Active
  /\ Active \subseteq Tees
  BY DEF Active

\* Between two waits of the script, and outside its pauses, nothing is under way.
LEMMA QuietScript ==
  ASSUME Untroubled, tool.pc = "idle", script.pc # "retire" \/ receipt = NoReceipt
  PROVE  receipt = NoReceipt /\ mempool = <<>>
  <1>1. receipt = NoReceipt
    BY DEF Untroubled, OneAtATime
  <1>. QED
    BY <1>1, NothingUnderWay, RefreshFields DEF Untroubled

\* Steps of the script that neither send nor launch: nothing is under way, and
\* what the next state relies on has just been read.
ScriptMoves ==
  /\ UNCHANGED <<live, registry, mempool, tool>>
  /\ tool.pc = "idle" /\ mempool = <<>> /\ receipt' = NoReceipt
  /\ script' \in ScriptRecords /\ (script'.pc # "idle" => script'.exit = "none")
  /\ script'.pc # "renewing"
  /\ script'.pc = "healthy" => Active = {script'.LIVE}
  /\ script'.pc = "retire" => Active \subseteq script'.active \cup {script'.LIVE}

LEMMA ScriptMovesUntroubled ==
  ASSUME Untroubled, ScriptMoves
  PROVE  Untroubled'
  <1>1. Active' = Active
    BY DEF Active, ScriptMoves
  <1>2. RefreshShape'
    BY DEF Untroubled, RefreshShape, ScriptMoves, ScriptRecords, EmptyRegistry, IdleTool, loadState, NoFile
  <1>3. OneAtATime'
    BY DEF ScriptMoves, OneAtATime
  <1>4. RenewalHarmless'
    BY <1>1 DEF ScriptMoves, RenewalHarmless
  <1>5. StaleListed'
    BY <1>1 DEF ScriptMoves, StaleListed
  <1>. QED
    BY <1>2, <1>3, <1>4, <1>5 DEF Untroubled

LEMMA ScriptStepMoves ==
  ASSUME Untroubled,
         ReadIdentity \/ ReadActive \/ LeaveHealthy \/ ToolReturned \/ Paused \/ Conclude
  PROVE  ScriptMoves
  <1>1. /\ script \in ScriptRecords /\ live \in Nat /\ (script.pc # "idle" => script.exit = "none")
        /\ tool.pc # "idle" => script.pc \in {"renewing", "registering"}
    BY DEF Untroubled, RefreshShape, OneAtATime
  <1>2. tool.pc = "idle" /\ UNCHANGED <<live, registry, mempool, tool>>
    BY <1>1 DEF ReadIdentity, ReadActive, LeaveHealthy, ToolReturned, Paused, Conclude, regVars
  <1>3. Active \subseteq Tees
    BY ActiveIsStatus
  <1>4. CASE ReadIdentity
    <2>1. receipt' = NoReceipt /\ mempool = <<>>
      BY <1>2, <1>4, QuietScript DEF ReadIdentity, regVars
    <2>2. script' = [pc |-> "list", LIVE |-> live, active |-> {}, exit |-> "none"]
      BY <1>4 DEF ReadIdentity, IdleScript
    <2>. QED
      BY <1>1, <1>2, <2>1, <2>2 DEF ScriptMoves, ScriptRecords
  <1>5. CASE ReadActive
    <2>1. receipt' = NoReceipt /\ mempool = <<>>
      BY <1>2, <1>5, QuietScript DEF ReadActive, regVars
    <2>. DEFINE next == IF Active = {script.LIVE} THEN "healthy"
                        ELSE IF script.LIVE \in Active THEN "retire" ELSE "register"
    <2>2. /\ script' = [script EXCEPT !.active = Active, !.pc = next]
          /\ next \in {"healthy", "retire", "register"}
          /\ next = "healthy" => Active = {script.LIVE}
      BY <1>5 DEF ReadActive, Healthy
    <2>. HIDE DEF next
    <2>3. script'.exit = "none" /\ script.pc = "list"
      BY <1>1, <1>5, <2>2 DEF ReadActive, ScriptRecords
    <2>. QED
      BY <1>1, <1>2, <1>3, <2>1, <2>2, <2>3 DEF ScriptMoves, ScriptRecords
  <1>6. CASE LeaveHealthy
    <2>1. receipt' = NoReceipt /\ mempool = <<>>
      BY <1>2, <1>6, QuietScript DEF LeaveHealthy, regVars
    <2>. QED
      BY <1>1, <1>2, <1>6, <2>1 DEF LeaveHealthy, ScriptMoves, ScriptRecords
  <1>7. CASE ToolReturned
    <2>1. receipt' = NoReceipt /\ mempool = <<>>
      BY <1>2, <1>7, QuietScript DEF ToolReturned, regVars
    <2>2. CASE script'.pc = "idle"
      BY <1>1, <1>2, <1>7, <2>1, <2>2 DEF ToolReturned, ScriptMoves, ScriptRecords
    <2>3. CASE script' = [script EXCEPT !.pc = "retire", !.active = Active] /\ script.pc = "registering"
      BY <1>1, <1>2, <1>3, <2>1, <2>3 DEF ScriptMoves, ScriptRecords
    <2>. QED
      BY <1>1, <1>7, <2>2, <2>3 DEF ToolReturned, ScriptRecords
  <1>8. CASE Paused
    <2>1. receipt' = NoReceipt /\ mempool = <<>>
      BY <1>8, NothingUnderWay, RefreshFields DEF Paused, Untroubled
    <2>2. Active \subseteq script.active \cup {script.LIVE}
      BY <1>8, <2>1 DEF Paused, Untroubled, StaleListed
    <2>. QED
      BY <1>1, <1>2, <1>8, <2>1, <2>2 DEF Paused, ScriptMoves, ScriptRecords
  <1>9. CASE Conclude
    <2>1. receipt' = NoReceipt /\ mempool = <<>>
      BY <1>2, <1>9, QuietScript DEF Conclude, regVars
    <2>. QED
      BY <1>1, <1>2, <1>9, <2>1 DEF Conclude, ScriptMoves, ScriptRecords
  <1>. QED
    BY <1>4, <1>5, <1>6, <1>7, <1>8, <1>9

\* The machine whose pause is sent leaves the list and is about to leave the
\* active ones.
LEMMA PauseUntroubled ==
  ASSUME Untroubled, PauseSome
  PROVE  Untroubled'
  <1>1. PICK t \in Stale : Pause(t)
    BY DEF PauseSome
  <1>2. /\ script \in ScriptRecords /\ script.pc = "retire" /\ script.exit = "none"
        /\ tool.pc = "idle" /\ receipt = NoReceipt
        /\ UNCHANGED <<live, registry, tool>>
    BY <1>1 DEF Untroubled, RefreshShape, OneAtATime, Pause
  <1>3. mempool = <<>> /\ Active' = Active
    BY <1>2, QuietScript DEF Active
  <1>4. Active \subseteq script.active \cup {script.LIVE}
    BY <1>2, <1>3 DEF Untroubled, StaleListed
  <1>5. CASE Accepts(Tx("pause", t, NoId))
    <2>1. /\ mempool' = <<Tx("pause", t, NoId)>> /\ receipt' = Pending
          /\ script' = [script EXCEPT !.active = @ \ {t}]
      BY <1>1, <1>3, <1>5 DEF Pause
    <2>2. Tx("pause", t, NoId).op = "pause" /\ Tx("pause", t, NoId).tee = t
      BY DEF Tx
    <2>3. /\ script' \in ScriptRecords /\ script'.pc = "retire" /\ script'.exit = "none"
          /\ script'.LIVE = script.LIVE /\ script'.active = script.active \ {t}
      BY <1>2, <2>1 DEF ScriptRecords
    <2>4. mempool' # <<>> /\ mempool'[1] = Tx("pause", t, NoId) /\ mempool' = <<mempool'[1]>>
      BY <2>1
    <2>5. RefreshShape'
      BY <1>2, <2>3 DEF Untroubled, RefreshShape, EmptyRegistry, IdleTool, loadState, NoFile
    <2>6. OneAtATime'
      BY <1>2, <2>1, <2>2, <2>3, <2>4 DEF OneAtATime, Pending
    <2>7. RenewalHarmless'
      BY <2>3 DEF RenewalHarmless
    <2>8. StaleListed'
      BY <1>3, <1>4, <2>2, <2>3, <2>4 DEF StaleListed
    <2>. QED
      BY <2>5, <2>6, <2>7, <2>8 DEF Untroubled
  <1>6. CASE ~Accepts(Tx("pause", t, NoId))
    <2>1. /\ mempool' = <<>> /\ receipt' = NoReceipt /\ UNCHANGED mempool
          /\ script' = [script EXCEPT !.pc = "idle", !.exit = "failed"]
      BY <1>1, <1>2, <1>3, <1>6 DEF Pause
    <2>2. ScriptMoves
      BY <1>2, <1>3, <2>1 DEF ScriptMoves, ScriptRecords
    <2>. QED
      BY <2>2, ScriptMovesUntroubled
  <1>. QED
    BY <1>5, <1>6
\* register-tee starts with the command it is given, or fails at once.
LEMMA LaunchUntroubled ==
  ASSUME Untroubled, NEW c, Launch(c, FALSE), NEW pc, script' = [script EXCEPT !.pc = pc],
         \/ script.pc = "healthy" /\ pc = "renewing" /\ c = RenewOnly
         \/ script.pc = "register" /\ pc = "registering"
  PROVE  Untroubled'
  <1>1. tool.pc = "idle" /\ UNCHANGED <<live, registry, mempool, receipt>>
    BY DEF Launch
  <1>2. receipt' = NoReceipt /\ mempool' = <<>>
    BY <1>1, QuietScript
  <1>3. /\ script \in ScriptRecords /\ script.exit = "none"
        /\ pc \in {"renewing", "registering"}
    BY DEF Untroubled, RefreshShape
  <1>4. script' \in ScriptRecords /\ script'.pc = pc /\ script'.exit = "none" /\ script'.LIVE = script.LIVE
    BY <1>3 DEF ScriptRecords
  <1>5. /\ DOMAIN tool' = DOMAIN IdleTool("none")
        /\ tool'.pc # "idle" => tool'.pc = "r" /\ tool'.command = c
    <2>. DEFINE started == [IdleTool("none") EXCEPT
                              !.pc = "r", !.tee = TeeProxyId, !.command = c,
                              !.state = loadState(file'),
                              !.fresh = file' = NoFile, !.since = Len(registry.sent)]
    <2>1. tool' \in {IdleTool("error"), started}
      BY DEF Launch
    <2>2. DOMAIN started = DOMAIN IdleTool("none") /\ started.pc = "r" /\ started.command = c
      BY RefreshFields
    <2>. HIDE DEF started
    <2>. QED
      BY <2>1, <2>2, RefreshFields
  <1>6. Active' = Active
    BY <1>1 DEF Active
  <1>7. RefreshShape'
    BY <1>1, <1>4, <1>5 DEF Untroubled, RefreshShape, EmptyRegistry, IdleTool, loadState, NoFile
  <1>8. OneAtATime'
    BY <1>2, <1>3, <1>4 DEF OneAtATime
  <1>9. RenewalHarmless'
    BY <1>2, <1>4, <1>5, <1>6 DEF RenewalHarmless, Untroubled
  <1>10. StaleListed'
    BY <1>3, <1>4 DEF StaleListed
  <1>. QED
    BY <1>7, <1>8, <1>9, <1>10 DEF Untroubled

\* What mining a transaction does to the machines' statuses: a pause leaves its
\* machine inactive even if it reverts; instructions change no active machine.
LEMMA MinedStatus ==
  ASSUME DOMAIN registry = DOMAIN EmptyRegistry, registry.status \in [Tees -> Statuses],
         NEW tx, tx.op \in {"register", "attest", "check", "produce", "pause"},
         registry' = IF Accepts(tx) THEN Applied(tx) ELSE registry
  PROVE  /\ DOMAIN registry' = DOMAIN registry /\ registry'.status \in [Tees -> Statuses]
         /\ tx.op = "pause" => Active' = Active \ {tx.tee}
         /\ tx.op \in {"register", "attest", "check"} => Active' = Active
  <1>1. CASE ~Accepts(tx)
    <2>1. registry' = registry /\ Active' = Active
      BY <1>1 DEF Active
    <2>2. tx.op = "pause" => tx.tee \notin Active
      BY <1>1 DEF Accepts, Active
    <2>. QED
      BY <2>1, <2>2
  <1>2. CASE Accepts(tx)
    <2>1. registry' = Applied(tx)
      BY <1>2
    <2>. DEFINE Set(s) == [registry.status EXCEPT ![tx.tee] = s]
    <2>2. CASE tx.op = "register"
      <3>1. PICK x, y : registry' = [registry EXCEPT !.status[tx.tee] = "Initialized", !.sent = x, !.open = y]
        BY <2>1, <2>2, Zenon DEF Applied
      <3>2. DOMAIN registry' = DOMAIN registry /\ registry'.status = Set("Initialized")
        BY <3>1, RefreshFields
      <3>3. registry.status[tx.tee] = "None"
        BY <1>2, <2>2 DEF Accepts
      <3>. QED
        BY <2>2, <3>2, <3>3 DEF Active, Statuses
    <2>3. CASE tx.op \in {"attest", "check"}
      <3>1. PICK x, y : registry' = [registry EXCEPT !.sent = x, !.open = y]
        BY <2>1, <2>3 DEF Applied
      <3>2. DOMAIN registry' = DOMAIN registry /\ registry'.status = registry.status
        BY <3>1, RefreshFields
      <3>. QED
        BY <2>3, <3>2 DEF Active
    <2>4. CASE tx.op = "produce"
      <3>1. registry' = [registry EXCEPT !.status[tx.tee] = "Production"]
        BY <2>1, <2>4 DEF Applied
      <3>2. DOMAIN registry' = DOMAIN registry /\ registry'.status = Set("Production")
        BY <3>1, RefreshFields
      <3>. QED
        BY <2>4, <3>2 DEF Statuses
    <2>5. CASE tx.op = "pause"
      <3>1. registry' = [registry EXCEPT !.status[tx.tee] = "Paused"]
        BY <2>1, <2>5 DEF Applied
      <3>2. DOMAIN registry' = DOMAIN registry /\ registry'.status = Set("Paused")
        BY <3>1, RefreshFields
      <3>. QED
        BY <2>5, <3>2 DEF Active, Statuses
    <2>. QED
      BY <2>2, <2>3, <2>4, <2>5
  <1>. QED
    BY <1>1, <1>2

LEMMA MineUntroubled ==
  ASSUME Untroubled, Mine, UNCHANGED script
  PROVE  Untroubled'
  <1>. DEFINE tx == mempool[1]
  <1>1. /\ mempool # <<>> /\ receipt = Pending /\ mempool = <<tx>>
        /\ tx.op \in {"register", "attest", "check", "produce", "pause"}
        /\ UNCHANGED <<live, tool, script>>
    BY DEF Mine, Untroubled, OneAtATime
  <1>2. Head(mempool) = tx /\ Tail(mempool) = <<>> /\ mempool' = <<>>
    BY <1>1, SMTT(30) DEF Mine
  <1>3. registry' = IF Accepts(tx) THEN Applied(tx) ELSE registry
    BY <1>2 DEF Mine
  <1>. HIDE DEF tx
  <1>4. DOMAIN registry = DOMAIN EmptyRegistry /\ registry.status \in [Tees -> Statuses]
    BY DEF Untroubled, RefreshShape
  <1>5. /\ DOMAIN registry' = DOMAIN registry /\ registry'.status \in [Tees -> Statuses]
        /\ tx.op = "pause" => Active' = Active \ {tx.tee}
        /\ tx.op \in {"register", "attest", "check"} => Active' = Active
    BY <1>1, <1>3, <1>4, MinedStatus
  <1>6. script.pc = "retire" \/ tool.pc \in {"r", "R", "a", "p"}
    BY <1>1, RefreshFields DEF Untroubled, OneAtATime
  <1>7. script.pc \in {"renewing", "registering", "retire"}
    BY <1>6 DEF Untroubled, OneAtATime
  <1>8. RefreshShape'
    BY <1>1, <1>4, <1>5 DEF Untroubled, RefreshShape, EmptyRegistry, IdleTool, loadState, NoFile
  <1>9. OneAtATime'
    BY <1>1, <1>2, <1>6 DEF Untroubled, OneAtATime
  <1>10. RenewalHarmless'
    BY <1>1, <1>2, <1>5, <1>7 DEF Untroubled, RenewalHarmless, tx
  <1>11. StaleListed'
    BY <1>1, <1>2, <1>5 DEF Untroubled, StaleListed, tx
  <1>. QED
    BY <1>8, <1>9, <1>10, <1>11 DEF Untroubled

\* The rest changes no status and nothing that is under way.
LEMMA QuietUntroubled ==
  ASSUME Untroubled, UNCHANGED <<mempool, receipt, tool, script>>, live' \in Nat,
         DOMAIN registry' = DOMAIN registry, registry'.status = registry.status
  PROVE  Untroubled'
  <1>1. Active' = Active
    BY ActiveIsStatus
  <1>2. RefreshShape'
    BY DEF Untroubled, RefreshShape, EmptyRegistry, IdleTool, loadState, NoFile
  <1>3. OneAtATime' /\ RenewalHarmless' /\ StaleListed'
    BY <1>1 DEF Untroubled, OneAtATime, RenewalHarmless, StaleListed
  <1>. QED
    BY <1>2, <1>3 DEF Untroubled
LEMMA SurroundingsUntroubled ==
  ASSUME Untroubled, Rotate \/ NewSigningPolicy \/ ProveSome, UNCHANGED script
  PROVE  Untroubled' /\ UNCHANGED faults
  <1>1. live \in Nat /\ UNCHANGED <<mempool, receipt, tool, faults>>
    BY DEF Untroubled, RefreshShape, Rotate, NewSigningPolicy, ProveSome, Prove
  <1>2. live' \in Nat
    BY <1>1 DEF Rotate, NewSigningPolicy, ProveSome, Prove
  <1>3. DOMAIN registry' = DOMAIN registry /\ registry'.status = registry.status
    <2>1. CASE Rotate \/ NewSigningPolicy
      BY <2>1 DEF Rotate, NewSigningPolicy
    <2>2. CASE ProveSome
      <3>1. PICK x : registry' = [registry EXCEPT !.proven = x]
        BY <2>2 DEF ProveSome, Prove
      <3>. QED
        BY <3>1
    <2>. QED
      BY <2>1, <2>2
  <1>. QED
    BY <1>1, <1>2, <1>3, QuietUntroubled

\* Every step counts its faults, and those of register-tee and of the
\* surroundings that are not free end the untroubled run.
LEMMA RefreshCounts ==
  ASSUME faults \in Nat, RefreshNext \/ UNCHANGED refreshVars
  PROVE  /\ faults' \in Nat /\ (faults' = 0 => faults = 0)
         /\ Killed \/ Interrupted \/ NewRewardEpoch \/ (\E id \in registry.open : ExpireChallenge(id))
              => faults' # 0
  <1>1. ASSUME NEW fault \in BOOLEAN, Costs(fault)
        PROVE  faults' \in Nat /\ (faults' = 0 => faults = 0)
    BY <1>1, UntroubledCosts
  <1>2. Costs(TRUE) => faults' # 0
    BY UntroubledCosts
  <1>3. Killed \/ Interrupted \/ NewRewardEpoch \/ (\E id \in registry.open : ExpireChallenge(id))
          => Costs(TRUE)
    BY DEF Killed, Interrupted, NewRewardEpoch, ExpireChallenge
  <1>4. (\E fault \in BOOLEAN : Costs(fault)) \/ UNCHANGED faults
    <2>1. CASE ScriptStep \/ Renew
      <3>1. CASE Renew \/ Register
        <4>1. \E c : Launch(c, FALSE)
          BY <3>1 DEF Renew, Register, register_tee
        <4>. QED
          BY <4>1 DEF Launch
      <3>2. CASE ReadIdentity \/ ReadActive \/ LeaveHealthy \/ ToolReturned \/ Conclude
        BY <3>2 DEF ReadIdentity, ReadActive, LeaveHealthy, ToolReturned, Conclude, regVars
      <3>3. CASE PauseSome \/ Paused
        BY <3>3 DEF PauseSome, Pause, Paused
      <3>. QED
        BY <2>1, <3>1, <3>2, <3>3 DEF ScriptStep
    <2>2. CASE Killed \/ Interrupted
      BY <2>2, <1>3
    <2>3. CASE ToolStep \/ PollExhausted
      <3>1. CASE SkipStep \/ RequestTeeAttestation \/ StepReverted \/ GetFTDCAvailabilityCheckResult
                 \/ ToProduction
        BY <3>1 DEF SkipStep, RequestTeeAttestation, StepReverted, GetFTDCAvailabilityCheckResult,
             ToProduction
      <3>2. CASE PreRegistration
        BY <3>2 DEF PreRegistration
      <3>3. CASE RequestFTDCAvailabilityCheck
        BY <3>3 DEF RequestFTDCAvailabilityCheck, CheckFTDCProxyPolicyConsistency
      <3>4. CASE CompleteStep
        BY <3>4 DEF CompleteStep
      <3>5. CASE FinishWithoutProduction \/ ProductionMined
        BY <3>5 DEF FinishWithoutProduction, ProductionMined, Finish
      <3>6. CASE PollExhausted
        <4>. DEFINE provable == tool.check \in Provable
        <4>1. provable \in BOOLEAN /\ Costs(provable)
          BY <3>6 DEF PollExhausted
        <4>. HIDE DEF provable
        <4>. QED
          BY <4>1
      <3>. QED
        BY <2>3, <3>1, <3>2, <3>3, <3>4, <3>5, <3>6 DEF ToolStep
    <2>4. CASE Surroundings
      <3>1. CASE Mine \/ Rotate \/ NewSigningPolicy \/ ProveSome
        BY <3>1 DEF Mine, Rotate, NewSigningPolicy, ProveSome, Prove
      <3>2. CASE NewRewardEpoch \/ \E id \in registry.open : ExpireChallenge(id)
        BY <3>2, <1>3
      <3>. QED
        BY <2>4, <3>1, <3>2 DEF Surroundings
    <2>5. CASE UNCHANGED refreshVars
      BY <2>5 DEF refreshVars, regVars
    <2>. QED
      BY <2>1, <2>2, <2>3, <2>4, <2>5 DEF RefreshNext
  <1>. QED
    BY <1>1, <1>2, <1>3, <1>4

LEMMA UntroubledStep ==
  ASSUME Untroubled, faults \in Nat, faults' = 0, RefreshNext \/ UNCHANGED refreshVars
  PROVE  Untroubled'
  <1>1. CASE ReadIdentity \/ ReadActive \/ LeaveHealthy \/ ToolReturned \/ Paused \/ Conclude
    BY <1>1, ScriptStepMoves, ScriptMovesUntroubled
  <1>2. CASE PauseSome
    BY <1>2, PauseUntroubled
  <1>3. CASE Renew
    <2>1. /\ Launch(RenewOnly, FALSE) /\ script' = [script EXCEPT !.pc = "renewing"]
          /\ script.pc = "healthy"
      BY <1>3 DEF Renew, register_tee
    <2>. QED
      BY <2>1, LaunchUntroubled
  <1>4. CASE Register
    <2>1. /\ Launch(RegisterAll, FALSE) /\ script' = [script EXCEPT !.pc = "registering"]
          /\ script.pc = "register"
      BY <1>4 DEF Register, register_tee
    <2>. QED
      BY <2>1, LaunchUntroubled
  <1>5. CASE (ToolStep \/ PollExhausted) /\ UNCHANGED script
    BY <1>5, ToolStepMoves, ToolMovesUntroubled
  <1>6. CASE Mine /\ UNCHANGED script
    BY <1>6, MineUntroubled
  <1>7. CASE (Rotate \/ NewSigningPolicy \/ ProveSome) /\ UNCHANGED script
    BY <1>7, SurroundingsUntroubled
  <1>8. CASE Killed \/ Interrupted \/ NewRewardEpoch \/ \E id \in registry.open : ExpireChallenge(id)
    BY <1>8, RefreshCounts
  <1>9. CASE UNCHANGED refreshVars
    <2>1. UNCHANGED <<live, registry, mempool, receipt, tool, script>>
      BY <1>9 DEF refreshVars, regVars
    <2>2. live \in Nat
      BY DEF Untroubled, RefreshShape
    <2>. QED
      BY <2>1, <2>2, QuietUntroubled
  <1>. QED
    BY <1>1, <1>2, <1>3, <1>4, <1>5, <1>6, <1>7, <1>8, <1>9
    DEF RefreshNext, ScriptStep, Surroundings

\* As long as no run of register-tee or of refresh-tee.sh was interrupted, no
\* call was lost and no challenge or policy expired: script and tool have at
\* most one transaction under way and one of them waits for it; a renewal
\* (refresh-tee.sh, command ra) changes no active machine; and while the script
\* retires machines, every active one but the live one is still on its list or
\* about to be paused.
THEOREM RefreshInvariance == RefreshSpec => []RefreshInv
  <1>1. RefreshInit => RefreshInv
    <2>. SUFFICES ASSUME RefreshInit PROVE RefreshInv
      OBVIOUS
    <2>1. /\ live = 1 /\ registry = EmptyRegistry /\ mempool = <<>> /\ receipt = NoReceipt
          /\ tool = IdleTool("none") /\ faults = 0
          /\ script = [pc |-> "idle", LIVE |-> 0, active |-> {}, exit |-> "none"]
      BY DEF RefreshInit, RegInit, IdleScript, NoId
    <2>2. registry.status \in [Tees -> Statuses]
      BY <2>1 DEF EmptyRegistry, Statuses
    <2>3. RefreshShape
      BY <2>1, <2>2 DEF RefreshShape, ScriptRecords
    <2>4. OneAtATime /\ RenewalHarmless /\ StaleListed
      BY <2>1, RefreshFields DEF OneAtATime, RenewalHarmless, StaleListed
    <2>. QED
      BY <2>1, <2>3, <2>4 DEF RefreshInv
  <1>2. RefreshInv /\ [RefreshNext]_refreshVars => RefreshInv'
    BY RefreshCounts, UntroubledStep DEF RefreshInv, Untroubled
  <1>. QED
    BY <1>1, <1>2, PTL DEF RefreshSpec

\* A run of refresh-tee.sh that ends well, with nothing interrupted so far and
\* the identity it read still the live one, leaves the live machine as the only
\* one createAuction can pin: whether it found the stack healthy, renewed its
\* availability, or registered it and paused the rest; with any number of
\* machines and of restarts of tee-node.
THEOREM OnlyTheLiveRemains == RefreshSpec => OnlyLiveRemains
  <1>1. ASSUME RefreshInv, [RefreshNext]_refreshVars,
               script.pc # "idle", script'.exit = "ok", script.LIVE = live, faults = 0
        PROVE  Active' = {live}
    <2>1. /\ Untroubled /\ script \in ScriptRecords /\ script.exit = "none"
      BY <1>1 DEF RefreshInv, Untroubled, RefreshShape
    <2>2. script'.exit # script.exit
      BY <1>1, <2>1
    <2>3. CASE LeaveHealthy \/ (ToolReturned /\ script.pc = "renewing")
      <3>1. script.pc \in {"healthy", "renewing"} /\ UNCHANGED registry
        BY <2>3 DEF LeaveHealthy, ToolReturned, regVars
      <3>2. Active = {script.LIVE}
        BY <2>1, <3>1 DEF Untroubled, RenewalHarmless
      <3>. QED
        BY <1>1, <3>1, <3>2, ActiveIsStatus
    <2>4. CASE ToolReturned /\ script.pc # "renewing"
      BY <1>1, <2>1, <2>4 DEF ToolReturned, ScriptRecords
    <2>5. CASE Conclude
      <3>1. /\ script.pc = "retire" /\ receipt = NoReceipt /\ UNCHANGED registry
            /\ Stale = {} /\ script.LIVE \in Active
        BY <1>1, <2>1, <2>5 DEF Conclude, regVars, ScriptRecords
      <3>2. mempool = <<>>
        BY <2>1, <3>1, NothingUnderWay, RefreshFields DEF Untroubled
      <3>3. \A t \in Active : t = script.LIVE
        BY <2>1, <3>1, <3>2 DEF Untroubled, StaleListed, Stale
      <3>. QED
        BY <1>1, <3>1, <3>3, ActiveIsStatus
    <2>6. CASE ReadIdentity \/ ReadActive \/ Register \/ Renew
      BY <1>1, <2>1, <2>2, <2>6
      DEF ReadIdentity, ReadActive, Register, Renew, ScriptRecords
    <2>7. CASE PauseSome \/ Paused
      BY <1>1, <2>1, <2>2, <2>7 DEF PauseSome, Pause, Paused, ScriptRecords
    <2>8. CASE Killed
      BY <1>1, <2>8 DEF Killed, IdleScript
    <2>. QED
      BY <1>1, <2>2, <2>3, <2>4, <2>5, <2>6, <2>7, <2>8 DEF RefreshNext, ScriptStep, refreshVars
  <1>2. RefreshInv /\ [RefreshNext]_refreshVars =>
          [script.pc # "idle" /\ script'.exit = "ok" /\ script.LIVE = live /\ faults = 0 =>
             Active' = {live}]_refreshVars
    BY <1>1
  <1>. QED
    BY <1>2, RefreshInvariance, PTL DEF RefreshSpec, OnlyLiveRemains
=============================================================================
