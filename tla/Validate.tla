------------------------------ MODULE Validate ------------------------------
(***************************************************************************)
(* verify-deploy (tools/pkg/validate, tools/cmd/verify-deploy): the checks *)
(* of each deployment step as functions of what they can see, and how      *)
(* their results combine into a report and an exit status.                 *)
(*                                                                         *)
(* What a run sees is a record w:                                          *)
(*   config    whether --config was given;                                 *)
(*   file      extension.env: [exists, id, sender];                        *)
(*   managerZero, hasCode   the FlareTeeManager address in use;            *)
(*   hasFunds  whether the deployer's balance is above the minimum;        *)
(*   counter   nextPublicExtensionId;                                      *)
(*   senderOf  extension id -> its instruction sender;                     *)
(*   machineOwners, keyTypes   ids the deployer is a machine owner of, and *)
(*             ids with the EVM key type;                                  *)
(*   down      the reads that fail in this run;                            *)
(*   vars      the environment variables.                                  *)
(* A result is its check and its status, and a report the set of its       *)
(* results: names, messages and fixes are texts, and nothing depends on    *)
(* the order in which they are printed.  The client, the key and the       *)
(* bindings are never nil here, since main exits when it cannot build them.*)
(***************************************************************************)
EXTENDS Naturals, FiniteSets

CONSTANTS
  Unset,      \* a variable that is empty or absent
  Malformed   \* a value that does not have the required format

Steps == {"deploy", "register", "services", "tee-version", "tee-machine", "test", "all"}
stepsNeedingChain == {"deploy", "register", "all"}

Check(id, status) == {[id |-> id, status |-> status]}
PassOr(otherwise, condition) == IF condition THEN "PASS" ELSE otherwise
When(condition, results) == IF condition THEN results ELSE {}
Answers(w, read) == read \notin w.down
WellFormed(value) == value \notin {Unset, Malformed}
LocalMode(w) == w.vars.LOCAL_MODE \in {"true", ""}

\* Missing file: empty strings and no error.
parseExtensionEnv(w) ==
  IF w.file.exists THEN [id |-> w.file.id, sender |-> w.file.sender]
  ELSE [id |-> Unset, sender |-> Unset]

-----------------------------------------------------------------------------
(* Step 1, contract deployment.                                            *)

AddressNotZero(w) == ~w.managerZero
AddressHasCode(w) == Answers(w, "code") /\ w.hasCode
KeyHasFunds(w) == Answers(w, "balance") /\ w.hasFunds

CheckDeployerKeySource(w) ==
  Check("D5", PassOr("WARN", w.vars.DEPLOYMENT_PRIVATE_KEY \/ LocalMode(w)))

checkChainID(w) == Check("D6", PassOr("FAIL", Answers(w, "chainId")))

CheckExtensionEnvFormat(w) ==
  IF ~w.file.exists THEN Check("D7", "SKIP")
  ELSE Check("D7", PassOr("FAIL", WellFormed(w.file.sender)))
         \cup Check("D7", PassOr("FAIL", WellFormed(w.file.id)))

RegisterDeployChecks(w) ==
  Check("D3", PassOr("FAIL", AddressNotZero(w)))
    \cup When(AddressNotZero(w), Check("D1", PassOr("FAIL", AddressHasCode(w))))
    \cup CheckDeployerKeySource(w)
    \cup Check("D5", PassOr("FAIL", KeyHasFunds(w)))
    \cup checkChainID(w)
    \cup When(w.config, CheckExtensionEnvFormat(w))

-----------------------------------------------------------------------------
(* Step 2, extension registration.  sender, id: as parsed.                 *)

NextIdCheck(w) ==
  Check("R1", IF ~Answers(w, "counter") THEN "FAIL" ELSE PassOr("WARN", w.counter > 0))

SenderCheck(w, id, sender) ==
  When(WellFormed(sender),
       Check("R2", PassOr("FAIL", Answers(w, "sender") /\ w.senderOf[id] = sender)))

\* Faulty variant: a failed query is only worth a warning.
OwnerCheckLenient(w, id) ==
  Check("R3", IF ~Answers(w, "owner") THEN "WARN" ELSE PassOr("FAIL", id \in w.machineOwners))

OwnerCheck(w, id) ==
  Check("R3", PassOr("FAIL", Answers(w, "owner") /\ id \in w.machineOwners))

KeyTypeCheck(w, id) ==
  Check("R4", PassOr("FAIL", Answers(w, "keyType") /\ id \in w.keyTypes))

\* Faulty variant: the last extension is not looked at.
MatchingIdsShort(w, sender) ==
  {i \in 0 .. w.counter - 2 : Answers(w, "scan") /\ w.senderOf[i] = sender}

\* Every id below the counter is queried; queries that fail are passed over.
MatchingIds(w, sender) ==
  {i \in 0 .. w.counter - 1 : Answers(w, "scan") /\ w.senderOf[i] = sender}

\* Faulty variant: an address that somebody else registered too is an error.
UniqueSenderCheckStrict(w, sender) ==
  When(Answers(w, "counter") /\ w.counter > 0 /\ WellFormed(sender),
       Check("R7", PassOr("FAIL", Cardinality(MatchingIds(w, sender)) <= 1)))

UniqueSenderCheck(w, sender) ==
  When(Answers(w, "counter") /\ w.counter > 0 /\ WellFormed(sender),
       Check("R7", PassOr("WARN", Cardinality(MatchingIds(w, sender)) <= 1)))

RegisterRegistrationChecks(w) ==
  LET env == parseExtensionEnv(w)
  IN  IF ~w.config \/ (env.id = Unset /\ env.sender = Unset) THEN Check("R1-R7", "SKIP")
      ELSE NextIdCheck(w) \cup
             IF ~WellFormed(env.id) THEN Check("R2", "FAIL")
             ELSE SenderCheck(w, env.id, env.sender)
                    \cup OwnerCheck(w, env.id)
                    \cup KeyTypeCheck(w, env.id)
                    \cup UniqueSenderCheck(w, env.sender)

-----------------------------------------------------------------------------
(* Steps 3 to 6: environment variables, the file and HTTP.                 *)

\* A proxy URL is Unset, or answers /info with 200, or does not.
ReachableCheck(id, url) ==
  Check(id, IF url = Unset THEN "SKIP" ELSE PassOr("WARN", url = "up"))

RegisterServicesChecks(w) ==
  Check("S2", IF ~w.config THEN "SKIP" ELSE PassOr("FAIL", WellFormed(parseExtensionEnv(w).id)))
    \cup Check("S5", PassOr("WARN", ~w.vars.portInUse))
    \cup Check("S7", "PASS")
    \cup ReachableCheck("S9", w.vars.EXT_PROXY_URL)
    \cup Check("S10", PassOr("WARN", w.vars.LOCAL_MODE # "false" \/ w.vars.PROXY_PRIVATE_KEY))

RegisterTeeVersionChecks(w) ==
  Check("V2", PassOr("WARN", \/ w.vars.EXTENSION_OWNER_KEY
                             \/ w.vars.DEPLOYMENT_PRIVATE_KEY
                             \/ LocalMode(w)))
    \cup Check("V4", IF ~w.config \/ ~w.file.exists THEN "SKIP"
                   ELSE PassOr("FAIL", WellFormed(parseExtensionEnv(w).id)))
    \cup ReachableCheck("V6", w.vars.EXT_PROXY_URL)

RegisterTeeMachineChecks(w) ==
  Check("T1", PassOr("WARN", ~(w.vars.SIMULATED_TEE /\ w.vars.LOCAL_MODE = "false")))
    \cup ReachableCheck("T5", w.vars.NORMAL_PROXY_URL)
    \cup ReachableCheck("T10", w.vars.EXT_PROXY_URL)

RegisterTestChecks(w) ==
  Check("E1", IF ~w.config \/ ~w.file.exists THEN "SKIP"
              ELSE PassOr("FAIL", WellFormed(parseExtensionEnv(w).sender)))
    \cup ReachableCheck("E3", w.vars.EXT_PROXY_URL)
    \cup Check("E6", "PASS")

-----------------------------------------------------------------------------
(* The report and the exit status.                                         *)

Report(step, w) ==
  CASE step = "deploy" -> RegisterDeployChecks(w)
    [] step = "register" -> RegisterRegistrationChecks(w)
    [] step = "services" -> RegisterServicesChecks(w)
    [] step = "tee-version" -> RegisterTeeVersionChecks(w)
    [] step = "tee-machine" -> RegisterTeeMachineChecks(w)
    [] step = "test" -> RegisterTestChecks(w)
    [] step = "all" ->
         RegisterDeployChecks(w) \cup RegisterRegistrationChecks(w) \cup RegisterServicesChecks(w)
           \cup RegisterTeeVersionChecks(w) \cup RegisterTeeMachineChecks(w) \cup RegisterTestChecks(w)

\* --checks: an empty filter keeps everything.
Filtered(report, checks) == {r \in report : checks = {} \/ r.id \in checks}

Has(report, status) == \E r \in report : r.status = status
HasFailures(report) == Has(report, "FAIL")

\* Asks for the chain id; the bindings themselves need no chain.
NewSupport(w) == Answers(w, "support")

\* Without a chain the steps that need one end before any check.
ExitsOk(step, checks, w) ==
  /\ step \in stepsNeedingChain => NewSupport(w)
  /\ ~HasFailures(Filtered(Report(step, w), checks))
=============================================================================
