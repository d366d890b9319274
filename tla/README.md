# Verification of QuietFill

TLA+ models of QuietFill, a sealed-bid auction whose lots and escrows are held
by a contract and whose bids are opened and ranked inside an enclave. The
models are checked with TLC on small instances; the safety properties of the
contract, the handlers, the server, their composition, its clients and the
registration and deployment tools are proved with TLAPS for every value of the
constants. Paths are relative to the repository.

## The system

| Component | State | Operations | Talks to |
|---|---|---|---|
| Auction contract, `contracts/InstructionSender.sol` | `auctions`, `quoteEscrow`, `nextAuctionId`, `_extensionId`, token balances | `createAuction`, `submitPrivateBid`, `requestClear`, `settleAuction`, `cancelTimedOutAuction`, `withdrawQuote`, `setExtensionId` | FCC registries (machine selection, instructions), two ERC-20 tokens |
| Extension handlers, `typescript/src/app/handlers.ts` | `auctions` (plaintext bids), `cleared` (retained results) | `handlePrivateBid`, `handleClear`, `pruneCleared` | tee-node's decrypt API |
| Extension server, `typescript/src/base/` | a promise chain | `processAction`, `processState`, `serialize` | tee-node (HTTP in, HTTP out) |
| Supervisor, `deploy/render/boot.sh` | five child processes | restart each one alone | everything in the container |
| Web client, `web/src` | view of one auction, wallet | list, bid, request clear, settle, cancel, withdraw | contract, proxy |
| End-to-end test, `tools/cmd/run-test` | where it is | plays one auction as seller and dealer | contract, tokens, proxy |
| Deployment, `scripts/pre-build.sh`, `deploy-contract`, `register-extension`, `allow-tee-version`, `set-governance` | `config/extension.env`, `.env` | deploy, register and set up an extension, whitelist a version, set the governance | FCC registries, proxy |
| Validation, `tools/cmd/verify-deploy`, `tools/pkg/validate` | none | checks of each deployment step, exit status | FCC registries, `extension.env`, environment, proxy |
| Machine registration, `tools/cmd/register-tee`, `tools/pkg/fccutils/registration.go` | state file | pre-register, attest, check availability, promote; resume | FCC registries, FTDC proxy |
| Refresh job, `scripts/refresh-tee.sh`, `.github/workflows/tee-refresh.yml` | none | renew, register, pause stale machines | proxy, register-tee, FCC registries |
| Other tooling, `tools/`, `scripts/` | none | audit, query, start, health check | FCC registries, proxy |
| Go and Python scaffolds, `go/`, `python/` | a greeting | hello-world handlers | tee-node |

What is hard about it: transactions of many accounts interleave with a clock;
instructions travel through an indexer and a proxy that lose, repeat and
reorder them; the server suspends in the middle of handling a bid; the
extension forgets everything when it restarts while the key that signs its
answers survives; relayers hold every signature ever made; a machine changes its
identity when it restarts, and the tools that register it may be killed between
any two steps, with transactions still under way; clients act on what they read
some time ago, with clocks ahead of the chain's, and stop waiting for answers
that still come. What makes each part correct:

- contract: it owns exactly what it owes; an auction is settled once, on its
  listed terms, on the pinned machine's word about its own clear request; the
  price arithmetic never blocks a settlement; everything comes back without the
  enclave;
- handlers: one standing bid per dealer whatever the order of delivery; the
  right winner; one answer per clear; no plaintext kept after it;
- server: actions take effect in arrival order, and none is left waiting;
- registration: the state file tells the truth about the chain, and what is
  promoted is the machine that was asked for;
- refresh: in the end the live machine, and no other, can be pinned;
- deployment: the configuration that a run leaves behind names an extension that
  is completely set up, whatever earlier runs and other parties left on chain;
  exit status 0 and "success" stand for something;
- clients: the test tool's verdict means what it says, and a bid whose receipt
  was shown is never displaced by an older one;
- together: nobody can bid for, displace, or settle against anybody else.

`PROJECT.json` lists the places where this could go wrong ("hazards") with the
properties aimed at each.

## Modules

| Module | Models | Notes |
|---|---|---|
| `Pricing` | `_quoteFor`, the component bound | checked 256-bit arithmetic: `ProductFits` says when it does not revert |
| `QuietFillAuction` | the contract | one transaction is one action; a revert is an action that is not enabled; machines may sign anything |
| `AtomicExchange` | what the contract promises | lots are listed and then sold or closed; only a sale changes anybody's wealth |
| `ExtensionHandlers` | both handlers, as operators from process state to outcome | no variables, so that `Extension` and `QuietFill` share them |
| `Extension` | one extension process | any instruction, any time, any number of times; decryption may fail |
| `Server` | HTTP server, promise chain, the await | implements `Extension` |
| `QuietFill` | contract and extensions together | unreliable transport, restarts, relayers |
| `Registration` | `register-tee` and the registry it drives | every step is sent, mined and recorded separately; the tool may die between any two |
| `Refresh` | `refresh-tee.sh`, composed with `Registration` | one run at a time, for ever |
| `Client` | `run-test` and the web panel, composed with `QuietFill` | both act on the contract through its actions and see the enclave only through what the proxy serves |
| `Validate` | the checks of `verify-deploy`, the report, the exit status | no variables: functions of what a run can see |
| `Deployment` | the deployment tools and scripts, and the registry they drive; runs `Validate` against it | one transaction at a time, sent, mined and confirmed separately |
| `SetLemmas` | | facts about sums and choices over sets |
| `QuietFillAuctionProofs` | | theorems of the quote and of the contract; it implements `AtomicExchange` |
| `QuietFillProofs` | | theorems of contract and enclaves together |
| `ExtensionProofs`, `ServerProofs`, `RegistrationProofs`, `DeploymentProofs`, `ClientProofs` | | theorems of these five, and of `Refresh` in `RegistrationProofs` |
| `MCAuction`, `MCExtension`, `MCServer`, `MCQuietFill`, `MCRegistration`, `MCRefresh`, `MCClient`, `MCDeployment` | | instances for TLC |

State and actions keep the source's names. Some abstractions to know about:

- *Time.* `now` is `block.timestamp` and may stay the same between
  transactions. In `QuietFill` the extension reads the same clock.
- *Tokens* are balances; a transfer happens if the sender has the amount and
  the token does not refuse the recipient (`Blocked`). Allowances are the
  caller's business: lacking one is one more way to revert.
- *Signatures.* A signature is the pair of signer and what was signed; a digest
  is the record of what was hashed. `Recover` gives the signer for the digest
  that was signed and no machine otherwise.
- *Encryption.* A ciphertext is its recipient and its plaintext; only the
  recipient's node opens it. Anyone may submit any ciphertext.
- *Instruction ids* are positions in the log of sent instructions.
- *Reentrancy.* Every function that moves tokens is `nonReentrant`, and
  `setExtensionId` only calls view functions of the registry, so a transaction
  is one step.
- *Selection.* `getRandomTeeIds` returns any machine. The id filter of the
  registry is not modelled; the contract trusts its answer.
- *Registry.* `FlareTeeManager` is not in the repository. The model takes from
  the code and its comments that `register` refuses a known machine, that a
  challenge is one-shot and may expire, that a check needs a challenge of its
  own machine, that promotion refuses a machine in production and accepts a
  paused one (`deploy/render/README.md` recovers that way), and that providers
  prove a check only for a machine that answers and under a policy in step.
- *Repeated attestations.* For which known machines the registry takes a further
  attestation request, the repository does not agree with itself.
  `refresh-tee.sh:17-20` says that attestation and availability "both succeed on
  an already-registered machine" and that "full re-registration reverts on the
  duplicate attestation"; `deploy/render/README.md:121-123` that "the attestation
  request reverts on an already-registered machine", and two lines on that a
  paused machine "registers afresh"; `registration.go:83-92` requests one for every
  registered machine. It is therefore a parameter, `Attestable`, a set of states of
  a known machine. The theorems hold for every such set (`AttestAssumption`). The
  `registration` runs allow all states. The `refresh` runs allow `Initialized` and
  `Paused` but not `Production`: `Initialized` is what any first `rRap` needs (R
  follows r), `Paused` what the documented recovery needs. With all three states
  `refresh` passes too. `Heals` does not hold for a registry that refuses R after r:
  there no registration would ever succeed.
- *Transactions* of the tools are sent with one key, so they are mined in the
  order sent. A tool that gives up waiting leaves its transaction behind.
- *Identities* are numbered as they appear; a restart never brings one back.
- *Setup registry.* For `Deployment`, only its owner configures an extension and
  a code hash is added once. Whether `register` already puts the owner on the
  lists of allowed owners is left open, as `SetupExtension` leaves it by asking.
  The model lets several extensions name one instruction sender, as R7's scan for
  duplicates, and the contract's taking the first one, suppose. Two places say
  otherwise, and not the same: `tools/integration/registration_test.go:42-43` "the
  contract rejects duplicate senders", and `docs/testing.md:82` that a second
  `SetupExtension` "returns the same extension ID without submitting duplicate
  transactions", which the code (`extension.go:18-88`) does not do. A registry that
  refuses duplicates has fewer behaviours than the model, so the invariants hold
  with it as well.
- *Extension ids* in `Deployment` count from 1; the reserved ids below
  `FIRST_PUBLIC_EXTENSION_ID` are nobody's. `StartServices` is for an id that
  exists; any other is refused by the registry later.
- *Reports* of `verify-deploy` are sets of results: the exit status and the
  verdict of a check do not depend on the order of the lines printed.
- *Failing reads.* A kind of read fails throughout one run of `verify-deploy` or
  not at all; the scan of R7 is one kind.
- *The panel's view* is up to ten seconds old. A button shown too long leads to a
  call that the contract rejects and the panel logs, and a button is shown in the
  end whenever the call would be accepted; so a press is an action where the
  contract accepts it. What is kept is the delay between encrypting a bid and
  the wallet's transaction, the clock nonce, and polling that stops.
- *Allowances* are left out also in `Client`: the approvals before a listing and
  a bid change nothing that the properties see.
- *Disturbances.* `Client` marks what `run-test` does not survive: a receipt that
  never arrives, a refused mint, a wait that hangs, another machine, a bid that
  beats its own, somebody else's clear or settlement, a proxy without an answer
  until the last poll or with the rejection of a second delivery of the bid, its
  own slowness; the result served under a tag other than "threshold"
  (`run-test/main.go:313-317`: the request names no tag, so which one comes is the
  proxy's choice); and a clear computed again while the tool still polls. The last
  is possible because 20 polls of up to 15 tries take 11 minutes and more, and a
  result is retained for 10. One fault at most happens, and only before any other
  disturbance: after one the tool may fail anyway. A clear delivered once more
  under a tag it was not answered under yet is no fault, and neither is the expiry
  of its result. Left out, as they change nothing the tool can see: deliveries
  after the end of the auction, a restart with an empty memory, another machine
  before the tool has read which one serves, and time once the tool and the
  auction it watches have both ended.
- *Waits.* `CheckTx` gives up after two minutes. `http.Get` of the proxy
  (`tee_calls.go:25`, `:93`) and `WaitMined` in `SetExtensionId`
  (`instructions.go:83`) have no limit; each may hang, which leaves `run-test`
  "blocked" for good.
- *Tags.* Nobody looks at the submission tag of a bid's result, so bids are
  delivered under one tag and clears under every tag. Both runs with deliveries of
  signed results, `system` and `client`, have the two tags "threshold" and "end".
- *Spelling.* `deploy-contract` compares `LOCAL_MODE` with "false" in any case, the
  checks of `verify-deploy` compare exactly; "False" in the instance is a spelling
  that only the first takes for false.
- Events, fees and log texts are left out.

Operators commented "Faulty variant" are not used by the specifications. Each
changes one definition as a plausible mistake would; substituting it must make
the property named with it in `PROJECT.json` ("mutants") fail.

## Runs

Run one with `tlc -config X.cfg M`.

| Run | Configuration | Shows |
|---|---|---|
| auction | `MCAuction.cfg`, two auctions, two accounts, one machine | exact escrows, settlement arithmetic, winners have bid, one clear after all bids, solvency, per-step conservation, frozen records, the inductive invariant (types included), refinement of `AtomicExchange`; every auction ends and every escrow returns |
| auction_blocked | `MCAuctionBlocked.cfg` | *violated*: an escrow that never returns, see below |
| extension | `MCExtension.cfg`, two dealers, nine instructions, four deliveries | standing bids, winner, stable answers, purging |
| extension_verdict | `MCExtensionVerdict.cfg` | *violated*: two answers to one clear |
| server | `MCServer.cfg`, three requests of any kind | refinement of `Extension`, arrival order, every request answered |
| system | `MCQuietFill.cfg`, two dealers, two prices, one restart, two tags, results forgotten before the settle deadline | genuine bids, signed outcomes, winners pay their own bid; receipts honoured as long as there was no restart and the retention has not passed |
| client | `MCClient.cfg`, `run-test`, a visitor with two bids, two machines, two tags, one fault, results forgotten before the settle deadline | PASSED means settled as sealed; the tool fails only if disturbed; a receipted bid stands; every run ends or hangs in a wait without limit |
| registration | `MCRegistration.cfg`, commands rRap, rap and ra, fresh and resumed, two identities, two faults | the file agrees with the chain; a fresh run uses its own challenge and promotes the machine it names |
| registration_resume | `MCRegistrationResume.cfg` | *violated*: the wrong machine is promoted |
| refresh | `MCRefresh.cfg`, three identities, one fault, one renewal, no attestation in production | an undisturbed run leaves only the live machine; the job heals in the end |
| refresh_drift | `MCRefreshDrift.cfg` | *violated*: the live machine is paused |
| deployment | `MCDeployment.cfg`, two keys, four .env files, three launches, two mishaps | a built config is complete and verifies; exit status 0 is sound; a unique sender settles the contract's extension; success is on chain; governance is the node's |

*Bounds.* The auction run has price scale 2, lots of one unit (and a rejected one
of zero) and prices up to 4. That covers exact quotes, rounded ones, a price that
rounds up to a single unit, the largest admitted price and one beyond it. Larger
lots, and a product that does not fit a word, do not occur in it: with these
components the product always fits, as `ComponentAssumption` demands, and the
theorem `SettlementNeverReverts` covers every size. Collars
include a single price, and prices are signed below, in and above them. Clocks
run past the last deadline. In `system` and `client` the retention is one tick
and settling is still possible when it has passed, as with the 600 s of the
handlers against the 1800 s of `run-test/main.go:203` and the 3600 s of
`SellerPanel.tsx:55`: results are forgotten and clears computed again while the
auction can still be settled. Three instructions are two bids and a clear; in `system`
these are bids of two dealers at different prices, copied ones included, and
repricing is left to `extension` and `client`. Four deliveries are two bids, a clear and a
redelivery of any of them, on both sides of the retention. A fault is a kill, a
lost call, a failed file operation, an expired challenge, a new reward epoch or
a poll that gives up too early; two of them are a crash and what a second run
makes of it. Runs that cannot promote a machine are counted apart
(`MaxReruns`), so that the bound never stops a run that could. The auction run
has two accounts (seller and dealer, each in either role), so that two auctions
fit: funds and clears of one could mix with the other's. In `deployment` a mishap
is a fault, a foreign registration or a change of configuration; with three
launches of which two may register, two mishaps are a run that dies with a
transaction under way, a second one, and a competitor in between. The .env files
are a local one, a complete one for a live chain, one with a separate owner
key and more signatures wanted than signers, and one with a threshold of zero; the
ways of calling `verify-deploy` have every check pass and every check that can
fail fail, a balance below the minimum included. In `client` the visitor's first
bid loses and the second wins against `run-test`'s; its polls are two instead of
20, and the panel's may stop at any time. Deadlock checking
is on for `refresh` and otherwise off, because the bounds stop the models and
because the system may really stop: no caller is obliged to call. Symmetry is
not used.

*Fairness.* `auction` and `auction_blocked` assume that blocks keep
coming, that somebody cancels a timed-out auction (any account may, and the
seller wants its lot) and that a dealer withdraws its own escrow. No machine,
relayer or seller is assumed to act. `server` assumes that Node's event loop
runs what is ready and that a call to tee-node ends, since `NodeClient.post`
aborts it after 30 s. `refresh` assumes that the schedule keeps starting the
script, that processes run and transactions are mined, that the FTDC proxy's
policy catches up and that providers prove what they can; restarts and faults
are finitely many. `client` assumes that the process of `run-test` runs, that
clocks advance and that blocks follow them; nobody else is assumed to do
anything, the enclave and the proxy included. A step of the tool that hangs is a
step to "blocked" (see *Waits*), so fairness of the tool does not assume that its
calls return; `RunEnds` says that its loops give up, and nothing about a call that
does not return.

### Where documentation and code differ

- **A refused payment holds up everybody's escrow.** `cancelTimedOutAuction`
  and `settleAuction` pay in the transaction that makes the auction terminal,
  and `withdrawQuote` needs a terminal auction. If the base token will not pay
  the seller, neither the timeout nor a no-fill settlement goes through, and
  dealers wait as well. (A fill pays the lot to the winner and still succeeds.)
  `ARCHITECTURE.md:153`: "no failure path can
  strand funds".
- **Clear answers are identical only while retained.** After ten minutes the
  same clear is answered from what is in memory then. `README.md:66`:
  "re-delivered clears get a cached, byte-identical result". By the same
  expiry a bid delivered again is stored although its auction was cleared.
- **A resumed registration may promote another machine.** The state file does
  not say whose it is. After a restart of tee-node, `--resume` skips the steps
  of the old machine, promotes it, and reports the new one:
  `tools/cmd/register-tee/main.go:72`, "Registered TEE node with id". No script
  passes `--resume`. (A resumed run also keeps a challenge that has expired;
  only a fresh start gets past that.)
- **Refresh may pause the live machine.** The script and `register-tee` each
  read the identity. If it changes in between, the new machine is registered
  and then paused as stale. `refresh-tee.sh:10`: "pauses every machine that is
  no longer it". The next run repairs it, which `Heals` covers.

Met while modelling, and not the subject of a run:

- `docs/deployment-steps.md:206` says of step r that it "skips itself once the TEE
  is registered on-chain. So re-runs (image changes, diamond cuts, retries) revert
  with `Verification.ChallengeExpired`", and that R is needed to get a challenge.
  In the code r requests a fresh attestation for a registered machine
  (`registration.go:83-92`), and its challenge is the one that a uses.
  `FreshRunUsesOwnChallenge` is about the code: a fresh `rap` on a known machine
  has a challenge of its own, provided the registry takes the request.
- A clear that is delivered again after clearRetentionMs, but before the settle
  deadline, is computed from an emptied book and signed: without any restart, a
  NoFill can settle over a bid that has a receipt. `ReceiptHonoured` is therefore
  claimed up to the retention, counted from the bid deadline. The condition is
  tight: TLC finds the NoFill with one tick more.
- If `GOVERNANCE_THRESHOLD` is zero or no number, `set-governance` takes 1
  (`main.go:96-101`) and `docker-compose.yaml:49` gives the node the text as it is.
  `GovernanceMatchesNode` leaves that case out.
- `verify-deploy` may fail on D5 right after a good `pre-build.sh`: both ask for
  the same minimum balance, and `pre-build.sh` asks before it pays for its
  transactions. `BuiltConfigVerifies` supposes that the key still has it.

- `register-extension` run again never completes a half-finished extension; it
  registers a new one. R3 and R4 of `verify-deploy` advise "Run the register step
  to add the deployer as a TEE machine owner" (`checks.go:432`), which changes
  neither the extension in the file nor the verdict.
- R7 reports "instruction sender is unique across registered extensions" also
  when the reads of the scan failed, since it passes over them (`checks.go:478`).
  `UniqueMeansPinned` is therefore stated for scans that read everything.
- With neither `GOVERNANCE_SIGNERS` nor `INITIAL_OWNER` in .env, `set-governance`
  registers the deployer and `docker-compose.yaml:44-48` starts the node with
  0xF4E0...3a64. `GovernanceMatchesNode` leaves that case out, although
  `set-governance/main.go:53-55` calls keeping both sides on the same default
  "what makes the node's governanceHash match the chain".
- `set-governance` skips when the chain already has the wanted value, even if a
  transaction of an earlier run is still to come. Its claim is only made for a run
  that started with nothing outstanding, of any key: with a separate owner key, a run
  under the other key may find the wanted value and skip while the owner's
  transaction is still to come.
- `allow-tee-version` recognises the revert of a version that was added meanwhile
  by the text "VersionAlreadyExists", which an RPC node need not send for a custom
  error; both outcomes are modelled.
- `testing/shared/scenarios/edgecase-scenarios.md:43` expects "appropriate FAILs
  for missing config" before `pre-build.sh`; the registration and format checks
  are then skipped, and only S2 fails.
- `run-test` fails whenever anybody else requests the clear or settles first,
  although both are open to everyone.

That a restart loses bids is documented (`deploy/render/README.md`), so
`ReceiptHonoured` is claimed without restarts only.

## Proofs

`tlapm M.tla` for each of the modules that hold theorems. Every inductive
invariant below was checked by TLC on the instance of the component's run before
it was proved.

`SetLemmas` says what a sum over a finite set does when one term changes, and that
a best offer exists; TLAPS cannot instantiate induction schemes here, so it argues
on the smallest set for which a claim would fail.

### Contract: `QuietFillAuctionProofs`

It begins with the price arithmetic: the quote is the exact price rounded up by
less than a unit, and monotone in the price. This assumes only that the scale is
positive.

For any finite set of accounts and any machines, tokens (equal or not), inputs
and bounds, the contract always satisfies `TypeOK`, `EscrowExact`,
`SettlementArithmetic`, `WinnerHasBid`, `OneClearAfterAllBids` and `Solvency`, and
every step satisfies `FundsConserved` and `RecordsFrozen`. Machines may sign
anything, so none of this rests on the enclave. The assumptions are those of the
module: addresses are distinct, inputs are natural numbers, and the square of the
largest component fits a word (`ComponentAssumption`, which 1e36 and 2^256
satisfy).

The invariants are not inductive by themselves. `IndInv` adds:

- `TermsSound`: what `createAuction` checked still holds of every auction, and
  `maxQuoteAmount` is the quote at the ceiling. With monotonicity it yields
  `SettlementArithmetic`; with a positive lot and ceiling it yields the positive
  ceiling amount of `EscrowExact`;
- `EscrowHasBid`: an escrow stems from a bid of its owner. `WinnerHasBid` needs
  it, since settlement looks at escrows and never at bids;
- `LogSound`: an auction that does not exist has no bids in the log, and one
  that has not left Open has no clear request. `OneClearAfterAllBids` needs it.

Each action has a lemma; the two that append to the log go through `LogAppend`,
`BidAppend` and `ClearAppend`, which say what an append does to the sets of bids
and clears. `FundsConserved` is stated per step, as the change of one lot and
one escrow; `ClaimConserves` turns the effect of an action on one claim into it.
`Solvency` is those steps summed over all auctions and dealers.

`ContractImplementsExchange` shows that the contract implements `AtomicExchange`, where an
account's wealth is its balance plus its escrows and live lots. Bids, withdrawals
and clear requests leave everybody's wealth alone and map to stutters; creation
lists a lot, settlement is a sale or a closing, cancellation a closing. The
invariant enters where settlement pays: the escrow covers the payment, and the
winner is an account.

### Contract and enclaves: `QuietFillProofs`

`SystemImplementsContract` shows that the composed system implements the contract,
so the theorems above hold of it too. On top of `IndInv`:

- `GenuineInv` yields `StoredBidsGenuine`, `OutcomeSignedByPinnedTee` and
  `WinnerPaysOwnBid`. It adds the types (`SysTypeOK`), that an outcome is recorded
  only on settlement, and `ResultsGenuine`: whatever a machine has signed or
  retains names a winner and a price from a bid that this winner sent to it.
  Transport is unreliable and machines restart throughout;
- `ReceiptInv` yields `ReceiptHonoured`. Receipts tell of bids in the log
  (`ReceiptsSound`), every stored bid was receipted, and without restarts the
  machine holds what it receipted until it has answered the clear (`ReceiptsHeld`)
  and, within the retention, retains what it signed (`SignedIsRetained`). The last
  is the crux: a clear that is delivered again must not be recomputed from an
  empty book. No result expires before the retention has passed since the bid
  deadline, because no clear is requested earlier (`RetainedFromDeadline`). The
  theorem has no hypothesis: it holds for every `ClearRetention`, up to that time.
  What happens beyond is shown by the run `extension_verdict`.

Assumed: bids have natural numbers for fields, addresses have distinct ranks in
the handlers' order, and the markers for "nothing" are no bids or results.

### Handlers and server: `ExtensionProofs`, `ServerProofs`

`ExtensionProofs` proves `TypeOK`, `StandingBidsStored`, `FirstClearCorrect`,
`ClearStableWhileRetained` and `PurgedWhileRetained` of one process, for any finite
set of bidders, any instructions, any deliveries and any retention. `ExtensionInv`
makes them inductive by deriving the memory from the log of answers: an auction
that was never cleared has no retained result and holds exactly the standing
bids, nonce and price included (`HoldsStandingBids`); one that was cleared, while
nothing was delivered after its retention, has the first answer in memory and no
bids (`RemembersFirstClear`). `StandingBidsStored` and `PurgedWhileRetained` follow.

`ServerProofs` proves that the server implements `Extension`
(`ServerImplementsExtension`): the await inside a bid is invisible, since the
handlers touch memory only once the job resumes and the chain admits no other
job meanwhile. It also proves `EffectInArrivalOrder` and `ServerTypeOK` (each
request is answered once). `QueueInv` says that the jobs that pend are the last
ones accepted, in order, and that a job that runs is a suspended bid; `ReplyInv`
that pending requests are those without a reply; `ResultInv` that the answers are
those of the jobs that are done, in order.

### Clients: `ClientProofs`

All three invariants, for any flags of `run-test`, any prices of the visitor, any
machines, and any number of polls, instructions and faults. Assumed
(`ClientAssumption`) is that `run-test` bids within its own collar and is not the
visitor, and that the two clients' bids are among the ciphertexts of the contract's
model; markers are no bids, and a random salt is not zero.

Each step of a client is, to the contract and the enclaves, a step of `QuietFill`, a
mint, or a settlement with an existing signature (`ClientIsWorldStep`), so that
`IndInv`, `GenuineInv` and `ReceiptInv` hold here too. The parts of `ClientInv`:

- `ClientShape`, `ListedOnce`: types, clocks one tick apart at most, and one auction,
  on the terms of the flags, once `run-test` has listed it;
- `TestProgress`: what `run-test` settles with is signed and names its own win, and
  from then on the auction and the escrow show it. `PassedMeansSettled` follows;
- `LogOfClients`, `AnswersTell`, `SignedTyped`: the log holds the clients' own bids,
  sealed for the pinned machine; receipts and stored bids tell what was sealed, and
  only a clear leaves a result;
- `PanelProgress`: the visitor's nonces do not decrease from bid to bid. With
  `ReceiptInv` it gives `AcknowledgedBidStands`: the bid held has at least the nonce
  of the one shown, at the same nonce it is that bid, and at a higher one it was
  submitted later.

`FailsOnlyIfDisturbed` needs one more invariant, `Undisturbed`: as long as nothing
disturbed it, `run-test` is in time at every step (`InTime`: the bid precedes the
first tick, the clear needs at most two attempts), its bid is accepted at its first
delivery (`BidAnswered`), and whatever answers its clear, from memory or computed,
is its win (`ClearAnswered`). The last rests on `ReceiptsHeld`: by the time of a
clear the machine holds the receipted bid, and no bid that beats it was sent.

None of the theorems has a hypothesis: they hold for every retention and every set
of tags. That a clear is computed again while `run-test` polls, or that the proxy
serves its result under another tag than "threshold", is a step of the model that
counts as a disturbance.

### Registration and refresh: `RegistrationProofs`

`RegTypeOK`, `FileMatchesChain`, `FreshRunUsesOwnChallenge` and
`FreshRunPromotesItsMachine` for any number of machine identities, commands,
faults and reruns. The parts of `RegInv`:

- `RegShape`: types, and that only faults leave transactions behind;
- `RegBound`: nothing on its way to the chain is about a machine newer than the
  run's;
- `RegFile`: the file agrees with the chain, begins with step r, and no machine
  newer than its own is known;
- `RegLink`: the transaction or receipt that a run awaits is its own;
- `RegRun`, `RegFresh`: what a run, and one that began without a file, has done at
  each step.

The hard case is step R on a file that already holds a check: the attestation is
replaced and the old check remains. That both are about one machine follows from
the last part of `RegFile`: a new attestation is only mined for a registered
machine, and none newer than the file's is known. `CommandAssumption` says that every command contains r, which holds of the
commands in the scripts and documents (`rRap`, `rap`, `ra`). The tool itself accepts
others, and the assumption is needed: with a fresh run of `a`, or one of `Ra` that a
run with r resumes, `FileMatchesChain` or `FreshRunUsesOwnChallenge` fail.

For `refresh-tee.sh`, `OnlyLiveRemains`: also for any number of machines and of
restarts. `RefreshInv` claims something only as long as no fault has happened: a
killed run leaves a transaction under way that nobody waits for, and a `produce`
that comes through late adds a machine after the list was read. Until then:

- `OneAtATime`: at most one transaction is under way, and script or tool waits for
  it, so that nothing is mined between the script's reads but what it has sent;
- `RenewalHarmless`: a renewal has no production step, so that a healthy stack is
  still healthy when it ends, whether it succeeded or not;
- `StaleListed`: while machines are retired, every active one is the one the script
  read as live, is still on its list, or is the subject of the pause under way.

The pause may revert when mined; its machine is inactive then as well, which is what
`StaleListed` needs.

### Deployment: `DeploymentProofs`

All six properties, for any keys, .env files, code hashes, contracts and any number
of runs, mishaps and foreign registrations. Assumed is that the keys and files of the
operator are among those of the model (`OperatorAssumption`), that the markers for
"not set" and "malformed" are none of the values they stand in for
(`UnsetAssumption`), and that bounds are numbers (`DeploymentBounds`). The registry
only ever grows, which keeps most of what was once seen there true. The parts of
`DepInv`:

- `DepShape`: types, and that what is under way names extensions that exist;
- `ToolProgress`: what the run under way has achieved on chain by the step it is at,
  for its own sender, id and key. `BuiltFile`, which says that the file that
  `pre-build.sh` writes is complete, is this at the last step;
- `ToolWaits`: the transaction a tool waits for is the last one of its key, so that
  the receipt it reads, and the id in it, are of that transaction even if a killed
  run left others before it;
- `ToolQuiet`, `ClaimsHold`: a run that started with nothing outstanding has only its
  own transaction under way, and what it claimed stays true afterwards.
  `SuccessIsOnChain` and `GovernanceMatchesNode` follow;
- `CachedFirst`: the id a contract has cached is that of its first extension.
  `UniqueMeansPinned` needs it: `setExtensionId` takes the first one it finds;
- `VerdictHolds`: a verdict is kept only while no tool runs, and then still fits.

`BuiltConfigVerifies` and `VerdictSound` go through the checks one by one: each check
of a step is evaluated for a complete file, and from a report without failure what
each of its checks saw is read back.

Two mistakes of the model came out of the attempt. A run used to count as quiet if
nothing of its own key was outstanding; `SuccessIsOnChain` fails then, with four
launches, where the run has three: the other key finds the wanted governance and
skips while an older transaction of the owner is pending. And two cases of the
registries' answers overlapped, which left the choice between them open.

### Only model-checked

Liveness, everywhere: it is out of this prover's reach. These are `AuctionsEnd`,
`EscrowsReturn`, `EveryRequestAnswered`, `RunEnds` and `Heals`.

## Plan

Done: all components; the proofs for the contract, its composition with the
enclaves and with its clients, the handlers, the server, registration, refresh and
deployment. Every safety property of a passing run is now also a theorem.

### Not modelled

- Web pages, chart and `SellerPanel`: rendering, and a form around one
  `createAuction`.
- The Go and Python scaffolds: hello-world extensions, no part of the auction.
- `audit-deploy`, `query-tee`, `scripts/check-tee.mjs`: they print what they read.
- `start-proxy`, docker and the remaining scripts: straight-line orchestration.
- The other four processes of the supervisor, and the internals of tee-node,
  tee-proxy and the FCC registries, which are not in the repository.
- Decoding of revert data (`revert.go`, `diag.go`): it ends in log texts.
