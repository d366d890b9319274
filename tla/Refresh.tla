------------------------------ MODULE Refresh ------------------------------
(***************************************************************************)
(* refresh-tee.sh: the job that keeps the machine behind the proxy         *)
(* registered, and retires the machines whose identity a restart has       *)
(* orphaned.  It runs register-tee (Registration) and sends the pauses     *)
(* itself, one run at a time (the workflow's concurrency group), over and  *)
(* over (its schedule), and may be killed at any point (its time limit).   *)
(***************************************************************************)
EXTENDS Registration

VARIABLE script

refreshVars == <<regVars, script>>

IdleScript(exit) ==
  [pc |-> "idle", LIVE |-> NoId, active |-> {}, exit |-> exit]

\* Faulty variant: register-tee is told to resume.
register_tee_resuming(c) == Launch(c, TRUE)

\* How the script runs register-tee, and for what.
register_tee(c) == Launch(c, FALSE)
RegisterAll == {"r", "R", "a", "p"}
RenewOnly == {"r", "a"}

\* The identity is read from the proxy's /info.
ReadIdentity ==
  /\ script.pc = "idle"
  /\ script' = [IdleScript("none") EXCEPT !.pc = "list", !.LIVE = live]
  /\ UNCHANGED regVars

Healthy(active, t) == active = {t}

\* getActiveTeeMachines, and what it means for the live machine.
ReadActive ==
  /\ script.pc = "list"
  /\ script' = [script EXCEPT
       !.active = Active,
       !.pc = IF Healthy(Active, script.LIVE) THEN "healthy"
              ELSE IF script.LIVE \in Active THEN "retire" ELSE "register"]
  /\ UNCHANGED regVars

\* Outside the renewal window a healthy stack is left alone.
LeaveHealthy ==
  /\ script.pc = "healthy"
  /\ script' = [script EXCEPT !.pc = "idle", !.exit = "ok"]
  /\ UNCHANGED regVars

Renew ==
  /\ script.pc = "healthy"
  /\ register_tee(RenewOnly) /\ Rerun(TRUE)
  /\ script' = [script EXCEPT !.pc = "renewing"]

Register ==
  /\ script.pc = "register"
  /\ register_tee(RegisterAll) /\ Rerun(~policyInSync(lag))
  /\ script' = [script EXCEPT !.pc = "registering"]

\* A failed renewal is only logged; a failed registration ends the run; after
\* a successful one the active machines are read again.
ToolReturned ==
  /\ tool.pc = "idle"
  /\ \/ /\ script.pc = "renewing"
        /\ script' = [script EXCEPT !.pc = "idle", !.exit = "ok"]
     \/ /\ script.pc = "registering" /\ tool.outcome = "error"
        /\ script' = [script EXCEPT !.pc = "idle", !.exit = "failed"]
     \/ /\ script.pc = "registering" /\ tool.outcome = "ok"
        /\ script' = [script EXCEPT !.pc = "retire", !.active = Active]
  /\ UNCHANGED regVars

Stale == script.active \ {script.LIVE}

\* One machine of the list that is not the live one; the send fails if the
\* call would revert.
Pause(t) ==
  /\ script.pc = "retire" /\ receipt = NoReceipt
  /\ IF Accepts(Tx("pause", t, NoId))
     THEN /\ mempool' = Append(mempool, Tx("pause", t, NoId))
          /\ receipt' = Pending
          /\ script' = [script EXCEPT !.active = @ \ {t}]
     ELSE /\ script' = [script EXCEPT !.pc = "idle", !.exit = "failed"]
          /\ UNCHANGED <<mempool, receipt>>
  /\ UNCHANGED <<live, lag, registry, file, tool, faults, reruns>>

\* cast send has a receipt; a reverted one may or may not fail the command.
Paused ==
  /\ script.pc = "retire" /\ receipt.state \in {"mined", "reverted"}
  /\ receipt' = NoReceipt
  /\ \/ UNCHANGED script
     \/ /\ receipt.state = "reverted"
        /\ script' = [script EXCEPT !.pc = "idle", !.exit = "failed"]
  /\ UNCHANGED <<live, lag, registry, mempool, file, tool, faults, reruns>>

\* Faulty variant: the loop over the machines may end early.
ConcludeEarly ==
  /\ script.pc = "retire" /\ receipt = NoReceipt
  /\ script' = [script EXCEPT !.pc = "idle",
                              !.exit = IF script.LIVE \in Active THEN "ok" ELSE "failed"]
  /\ UNCHANGED regVars

\* The list is read once more and must hold the live machine.
Conclude ==
  /\ script.pc = "retire" /\ receipt = NoReceipt /\ Stale = {}
  /\ script' = [script EXCEPT !.pc = "idle",
                              !.exit = IF script.LIVE \in Active THEN "ok" ELSE "failed"]
  /\ UNCHANGED regVars

\* The job is killed outside the tool, or one of its calls fails; a
\* transaction in flight stays in flight.
Killed ==
  /\ script.pc # "idle" /\ tool.pc = "idle"
  /\ Costs(TRUE)
  /\ receipt' = NoReceipt
  /\ script' = IdleScript("failed")
  /\ UNCHANGED <<live, lag, registry, mempool, file, tool, reruns>>

-----------------------------------------------------------------------------
RefreshInit == RegInit /\ script = IdleScript("none")

PauseSome == \E t \in Stale : Pause(t)

ScriptStep ==
  \/ ReadIdentity \/ ReadActive \/ LeaveHealthy \/ Register \/ ToolReturned
  \/ PauseSome \/ Paused \/ Conclude

RefreshNext ==
  \/ ScriptStep \/ Renew \/ Killed
  \/ (ToolStep \/ PollExhausted \/ Interrupted \/ Surroundings) /\ UNCHANGED script

RefreshSpec == RefreshInit /\ [][RefreshNext]_refreshVars

\* The schedule starts the script again and again; processes run, the chain
\* mines, the policy of the proxy catches up, the providers prove what they can.
RefreshFairSpec ==
  /\ RefreshSpec
  /\ WF_refreshVars(ScriptStep)
  /\ WF_refreshVars(ToolStep /\ UNCHANGED script)
  /\ WF_refreshVars(Mine /\ UNCHANGED script)
  /\ WF_refreshVars(NewSigningPolicy /\ UNCHANGED script)
  /\ WF_refreshVars(ProveSome /\ UNCHANGED script)

-----------------------------------------------------------------------------
(* Properties                                                              *)

\* A run that ends well, with nothing interrupted and the identity it read
\* still the live one, leaves the live machine as the only one createAuction
\* can pin.
OnlyLiveRemains ==
  [][script.pc # "idle" /\ script'.exit = "ok" /\ script.LIVE = live /\ faults = 0 =>
       Active' = {live}]_refreshVars

\* "pauses every machine that is no longer it" (refresh-tee.sh): the machine
\* the proxy serves is not among the ones paused.
NeverPausesLive ==
  [][\A t \in Active \ Active' : t # live]_refreshVars

\* "drift healing remains the guaranteed recovery": once restarts, kills and
\* lost calls stop, the live machine is the only active one, for good.
Heals == <>[](Active = {live})

-----------------------------------------------------------------------------
(* What makes OnlyLiveRemains inductive: all of it as long as nothing was  *)
(* interrupted.                                                            *)

ScriptRecords ==
  [pc : {"idle", "list", "healthy", "register", "renewing", "registering", "retire"},
   LIVE : Nat, active : SUBSET Tees, exit : {"none", "ok", "failed"}]
RefreshShape ==
  /\ live \in Nat
  /\ DOMAIN registry = DOMAIN EmptyRegistry /\ registry.status \in [Tees -> Statuses]
  /\ DOMAIN tool = DOMAIN IdleTool("none")
  /\ script \in ScriptRecords /\ (script.pc # "idle" => script.exit = "none")

\* There is one transaction at a time, and script or tool waits for it.
OneAtATime ==
  /\ mempool # <<>> =>
       /\ receipt = Pending /\ mempool = <<mempool[1]>>
       /\ mempool[1].op \in {"register", "attest", "check", "produce", "pause"}
  /\ receipt # NoReceipt => script.pc = "retire" \/ tool.pc \in {"r", "R", "a", "p"}
  /\ tool.pc # "idle" => script.pc \in {"renewing", "registering"}

\* A renewal does not touch the active machines.
RenewalHarmless ==
  /\ script.pc \in {"healthy", "renewing"} => Active = {script.LIVE}
  /\ script.pc = "renewing" =>
       /\ tool.pc # "idle" => tool.command = RenewOnly /\ tool.pc # "p"
       /\ mempool # <<>> => mempool[1].op \in {"register", "attest", "check"}

\* What is active besides the live machine is still to be paused, or about to be.
StaleListed ==
  script.pc = "retire" =>
    /\ mempool # <<>> => mempool[1].op = "pause"
    /\ \A t \in Active : \/ t \in script.active \cup {script.LIVE}
                         \/ mempool # <<>> /\ mempool[1].tee = t

RefreshInv ==
  /\ faults \in Nat
  /\ faults = 0 => RefreshShape /\ OneAtATime /\ RenewalHarmless /\ StaleListed
=============================================================================
