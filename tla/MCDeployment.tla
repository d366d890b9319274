---------------------------- MODULE MCDeployment ----------------------------
(***************************************************************************)
(* An instance of Deployment for TLC.                                      *)
(***************************************************************************)
EXTENDS Deployment

CONSTANTS k1, k2, base, quote

Env(key, ownerKey, owner, signers, threshold, local, quoteToken) ==
  [key |-> key, EXTENSION_OWNER_KEY |-> ownerKey, INITIAL_OWNER |-> owner,
   GOVERNANCE_SIGNERS |-> signers, GOVERNANCE_THRESHOLD |-> threshold, LOCAL_MODE |-> local,
   BASE_TOKEN |-> IF quoteToken = Unset THEN Unset ELSE base, QUOTE_TOKEN |-> quoteToken]

\* A local .env that only names an owner; a live one, complete; one with a
\* separate owner key, the same token twice and more signatures wanted than
\* there are signers; the same with signers and a threshold of zero.
MCDotEnvs ==
  { Env(DevKey, Unset, k2, {}, Unset, "", Unset),
    Env(k2, Unset, Unset, {DevKey, k2}, 2, "false", quote),
    Env(k2, DevKey, Unset, {}, 2, "False", base),
    Env(k2, DevKey, Unset, {k2}, 0, "False", base) }

MCHandFiles ==
  { [exists |-> TRUE, id |-> Malformed, sender |-> 1],
    [exists |-> TRUE, id |-> 1, sender |-> Malformed] }

Bare == [config |-> TRUE, checks |-> {}, addresses |-> "right", down |-> {}, hasFunds |-> TRUE,
         PROXY_PRIVATE_KEY |-> FALSE, SIMULATED_TEE |-> TRUE, EXT_PROXY_URL |-> "down",
         NORMAL_PROXY_URL |-> Unset, portInUse |-> TRUE]
Full == [Bare EXCEPT !.PROXY_PRIVATE_KEY = TRUE, !.SIMULATED_TEE = FALSE, !.EXT_PROXY_URL = "up",
                     !.NORMAL_PROXY_URL = "up", !.portInUse = FALSE]

MCSituations ==
  {Bare, Full, [Full EXCEPT !.config = FALSE],
   [Full EXCEPT !.hasFunds = FALSE], [Full EXCEPT !.checks = {"D5", "R2"}]}
    \cup {[Bare EXCEPT !.addresses = a] : a \in {"zero", "codeless"}}
    \cup {[Full EXCEPT !.down = d] : d \in { {"owner"}, {"sender", "scan"},
            {"code", "balance", "chainId", "keyType", "counter"}, {"support"} }}
=============================================================================
