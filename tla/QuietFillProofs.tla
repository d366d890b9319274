-------------------------- MODULE QuietFillProofs --------------------------
(***************************************************************************)
(* Proofs about QuietFill, the contract together with its enclaves: for    *)
(* any accounts, machines, ciphertexts and submission tags, any number of  *)
(* auctions and restarts, and any order and number of deliveries.          *)
(***************************************************************************)
EXTENDS QuietFill, QuietFillAuctionProofs

-----------------------------------------------------------------------------
(* The system implements the contract                                      *)

\* A settlement that the signature check lets through answers a signature of
\* the pinned machine over exactly this result of this clear request.
LEMMA AcceptedSignature ==
  ASSUME IndInv, NEW a \in AuctionIds, NEW result, NEW sig, SettleAuction(a, result, sig)
  PROVE  /\ sig.over = TeeClearDigest(a, result)
         /\ sig.signer = auctions[a].teeId
         /\ auctions[a].teeId \in TeeIds
         /\ auctions[a].clearInstructionId # 0
         /\ auctions[a].state = "ClearRequested"
         /\ result.contractAddr = This /\ result.auctionId = a
  <1>1. auctions[a].teeId \in TeeIds /\ auctions[a].teeId # ZeroAddress
    BY AddressAssumption DEF SettleAuction, IndInv, TermsSound
  <1>2. SignedByPinnedTee(a, result, sig)
    BY DEF SettleAuction
  <1>. QED
    BY <1>1, <1>2 DEF SettleAuction, SignedByPinnedTee, Recover, ResultMatches

\* A relayer gains nothing over a machine that signs whatever it likes.
LEMMA RelayIsContractStep ==
  ASSUME IndInv, NEW a \in AuctionIds, Relay(a)
  PROVE  SettleWithSomeSignature(a)
  <1>1. PICK sig \in signed, result \in ClearResults : SettleAuction(a, result, sig)
    BY DEF Relay
  <1> DEFINE t == auctions[a].teeId
             own == [signer |-> t, over |-> TeeClearDigest(a, result)]
  <1>2. t \in TeeIds /\ auctions[a].clearInstructionId # 0
    BY <1>1, AcceptedSignature
  <1>3. SignedByPinnedTee(a, result, own)
    BY <1>2 DEF SignedByPinnedTee, Recover
  <1>4. SettleAuction(a, result, own)
    BY <1>1, <1>3 DEF SettleAuction
  <1>. QED
    BY <1>2, <1>4 DEF SettleWithSomeSignature

\* A step of the system is a step of the contract or leaves it alone.
LEMMA SysStepIsContractStep == IndInv /\ [SysNext]_sysVars => [Next]_vars
  <1> SUFFICES ASSUME IndInv, [SysNext]_sysVars PROVE [Next]_vars
    OBVIOUS
  <1>1. CASE ContractCall
    BY <1>1, RelayIsContractStep DEF ContractCall, Next
  <1>2. ASSUME NEW i, NEW plaintext, NEW tag, Deliver(i, plaintext, tag)
        PROVE  UNCHANGED vars
    BY <1>2 DEF Deliver
  <1>3. ASSUME NEW t, RestartExtension(t) PROVE UNCHANGED vars
    BY <1>3 DEF RestartExtension
  <1>4. CASE UNCHANGED sysVars
    BY <1>4 DEF sysVars
  <1>. QED
    BY <1>1, <1>2, <1>3, <1>4 DEF SysNext

\* Contract, enclaves and relayers together behave towards the chain as the
\* contract alone does with machines that sign anything: every theorem of
\* QuietFillAuctionProofs holds of the system.
THEOREM SystemImplementsContract == SysSpec => Spec /\ []IndInv
  <1>1. SysInit => Init /\ IndInv
    BY InitIndInv DEF SysInit
  <1>2. IndInv /\ [SysNext]_sysVars => [Next]_vars /\ IndInv'
    BY SysStepIsContractStep, NextIndInv
  <1>. QED
    BY <1>1, <1>2, PTL DEF SysSpec, Spec

-----------------------------------------------------------------------------
(* What the handlers answer                                                *)

\* What the first line of each handler leaves of the retained results.
Pruned(ext, k, time) ==
  IF ext.cleared[k] # NotCleared /\ ext.cleared[k].expiresAt <= time
  THEN NotCleared ELSE ext.cleared[k]

\* pruneCleared keeps the bids and drops exactly the results past their time.
LEMMA PruneEffect ==
  ASSUME NEW ext \in Extensions, NEW time
  PROVE  /\ E!PruneCleared(ext, time) \in Extensions
         /\ E!PruneCleared(ext, time).bids = ext.bids
         /\ \A k \in E!Keys : E!PruneCleared(ext, time).cleared[k] = Pruned(ext, k, time)
  BY DEF Extensions, E!PruneCleared, Pruned

\* handlePrivateBid refuses, or stores an acceptable bid and issues a receipt.
LEMMA BidOutcome ==
  ASSUME NEW ext, NEW envelope, NEW bid, NEW time
  PROVE  LET out == E!HandlePrivateBid(ext, envelope, bid, time)
             pruned == E!PruneCleared(ext, time)
         IN  \/ out.status = 0 /\ out.ext \in {ext, pruned}
             \/ /\ out.status = 1 /\ out.data = E!BidReceipt(bid)
                /\ out.ext = E!StoreBid(pruned, bid)
                /\ E!Acceptable(envelope, bid)
                /\ pruned.cleared[E!AuctionKey(bid)] = NotCleared
                /\ E!NonceIncreases(pruned.bids[E!AuctionKey(bid)][bid.bidder], bid)
  BY DEF E!HandlePrivateBid, E!Failure, E!Success

\* handleClear refuses, repeats the retained result, or computes and retains
\* one.
LEMMA ClearOutcome ==
  ASSUME NEW ext, NEW message, NEW time
  PROVE  LET out == E!HandleClear(ext, message, time)
             pruned == E!PruneCleared(ext, time)
             key == E!AuctionKey(message)
             result == E!ClearResult(pruned, message)
         IN  \/ out.status = 0 /\ out.ext = ext
             \/ /\ E!ValidClear(message) /\ out.status = 1
                /\ pruned.cleared[key] # NotCleared
                /\ out.data = pruned.cleared[key].result /\ out.ext = pruned
             \/ /\ E!ValidClear(message) /\ out.status = 1
                /\ pruned.cleared[key] = NotCleared
                /\ out.data = result /\ out.ext = E!RetainResult(pruned, key, result, time)
  BY DEF E!HandleClear, E!Failure, E!Success

\* The first of the sorted eligible bids is one of them, and none is higher.
LEMMA WinnerIsBest ==
  ASSUME NEW ext \in Extensions, NEW m \in ClearInstructions,
         E!Eligible(ext, m.message) # {}
  PROVE  LET bids == ext.bids[E!AuctionKey(m.message)]
             eligible == E!Eligible(ext, m.message)
             w == E!Winner(bids, eligible)
         IN  /\ w \in eligible
             /\ \A y \in eligible : bids[y].unitPriceWei <= bids[w].unitPriceWei
  <1> DEFINE key == E!AuctionKey(m.message)
             bids == ext.bids[key]
             S == E!Eligible(ext, m.message)
             price == [x \in S |-> bids[x].unitPriceWei]
             rank == [x \in S |-> AddressRank[x]]
             top == m.message.ceilingPriceWei
             w == E!Winner(bids, S)
  <1>1. key \in E!Keys /\ top \in Nat
    BY DEF ClearInstructions, E!AuctionKey, E!Keys
  <1>2. bids \in [Accounts -> StoredBids \cup {NoBid}]
    BY <1>1 DEF Extensions
  <1>3. S \subseteq Accounts /\ \A x \in S : bids[x] \in StoredBids
    BY <1>2 DEF E!Eligible, E!Submitted
  <1>4. \A x \in S : bids[x].unitPriceWei \in Nat
    BY <1>3 DEF StoredBids
  <1>5. \A x \in S : bids[x].unitPriceWei <= top
    BY DEF E!Eligible
  <1> HIDE DEF key, bids, S, top
  <1>6. Candidates(S, price, rank, top)
    BY <1>1, <1>3, <1>4, <1>5, AddressAssumption, OrderAssumption DEF S, Candidates
  <1>7. \E x \in S : \A y \in S \ {x} :
          \/ price[x] > price[y]
          \/ price[x] = price[y] /\ rank[x] < rank[y]
    <2> HIDE DEF price, rank
    <2>. QED
      BY <1>6, BestExists
  <1>8. \E x \in S : \A y \in S \ {x} : E!SortsBefore(bids, x, y)
    BY <1>7 DEF E!SortsBefore
  <1>9. w \in S /\ \A y \in S \ {w} : E!SortsBefore(bids, w, y)
    BY <1>8 DEF E!Winner
  <1>10. ASSUME NEW y \in S PROVE bids[y].unitPriceWei <= bids[w].unitPriceWei
    BY <1>4, <1>9 DEF E!SortsBefore
  <1>. QED
    BY <1>9, <1>10 DEF key, bids, S

\* What a computed result says about the stored bids it was computed from.
LEMMA ResultFacts ==
  ASSUME NEW ext \in Extensions, NEW m \in ClearInstructions
  PROVE  LET result == E!ClearResult(ext, m.message)
             bids == ext.bids[<<This, m.message.auctionId>>]
         IN  /\ result \in Results
             /\ result.auctionId = m.message.auctionId
             /\ result.winner # ZeroAddress =>
                  /\ result.winner \in Accounts /\ bids[result.winner] # NoBid
                  /\ bids[result.winner].unitPriceWei = result.unitPriceWei
             /\ \A x \in Accounts :
                  /\ bids[x] # NoBid
                  /\ bids[x].unitPriceWei \in m.message.floorPriceWei .. m.message.ceilingPriceWei
                  => /\ result.winner # ZeroAddress
                     /\ result.unitPriceWei >= bids[x].unitPriceWei
  <1> DEFINE key == <<This, m.message.auctionId>>
             bids == ext.bids[key]
             S == E!Eligible(ext, m.message)
             w == E!Winner(bids, S)
             r == E!ClearResult(ext, m.message)
  <1>1. /\ E!AuctionKey(m.message) = key /\ key \in E!Keys
        /\ m.message.contractAddr = This /\ m.message.auctionId \in AuctionIds
        /\ m.message.floorPriceWei \in Nat /\ m.message.ceilingPriceWei \in Nat
    BY DEF ClearInstructions, E!AuctionKey, E!Keys
  <1>2. bids \in [Accounts -> StoredBids \cup {NoBid}]
    BY <1>1 DEF Extensions
  <1>3. S = {x \in Accounts : /\ bids[x] # NoBid
                              /\ bids[x].unitPriceWei >= m.message.floorPriceWei
                              /\ bids[x].unitPriceWei <= m.message.ceilingPriceWei}
    BY <1>1 DEF E!Eligible, E!Submitted
  <1>4. \A x \in S : bids[x].unitPriceWei \in Nat /\ bids[x].nonce \in Nat
                     /\ bids[x].commitment \in Commitments
    BY <1>2, <1>3 DEF StoredBids
  <1>5. S # {} => w \in S /\ \A y \in S : bids[y].unitPriceWei <= bids[w].unitPriceWei
    BY <1>1, WinnerIsBest
  <1>6. /\ Cardinality(E!Submitted(ext, key)) \in Nat /\ Cardinality(S) \in Nat
    <2>1. E!Submitted(ext, key) \subseteq Accounts /\ S \subseteq Accounts
      BY <1>3 DEF E!Submitted
    <2>2. IsFiniteSet(E!Submitted(ext, key)) /\ IsFiniteSet(S)
      BY <2>1, AddressAssumption, FS_Subset
    <2>. QED
      BY <2>2, FS_CardinalityType
  <1>7. \A T : E!Cardinality(T) = Cardinality(T)
    BY DEF E!Cardinality, Cardinality
  <1>8. r = [contractAddr |-> This, auctionId |-> m.message.auctionId,
             winner |-> IF S # {} THEN w ELSE ZeroAddress,
             unitPriceWei |-> IF S # {} THEN bids[w].unitPriceWei ELSE 0,
             winningNonce |-> IF S # {} THEN bids[w].nonce ELSE 0,
             winningCommitment |-> IF S # {} THEN bids[w].commitment ELSE ZeroHash,
             submittedBidCount |-> Cardinality(E!Submitted(ext, key)),
             eligibleBidCount |-> Cardinality(S)]
    BY <1>1, <1>7 DEF E!ClearResult
  <1> HIDE DEF bids, S, w, r
  <1>9. S # {} => w \in Accounts /\ w # ZeroAddress
    BY <1>3, <1>5, AddressAssumption
  <1>10. r \in Results
    BY <1>1, <1>4, <1>5, <1>6, <1>8, <1>9 DEF Results
  <1>11. /\ r.auctionId = m.message.auctionId
         /\ r.winner # ZeroAddress => S # {}
         /\ S # {} => r.winner = w /\ r.unitPriceWei = bids[w].unitPriceWei
    BY <1>8
  <1>12. r.winner # ZeroAddress =>
           /\ r.winner \in Accounts /\ bids[r.winner] # NoBid
           /\ bids[r.winner].unitPriceWei = r.unitPriceWei
    BY <1>3, <1>5, <1>11
  <1>13. ASSUME NEW x \in Accounts, bids[x] # NoBid,
                bids[x].unitPriceWei \in m.message.floorPriceWei .. m.message.ceilingPriceWei
         PROVE  r.winner # ZeroAddress /\ r.unitPriceWei >= bids[x].unitPriceWei
    <2>1. x \in S
      BY <1>1, <1>3, <1>13
    <2>. QED
      BY <1>4, <1>5, <1>9, <1>11, <2>1
  <1>. QED
    BY <1>10, <1>11, <1>12, <1>13 DEF bids, r

-----------------------------------------------------------------------------
(* What a delivery does                                                    *)

\* An instruction in the log is a bid or a clear, as its command says.
LEMMA SentTyped ==
  ASSUME TypeOK, NEW i \in DOMAIN sent
  PROVE  /\ sent[i].teeId \in TeeIds
         /\ sent[i] \in BidInstructions \/ sent[i] \in ClearInstructions
         /\ sent[i].opCommand = "QF_PRIVATE_BID" <=> sent[i] \in BidInstructions
         /\ sent[i].opCommand = "QF_CLEAR" <=> sent[i] \in ClearInstructions
  <1>1. sent[i] \in BidInstructions \cup ClearInstructions
    BY DEF TypeOK
  <1>. QED
    BY <1>1 DEF BidInstructions, ClearInstructions

Stored(bid) ==
  [nonce |-> bid.nonce, unitPriceWei |-> bid.unitPriceWei, commitment |-> E!Keccak256(bid)]

\* The bid in instruction i is one that the machine may store: its sender
\* sealed it for this machine and this auction.
OwnBid(i) ==
  LET m == sent[i].message
      bid == m.ciphertext.plaintext
  IN  /\ bid \in PlainBids
      /\ m.ciphertext.recipient = sent[i].teeId
      /\ bid.bidder = m.bidder /\ bid.auctionId = m.auctionId
      /\ bid.bidder \in Accounts /\ bid.auctionId \in AuctionIds

\* A delivery concerns one machine, changes its retained results at most by
\* pruning (a clear may also add one), and yields one signature.
DeliveryAt(i, sig) ==
  LET t == sent[i].teeId IN
  /\ t \in TeeIds
  /\ exts' \in [TeeIds -> Extensions]
  /\ \A u \in TeeIds \ {t} : exts'[u] = exts[u]
  /\ signed' = signed \cup {sig}
  /\ sig.signer = t /\ sig.over.instructionId = i
  /\ UNCHANGED <<vars, restarts>>

PrunedOnly(old, new) ==
  \A k \in E!Keys : new.cleared[k] \in {old.cleared[k], Pruned(old, k, now)}

\* A bid is refused, or stored for its bidder and receipted.
BidDelivered(i, sig) ==
  LET bid == sent[i].message.ciphertext.plaintext
      key == <<bid.contractAddr, bid.auctionId>>
      old == exts[sent[i].teeId]
      new == exts'[sent[i].teeId]
  IN  /\ DeliveryAt(i, sig) /\ PrunedOnly(old, new)
      /\ \/ sig.over.status = 0 /\ new.bids = old.bids
         \/ /\ sig.over.status = 1 /\ sig.over.data = E!BidReceipt(bid)
            /\ OwnBid(i) /\ key \in E!Keys
            /\ \A k \in E!Keys, x \in Accounts :
                 new.bids[k][x] = IF k = key /\ x = bid.bidder
                                  THEN Stored(bid) ELSE old.bids[k][x]
            /\ Pruned(old, key, now) = NotCleared
            /\ new.cleared[key] = NotCleared
            /\ E!NonceIncreases(old.bids[key][bid.bidder], bid)

\* The delivery of a bid, whatever the handler makes of it.
LEMMA DeliverBid ==
  ASSUME IndInv, SysTypeOK, NEW i \in DOMAIN sent, sent[i].opCommand = "QF_PRIVATE_BID",
         NEW plaintext \in Plaintexts(i), NEW tag, Deliver(i, plaintext, tag)
  PROVE  \E sig : BidDelivered(i, sig)
  <1> DEFINE t == sent[i].teeId
             m == sent[i].message
             bid == m.ciphertext.plaintext
             key == <<bid.contractAddr, bid.auctionId>>
             old == exts[t]
             new == exts'[t]
             pruned == E!PruneCleared(old, now)
             out == E!HandlePrivateBid(old, m, plaintext, now)
             sig == SignedResult(i, out, tag)
  <1>1. /\ t \in TeeIds /\ m.auctionId \in AuctionIds /\ m.bidder \in Accounts
        /\ m.ciphertext \in Ciphertexts
    BY SentTyped DEF IndInv, BidInstructions
  <1>2. old \in Extensions /\ exts \in [TeeIds -> Extensions]
    BY <1>1 DEF SysTypeOK
  <1>3. Answer(i, plaintext) = out
    BY DEF Answer
  <1>4. /\ exts' = [exts EXCEPT ![t] = out.ext] /\ signed' = signed \cup {sig}
        /\ UNCHANGED <<vars, restarts>>
    BY <1>3 DEF Deliver
  <1>5. new = out.ext /\ \A u \in TeeIds \ {t} : exts'[u] = exts[u]
    BY <1>1, <1>2, <1>4
  <1>6. /\ sig.signer = t /\ sig.over.instructionId = i
        /\ sig.over.status = out.status /\ sig.over.data = out.data
    BY DEF SignedResult
  <1> HIDE DEF sig
  <1>7. /\ pruned \in Extensions /\ pruned.bids = old.bids
        /\ \A k \in E!Keys : pruned.cleared[k] = Pruned(old, k, now)
    BY <1>2, PruneEffect
  <1> HIDE DEF pruned, old, new, out
  <1>8. \/ out.status = 0 /\ out.ext \in {old, pruned}
        \/ /\ out.status = 1 /\ out.data = E!BidReceipt(plaintext)
           /\ out.ext = E!StoreBid(pruned, plaintext)
           /\ E!Acceptable(m, plaintext)
           /\ pruned.cleared[E!AuctionKey(plaintext)] = NotCleared
           /\ E!NonceIncreases(pruned.bids[E!AuctionKey(plaintext)][plaintext.bidder], plaintext)
    BY BidOutcome DEF out, pruned
  <1>9. CASE out.status = 0 /\ out.ext \in {old, pruned}
    <2>1. new \in Extensions /\ new.bids = old.bids /\ PrunedOnly(old, new)
      BY <1>2, <1>5, <1>7, <1>9 DEF PrunedOnly
    <2>2. DeliveryAt(i, sig)
      BY <1>1, <1>2, <1>4, <1>5, <1>6, <2>1 DEF DeliveryAt, new
    <2>. QED
      BY <1>6, <1>9, <2>1, <2>2 DEF BidDelivered, old, new
  <1>10. CASE /\ out.status = 1 /\ out.data = E!BidReceipt(plaintext)
              /\ out.ext = E!StoreBid(pruned, plaintext)
              /\ E!Acceptable(m, plaintext)
              /\ pruned.cleared[E!AuctionKey(plaintext)] = NotCleared
              /\ E!NonceIncreases(pruned.bids[E!AuctionKey(plaintext)][plaintext.bidder], plaintext)
    <2>1. plaintext = bid /\ m.ciphertext.recipient = t /\ bid # Undecodable
      <3>1. plaintext # DecryptFailed /\ plaintext # Undecodable
        BY <1>10 DEF E!Acceptable
      <3>. QED
        BY <3>1 DEF Plaintexts, E!Decryptions
    <2>2. bid \in PlainBids /\ bid.bidder = m.bidder /\ bid.auctionId = m.auctionId
      BY <1>1, <1>10, <2>1 DEF PlainBids, E!Acceptable, E!MatchesEnvelope
    <2>3. OwnBid(i)
      BY <1>1, <2>1, <2>2 DEF OwnBid
    <2>4. key \in E!Keys /\ E!AuctionKey(bid) = key
      BY <1>1, <2>2, BidAssumption DEF E!Keys, E!AuctionKey
    <2>5. Stored(bid) \in StoredBids
      BY <2>2, BidAssumption DEF Stored, StoredBids, Commitments
    <2>6. new = [pruned EXCEPT !.bids[key][bid.bidder] = Stored(bid)]
      BY <1>5, <1>10, <2>1, <2>4 DEF E!StoreBid, Stored
    <2> HIDE DEF bid, key
    <2>7. /\ new.cleared = pruned.cleared
          /\ new.bids = [pruned.bids EXCEPT ![key][bid.bidder] = Stored(bid)]
          /\ new = [bids |-> new.bids, cleared |-> new.cleared]
      BY <1>7, <2>6 DEF Extensions
    <2>8. /\ new.bids \in [E!Keys -> [Accounts -> StoredBids \cup {NoBid}]]
          /\ \A k \in E!Keys, x \in Accounts :
               new.bids[k][x] = IF k = key /\ x = bid.bidder
                                THEN Stored(bid) ELSE old.bids[k][x]
      BY <1>1, <1>7, <2>2, <2>4, <2>5, <2>7 DEF Extensions
    <2>9. new \in Extensions
      BY <1>7, <2>7, <2>8 DEF Extensions
    <2>10. PrunedOnly(old, new) /\ new.cleared[key] = NotCleared /\ Pruned(old, key, now) = NotCleared
      BY <1>7, <1>10, <2>1, <2>4, <2>7 DEF PrunedOnly
    <2>11. DeliveryAt(i, sig)
      BY <1>1, <1>2, <1>4, <1>5, <1>6, <2>9 DEF DeliveryAt, new
    <2>12. E!NonceIncreases(old.bids[key][bid.bidder], bid)
      BY <1>7, <1>10, <2>1, <2>4
    <2>13. sig.over.status = 1 /\ sig.over.data = E!BidReceipt(bid)
      BY <1>6, <1>10, <2>1
    <2>. QED
      BY <2>3, <2>4, <2>8, <2>10, <2>11, <2>12, <2>13 DEF BidDelivered, old, new, key, bid
  <1>. QED
    BY <1>8, <1>9, <1>10

\* What a result computed from bids for the clear request m says.
Computed(result, bids, m) ==
  /\ result \in Results
  /\ result.auctionId = m.auctionId
  /\ result.winner # ZeroAddress =>
       /\ result.winner \in Accounts /\ bids[result.winner] # NoBid
       /\ bids[result.winner].unitPriceWei = result.unitPriceWei
  /\ \A x \in Accounts :
       bids[x] # NoBid /\ bids[x].unitPriceWei \in m.floorPriceWei .. m.ceilingPriceWei
       => /\ result.winner # ZeroAddress
          /\ result.unitPriceWei >= bids[x].unitPriceWei

\* A clear is refused, answered from memory, or computed and retained, and
\* then its bids are purged.
ClearDelivered(i, sig) ==
  LET key == Key(sent[i].message.auctionId)
      old == exts[sent[i].teeId]
      new == exts'[sent[i].teeId]
  IN  /\ DeliveryAt(i, sig) /\ key \in E!Keys
      /\ \A k \in E!Keys \ {key} :
           /\ new.cleared[k] \in {old.cleared[k], Pruned(old, k, now)}
           /\ new.bids[k] = old.bids[k]
      /\ \/ sig.over.status = 0 /\ new = old
         \/ /\ sig.over.status = 1
            /\ new.bids[key] = old.bids[key]
            /\ old.cleared[key] # NotCleared /\ new.cleared[key] = old.cleared[key]
            /\ sig.over.data = old.cleared[key].result
         \/ /\ sig.over.status = 1
            /\ Pruned(old, key, now) = NotCleared
            /\ new.bids[key] = [x \in Accounts |-> NoBid]
            /\ new.cleared[key] = [result |-> sig.over.data, expiresAt |-> now + ClearRetention]
            /\ new.cleared[key] # NotCleared
            /\ Computed(sig.over.data, old.bids[key], sent[i].message)

\* The delivery of a clear, whatever the handler makes of it.
LEMMA DeliverClear ==
  ASSUME IndInv, SysTypeOK, NEW i \in DOMAIN sent, sent[i].opCommand = "QF_CLEAR",
         NEW plaintext, NEW tag, Deliver(i, plaintext, tag)
  PROVE  \E sig : ClearDelivered(i, sig)
  <1> DEFINE t == sent[i].teeId
             m == sent[i].message
             key == Key(m.auctionId)
             old == exts[t]
             new == exts'[t]
             pruned == E!PruneCleared(old, now)
             out == E!HandleClear(old, m, now)
             sig == SignedResult(i, out, tag)
             result == E!ClearResult(pruned, m)
             none == [x \in Accounts |-> NoBid]
             entry == [result |-> result, expiresAt |-> now + ClearRetention]
  <1>1. t \in TeeIds /\ sent[i] \in ClearInstructions
    BY SentTyped DEF IndInv
  <1>2. /\ m.auctionId \in AuctionIds /\ E!AuctionKey(m) = key /\ key \in E!Keys
    BY <1>1 DEF ClearInstructions, E!AuctionKey, E!Keys, Key
  <1>3. old \in Extensions /\ exts \in [TeeIds -> Extensions]
    BY <1>1 DEF SysTypeOK
  <1>4. Answer(i, plaintext) = out
    BY DEF Answer
  <1>5. /\ exts' = [exts EXCEPT ![t] = out.ext] /\ signed' = signed \cup {sig}
        /\ UNCHANGED <<vars, restarts>>
    BY <1>4 DEF Deliver
  <1>6. new = out.ext /\ \A u \in TeeIds \ {t} : exts'[u] = exts[u]
    BY <1>1, <1>3, <1>5
  <1>7. /\ sig.signer = t /\ sig.over.instructionId = i
        /\ sig.over.status = out.status /\ sig.over.data = out.data
    BY DEF SignedResult
  <1> HIDE DEF sig
  <1>8. /\ pruned \in Extensions /\ pruned.bids = old.bids
        /\ \A k \in E!Keys : pruned.cleared[k] = Pruned(old, k, now)
    BY <1>3, PruneEffect
  <1> HIDE DEF pruned
  <1>9. Computed(result, old.bids[key], m)
    <2>1. pruned.bids[<<This, m.auctionId>>] = old.bids[key]
      BY <1>8 DEF Key
    <2>. QED
      BY <1>1, <1>8, <2>1, ResultFacts, ZenonT(60) DEF Computed
  <1> HIDE DEF old, new, out, result
  <1>10. \/ out.status = 0 /\ out.ext = old
         \/ /\ out.status = 1
            /\ pruned.cleared[key] # NotCleared
            /\ out.data = pruned.cleared[key].result /\ out.ext = pruned
         \/ /\ out.status = 1
            /\ pruned.cleared[key] = NotCleared
            /\ out.data = result /\ out.ext = E!RetainResult(pruned, key, result, now)
    BY <1>2, ClearOutcome DEF out, pruned, result
  <1>11. CASE out.status = 0 /\ out.ext = old
    <2>1. DeliveryAt(i, sig) /\ new = old
      BY <1>1, <1>3, <1>5, <1>6, <1>7, <1>11 DEF DeliveryAt, new
    <2>. QED
      BY <1>2, <1>7, <1>11, <2>1 DEF ClearDelivered, old, new
  <1>12. CASE /\ out.status = 1
              /\ pruned.cleared[key] # NotCleared
              /\ out.data = pruned.cleared[key].result /\ out.ext = pruned
    <2>1. DeliveryAt(i, sig) /\ new = pruned
      BY <1>1, <1>3, <1>5, <1>6, <1>7, <1>8, <1>12 DEF DeliveryAt, new
    <2>2. pruned.cleared[key] = old.cleared[key]
      BY <1>2, <1>8, <1>12 DEF Pruned
    <2>3. \A k \in E!Keys \ {key} :
                    /\ new.cleared[k] \in {old.cleared[k], Pruned(old, k, now)}
                    /\ new.bids[k] = old.bids[k]
      BY <1>8, <2>1
    <2>4. /\ new.bids[key] = old.bids[key] /\ new.cleared[key] = old.cleared[key]
          /\ old.cleared[key] # NotCleared
          /\ sig.over.status = 1 /\ sig.over.data = old.cleared[key].result
      BY <1>7, <1>8, <1>12, <2>1, <2>2
    <2> HIDE DEF key, none, entry
    <2>5. ClearDelivered(i, sig)
      BY <1>2, <2>1, <2>3, <2>4 DEF ClearDelivered, old, new, key
    <2>. QED
      BY <2>5
  <1>13. CASE /\ out.status = 1
              /\ pruned.cleared[key] = NotCleared
              /\ out.data = result /\ out.ext = E!RetainResult(pruned, key, result, now)
    <2>1. new = [pruned EXCEPT !.cleared[key] = entry, !.bids[key] = none]
      BY <1>6, <1>13 DEF E!RetainResult
    <2>2. entry \in RetainedResults
      <3>1. now + ClearRetention \in Nat
        BY ExtensionAssumption, BoundAssumption, SMTT(30) DEF IndInv, TypeOK, Times
      <3>. QED
        BY <1>9, <3>1 DEF RetainedResults, Computed
    <2> HIDE DEF key, none, entry
    <2>3. /\ new.bids = [pruned.bids EXCEPT ![key] = none]
          /\ new.cleared = [pruned.cleared EXCEPT ![key] = entry]
          /\ new = [bids |-> new.bids, cleared |-> new.cleared]
      BY <1>8, <2>1 DEF Extensions
    <2>4. none \in [Accounts -> StoredBids \cup {NoBid}]
      BY DEF none
    <2>5. new \in Extensions
      BY <1>8, <2>2, <2>3, <2>4, ZenonT(30) DEF Extensions
    <2>6. DeliveryAt(i, sig)
      BY <1>1, <1>3, <1>5, <1>6, <1>7, <2>5 DEF DeliveryAt, new
    <2>7. /\ new.bids[key] = none /\ new.cleared[key] = entry
          /\ \A k \in E!Keys \ {key} :
               /\ new.cleared[k] \in {old.cleared[k], Pruned(old, k, now)}
               /\ new.bids[k] = old.bids[k]
      BY <1>2, <1>8, <2>3 DEF Extensions
    <2>8. entry # NotCleared /\ Pruned(old, key, now) = NotCleared
      BY <1>2, <1>8, <1>13, <2>2, ExtensionAssumption
    <2>9. sig.over.status = 1 /\ sig.over.data = result
      BY <1>7, <1>13
    <2>. QED
      BY <1>2, <1>9, <2>6, <2>7, <2>8, <2>9 DEF ClearDelivered, old, new, key, none, entry
  <1>. QED
    BY <1>10, <1>11, <1>12, <1>13

-----------------------------------------------------------------------------
(* What a contract step does to the log and to the outcomes                *)

\* The registry's log only grows.
LogKept == \A i \in DOMAIN sent : i \in DOMAIN sent' /\ sent'[i] = sent[i]

\* The log of instructions only grows.
LEMMA LogGrows == TypeOK /\ [Next]_vars => LogKept
  <1> SUFFICES ASSUME TypeOK, [Next]_vars PROVE LogKept
    OBVIOUS
  <1>1. sent \in Seq(BidInstructions \cup ClearInstructions)
    BY DEF TypeOK
  <1>2. CASE UNCHANGED sent
    BY <1>2 DEF LogKept
  <1>3. ASSUME NEW teeId, NEW command, NEW message, SendInstruction(teeId, command, message)
        PROVE  LogKept
    BY <1>1, <1>3 DEF SendInstruction, LogKept
  <1>4. CASE UNCHANGED vars
    BY <1>2, <1>4 DEF vars
  <1>5. CASE Next
    <2>1. CASE \E a \in AuctionIds : \E caller \in Accounts, c \in Ciphertexts :
                 SubmitPrivateBid(caller, a, c)
      BY <1>3, <2>1 DEF SubmitPrivateBid
    <2>2. CASE \E a \in AuctionIds : RequestClear(a)
      BY <1>3, <2>2 DEF RequestClear
    <2>3. CASE Tick \/ SetExtensionId \/ \E sender \in {This, ForeignSender} : RegisterExtension(sender)
      <3>1. UNCHANGED sent
        BY <2>3 DEF Tick, SetExtensionId, RegisterExtension
      <3>. QED
        BY <1>2, <3>1
    <2>4. CASE \E caller \in Accounts, base \in BaseAmounts, floor, ceiling \in PricesWei,
                 bidDeadline, settleDeadline \in Deadlines, teeId \in TeeIds :
               CreateAuction(caller, base, floor, ceiling, bidDeadline, settleDeadline, teeId)
      BY <1>2, <2>4 DEF CreateAuction
    <2>5. CASE \E a \in AuctionIds :
                 SettleWithSomeSignature(a) \/ CancelTimedOutAuction(a)
                 \/ \E caller \in Accounts : WithdrawQuote(caller, a)
      <3>1. UNCHANGED sent
        BY <2>5 DEF SettleWithSomeSignature, SettleAuction, CancelTimedOutAuction, WithdrawQuote
      <3>. QED
        BY <1>2, <3>1
    <2>. QED
      BY <1>5, <2>1, <2>2, <2>3, <2>4, <2>5 DEF Next
  <1>. QED
    BY <1>4, <1>5

\* A dealer's own bids stay its own as the log grows.
LEMMA OwnBidsKept ==
  ASSUME LogKept, NEW x, NEW a, NEW t
  PROVE  OwnBids(x, a, t) \subseteq OwnBids(x, a, t)'
  BY DEF LogKept, OwnBids, BidsSent

\* A settlement writes the outcome of the result it was given.
LEMMA SettleOutcome ==
  ASSUME IndInv, OutcomeOnlyWhenSettled, NEW a \in AuctionIds, NEW result, NEW sig,
         SettleAuction(a, result, sig)
  PROVE  /\ auctions'[a].state \in {"Settled", "NoFill"}
         /\ auctions'[a].state = "Settled" <=> result.winner # ZeroAddress
         /\ auctions'[a].winner = result.winner
         /\ auctions'[a].clearingPriceWei = result.unitPriceWei
         /\ auctions'[a].submittedBidCount = result.submittedBidCount
         /\ auctions'[a].eligibleBidCount = result.eligibleBidCount
         /\ \A f \in {"teeId", "clearInstructionId", "floorPriceWei", "ceilingPriceWei",
                      "bidDeadline", "settleDeadline"} : auctions'[a][f] = auctions[a][f]
         /\ \A b \in AuctionIds \ {a} : auctions'[b] = auctions[b]
         /\ UNCHANGED <<now, sent>>
  <1>1. auctions \in [AuctionIds -> AuctionType]
    BY DEF IndInv, TypeOK
  <1>2. /\ auctions[a].state = "ClearRequested"
        /\ auctions[a].winner = ZeroAddress /\ auctions[a].clearingPriceWei = 0
    BY DEF SettleAuction, OutcomeOnlyWhenSettled
  <1>3. CASE SettleNoFill(a, result)
    BY <1>1, <1>2, <1>3 DEF SettleNoFill, ValidNoFill, SettleAuction, AuctionType
  <1>4. CASE SettleFill(a, result)
    <2>1. result.winner # ZeroAddress /\ UNCHANGED <<now, sent>>
      BY <1>4 DEF SettleFill, SettleAuction
    <2>. QED
      BY <1>1, <1>4, <2>1, FillRecord
  <1>. QED
    BY <1>3, <1>4 DEF SettleAuction

\* Only a relayed result ends an auction with an outcome.
LEMMA OutcomesStand ==
  ASSUME IndInv, OutcomeOnlyWhenSettled, ContractCall, \A b \in AuctionIds : ~Relay(b)
  PROVE  /\ OutcomeOnlyWhenSettled'
         /\ \A a \in AuctionIds : auctions'[a].state \in {"Settled", "NoFill"} =>
              auctions'[a] = auctions[a]
  <1>1. auctions \in [AuctionIds -> AuctionType]
    BY DEF IndInv, TypeOK
  <1>2. CASE UNCHANGED auctions
    BY <1>2 DEF OutcomeOnlyWhenSettled
  <1>3. ASSUME NEW caller \in Accounts, NEW base \in BaseAmounts,
               NEW floor \in PricesWei, NEW ceiling \in PricesWei,
               NEW bidDeadline \in Deadlines, NEW settleDeadline \in Deadlines,
               NEW teeId \in TeeIds,
               CreateAuction(caller, base, floor, ceiling, bidDeadline, settleDeadline, teeId)
        PROVE  /\ OutcomeOnlyWhenSettled'
               /\ \A a \in AuctionIds : auctions'[a].state \in {"Settled", "NoFill"} =>
                    auctions'[a] = auctions[a]
    <2> DEFINE n == nextAuctionId
               listed == ListedAuction(caller, base, floor, ceiling, bidDeadline, settleDeadline, teeId)
    <2>1. n \in AuctionIds /\ auctions' = [auctions EXCEPT ![n] = listed]
      BY <1>3 DEF CreateAuction
    <2>2. listed.state = "Open" /\ listed.winner = ZeroAddress /\ listed.clearingPriceWei = 0
      BY DEF ListedAuction, EmptyAuction
    <2> HIDE DEF n, listed
    <2>. QED
      BY <1>1, <2>1, <2>2 DEF OutcomeOnlyWhenSettled
  <1>4. ASSUME NEW b \in AuctionIds, RequestClear(b) \/ CancelTimedOutAuction(b)
        PROVE  /\ OutcomeOnlyWhenSettled'
               /\ \A a \in AuctionIds : auctions'[a].state \in {"Settled", "NoFill"} =>
                    auctions'[a] = auctions[a]
    <2>1. /\ auctions'[b].state \in {"ClearRequested", "Cancelled"}
          /\ auctions[b].state # "Settled"
          /\ auctions'[b].winner = auctions[b].winner
          /\ auctions'[b].clearingPriceWei = auctions[b].clearingPriceWei
          /\ \A a \in AuctionIds \ {b} : auctions'[a] = auctions[a]
      BY <1>1, <1>4 DEF RequestClear, CancelTimedOutAuction, LiveStates, AuctionType
    <2>. QED
      BY <2>1 DEF OutcomeOnlyWhenSettled
  <1>5. CASE Tick \/ SetExtensionId \/ RegisterExtension(This)
    <2>1. UNCHANGED auctions
      BY <1>5 DEF Tick, SetExtensionId, RegisterExtension
    <2>. QED
      BY <1>2, <2>1
  <1>6. CASE \E a \in AuctionIds, caller \in Accounts :
               WithdrawQuote(caller, a) \/ \E c \in Ciphertexts : SubmitPrivateBid(caller, a, c)
    <2>1. UNCHANGED auctions
      BY <1>6 DEF WithdrawQuote, SubmitPrivateBid
    <2>. QED
      BY <1>2, <2>1
  <1>. QED
    BY <1>3, <1>4, <1>5, <1>6 DEF ContractCall

-----------------------------------------------------------------------------
(* Nobody is charged for a bid that is not its own                         *)

\* The clear request that settlement is bound to asks the pinned machine.
LEMMA BoundRequest ==
  ASSUME IndInv, NEW a \in AuctionIds, auctions[a].clearInstructionId # 0
  PROVE  LET i == auctions[a].clearInstructionId
         IN  /\ i \in DOMAIN sent
             /\ sent[i].opCommand = "QF_CLEAR" /\ sent[i].message.auctionId = a
             /\ sent[i].teeId = auctions[a].teeId
  BY DEF IndInv, OneClearAfterAllBids, ClearsSent

\* What a settlement with an existing signature records was signed by the
\* pinned machine.
LEMMA RelayOutcome ==
  ASSUME IndInv, GenuineInv, NEW a \in AuctionIds, NEW sig \in signed, NEW result,
         SettleAuction(a, result, sig)
  PROVE  /\ OutcomeOnlyWhenSettled'
         /\ UNCHANGED <<now, sent>>
         /\ \A b \in AuctionIds \ {a} : auctions'[b] = auctions[b]
         /\ sig.signer = auctions'[a].teeId
         /\ sig.over.instructionId = auctions'[a].clearInstructionId
         /\ sig.over.submissionTag = "threshold"
         /\ sig.over.status = 1
         /\ sig.over.data.contractAddr = This
         /\ sig.over.data.auctionId = a
         /\ sig.over.data.winner = auctions'[a].winner
         /\ sig.over.data.unitPriceWei = auctions'[a].clearingPriceWei
         /\ sig.over.data.submittedBidCount = auctions'[a].submittedBidCount
         /\ sig.over.data.eligibleBidCount = auctions'[a].eligibleBidCount
         /\ auctions'[a].state = "Settled" =>
              \E bid \in OwnBids(auctions'[a].winner, a, auctions'[a].teeId) :
                bid.unitPriceWei = auctions'[a].clearingPriceWei
  <1>1. /\ sig.over = TeeClearDigest(a, result) /\ sig.signer = auctions[a].teeId
        /\ auctions[a].clearInstructionId # 0
        /\ result.contractAddr = This /\ result.auctionId = a
    BY AcceptedSignature
  <1>2. /\ sig.over.data = result /\ sig.over.status = 1
        /\ sig.over.instructionId = auctions[a].clearInstructionId
        /\ sig.over.submissionTag = "threshold"
    BY <1>1 DEF TeeClearDigest
  <1>3. /\ auctions'[a].state = "Settled" <=> result.winner # ZeroAddress
        /\ auctions'[a].winner = result.winner
        /\ auctions'[a].clearingPriceWei = result.unitPriceWei
        /\ auctions'[a].submittedBidCount = result.submittedBidCount
        /\ auctions'[a].eligibleBidCount = result.eligibleBidCount
        /\ auctions'[a].teeId = auctions[a].teeId
        /\ auctions'[a].clearInstructionId = auctions[a].clearInstructionId
        /\ \A b \in AuctionIds \ {a} : auctions'[b] = auctions[b]
        /\ UNCHANGED <<now, sent>>
    BY SettleOutcome DEF GenuineInv
  <1>4. Genuine(result, auctions[a].teeId)
    <2>1. IsClear(sig)
      BY <1>1, <1>2, BoundRequest DEF IsClear
    <2>. QED
      BY <1>1, <1>2, <2>1 DEF GenuineInv, ResultsGenuine
  <1>5. OutcomeOnlyWhenSettled'
    <2>1. auctions'[a].state # "Settled" =>
            auctions'[a].winner = ZeroAddress /\ auctions'[a].clearingPriceWei = 0
      BY <1>3 DEF SettleAuction, SettleNoFill, ValidNoFill, SettleFill
    <2>. QED
      BY <1>3, <2>1 DEF GenuineInv, OutcomeOnlyWhenSettled
  <1>6. auctions'[a].state = "Settled" =>
              \E bid \in OwnBids(auctions'[a].winner, a, auctions'[a].teeId) :
                bid.unitPriceWei = auctions'[a].clearingPriceWei
    BY <1>1, <1>3, <1>4 DEF Genuine
  <1>. QED
    BY <1>1, <1>2, <1>3, <1>5, <1>6

\* What the enclaves hold and signed stays genuine as the log grows.
LEMMA LogKeepsGenuine ==
  ASSUME GenuineInv, LogKept, UNCHANGED <<exts, signed, restarts>>
  PROVE  SysTypeOK' /\ StoredBidsGenuine' /\ ResultsGenuine'
  <1>1. SysTypeOK'
    BY DEF GenuineInv, SysTypeOK, LogKept
  <1>2. StoredBidsGenuine'
    <2>1. \A stored, x, a, t : GenuineBid(stored, x, a, t) => GenuineBid(stored, x, a, t)'
      BY OwnBidsKept DEF GenuineBid
    <2>. QED
      BY <2>1 DEF GenuineInv, StoredBidsGenuine
  <1>3. \A result, t : Genuine(result, t) => Genuine(result, t)'
    BY OwnBidsKept DEF Genuine
  <1>4. \A sig \in signed : IsClear(sig)' = IsClear(sig)
    BY DEF GenuineInv, SysTypeOK, LogKept, IsClear
  <1>5. ResultsGenuine'
    BY <1>3, <1>4 DEF GenuineInv, ResultsGenuine
  <1>. QED
    BY <1>1, <1>2, <1>5

\* A settlement with an existing signature keeps everything genuine.
LEMMA SettlementKeepsGenuine ==
  ASSUME IndInv, GenuineInv, UNCHANGED teeVars, NEW a \in AuctionIds, NEW sig \in signed,
         NEW result, SettleAuction(a, result, sig)
  PROVE  GenuineInv'
  <1>1. /\ OutcomeOnlyWhenSettled' /\ UNCHANGED sent
        /\ OutcomeSignedByPinnedTee /\ WinnerPaysOwnBid
    BY RelayOutcome DEF GenuineInv
  <1>2. LogKept /\ UNCHANGED <<exts, signed, restarts>>
    BY <1>1 DEF LogKept, teeVars
  <1>3. \A b \in AuctionIds \ {a} : auctions'[b] = auctions[b]
    BY RelayOutcome
  <1>4. \A x, b, t : OwnBids(x, b, t)' = OwnBids(x, b, t)
    BY <1>1 DEF OwnBids, BidsSent
  <1>5. OutcomeSignedByPinnedTee'
    BY <1>1, <1>2, <1>3, RelayOutcome DEF OutcomeSignedByPinnedTee
  <1>6. WinnerPaysOwnBid'
    BY <1>1, <1>3, <1>4, RelayOutcome DEF WinnerPaysOwnBid
  <1>. QED
    BY <1>1, <1>2, <1>5, <1>6, LogKeepsGenuine DEF GenuineInv

\* A call of the contract leaves the enclaves' bids genuine.
LEMMA ContractKeepsGenuine ==
  ASSUME IndInv, GenuineInv, ContractCall, UNCHANGED teeVars
  PROVE  GenuineInv'
  <1>1. LogKept
    <2>1. [Next]_vars
      BY SysStepIsContractStep DEF SysNext
    <2>. QED
      BY <2>1, LogGrows DEF IndInv
  <1>2. SysTypeOK' /\ StoredBidsGenuine' /\ ResultsGenuine'
    BY <1>1, LogKeepsGenuine DEF teeVars
  <1>3. /\ OutcomeOnlyWhenSettled /\ OutcomeSignedByPinnedTee /\ WinnerPaysOwnBid
        /\ signed' = signed
    BY DEF GenuineInv, teeVars
  <1>4. CASE \A b \in AuctionIds : ~Relay(b)
    <2>1. /\ OutcomeOnlyWhenSettled'
          /\ \A a \in AuctionIds : auctions'[a].state \in {"Settled", "NoFill"} =>
               auctions'[a] = auctions[a]
      BY <1>3, <1>4, OutcomesStand
    <2>2. OutcomeSignedByPinnedTee'
      BY <1>3, <2>1 DEF OutcomeSignedByPinnedTee
    <2>3. WinnerPaysOwnBid'
      BY <1>1, <1>3, <2>1, OwnBidsKept DEF WinnerPaysOwnBid
    <2>. QED
      BY <1>2, <2>1, <2>2, <2>3 DEF GenuineInv
  <1>5. ASSUME NEW a \in AuctionIds, Relay(a) PROVE GenuineInv'
    BY <1>5, SettlementKeepsGenuine DEF Relay
  <1>. QED
    BY <1>4, <1>5

\* Steps of the enclaves: nothing on chain changes and no signature is lost.
LEMMA EnclaveKeepsOutcomes ==
  ASSUME GenuineInv, UNCHANGED vars, signed \subseteq signed'
  PROVE  OutcomeOnlyWhenSettled' /\ OutcomeSignedByPinnedTee' /\ WinnerPaysOwnBid'
  BY DEF GenuineInv, vars, OutcomeOnlyWhenSettled, OutcomeSignedByPinnedTee, WinnerPaysOwnBid,
         OwnBids, BidsSent

\* An extension that has forgotten everything holds nothing forged.
LEMMA RestartKeepsGenuine ==
  ASSUME GenuineInv, NEW t \in TeeIds, RestartExtension(t)
  PROVE  GenuineInv'
  <1>1. /\ exts \in [TeeIds -> Extensions]
        /\ exts' = [exts EXCEPT ![t] = E!EmptyExtension]
        /\ UNCHANGED <<vars, signed>> /\ UNCHANGED sent
        /\ restarts' = restarts + 1
    BY DEF GenuineInv, SysTypeOK, RestartExtension, vars
  <1>2. /\ E!EmptyExtension \in Extensions
        /\ \A k \in E!Keys : /\ E!EmptyExtension.cleared[k] = NotCleared
                            /\ \A x \in Accounts : E!EmptyExtension.bids[k][x] = NoBid
    BY DEF E!EmptyExtension, Extensions
  <1>3. SysTypeOK'
    BY <1>1, <1>2 DEF GenuineInv, SysTypeOK
  <1>4. \A x, a, u : OwnBids(x, a, u)' = OwnBids(x, a, u)
    BY <1>1 DEF OwnBids, BidsSent
  <1>5. exts'[t] = E!EmptyExtension /\ \A u \in TeeIds \ {t} : exts'[u] = exts[u]
    BY <1>1
  <1>6. StoredBidsGenuine'
    BY <1>2, <1>4, <1>5, SMTT(30) DEF GenuineInv, StoredBidsGenuine, GenuineBid
  <1>7. ResultsGenuine'
    BY <1>1, <1>2, <1>4, <1>5 DEF GenuineInv, ResultsGenuine, Genuine, IsClear
  <1>. QED
    BY <1>1, <1>3, <1>6, <1>7, EnclaveKeepsOutcomes DEF GenuineInv

\* What every delivery leaves alone.
LEMMA DeliveryFrame ==
  ASSUME GenuineInv, NEW i \in DOMAIN sent, NEW sig, DeliveryAt(i, sig)
  PROVE  /\ SysTypeOK'
         /\ OutcomeOnlyWhenSettled' /\ OutcomeSignedByPinnedTee' /\ WinnerPaysOwnBid'
         /\ \A stored, x, a, u : GenuineBid(stored, x, a, u)' = GenuineBid(stored, x, a, u)
         /\ \A result, u : Genuine(result, u)' = Genuine(result, u)
         /\ \A o : IsClear(o)' = IsClear(o) /\ IsReceipt(o)' = IsReceipt(o)
         /\ signed' = signed \cup {sig}
         /\ UNCHANGED <<now, auctions, sent, restarts>>
  <1>1. /\ UNCHANGED vars /\ UNCHANGED <<now, auctions, sent, restarts>>
        /\ signed' = signed \cup {sig}
    BY DEF DeliveryAt, vars
  <1>2. SysTypeOK'
    BY <1>1 DEF GenuineInv, SysTypeOK, DeliveryAt
  <1>3. \A x, a, u : OwnBids(x, a, u)' = OwnBids(x, a, u)
    BY <1>1 DEF OwnBids, BidsSent
  <1>4. /\ \A stored, x, a, u : GenuineBid(stored, x, a, u)' = GenuineBid(stored, x, a, u)
        /\ \A result, u : Genuine(result, u)' = Genuine(result, u)
        /\ \A o : IsClear(o)' = IsClear(o) /\ IsReceipt(o)' = IsReceipt(o)
    BY <1>1, <1>3 DEF GenuineBid, Genuine, IsClear, IsReceipt
  <1>. QED
    BY <1>1, <1>2, <1>3, <1>4, EnclaveKeepsOutcomes

\* A delivered bid is stored under its sender only.
LEMMA BidKeepsGenuine ==
  ASSUME IndInv, GenuineInv, NEW i \in DOMAIN sent, sent[i].opCommand = "QF_PRIVATE_BID",
         NEW sig, BidDelivered(i, sig)
  PROVE  GenuineInv'
  <1> DEFINE t == sent[i].teeId
             bid == sent[i].message.ciphertext.plaintext
             key == <<bid.contractAddr, bid.auctionId>>
             old == exts[t]
             new == exts'[t]
  <1>1. DeliveryAt(i, sig) /\ PrunedOnly(old, new)
    BY DEF BidDelivered
  <1>2. t \in TeeIds /\ \A u \in TeeIds \ {t} : exts'[u] = exts[u]
    BY <1>1 DEF DeliveryAt
  <1>3. StoredBidsGenuine'
    <2>1. CASE new.bids = old.bids
      BY <1>1, <1>2, <2>1, DeliveryFrame DEF GenuineInv, StoredBidsGenuine
    <2>2. CASE /\ OwnBid(i) /\ key \in E!Keys
               /\ \A k \in E!Keys, x \in Accounts :
                    new.bids[k][x] = IF k = key /\ x = bid.bidder
                                     THEN Stored(bid) ELSE old.bids[k][x]
      <3>1. bid \in OwnBids(bid.bidder, bid.auctionId, t)
        <4>1. /\ bid # Undecodable /\ sent[i].message.ciphertext.recipient = t
              /\ bid.bidder = sent[i].message.bidder /\ bid.auctionId = sent[i].message.auctionId
          BY <2>2 DEF OwnBid, PlainBids
        <4>2. i \in BidsSent(bid.auctionId)
          BY <4>1 DEF BidsSent
        <4>. QED
          BY <4>1, <4>2 DEF OwnBids
      <3>2. GenuineBid(Stored(bid), bid.bidder, bid.auctionId, t)
        BY <3>1 DEF GenuineBid, Stored, E!Keccak256
      <3>3. key[2] = bid.auctionId
        OBVIOUS
      <3> HIDE DEF bid, key, old, new
      <3>4. ASSUME NEW k \in E!Keys, NEW x \in Accounts, new.bids[k][x] # NoBid
            PROVE  GenuineBid(new.bids[k][x], x, k[2], t)
        <4>1. CASE k = key /\ x = bid.bidder
          BY <2>2, <3>2, <3>3, <4>1
        <4>2. CASE ~(k = key /\ x = bid.bidder)
          BY <1>2, <2>2, <3>4, <4>2 DEF GenuineInv, StoredBidsGenuine, old
        <4>. QED
          BY <4>1, <4>2
      <3>. QED
        BY <1>1, <1>2, <3>4, DeliveryFrame DEF GenuineInv, StoredBidsGenuine, new
    <2>. QED
      BY <2>1, <2>2 DEF BidDelivered
  <1>4. ResultsGenuine'
    <2>1. ~IsClear(sig)
      BY <1>1 DEF DeliveryAt, IsClear
    <2>2. \A k \in E!Keys : new.cleared[k] # NotCleared => new.cleared[k] = old.cleared[k]
      BY <1>1 DEF PrunedOnly, Pruned
    <2>. QED
      BY <1>1, <1>2, <2>1, <2>2, DeliveryFrame DEF GenuineInv, ResultsGenuine
  <1>. QED
    BY <1>1, <1>3, <1>4, DeliveryFrame DEF GenuineInv

\* A clear names a winner and a price among genuine bids.
LEMMA ClearKeepsGenuine ==
  ASSUME IndInv, GenuineInv, NEW i \in DOMAIN sent, sent[i].opCommand = "QF_CLEAR",
         NEW sig, ClearDelivered(i, sig)
  PROVE  GenuineInv'
  <1> DEFINE t == sent[i].teeId
             m == sent[i].message
             key == Key(m.auctionId)
             old == exts[t]
             new == exts'[t]
  <1>1. /\ DeliveryAt(i, sig) /\ key \in E!Keys /\ key[2] = m.auctionId
        /\ \A k \in E!Keys \ {key} :
             /\ new.cleared[k] # NotCleared => new.cleared[k] = old.cleared[k]
             /\ new.bids[k] = old.bids[k]
    BY DEF ClearDelivered, Pruned, Key
  <1>2. t \in TeeIds /\ sig.signer = t /\ \A u \in TeeIds \ {t} : exts'[u] = exts[u]
    BY <1>1 DEF DeliveryAt
  <1>3. /\ \A x \in Accounts : new.bids[key][x] # NoBid => new.bids[key][x] = old.bids[key][x]
        /\ new.cleared[key] # NotCleared => Genuine(new.cleared[key].result, t)
        /\ IsClear(sig) => Genuine(sig.over.data, t)
    <2>1. CASE sig.over.status = 0 /\ new = old
      BY <1>1, <1>2, <2>1 DEF IsClear, GenuineInv, ResultsGenuine
    <2>2. CASE /\ new.bids[key] = old.bids[key]
               /\ old.cleared[key] # NotCleared /\ new.cleared[key] = old.cleared[key]
               /\ sig.over.data = old.cleared[key].result
      BY <1>1, <1>2, <2>2 DEF GenuineInv, ResultsGenuine
    <2>3. CASE /\ new.bids[key] = [x \in Accounts |-> NoBid]
               /\ new.cleared[key] = [result |-> sig.over.data, expiresAt |-> now + ClearRetention]
               /\ Computed(sig.over.data, old.bids[key], m)
      <3> DEFINE r == sig.over.data
      <3>1. Genuine(r, t)
        <4> SUFFICES ASSUME r.winner # ZeroAddress
                     PROVE  \E bid \in OwnBids(r.winner, r.auctionId, t) :
                              bid.unitPriceWei = r.unitPriceWei
          BY DEF Genuine
        <4>1. /\ r.auctionId = m.auctionId /\ r.winner \in Accounts
              /\ old.bids[key][r.winner] # NoBid
              /\ old.bids[key][r.winner].unitPriceWei = r.unitPriceWei
          BY <2>3 DEF Computed
        <4>2. GenuineBid(old.bids[key][r.winner], r.winner, r.auctionId, t)
          BY <1>1, <1>2, <4>1, ZenonT(30) DEF GenuineInv, StoredBidsGenuine
        <4>. QED
          BY <4>1, <4>2 DEF GenuineBid
      <3>2. /\ \A x \in Accounts : new.bids[key][x] = NoBid
            /\ new.cleared[key].result = r
        BY <2>3
      <3>. QED
        BY <3>1, <3>2
    <2>. QED
      BY <2>1, <2>2, <2>3 DEF ClearDelivered
  <1> HIDE DEF key, old, new
  <1>4. StoredBidsGenuine'
    <2>1. \A k \in E!Keys, x \in Accounts : new.bids[k][x] # NoBid => new.bids[k][x] = old.bids[k][x]
      BY <1>1, <1>3
    <2>. QED
      BY <1>1, <1>2, <2>1, DeliveryFrame, SMTT(30) DEF GenuineInv, StoredBidsGenuine, old, new
  <1>5. ResultsGenuine'
    <2>1. \A k \in E!Keys : new.cleared[k] # NotCleared => Genuine(new.cleared[k].result, t)
      BY <1>1, <1>2, <1>3 DEF GenuineInv, ResultsGenuine, old
    <2>. QED
      BY <1>1, <1>2, <1>3, <2>1, DeliveryFrame DEF GenuineInv, ResultsGenuine, new
  <1>. QED
    BY <1>1, <1>4, <1>5, DeliveryFrame DEF GenuineInv

\* Every step of the system keeps bids and results genuine.
LEMMA SysStepGenuine == IndInv /\ GenuineInv /\ [SysNext]_sysVars => GenuineInv'
  <1> SUFFICES ASSUME IndInv, GenuineInv, [SysNext]_sysVars PROVE GenuineInv'
    OBVIOUS
  <1>1. CASE ContractCall /\ UNCHANGED teeVars
    BY <1>1, ContractKeepsGenuine
  <1>2. ASSUME NEW i \in DOMAIN sent, NEW plaintext \in Plaintexts(i), NEW tag \in TagsOf(i),
               Deliver(i, plaintext, tag)
        PROVE  GenuineInv'
    <2>1. TypeOK /\ SysTypeOK
      BY DEF IndInv, GenuineInv
    <2>2. CASE sent[i].opCommand = "QF_PRIVATE_BID"
      BY <1>2, <2>1, <2>2, DeliverBid, BidKeepsGenuine
    <2>3. CASE sent[i].opCommand = "QF_CLEAR"
      BY <1>2, <2>1, <2>3, DeliverClear, ClearKeepsGenuine
    <2>. QED
      BY <2>1, <2>2, <2>3, SentTyped
  <1>3. ASSUME NEW t \in TeeIds, RestartExtension(t) PROVE GenuineInv'
    BY <1>3, RestartKeepsGenuine
  <1>4. CASE UNCHANGED sysVars
    <2>1. UNCHANGED vars /\ UNCHANGED sent /\ UNCHANGED <<exts, signed, restarts>>
      BY <1>4 DEF sysVars, vars, teeVars
    <2>2. LogKept
      BY <2>1 DEF LogKept
    <2>. QED
      BY <2>1, <2>2, LogKeepsGenuine, EnclaveKeepsOutcomes DEF GenuineInv
  <1>. QED
    BY <1>1, <1>2, <1>3, <1>4 DEF SysNext

\* At first no enclave holds anything.
LEMMA SysInitGenuine == SysInit => GenuineInv
  <1> SUFFICES ASSUME SysInit PROVE GenuineInv
    OBVIOUS
  <1>1. /\ E!EmptyExtension \in Extensions
        /\ \A k \in E!Keys : /\ E!EmptyExtension.cleared[k] = NotCleared
                            /\ \A x \in Accounts : E!EmptyExtension.bids[k][x] = NoBid
    BY DEF E!EmptyExtension, Extensions
  <1>2. signed = {} /\ restarts = 0 /\ exts = [t \in TeeIds |-> E!EmptyExtension]
    BY DEF SysInit
  <1>3. SysTypeOK /\ StoredBidsGenuine /\ ResultsGenuine
    BY <1>1, <1>2 DEF SysTypeOK, StoredBidsGenuine, ResultsGenuine
  <1>4. \A a \in AuctionIds : auctions[a] = EmptyAuction
    BY DEF SysInit, Init
  <1>5. OutcomeOnlyWhenSettled /\ OutcomeSignedByPinnedTee /\ WinnerPaysOwnBid
    BY <1>4 DEF EmptyAuction, OutcomeOnlyWhenSettled, OutcomeSignedByPinnedTee, WinnerPaysOwnBid
  <1>. QED
    BY <1>3, <1>5 DEF GenuineInv

\* The inductive invariant of the system: what extensions hold, what is
\* signed and what the contract recorded all stem from bids in the log.
THEOREM GenuineInvariance == SysSpec => []GenuineInv
  <1>. QED
    BY SystemImplementsContract, SysInitGenuine, SysStepGenuine, PTL DEF SysSpec

\* No bidder can spoof or displace another, whatever ciphertexts are copied,
\* whatever is delivered twice and whatever restarts: an enclave only holds,
\* for a dealer, bids that this dealer itself sent to it for this auction.
THEOREM StoredBidsAreGenuine == SysSpec => []StoredBidsGenuine
  BY GenuineInvariance, PTL DEF GenuineInv

\* No relayer can alter, replay or cross-apply a result: what the contract
\* recorded is what the pinned machine signed for this very clear request.
THEOREM OutcomesAreSigned == SysSpec => []OutcomeSignedByPinnedTee
  BY GenuineInvariance, PTL DEF GenuineInv

\* From the two: the winner pays a price that it bid itself, for this
\* auction, in an instruction it sent on chain.
THEOREM WinnersPayOwnBids == SysSpec => []WinnerPaysOwnBid
  BY GenuineInvariance, PTL DEF GenuineInv

-----------------------------------------------------------------------------
(* No receipted bid is passed over                                         *)

\* Receipts that a step neither adds nor removes.
LEMMA SameReceipts ==
  ASSUME NEW sig, ~IsReceipt(sig), UNCHANGED sent,
         signed' \in {signed, signed \cup {sig}}, NEW a
  PROVE  Receipts(a)' = Receipts(a)
  BY DEF Receipts, IsReceipt

\* Receipts do not depend on later instructions.
LEMMA LogKeepsReceipts ==
  ASSUME SysTypeOK, LogKept, UNCHANGED signed, NEW a
  PROVE  Receipts(a)' = Receipts(a)
  BY DEF Receipts, SysTypeOK, LogKept

\* The receipts after one more signature.
LEMMA NewReceipt ==
  ASSUME NEW sig, IsReceipt(sig), UNCHANGED sent, signed' = signed \cup {sig}, NEW a
  PROVE  Receipts(a)' = Receipts(a) \cup
           (IF sig.over.data.contractAddr = This /\ sig.over.data.auctionId = a
            THEN {sig.over.data} ELSE {})
  BY DEF Receipts, IsReceipt

\* What is said about a receipt of auction a.
LEMMA ReceiptTyped ==
  ASSUME GenuineInv, ReceiptsSound, NEW a \in AuctionIds, NEW receipt \in Receipts(a)
  PROVE  /\ receipt.bidder \in Accounts /\ receipt.nonce \in Nat
         /\ receipt.bidCommitment \in Commitments
         /\ BidsSent(a) # {}
  <1>1. PICK sig \in signed : /\ IsReceipt(sig) /\ sig.over.data = receipt
                              /\ sig.over.data.auctionId = a
    BY DEF Receipts, IsReceipt
  <1>2. sig.over.instructionId \in BidsSent(a)
    BY <1>1 DEF GenuineInv, SysTypeOK, ReceiptsSound, IsReceipt, BidsSent
  <1>. QED
    BY <1>1, <1>2 DEF ReceiptsSound

\* Nothing is pruned of an auction that is not cleared or within the retention
\* from its deadline.
LEMMA PrunesNothing ==
  ASSUME IndInv, RetainedFromDeadline, SysTypeOK,
         NEW t \in TeeIds, NEW a \in AuctionIds, Remembers(a)
  PROVE  Pruned(exts[t], Key(a), now) = exts[t].cleared[Key(a)]
  <1>1. now \in Nat /\ auctions[a].bidDeadline \in Nat /\ ClearRetention \in Nat
    BY ExtensionAssumption DEF IndInv, TypeOK, Times, AuctionType
  <1>2. Key(a) \in E!Keys
    BY DEF Key, E!Keys
  <1>3. exts[t].cleared[Key(a)] # NotCleared => exts[t].cleared[Key(a)].expiresAt \in Nat
    BY <1>2 DEF SysTypeOK, Extensions, RetainedResults
  <1>4. exts[t].cleared[Key(a)] # NotCleared =>
          /\ WithinRetention(a)
          /\ exts[t].cleared[Key(a)].expiresAt >= auctions[a].bidDeadline + ClearRetention
    BY DEF RetainedFromDeadline, Remembers
  <1>. QED
    BY <1>1, <1>3, <1>4 DEF WithinRetention, Pruned

\* HeldOrHonoured(a) looks at the pinned machine's entries for a, the
\* receipts for a and the collar of a.
LEMMA HeldFrame ==
  ASSUME NEW a \in AuctionIds,
         Pinned(a).bids[Key(a)]' = Pinned(a).bids[Key(a)],
         Pinned(a).cleared[Key(a)]' = Pinned(a).cleared[Key(a)],
         Receipts(a)' = Receipts(a),
         auctions'[a].floorPriceWei = auctions[a].floorPriceWei,
         auctions'[a].ceilingPriceWei = auctions[a].ceilingPriceWei
  PROVE  HeldOrHonoured(a)' = HeldOrHonoured(a)
  <1>1. \A receipt : Held(a, receipt)' = Held(a, receipt)
    BY DEF Held, Key
  <1>2. \A receipt : Latest(a, receipt)' = Latest(a, receipt)
    BY DEF Latest
  <1>3. \A result, receipt : Honours(result, receipt)' = Honours(result, receipt)
    BY DEF Honours
  <1>. QED
    BY <1>1, <1>2, <1>3 DEF HeldOrHonoured, Key

\* An auction that exists keeps its machine, its collar and its deadlines.
TermsKept ==
  \A a \in AuctionIds : auctions[a].state # "None" =>
    \A f \in {"teeId", "floorPriceWei", "ceilingPriceWei", "bidDeadline", "settleDeadline"} :
      auctions'[a][f] = auctions[a][f]

\* No step of the contract changes them.
LEMMA StepKeepsTerms == IndInv /\ [Next]_vars => TermsKept
  <1> SUFFICES ASSUME IndInv, [Next]_vars PROVE TermsKept
    OBVIOUS
  <1>1. CASE StepKeepsRecords
    BY <1>1 DEF StepKeepsRecords, RecordKept, TermsKept
  <1>2. CASE UNCHANGED vars
    BY <1>2 DEF vars, TermsKept
  <1>. QED
    BY <1>1, <1>2, NextKeepsRecords

\* Time does not run backwards, and a clear is requested after the bid
\* deadline.
ClearsOnTime ==
  /\ now \in Nat /\ now' \in Nat /\ now <= now'
  /\ \A a \in AuctionIds :
       auctions'[a].clearInstructionId # auctions[a].clearInstructionId =>
         /\ auctions[a].clearInstructionId = 0
         /\ auctions[a].state # "None" /\ now >= auctions[a].bidDeadline

\* A settlement keeps the time and the clear requests.
LEMMA SettleClearsOnTime ==
  ASSUME IndInv, NEW b \in AuctionIds, NEW result, NEW signature,
         SettleAuction(b, result, signature)
  PROVE  ClearsOnTime
  <1>1. auctions \in [AuctionIds -> AuctionType] /\ now \in Nat /\ now' = now
    BY DEF IndInv, TypeOK, Times, SettleAuction
  <1>2. CASE SettleNoFill(b, result)
    <2>1. \A a \in AuctionIds : auctions'[a].clearInstructionId = auctions[a].clearInstructionId
      BY <1>1, <1>2 DEF SettleNoFill, AuctionType
    <2>. QED
      BY <1>1, <2>1 DEF ClearsOnTime
  <1>3. CASE SettleFill(b, result)
    <2>1. auctions'[b].clearInstructionId = auctions[b].clearInstructionId
          /\ \A a \in AuctionIds \ {b} : auctions'[a] = auctions[a]
      BY <1>1, <1>3, FillRecord
    <2>. QED
      BY <1>1, <2>1 DEF ClearsOnTime
  <1>. QED
    BY <1>2, <1>3 DEF SettleAuction

\* So it is in every step of the contract.
LEMMA StepClearsOnTime == IndInv /\ [Next]_vars => ClearsOnTime
  <1> SUFFICES ASSUME IndInv, [Next]_vars PROVE ClearsOnTime
    OBVIOUS
  <1>0. /\ auctions \in [AuctionIds -> AuctionType] /\ now \in Nat
        /\ \A a \in AuctionIds : auctions[a].state = "None" => auctions[a].clearInstructionId = 0
    BY DEF IndInv, TypeOK, Times, LogSound
  <1>1. CASE UNCHANGED auctions /\ now' \in {now, now + 1}
    BY <1>0, <1>1 DEF ClearsOnTime
  <1>2. ASSUME NEW caller \in Accounts, NEW base \in BaseAmounts,
               NEW floor \in PricesWei, NEW ceiling \in PricesWei,
               NEW bidDeadline \in Deadlines, NEW settleDeadline \in Deadlines,
               NEW teeId \in TeeIds,
               CreateAuction(caller, base, floor, ceiling, bidDeadline, settleDeadline, teeId)
        PROVE  ClearsOnTime
    <2>1. /\ now' = now
          /\ \A a \in AuctionIds : a # nextAuctionId => auctions'[a] = auctions[a]
          /\ \A a \in AuctionIds : a = nextAuctionId => auctions'[a].clearInstructionId = 0
      BY <1>0, <1>2 DEF CreateAuction, ListedAuction, EmptyAuction
    <2>2. \A a \in AuctionIds : a = nextAuctionId => auctions[a].clearInstructionId = 0
      BY <1>0 DEF IndInv, EscrowExact, AuctionIds
    <2>. QED
      BY <1>0, <2>1, <2>2 DEF ClearsOnTime
  <1>3. ASSUME NEW b \in AuctionIds, RequestClear(b) PROVE ClearsOnTime
    <2>1. /\ now' = now /\ auctions[b].state = "Open" /\ now >= auctions[b].bidDeadline
          /\ auctions[b].clearInstructionId = 0
          /\ \A a \in AuctionIds : a # b => auctions'[a] = auctions[a]
      BY <1>0, <1>3 DEF RequestClear, ClearWindowOpen, IndInv, LogSound
    <2>. QED
      BY <1>0, <2>1 DEF ClearsOnTime
  <1>4. ASSUME NEW b \in AuctionIds, CancelTimedOutAuction(b) PROVE ClearsOnTime
    <2>1. now' = now /\ \A a \in AuctionIds :
            auctions'[a].clearInstructionId = auctions[a].clearInstructionId
      BY <1>0, <1>4 DEF CancelTimedOutAuction, AuctionType
    <2>. QED
      BY <1>0, <2>1 DEF ClearsOnTime
  <1>5. ASSUME NEW b \in AuctionIds, NEW result \in ClearResults, NEW signature,
               SettleAuction(b, result, signature)
        PROVE  ClearsOnTime
    BY <1>0, <1>5, SettleClearsOnTime
  <1>6. CASE Tick \/ SetExtensionId \/ (\E sender \in {This, ForeignSender} : RegisterExtension(sender))
    BY <1>1, <1>6 DEF Tick, SetExtensionId, RegisterExtension
  <1>7. ASSUME NEW b \in AuctionIds, NEW caller \in Accounts,
               WithdrawQuote(caller, b) \/ \E c \in Ciphertexts : SubmitPrivateBid(caller, b, c)
        PROVE  ClearsOnTime
    BY <1>1, <1>7 DEF WithdrawQuote, SubmitPrivateBid
  <1>8. CASE UNCHANGED vars
    BY <1>1, <1>8 DEF vars
  <1>. QED
    BY <1>2, <1>3, <1>4, <1>5, <1>6, <1>7, <1>8 DEF Next, SettleWithSomeSignature

\* Instructions are sent for existing auctions, to the pinned machine; a
\* clear request states the collar.
LEMMA SentForAuction ==
  ASSUME IndInv, NEW i \in DOMAIN sent
  PROVE  LET a == sent[i].message.auctionId
         IN  /\ a \in AuctionIds /\ Key(a) \in E!Keys
             /\ auctions[a].state # "None" /\ auctions[a].teeId = sent[i].teeId
             /\ sent[i].opCommand = "QF_CLEAR" =>
                  /\ sent[i].message.floorPriceWei = auctions[a].floorPriceWei
                  /\ sent[i].message.ceilingPriceWei = auctions[a].ceilingPriceWei
  <1> DEFINE a == sent[i].message.auctionId
  <1>1. \/ sent[i] \in BidInstructions /\ sent[i].opCommand = "QF_PRIVATE_BID"
        \/ sent[i] \in ClearInstructions /\ sent[i].opCommand = "QF_CLEAR"
    BY SentTyped DEF IndInv
  <1>2. a \in AuctionIds /\ Key(a) \in E!Keys
    BY <1>1 DEF BidInstructions, ClearInstructions, Key, E!Keys
  <1>3. i # 0
    BY DEF IndInv, TypeOK
  <1>4. \/ i \in BidsSent(a) /\ sent[i].opCommand = "QF_PRIVATE_BID"
        \/ i \in ClearsSent(a)
    BY <1>1 DEF BidsSent, ClearsSent
  <1> HIDE DEF a
  <1>5. i \in ClearsSent(a) => auctions[a].clearInstructionId # 0
    BY <1>2, <1>3 DEF IndInv, OneClearAfterAllBids
  <1>6. auctions[a].state # "None"
    BY <1>2, <1>4, <1>5 DEF IndInv, LogSound
  <1>7. /\ auctions[a].teeId = sent[i].teeId
        /\ i \in ClearsSent(a) =>
             /\ sent[i].message.floorPriceWei = auctions[a].floorPriceWei
             /\ sent[i].message.ceilingPriceWei = auctions[a].ceilingPriceWei
    BY <1>2, <1>4 DEF IndInv, OneClearAfterAllBids
  <1>. QED
    BY <1>2, <1>4, <1>6, <1>7 DEF a

\* A clear is in the log only from the bid deadline on.
LEMMA ClearSentOnTime ==
  ASSUME IndInv, RetainedFromDeadline, NEW i \in DOMAIN sent, sent[i].opCommand = "QF_CLEAR"
  PROVE  /\ auctions[sent[i].message.auctionId].clearInstructionId # 0
         /\ now >= auctions[sent[i].message.auctionId].bidDeadline
  <1> DEFINE a == sent[i].message.auctionId
  <1>1. a \in AuctionIds /\ i \in ClearsSent(a) /\ i # 0
    BY SentForAuction DEF ClearsSent, IndInv, TypeOK
  <1> HIDE DEF a
  <1>2. auctions[a].clearInstructionId # 0
    BY <1>1 DEF IndInv, OneClearAfterAllBids
  <1>. QED
    BY <1>1, <1>2 DEF RetainedFromDeadline, a

\* Who is within the retention now was so before.
LEMMA RetentionRuns ==
  ASSUME IndInv, TermsKept, ClearsOnTime, NEW a \in AuctionIds,
         auctions[a].state # "None", WithinRetention(a)'
  PROVE  WithinRetention(a)
  <1>1. auctions'[a].bidDeadline = auctions[a].bidDeadline
    BY DEF TermsKept
  <1>2. auctions[a].bidDeadline \in Nat /\ ClearRetention \in Nat
    BY ExtensionAssumption DEF IndInv, TypeOK, AuctionType, Times
  <1>. QED
    BY <1>1, <1>2 DEF WithinRetention, ClearsOnTime

\* What was answered does not depend on later instructions.
LEMMA SameAnswers ==
  ASSUME SysTypeOK, LogKept, UNCHANGED signed, NEW a
  PROVE  Answered(a)' = Answered(a)
  BY DEF Answered, IsClear, SysTypeOK, LogKept

\* What is retained stays so while the contract goes on.
LEMMA ContractKeepsRetained ==
  ASSUME IndInv, SysTypeOK, RetainedFromDeadline, LogKept, TermsKept, ClearsOnTime,
         UNCHANGED <<exts, signed>>
  PROVE  RetainedFromDeadline'
  <1>1. \A a \in AuctionIds : auctions[a].bidDeadline \in Nat
    BY DEF IndInv, TypeOK, AuctionType, Times
  <1>2. \A a \in AuctionIds : auctions[a].state # "None" =>
          auctions'[a].bidDeadline = auctions[a].bidDeadline
    BY DEF TermsKept
  <1>3. \A a \in AuctionIds : auctions[a].clearInstructionId # 0 => auctions[a].state # "None"
    BY DEF IndInv, LogSound
  <1>4. ASSUME NEW a \in AuctionIds, auctions'[a].clearInstructionId # 0
        PROVE  now' >= auctions'[a].bidDeadline
    <2>1. auctions[a].state # "None" /\ now >= auctions[a].bidDeadline
      BY <1>3, <1>4 DEF ClearsOnTime, RetainedFromDeadline
    <2>. QED
      BY <1>1, <1>2, <2>1 DEF ClearsOnTime
  <1>5. ASSUME NEW t \in TeeIds, NEW a \in AuctionIds, exts[t].cleared[Key(a)] # NotCleared
        PROVE  /\ auctions'[a].clearInstructionId # 0 /\ Answered(a)
               /\ exts[t].cleared[Key(a)].expiresAt >= auctions'[a].bidDeadline + ClearRetention
    <2>1. auctions[a].clearInstructionId # 0
      BY <1>5 DEF RetainedFromDeadline
    <2>. QED
      BY <1>2, <1>3, <1>5, <2>1 DEF RetainedFromDeadline, ClearsOnTime
  <1>. QED
    BY <1>4, <1>5, SameAnswers DEF RetainedFromDeadline, Key

\* A call of the contract breaks no receipt.
LEMMA ContractKeepsReceipts ==
  ASSUME IndInv, GenuineInv, ReceiptInv, LogKept, TermsKept, ClearsOnTime, UNCHANGED teeVars
  PROVE  ReceiptInv'
  <1>1. LogKept /\ UNCHANGED <<exts, signed, restarts>>
    BY DEF teeVars
  <1>2. \A a : Receipts(a)' = Receipts(a)
    BY <1>1, LogKeepsReceipts DEF GenuineInv
  <1>3. \A sig \in signed : /\ IsReceipt(sig)' = IsReceipt(sig) /\ IsClear(sig)' = IsClear(sig)
                            /\ sent'[sig.over.instructionId] = sent[sig.over.instructionId]
    BY <1>1 DEF GenuineInv, SysTypeOK, LogKept, IsReceipt, IsClear
  <1>4. ReceiptsSound'
    BY <1>1, <1>3 DEF ReceiptInv, ReceiptsSound
  <1>5. StoredBidsReceipted'
    BY <1>1, <1>2 DEF ReceiptInv, StoredBidsReceipted, Key
  <1>6. RetainedFromDeadline'
    BY <1>1, ContractKeepsRetained DEF ReceiptInv, GenuineInv
  <1>7. ASSUME restarts = 0 PROVE ReceiptsHeld'
    <2>1. ASSUME NEW a \in AuctionIds, auctions[a].state # "None", Remembers(a)'
          PROVE  HeldOrHonoured(a)'
      <3>0. Remembers(a)
        BY <1>1, <2>1, RetentionRuns, SameAnswers DEF Remembers, GenuineInv
      <3>1. HeldOrHonoured(a)
        BY <1>7, <2>1, <3>0 DEF ReceiptInv, ReceiptsHeld
      <3>2. /\ auctions'[a].teeId = auctions[a].teeId
            /\ auctions'[a].floorPriceWei = auctions[a].floorPriceWei
            /\ auctions'[a].ceilingPriceWei = auctions[a].ceilingPriceWei
        BY <2>1 DEF TermsKept
      <3>3. /\ Pinned(a).bids[Key(a)]' = Pinned(a).bids[Key(a)]
            /\ Pinned(a).cleared[Key(a)]' = Pinned(a).cleared[Key(a)]
        BY <1>1, <3>2 DEF Pinned, Key
      <3>. QED
        BY <1>2, <3>1, <3>2, <3>3, HeldFrame
    <2>2. ASSUME NEW a \in AuctionIds, auctions[a].state = "None" PROVE HeldOrHonoured(a)'
      <3>1. Receipts(a) = {}
        BY <2>2, ReceiptTyped DEF ReceiptInv, IndInv, LogSound
      <3>. QED
        BY <1>2, <3>1 DEF HeldOrHonoured
    <2>. QED
      BY <2>1, <2>2 DEF ReceiptsHeld
  <1>8. ASSUME restarts = 0 PROVE SignedIsRetained'
    <2> SUFFICES ASSUME NEW sig \in signed, IsClear(sig),
                        NEW a, a = sent[sig.over.instructionId].message.auctionId,
                        WithinRetention(a)'
                 PROVE  LET retained == exts[auctions'[a].teeId].cleared[Key(a)]
                        IN  retained # NotCleared /\ retained.result = sig.over.data
      BY <1>1, <1>3 DEF SignedIsRetained, Pinned, Key, WithinRetention
    <2>1. /\ sig.over.instructionId \in DOMAIN sent
          /\ sent[sig.over.instructionId].opCommand = "QF_CLEAR"
      BY DEF GenuineInv, SysTypeOK, IsClear
    <2>2. a \in AuctionIds /\ auctions[a].state # "None"
      BY <2>1, SentForAuction
    <2>3. WithinRetention(a) /\ auctions'[a].teeId = auctions[a].teeId
      BY <2>2, RetentionRuns DEF TermsKept
    <2>. QED
      BY <1>8, <2>3 DEF ReceiptInv, SignedIsRetained, Pinned
  <1>. QED
    BY <1>1, <1>4, <1>5, <1>6, <1>7, <1>8 DEF ReceiptInv

\* An entry of the bid map is a stored bid or none.
LEMMA StoredBidTyped ==
  ASSUME NEW e \in Extensions, NEW k \in E!Keys, NEW x \in Accounts
  PROVE  e.bids[k][x] \in StoredBids \cup {NoBid}
  BY DEF Extensions

\* A restart ends the claim that receipts make.
LEMMA RestartKeepsReceipts ==
  ASSUME GenuineInv, ReceiptInv, NEW t \in TeeIds, RestartExtension(t)
  PROVE  ReceiptInv'
  <1>1. /\ exts'[t] = E!EmptyExtension /\ \A u \in TeeIds \ {t} : exts'[u] = exts[u]
        /\ UNCHANGED <<now, auctions, sent, signed>>
        /\ restarts' = restarts + 1 /\ restarts \in Nat
    BY DEF GenuineInv, SysTypeOK, RestartExtension, vars
  <1>2. \A k \in E!Keys : /\ E!EmptyExtension.cleared[k] = NotCleared
                         /\ \A x \in Accounts : E!EmptyExtension.bids[k][x] = NoBid
    BY DEF E!EmptyExtension
  <1>3. \A a : Receipts(a)' = Receipts(a)
    BY <1>1 DEF Receipts
  <1>4. ReceiptsSound'
    BY <1>1 DEF ReceiptInv, ReceiptsSound, IsReceipt
  <1>5. \A a \in AuctionIds : Key(a) \in E!Keys
    BY DEF Key, E!Keys
  <1>6. StoredBidsReceipted'
    BY <1>1, <1>2, <1>3, <1>5 DEF ReceiptInv, StoredBidsReceipted, Key
  <1>7. RetainedFromDeadline'
    BY <1>1, <1>2, <1>5 DEF ReceiptInv, RetainedFromDeadline, Key, Answered, IsClear
  <1>8. restarts' # 0
    BY <1>1
  <1>. QED
    BY <1>4, <1>6, <1>7, <1>8 DEF ReceiptInv

\* A bid that is receipted is held: it has a higher nonce than the one it
\* replaces, and the auction is not cleared.
LEMMA BidKeepsReceipts ==
  ASSUME IndInv, GenuineInv, ReceiptInv, NEW i \in DOMAIN sent,
         sent[i].opCommand = "QF_PRIVATE_BID", NEW sig, BidDelivered(i, sig)
  PROVE  ReceiptInv'
  <1> DEFINE t == sent[i].teeId
             bid == sent[i].message.ciphertext.plaintext
             key == <<bid.contractAddr, bid.auctionId>>
             old == exts[t]
             new == exts'[t]
  <1>1. DeliveryAt(i, sig) /\ PrunedOnly(old, new)
    BY DEF BidDelivered
  <1>2. /\ t \in TeeIds /\ \A u \in TeeIds \ {t} : exts'[u] = exts[u]
        /\ sig.over.instructionId = i
    BY <1>1 DEF DeliveryAt
  <1>3. /\ signed' = signed \cup {sig} /\ UNCHANGED <<now, auctions, sent, restarts>>
        /\ \A o : IsClear(o)' = IsClear(o) /\ IsReceipt(o)' = IsReceipt(o)
    BY <1>1, DeliveryFrame
  <1>4. /\ IndInv /\ TypeOK /\ SysTypeOK /\ RetainedFromDeadline /\ ReceiptsSound /\ StoredBidsReceipted
        /\ restarts = 0 => ReceiptsHeld /\ SignedIsRetained
    BY DEF IndInv, GenuineInv, ReceiptInv
  <1>6. \A a \in AuctionIds : Key(a) \in E!Keys
    BY DEF Key, E!Keys
  <1>8. ~IsClear(sig)
    BY <1>2 DEF IsClear
  <1>13. \A a : /\ Answered(a)' = Answered(a) /\ Remembers(a)' = Remembers(a)
                /\ WithinRetention(a) => Remembers(a)
    BY <1>3, <1>8 DEF Answered, Remembers, WithinRetention
  <1>5. \A u \in TeeIds, a \in AuctionIds : Remembers(a) =>
          exts'[u].cleared[Key(a)] = exts[u].cleared[Key(a)]
    <2> SUFFICES ASSUME NEW a \in AuctionIds, Remembers(a)
                 PROVE  new.cleared[Key(a)] = old.cleared[Key(a)]
      BY <1>2
    <2>1. Pruned(old, Key(a), now) = old.cleared[Key(a)]
      BY <1>2, <1>4, PrunesNothing
    <2> HIDE DEF old, new
    <2>. QED
      BY <1>1, <1>6, <2>1 DEF PrunedOnly
  <1>7. RetainedFromDeadline'
    <2>1. \A a \in AuctionIds : new.cleared[Key(a)] \in {old.cleared[Key(a)], NotCleared}
      BY <1>1, <1>6 DEF PrunedOnly, Pruned
    <2>2. \A u \in TeeIds, a \in AuctionIds :
            exts'[u].cleared[Key(a)] \in {exts[u].cleared[Key(a)], NotCleared}
      BY <1>2, <2>1
    <2>. QED
      BY <1>3, <1>4, <1>13, <2>2 DEF RetainedFromDeadline, Key
  <1>9. ASSUME NEW o \in signed, IsClear(o)
        PROVE  LET a == sent[o.over.instructionId].message.auctionId
               IN  a \in AuctionIds /\ auctions[a].teeId \in TeeIds
    <2>1. o.over.instructionId \in DOMAIN sent
      BY <1>4 DEF SysTypeOK
    <2>. QED
      BY <1>4, <2>1, SentForAuction, SentTyped
  <1>10. restarts = 0 => SignedIsRetained'
    BY <1>3, <1>4, <1>5, <1>8, <1>9, <1>13 DEF SignedIsRetained, Pinned, Key, WithinRetention
  <1>11. CASE sig.over.status = 0 /\ new.bids = old.bids
    <2>1. ~IsReceipt(sig) /\ \A u \in TeeIds : exts'[u].bids = exts[u].bids
      BY <1>2, <1>11 DEF IsReceipt
    <2>2. \A a : Receipts(a)' = Receipts(a)
      BY <1>3, <2>1, SameReceipts
    <2>3. ReceiptsSound'
      BY <1>3, <1>4, <2>1 DEF ReceiptsSound
    <2>4. StoredBidsReceipted'
      BY <1>4, <2>1, <2>2 DEF StoredBidsReceipted, Key
    <2>5. ASSUME restarts = 0, NEW a \in AuctionIds, auctions[a].state # "None", Remembers(a)
          PROVE  HeldOrHonoured(a)'
      <3>1. HeldOrHonoured(a) /\ auctions[a].teeId \in TeeIds
        BY <1>4, <2>5 DEF ReceiptsHeld, IndInv, TermsSound
      <3>2. /\ Pinned(a).bids[Key(a)]' = Pinned(a).bids[Key(a)]
            /\ Pinned(a).cleared[Key(a)]' = Pinned(a).cleared[Key(a)]
        BY <1>3, <1>5, <2>1, <2>5, <3>1 DEF Pinned, Key
      <3>. QED
        BY <1>3, <2>2, <3>1, <3>2, HeldFrame
    <2>. QED
      BY <1>3, <1>7, <1>10, <1>13, <2>3, <2>4, <2>5 DEF ReceiptInv, ReceiptsHeld
  <1>12. CASE /\ sig.over.status = 1 /\ sig.over.data = E!BidReceipt(bid)
              /\ OwnBid(i) /\ key \in E!Keys
              /\ \A k \in E!Keys, x \in Accounts :
                   new.bids[k][x] = IF k = key /\ x = bid.bidder
                                    THEN Stored(bid) ELSE old.bids[k][x]
              /\ new.cleared[key] = NotCleared
              /\ E!NonceIncreases(old.bids[key][bid.bidder], bid)
    <2> DEFINE r == E!BidReceipt(bid)
               a0 == bid.auctionId
    <2>1. IsReceipt(sig)
      BY <1>2, <1>12 DEF IsReceipt
    <2>2. /\ bid \in PlainBids /\ a0 = sent[i].message.auctionId /\ a0 \in AuctionIds
          /\ bid.bidder \in Accounts /\ bid.nonce \in Nat
      BY <1>12, BidAssumption DEF OwnBid
    <2>3. /\ r.contractAddr = bid.contractAddr /\ r.auctionId = a0 /\ r.bidder = bid.bidder
          /\ r.nonce = bid.nonce /\ r.bidCommitment = E!Keccak256(bid)
          /\ Stored(bid).nonce = bid.nonce /\ Stored(bid).commitment = E!Keccak256(bid)
      BY DEF E!BidReceipt, Stored
    <2>4. Stored(bid) # NoBid /\ E!Keccak256(bid) \in Commitments
      BY <2>2, BidAssumption, ExtensionAssumption DEF Stored, StoredBids, Commitments
    <2>5. \A a : key = Key(a) <=> bid.contractAddr = This /\ a0 = a
      BY DEF Key
    <2>6. auctions[a0].state # "None" /\ auctions[a0].teeId = t
      BY <1>4, <2>2, SentForAuction
    <2> HIDE DEF bid, key, old, new, r, a0
    <2>7. \A a : Receipts(a)' = Receipts(a) \cup (IF key = Key(a) THEN {r} ELSE {})
      BY <1>3, <1>12, <2>1, <2>3, <2>5, NewReceipt DEF r
    <2>8. ReceiptsSound'
      <3>1. \A o \in signed \cup {sig} : IsReceipt(o) =>
              /\ o.over.data.auctionId = sent[o.over.instructionId].message.auctionId
              /\ o.over.data.bidder \in Accounts /\ o.over.data.nonce \in Nat
              /\ o.over.data.bidCommitment \in Commitments
        BY <1>2, <1>4, <1>12, <2>2, <2>3, <2>4 DEF ReceiptsSound, r
      <3>. QED
        BY <1>3, <3>1 DEF ReceiptsSound
    <2>9. StoredBidsReceipted'
      <3> SUFFICES ASSUME NEW u \in TeeIds, NEW a \in AuctionIds, NEW x \in Accounts,
                          exts'[u].bids[Key(a)][x] # NoBid
                   PROVE  \E receipt \in Receipts(a)' :
                            receipt.bidder = x /\ receipt.nonce = exts'[u].bids[Key(a)][x].nonce
        BY DEF StoredBidsReceipted, Key
      <3>1. CASE u = t /\ Key(a) = key /\ x = bid.bidder
        BY <1>6, <1>12, <2>3, <2>7, <3>1 DEF new
      <3>2. CASE ~(u = t /\ Key(a) = key /\ x = bid.bidder)
        <4>1. exts'[u].bids[Key(a)][x] = exts[u].bids[Key(a)][x]
          BY <1>2, <1>6, <1>12, <3>2 DEF new, old
        <4>. QED
          BY <1>4, <2>7, <4>1 DEF StoredBidsReceipted
      <3>. QED
        BY <3>1, <3>2
    <2>10. ASSUME restarts = 0, NEW a \in AuctionIds, auctions[a].state # "None", Remembers(a)
           PROVE  HeldOrHonoured(a)'
      <3>1. HeldOrHonoured(a) /\ auctions[a].teeId \in TeeIds
        BY <1>4, <2>10 DEF ReceiptsHeld, IndInv, TermsSound
      <3>2. Pinned(a).cleared[Key(a)]' = Pinned(a).cleared[Key(a)]
        BY <1>3, <1>5, <2>10, <3>1 DEF Pinned, Key
      <3>3. CASE Key(a) # key
        <4>1. \A x \in Accounts : exts'[auctions[a].teeId].bids[Key(a)][x]
                                   = exts[auctions[a].teeId].bids[Key(a)][x]
          <5>1. Key(a) \in E!Keys
            BY <1>6
          <5>2. CASE auctions[a].teeId = t
            <6>1. \A x \in Accounts : new.bids[Key(a)][x] = old.bids[Key(a)][x]
              BY <1>12, <3>3, <5>1
            <6>. QED
              BY <5>2, <6>1 DEF new, old
          <5>3. CASE auctions[a].teeId # t
            <6>1. exts'[auctions[a].teeId] = exts[auctions[a].teeId]
              BY <1>2, <3>1, <5>3, Zenon
            <6>. QED
              BY <6>1
          <5>. QED
            BY <5>2, <5>3
        <4>2. exts[auctions[a].teeId] \in Extensions /\ exts'[auctions[a].teeId] \in Extensions
          BY <1>1, <1>4, <3>1 DEF SysTypeOK, DeliveryAt
        <4>3. exts'[auctions[a].teeId].bids[Key(a)] = exts[auctions[a].teeId].bids[Key(a)]
          BY <1>6, <4>1, <4>2 DEF Extensions
        <4>4. Pinned(a).bids[Key(a)]' = Pinned(a).bids[Key(a)]
          BY <1>3, <4>3 DEF Pinned, Key
        <4>. QED
          BY <1>3, <2>7, <3>1, <3>2, <3>3, <4>4, HeldFrame
      <3>4. CASE Key(a) = key
        <4>1. a = a0 /\ auctions[a].teeId = t /\ auctions'[a].teeId = t
          BY <1>3, <2>5, <2>6, <3>4
        <4>2. Pinned(a).cleared[Key(a)]' = NotCleared /\ Pinned(a).cleared[Key(a)] = NotCleared
          BY <1>12, <3>2, <3>4, <4>1 DEF Pinned, Key, new
        <4>3. \A receipt \in Receipts(a) : Held(a, receipt)
          BY <3>1, <4>2 DEF HeldOrHonoured
        <4>4. ASSUME NEW receipt \in Receipts(a) \cup {r} PROVE Held(a, receipt)'
          <5> DEFINE before == old.bids[key][receipt.bidder]
                     after == new.bids[key][receipt.bidder]
          <5>1. receipt.bidder \in Accounts /\ receipt.nonce \in Nat
            BY <1>4, <2>2, <2>3, ReceiptTyped
          <5>2. receipt \in Receipts(a) =>
                  /\ before # NoBid /\ receipt.nonce <= before.nonce
                  /\ receipt.nonce = before.nonce => receipt.bidCommitment = before.commitment
            BY <3>4, <4>1, <4>3 DEF Held, Pinned, old
          <5>3. before # NoBid => before.nonce \in Nat
            <6>1. old \in Extensions
              BY <1>2, <1>4 DEF SysTypeOK, old
            <6>2. before \in StoredBids \cup {NoBid}
              BY <1>12, <5>1, <6>1, StoredBidTyped, Zenon
            <6>. QED
              BY <6>2 DEF StoredBids
          <5>4. after = IF receipt.bidder = bid.bidder THEN Stored(bid) ELSE before
            BY <1>12, <5>1
          <5>5. receipt.bidder = bid.bidder => before = NoBid \/ bid.nonce > before.nonce
            BY <1>12 DEF E!NonceIncreases
          <5> HIDE DEF before, after
          <5>6. /\ after # NoBid /\ receipt.nonce <= after.nonce
                /\ receipt.nonce = after.nonce => receipt.bidCommitment = after.commitment
            <6>1. CASE receipt = r
              BY <2>2, <2>3, <2>4, <5>4, <6>1
            <6>2. CASE receipt \in Receipts(a) /\ receipt.bidder = bid.bidder
              BY <2>2, <2>3, <2>4, <5>1, <5>2, <5>3, <5>4, <5>5, <6>2
            <6>3. CASE receipt \in Receipts(a) /\ receipt.bidder # bid.bidder
              BY <5>2, <5>4, <6>3
            <6>. QED
              BY <6>1, <6>2, <6>3
          <5>. QED
            BY <3>4, <4>1, <5>6 DEF Held, Pinned, Key, after, new
        <4>5. Receipts(a)' = Receipts(a) \cup {r}
          BY <2>7, <3>4
        <4>. QED
          BY <4>2, <4>4, <4>5 DEF HeldOrHonoured
      <3>. QED
        BY <3>3, <3>4
    <2>. QED
      BY <1>3, <1>7, <1>10, <1>13, <2>8, <2>9, <2>10 DEF ReceiptInv, ReceiptsHeld
  <1>. QED
    BY <1>11, <1>12 DEF BidDelivered

\* A dealer's latest receipt is for the bid that is stored, so a result
\* computed from the stored bids honours it.
LEMMA ComputedHonours ==
  ASSUME IndInv, GenuineInv, ReceiptsSound, StoredBidsReceipted,
         NEW i \in DOMAIN sent, sent[i].opCommand = "QF_CLEAR",
         NEW result, NEW a, a = sent[i].message.auctionId,
         Computed(result, exts[sent[i].teeId].bids[Key(a)], sent[i].message),
         NEW receipt \in Receipts(a), Held(a, receipt), Latest(a, receipt)
  PROVE  Honours(result, receipt)
  <1> DEFINE t == sent[i].teeId
             x == receipt.bidder
             stored == exts[t].bids[Key(a)][x]
  <1>1. /\ a \in AuctionIds /\ Key(a) \in E!Keys /\ auctions[a].teeId = t /\ t \in TeeIds
        /\ sent[i].message.floorPriceWei = auctions[a].floorPriceWei
        /\ sent[i].message.ceilingPriceWei = auctions[a].ceilingPriceWei
    BY SentForAuction, SentTyped DEF IndInv
  <1>2. x \in Accounts /\ receipt.nonce \in Nat
    BY <1>1, ReceiptTyped
  <1>3. /\ stored # NoBid /\ receipt.nonce <= stored.nonce
        /\ receipt.nonce = stored.nonce => receipt.bidCommitment = stored.commitment
    BY <1>1 DEF Held, Pinned
  <1>4. stored.nonce \in Nat
    <2>1. exts[t] \in Extensions
      BY <1>1 DEF GenuineInv, SysTypeOK
    <2>2. stored \in StoredBids \cup {NoBid}
      BY <1>1, <1>2, <2>1, StoredBidTyped, Zenon
    <2> HIDE DEF stored
    <2>. QED
      BY <1>3, <2>2 DEF StoredBids
  <1>5. stored.nonce <= receipt.nonce
    BY <1>1, <1>2, <1>3 DEF StoredBidsReceipted, Latest
  <1>6. receipt.bidCommitment = stored.commitment
    <2> HIDE DEF stored
    <2>. QED
      BY <1>2, <1>3, <1>4, <1>5
  <1>7. GenuineBid(stored, x, a, t)
    <2>1. Key(a)[2] = a
      BY DEF Key
    <2>. QED
      BY <1>1, <1>2, <1>3, <2>1 DEF GenuineInv, StoredBidsGenuine
  <1>8. receipt.bidCommitment.keccakOf.unitPriceWei = stored.unitPriceWei
    BY <1>6, <1>7 DEF GenuineBid
  <1>9. stored.unitPriceWei \in sent[i].message.floorPriceWei .. sent[i].message.ceilingPriceWei
    BY <1>1, <1>8 DEF Latest
  <1>10. result.winner # ZeroAddress /\ result.unitPriceWei >= stored.unitPriceWei
    BY <1>2, <1>3, <1>9 DEF Computed
  <1>. QED
    BY <1>8, <1>10 DEF Honours

\* A clear counts every receipted bid, or repeats one that did: within the
\* retention it is not computed again.
LEMMA ClearKeepsReceipts ==
  ASSUME IndInv, GenuineInv, ReceiptInv, NEW i \in DOMAIN sent,
         sent[i].opCommand = "QF_CLEAR", NEW sig, ClearDelivered(i, sig)
  PROVE  ReceiptInv'
  <1> DEFINE t == sent[i].teeId
             m == sent[i].message
             a0 == m.auctionId
             key == Key(a0)
             old == exts[t]
             new == exts'[t]
  <1>1. DeliveryAt(i, sig) /\ key \in E!Keys
    BY DEF ClearDelivered
  <1>2. /\ t \in TeeIds /\ \A u \in TeeIds \ {t} : exts'[u] = exts[u]
        /\ sig.over.instructionId = i
    BY <1>1 DEF DeliveryAt
  <1>3. /\ signed' = signed \cup {sig} /\ UNCHANGED <<now, auctions, sent, restarts>>
        /\ \A o : IsClear(o)' = IsClear(o) /\ IsReceipt(o)' = IsReceipt(o)
    BY <1>1, DeliveryFrame
  <1>4. /\ IndInv /\ TypeOK /\ SysTypeOK /\ RetainedFromDeadline /\ ReceiptsSound /\ StoredBidsReceipted
        /\ restarts = 0 => ReceiptsHeld /\ SignedIsRetained
    BY DEF IndInv, GenuineInv, ReceiptInv
  <1>7. /\ a0 \in AuctionIds /\ auctions[a0].teeId = t
        /\ \A a \in AuctionIds : Key(a) \in E!Keys
        /\ \A a \in AuctionIds : a # a0 => Key(a) # key
    BY <1>4, SentForAuction DEF Key, E!Keys
  <1>5. \A a \in AuctionIds : Remembers(a) => Pruned(old, Key(a), now) = old.cleared[Key(a)]
    BY <1>2, <1>4, PrunesNothing
  <1>6. \A a \in AuctionIds : a # a0 =>
          /\ new.bids[Key(a)] = old.bids[Key(a)]
          /\ new.cleared[Key(a)] \in {old.cleared[Key(a)], NotCleared}
          /\ Remembers(a) => new.cleared[Key(a)] = old.cleared[Key(a)]
    <2> SUFFICES ASSUME NEW a \in AuctionIds, a # a0
                 PROVE  /\ new.bids[Key(a)] = old.bids[Key(a)]
                        /\ new.cleared[Key(a)] \in {old.cleared[Key(a)], NotCleared}
                        /\ Remembers(a) => new.cleared[Key(a)] = old.cleared[Key(a)]
      OBVIOUS
    <2>1. Key(a) \in E!Keys \ {key}
      BY <1>7
    <2>2. /\ new.bids[Key(a)] = old.bids[Key(a)]
          /\ new.cleared[Key(a)] \in {old.cleared[Key(a)], Pruned(old, Key(a), now)}
      BY <2>1 DEF ClearDelivered
    <2>3. Pruned(old, Key(a), now) \in {old.cleared[Key(a)], NotCleared}
      BY DEF Pruned
    <2> HIDE DEF old, new
    <2>. QED
      BY <1>5, <2>2, <2>3
  <1>8. ~IsReceipt(sig)
    BY <1>2 DEF IsReceipt
  <1>9. \A a : Receipts(a)' = Receipts(a)
    BY <1>3, <1>8, SameReceipts
  <1>10. ReceiptsSound'
    BY <1>3, <1>4, <1>8 DEF ReceiptsSound
  <1>11. IsClear(sig) <=> sig.over.status = 1
    BY <1>2 DEF IsClear
  <1>12. \/ sig.over.status = 0 /\ new.bids[key] = old.bids[key] /\ new.cleared[key] = old.cleared[key]
         \/ /\ new.bids[key] = old.bids[key]
            /\ old.cleared[key] # NotCleared /\ new.cleared[key] = old.cleared[key]
            /\ sig.over.data = old.cleared[key].result
         \/ /\ Remembers(a0) => old.cleared[key] = NotCleared
            /\ sig.over.status = 1
            /\ new.bids[key] = [x \in Accounts |-> NoBid]
            /\ new.cleared[key] = [result |-> sig.over.data, expiresAt |-> now + ClearRetention]
            /\ new.cleared[key] # NotCleared
            /\ Computed(sig.over.data, old.bids[key], m)
    BY <1>1, <1>5, <1>7 DEF ClearDelivered
  <1> HIDE DEF a0, key, old, new
  <1>13. /\ \A x \in Accounts : new.bids[key][x] # NoBid => new.bids[key][x] = old.bids[key][x]
         /\ new.cleared[key] # old.cleared[key] =>
              /\ Remembers(a0) => old.cleared[key] = NotCleared
              /\ new.cleared[key] # NotCleared
              /\ IsClear(sig) /\ new.cleared[key].result = sig.over.data
              /\ new.cleared[key].expiresAt = now + ClearRetention
              /\ Computed(sig.over.data, old.bids[key], m)
    BY <1>11, <1>12
  <1>18. Remembers(a0) /\ new.cleared[key] = old.cleared[key] =>
           /\ new.bids[key] = old.bids[key]
           /\ IsClear(sig) => old.cleared[key] # NotCleared /\ sig.over.data = old.cleared[key].result
    BY <1>11, <1>12
  <1>19. \A a : /\ Answered(a) => Answered(a)'
                /\ Remembers(a)' => Remembers(a)
                /\ WithinRetention(a) => Remembers(a)
    BY <1>3 DEF Answered, Remembers, WithinRetention
  <1>14. RetainedFromDeadline'
    <2>0. auctions[a0].clearInstructionId # 0
      BY <1>4, ClearSentOnTime DEF a0
    <2>1. now + ClearRetention >= auctions[a0].bidDeadline + ClearRetention
      <3>1. now >= auctions[a0].bidDeadline
        BY <1>4, ClearSentOnTime DEF a0
      <3>2. now \in Int /\ auctions[a0].bidDeadline \in Int /\ ClearRetention \in Int
        BY <1>4, <1>7, ExtensionAssumption DEF TypeOK, Times, AuctionType
      <3>. QED
        BY <3>1, <3>2
    <2>2. \A a \in AuctionIds : new.cleared[Key(a)] # NotCleared =>
            /\ auctions[a].clearInstructionId # 0 /\ Answered(a)'
            /\ new.cleared[Key(a)].expiresAt >= auctions[a].bidDeadline + ClearRetention
      <3> SUFFICES ASSUME NEW a \in AuctionIds, new.cleared[Key(a)] # NotCleared
                   PROVE  /\ auctions[a].clearInstructionId # 0 /\ Answered(a)'
                          /\ new.cleared[Key(a)].expiresAt >= auctions[a].bidDeadline + ClearRetention
        OBVIOUS
      <3>1. CASE new.cleared[Key(a)] = old.cleared[Key(a)]
        BY <1>2, <1>4, <1>19, <3>1 DEF RetainedFromDeadline, old
      <3>2. CASE new.cleared[Key(a)] # old.cleared[Key(a)]
        <4>1. a = a0 /\ Key(a) = key
          BY <1>6, <3>2 DEF key
        <4>2. Answered(a)'
          BY <1>2, <1>3, <1>13, <3>2, <4>1 DEF Answered, a0
        <4>. QED
          BY <1>13, <2>0, <2>1, <3>2, <4>1, <4>2
      <3>. QED
        BY <3>1, <3>2
    <2>. QED
      BY <1>2, <1>3, <1>4, <1>19, <2>2 DEF RetainedFromDeadline, Key, new
  <1>15. StoredBidsReceipted'
    <2> SUFFICES ASSUME NEW u \in TeeIds, NEW a \in AuctionIds, NEW x \in Accounts,
                        exts'[u].bids[Key(a)][x] # NoBid
                 PROVE  \E receipt \in Receipts(a) :
                          receipt.bidder = x /\ receipt.nonce = exts'[u].bids[Key(a)][x].nonce
      BY <1>9 DEF StoredBidsReceipted, Key
    <2>1. exts'[u].bids[Key(a)][x] = exts[u].bids[Key(a)][x]
      <3>1. CASE u # t
        BY <1>2, <3>1
      <3>2. CASE u = t /\ a # a0
        BY <1>6, <3>2 DEF old, new
      <3>3. CASE u = t /\ a = a0
        <4>1. Key(a) = key
          BY <3>3 DEF key
        <4>. QED
          BY <1>13, <3>3, <4>1 DEF old, new
      <3>. QED
        BY <3>1, <3>2, <3>3
    <2>. QED
      BY <1>4, <2>1 DEF StoredBidsReceipted
  <1>16. ASSUME restarts = 0, NEW a \in AuctionIds, auctions[a].state # "None", Remembers(a)
         PROVE  HeldOrHonoured(a)'
    <2>1. HeldOrHonoured(a) /\ auctions[a].teeId \in TeeIds
      BY <1>4, <1>16 DEF ReceiptsHeld, IndInv, TermsSound
    <2>2. CASE a # a0 \/ new.cleared[key] = old.cleared[key]
      <3>1. /\ exts'[auctions[a].teeId].bids[Key(a)] = exts[auctions[a].teeId].bids[Key(a)]
            /\ exts'[auctions[a].teeId].cleared[Key(a)] = exts[auctions[a].teeId].cleared[Key(a)]
        BY <1>2, <1>6, <1>7, <1>16, <1>18, <2>1, <2>2 DEF old, new, key
      <3>2. /\ Pinned(a).bids[Key(a)]' = Pinned(a).bids[Key(a)]
            /\ Pinned(a).cleared[Key(a)]' = Pinned(a).cleared[Key(a)]
        BY <1>3, <3>1 DEF Pinned, Key
      <3>. QED
        BY <1>3, <1>9, <2>1, <3>2, HeldFrame
    <2>3. CASE a = a0 /\ new.cleared[key] # old.cleared[key]
      <3>1. /\ Pinned(a).cleared[Key(a)] = old.cleared[key]
            /\ Pinned(a).cleared[Key(a)]' = new.cleared[key]
        BY <1>3, <1>7, <2>3 DEF Pinned, Key, old, new, key
      <3>2. \A receipt \in Receipts(a) : Held(a, receipt)
        BY <1>13, <1>16, <2>1, <2>3, <3>1 DEF HeldOrHonoured
      <3>3. Computed(sig.over.data, exts[sent[i].teeId].bids[Key(a)], sent[i].message)
            /\ a = sent[i].message.auctionId
        BY <1>13, <2>3 DEF old, key, a0
      <3>4. \A receipt \in Receipts(a) : Latest(a, receipt) => Honours(sig.over.data, receipt)
        BY <1>4, <3>2, <3>3, ComputedHonours
      <3>5. /\ \A receipt : Latest(a, receipt)' = Latest(a, receipt)
            /\ \A receipt : Honours(sig.over.data, receipt)' = Honours(sig.over.data, receipt)
        BY <1>3, <1>9 DEF Latest, Honours
      <3>6. /\ Pinned(a).cleared[Key(a)]' # NotCleared
            /\ Pinned(a).cleared[Key(a)].result' = sig.over.data
        BY <1>13, <2>3, <3>1
      <3>. QED
        BY <1>9, <3>4, <3>5, <3>6 DEF HeldOrHonoured, Honours
    <2>. QED
      BY <2>2, <2>3
  <1>17. ASSUME restarts = 0 PROVE SignedIsRetained'
    <2> SUFFICES ASSUME NEW o \in signed \cup {sig}, IsClear(o),
                        NEW a, a = sent[o.over.instructionId].message.auctionId,
                        WithinRetention(a)
                 PROVE  LET retained == exts'[auctions[a].teeId].cleared[Key(a)]
                        IN  retained # NotCleared /\ retained.result = o.over.data
      BY <1>3 DEF SignedIsRetained, Pinned, Key, WithinRetention
    <2>1. a \in AuctionIds /\ auctions[a].teeId \in TeeIds
      <3>1. o.over.instructionId \in DOMAIN sent
        BY <1>2, <1>4 DEF SysTypeOK
      <3>. QED
        BY <1>4, <3>1, SentForAuction, SentTyped
    <2>2. o \in signed => /\ exts[auctions[a].teeId].cleared[Key(a)] # NotCleared
                          /\ exts[auctions[a].teeId].cleared[Key(a)].result = o.over.data
      BY <1>4, <1>17 DEF SignedIsRetained, Pinned
    <2>3. CASE o \in signed
      <3>1. exts'[auctions[a].teeId].cleared[Key(a)] = exts[auctions[a].teeId].cleared[Key(a)]
        <4>1. CASE auctions[a].teeId # t
          BY <1>2, <2>1, <4>1
        <4>2. CASE auctions[a].teeId = t /\ a # a0
          BY <1>6, <1>19, <2>1, <4>2 DEF old, new
        <4>3. CASE auctions[a].teeId = t /\ a = a0
          <5>1. Key(a) = key
            BY <4>3 DEF Key, key, a0
          <5>2. old.cleared[key] # NotCleared
            BY <2>2, <2>3, <4>3, <5>1 DEF old
          <5>3. new.cleared[key] = old.cleared[key]
            BY <1>13, <1>19, <4>3, <5>2
          <5>. QED
            BY <4>3, <5>1, <5>3 DEF old, new
        <4>. QED
          BY <4>1, <4>2, <4>3
      <3>. QED
        BY <2>2, <2>3, <3>1
    <2>4. CASE o = sig
      <3>1. a = a0
        BY <1>2, <2>4 DEF a0
      <3>2. new.cleared[key] # NotCleared /\ new.cleared[key].result = sig.over.data
        BY <1>13, <1>18, <1>19, <2>4, <3>1
      <3>. QED
        BY <1>7, <2>4, <3>1, <3>2 DEF new, key
    <2>. QED
      BY <2>3, <2>4
  <1>. QED
    BY <1>3, <1>10, <1>14, <1>15, <1>16, <1>17, <1>19 DEF ReceiptInv, ReceiptsHeld

\* At first there are no receipts.
LEMMA SysInitReceipts == SysInit => ReceiptInv
  <1> SUFFICES ASSUME SysInit PROVE ReceiptInv
    OBVIOUS
  <1>1. \A k \in E!Keys : /\ E!EmptyExtension.cleared[k] = NotCleared
                         /\ \A x \in Accounts : E!EmptyExtension.bids[k][x] = NoBid
    BY DEF E!EmptyExtension
  <1>2. signed = {} /\ \A t \in TeeIds : exts[t] = E!EmptyExtension
    BY DEF SysInit
  <1>3. \A a \in AuctionIds : Key(a) \in E!Keys /\ Receipts(a) = {}
    BY <1>2 DEF Key, E!Keys, Receipts
  <1>4. \A a \in AuctionIds : auctions[a].clearInstructionId = 0
    BY InitIndInv DEF SysInit, Init, IndInv, LogSound, EmptyAuction
  <1>6. ReceiptsSound /\ StoredBidsReceipted /\ RetainedFromDeadline
    BY <1>1, <1>2, <1>3, <1>4 DEF ReceiptsSound, StoredBidsReceipted, RetainedFromDeadline
  <1>5. ReceiptsHeld /\ SignedIsRetained
    BY <1>2, <1>3 DEF ReceiptsHeld, HeldOrHonoured, SignedIsRetained
  <1>. QED
    BY <1>5, <1>6 DEF ReceiptInv

\* Every step of the system keeps the receipts' invariant.
LEMMA SysStepReceipts == IndInv /\ GenuineInv /\ ReceiptInv /\ [SysNext]_sysVars => ReceiptInv'
  <1> SUFFICES ASSUME IndInv, GenuineInv, ReceiptInv, [SysNext]_sysVars PROVE ReceiptInv'
    OBVIOUS
  <1>0. LogKept /\ TermsKept /\ ClearsOnTime
    BY SysStepIsContractStep, LogGrows, StepKeepsTerms, StepClearsOnTime DEF IndInv
  <1>1. CASE ContractCall /\ UNCHANGED teeVars
    BY <1>0, <1>1, ContractKeepsReceipts
  <1>2. ASSUME NEW i \in DOMAIN sent, NEW plaintext \in Plaintexts(i), NEW tag \in TagsOf(i),
               Deliver(i, plaintext, tag)
        PROVE  ReceiptInv'
    <2>1. TypeOK /\ SysTypeOK
      BY DEF IndInv, GenuineInv
    <2>2. CASE sent[i].opCommand = "QF_PRIVATE_BID"
      BY <1>2, <2>1, <2>2, DeliverBid, BidKeepsReceipts
    <2>3. CASE sent[i].opCommand = "QF_CLEAR"
      BY <1>2, <2>1, <2>3, DeliverClear, ClearKeepsReceipts
    <2>. QED
      BY <2>1, <2>2, <2>3, SentTyped
  <1>3. ASSUME NEW t \in TeeIds, RestartExtension(t) PROVE ReceiptInv'
    BY <1>3, RestartKeepsReceipts
  <1>4. CASE UNCHANGED sysVars
    BY <1>0, <1>4, ContractKeepsReceipts DEF sysVars
  <1>. QED
    BY <1>1, <1>2, <1>3, <1>4 DEF SysNext

\* The receipts' invariant gives what a receipt promises.
LEMMA ReceiptsAreHonoured ==
  ASSUME IndInv, GenuineInv, ReceiptInv
  PROVE  ReceiptHonoured
  <1> SUFFICES ASSUME NEW a \in AuctionIds, restarts = 0, WithinRetention(a),
                      auctions[a].state \in {"Settled", "NoFill"},
                      NEW receipt \in Receipts(a), Latest(a, receipt)
               PROVE  /\ auctions[a].state = "Settled"
                      /\ auctions[a].clearingPriceWei >= receipt.bidCommitment.keccakOf.unitPriceWei
    BY DEF ReceiptHonoured, Latest
  <1>1. PICK sig \in signed :
          /\ sig.over.instructionId = auctions[a].clearInstructionId
          /\ sig.over.status = 1
          /\ sig.over.data.winner = auctions[a].winner
          /\ sig.over.data.unitPriceWei = auctions[a].clearingPriceWei
    BY DEF GenuineInv, OutcomeSignedByPinnedTee
  <1>2. auctions[a].clearInstructionId # 0
    BY <1>1 DEF GenuineInv, SysTypeOK, IndInv, TypeOK
  <1>3. IsClear(sig) /\ sent[sig.over.instructionId].message.auctionId = a
    BY <1>1, <1>2, BoundRequest DEF IsClear
  <1>4. /\ Pinned(a).cleared[Key(a)] # NotCleared
        /\ Pinned(a).cleared[Key(a)].result = sig.over.data
    BY <1>3 DEF ReceiptInv, SignedIsRetained
  <1>5. HeldOrHonoured(a)
    BY DEF ReceiptInv, ReceiptsHeld, Remembers
  <1>6. Honours(sig.over.data, receipt)
    BY <1>4, <1>5 DEF HeldOrHonoured
  <1>. QED
    BY <1>1, <1>6 DEF Honours, GenuineInv, OutcomeOnlyWhenSettled

\* While the enclave's memory is intact (no restart, and at most
\* clearRetentionMs past the bid deadline), a dealer holding a receipt for its
\* latest bid, in the collar, is not passed over: however deliveries are
\* reordered or repeated, the auction does not end unfilled or at a lower
\* price.  The retention may be shorter than the settlement window, as the
\* code's is.
THEOREM ReceiptsHonoured == SysSpec => []ReceiptHonoured
  <1>1. IndInv /\ GenuineInv /\ ReceiptInv /\ [SysNext]_sysVars => ReceiptInv'
    BY SysStepReceipts
  <1>2. IndInv /\ GenuineInv /\ ReceiptInv => ReceiptHonoured
    BY ReceiptsAreHonoured
  <1>. QED
    BY <1>1, <1>2, SystemImplementsContract, GenuineInvariance, SysInitReceipts, PTL DEF SysSpec
=============================================================================
