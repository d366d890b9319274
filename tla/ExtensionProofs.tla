-------------------------- MODULE ExtensionProofs --------------------------
(***************************************************************************)
(* Proofs about Extension for any finite set of dealers, any instructions  *)
(* and any number of deliveries in any order.                              *)
(*                                                                         *)
(* The argument is about a log of answers and a process state as values:   *)
(* handling one more instruction appends one answer to the log.            *)
(***************************************************************************)
EXTENDS Extension, SetLemmas

-----------------------------------------------------------------------------
(* Logs                                                                    *)

\* Positions in the log of answers.
LEMMA LogDomain ==
  ASSUME NEW log \in Seq(Answers)
  PROVE  /\ DOMAIN log = 1 .. Len(log) /\ Len(log) \in Nat
         /\ DOMAIN log \subseteq Nat
         /\ \A q \in DOMAIN log : log[q] \in Answers /\ q <= Len(log)
  OBVIOUS

\* p is the position of the first clear of key.
First(log, key, p) ==
  p \in ClearsOf(log, key) /\ \A q \in ClearsOf(log, key) : p <= q

\* The first answered clear of an auction is what CHOOSE picks.
LEMMA FirstIs ==
  ASSUME NEW log \in Seq(Answers), NEW key
  PROVE  /\ ClearsOf(log, key) # {} => First(log, key, FirstClear(log, key))
         /\ \A p : First(log, key, p) => p = FirstClear(log, key)
         /\ ClearsOf(log, key) \subseteq DOMAIN log
  <1> DEFINE S == ClearsOf(log, key)
  <1>1. S \subseteq DOMAIN log /\ S \subseteq Nat
    BY LogDomain DEF ClearsOf
  <1>2. S # {} => \E p \in S : \A q \in S : p <= q
    BY <1>1, LeastNat
  <1>3. FirstClear(log, key) = CHOOSE p \in S : \A q \in S : p <= q
    BY DEF FirstClear, Min
  <1>4. S # {} => /\ FirstClear(log, key) \in S
                  /\ \A q \in S : FirstClear(log, key) <= q
    BY <1>2, <1>3
  <1>5. ASSUME NEW p, First(log, key, p) PROVE p = FirstClear(log, key)
    <2>1. p \in S /\ \A q \in S : p <= q
      BY <1>5 DEF First
    <2>2. p <= FirstClear(log, key) /\ FirstClear(log, key) <= p
      BY <1>4, <2>1
    <2>. QED
      BY <1>1, <1>4, <2>1, <2>2
  <1>. QED
    BY <1>1, <1>4, <1>5 DEF First

\* q is the position of the standing bid.
Standing(log, key, x, p, q) ==
  /\ q \in GenuineBids(log, key, x, p)
  /\ \A o \in GenuineBids(log, key, x, p) :
       \/ log[o].plaintext.nonce < log[q].plaintext.nonce
       \/ log[o].plaintext.nonce = log[q].plaintext.nonce /\ q <= o

\* A decrypted bid has the fields of one.
LEMMA GenuineTyped ==
  ASSUME NEW log \in Seq(Answers), NEW key, NEW x, NEW p
  PROVE  /\ GenuineBids(log, key, x, p) \subseteq DOMAIN log
         /\ \A q \in GenuineBids(log, key, x, p) : q <= p /\ GenuineBid(log[q], key, x)
  BY DEF GenuineBids

\* A log whose entries pair an instruction with an answer of the node to it.
Paired(log) == \A q \in DOMAIN log : log[q].plaintext \in Plaintexts(log[q].id)

\* A genuine bid has a plaintext with the fields of a bid.
LEMMA GenuinePlain ==
  ASSUME NEW a \in Answers, a.plaintext \in Plaintexts(a.id), NEW key, NEW x, GenuineBid(a, key, x)
  PROVE  /\ a.plaintext \in PlainBids /\ a.plaintext.nonce \in Nat
         /\ a.plaintext.unitPriceWei \in Nat /\ key \in Keys /\ x \in Bidders
         /\ a.plaintext.bidder = x /\ AuctionKey(a.plaintext) = key
  <1>1. a.id \in DOMAIN Instructions
    BY DEF Answers
  <1>2. /\ Suspends(a.id) /\ a.plaintext \notin {DecryptFailed, Undecodable}
        /\ Instructions[a.id].message.bidder = x /\ a.plaintext.bidder = x
        /\ AuctionKey(a.plaintext) = key /\ Instructions[a.id].message.auctionId = key[2]
    BY DEF GenuineBid
  <1>3. a.plaintext \in PlainBids
    <2> DEFINE U == UNION {Plaintexts(id) : id \in {j \in DOMAIN Instructions : Suspends(j)}}
    <2>1. a.id \in {j \in DOMAIN Instructions : Suspends(j)}
      BY <1>1, <1>2
    <2>2. a.plaintext \in U
      BY <2>1, Zenon
    <2>3. PlainBids = U \ {DecryptFailed, Undecodable}
      BY DEF PlainBids
    <2> HIDE DEF U
    <2>. QED
      BY <1>2, <2>2, <2>3
  <1>4. IsBid(a.id)
    BY <1>2 DEF Suspends
  <1>5. x \in Bidders /\ key[2] \in Auctions
    BY <1>1, <1>2, <1>4, InstructionAssumption
  <1>6. a.plaintext.contractAddr \in Contracts
    BY <1>3, InstructionAssumption
  <1>7. key = <<a.plaintext.contractAddr, a.plaintext.auctionId>>
    BY <1>2 DEF AuctionKey
  <1>8. key \in Keys
    BY <1>5, <1>6, <1>7 DEF Keys
  <1>. QED
    BY <1>2, <1>3, <1>5, <1>8, InstructionAssumption

\* The standing bid exists once there is a genuine one, and is what CHOOSE picks.
LEMMA StandingIs ==
  ASSUME NEW log \in Seq(Answers), Paired(log), NEW key, NEW x, NEW p
  PROVE  /\ \A q : Standing(log, key, x, p, q) =>
              StandingBid(log, key, x, p) = log[q].plaintext
         /\ GenuineBids(log, key, x, p) # {} => \E q : Standing(log, key, x, p, q)
  <1> DEFINE G == GenuineBids(log, key, x, p)
             nonce(q) == log[q].plaintext.nonce
             top == {q \in G : \A o \in G : nonce(o) <= nonce(q)}
  <1>1. /\ G \subseteq Nat /\ IsFiniteSet(G)
        /\ \A q \in G : nonce(q) \in Nat
    <2>1. G \subseteq DOMAIN log /\ \A q \in G : GenuineBid(log[q], key, x)
      BY GenuineTyped
    <2>2. \A q \in G : log[q] \in Answers /\ log[q].plaintext \in Plaintexts(log[q].id)
      BY <2>1, LogDomain DEF Paired
    <2>3. \A q \in G : nonce(q) \in Nat
      BY <2>1, <2>2, GenuinePlain
    <2>4. IsFiniteSet(DOMAIN log)
      BY LogDomain, FS_Interval
    <2>5. IsFiniteSet(G)
      BY <2>1, <2>4, FS_Subset
    <2>. QED
      BY <2>1, <2>3, <2>5, LogDomain
  <1>2. StandingBid(log, key, x, p) = log[Min(top)].plaintext
    BY DEF StandingBid
  <1>3. ASSUME NEW q, Standing(log, key, x, p, q)
        PROVE  StandingBid(log, key, x, p) = log[q].plaintext
    <2>1. /\ q \in G
          /\ \A o \in G : nonce(o) < nonce(q) \/ (nonce(o) = nonce(q) /\ q <= o)
      BY <1>3 DEF Standing
    <2> HIDE DEF G, nonce
    <2>2. q \in top /\ \A o \in top : q <= o
      BY <1>1, <2>1
    <2>3. Min(top) = q
      <3>1. top \subseteq Nat
        BY <1>1
      <3> HIDE DEF top
      <3>2. Min(top) \in top /\ \A o \in top : Min(top) <= o
        BY <2>2 DEF Min
      <3>3. Min(top) <= q /\ q <= Min(top)
        BY <2>2, <3>2
      <3>4. q \in Nat /\ Min(top) \in Nat
        BY <2>2, <3>1, <3>2
      <3>. QED
        BY <3>3, <3>4
    <2>. QED
      BY <1>2, <2>3
  <1>4. ASSUME G # {} PROVE \E q : Standing(log, key, x, p, q)
    <2> HIDE DEF G, nonce
    <2> DEFINE f == [q \in G |-> nonce(q)]
    <2>1. f \in [G -> Nat]
      BY <1>1
    <2>2. PICK best \in G : \A q \in G : nonce(q) <= nonce(best)
      <3>1. \E best \in G : \A q \in G : f[q] <= f[best]
        <4> HIDE DEF f
        <4>. QED
          BY <1>1, <1>4, <2>1, GreatestValue
      <3>. QED
        BY <3>1
    <2> DEFINE big == nonce(best)
    <2> DEFINE T == {q \in G : nonce(q) = big}
    <2>3. T \subseteq Nat /\ T # {}
      BY <1>1, <2>2
    <2>4. PICK q \in T : \A o \in T : q <= o
      <3> HIDE DEF T
      <3>. QED
        BY <2>3, LeastNat
    <2>5. ASSUME NEW o \in G PROVE nonce(o) < nonce(q) \/ (nonce(o) = nonce(q) /\ q <= o)
      <3>1. nonce(o) <= big /\ nonce(q) = big /\ nonce(o) \in Nat /\ big \in Nat
        BY <1>1, <2>2, <2>4
      <3>2. nonce(o) = big => q <= o
        BY <2>4
      <3>. QED
        BY <3>1, <3>2
    <2>. QED
      BY <2>4, <2>5 DEF Standing, G, nonce
  <1>. QED
    BY <1>3, <1>4

\* The log new is log with the answer a added at position n.
Extends(new, log, a, n) ==
  /\ n \in Nat /\ n = Len(log) + 1 /\ Len(new) = n /\ new[n] = a
  /\ DOMAIN new = DOMAIN log \cup {n} /\ n \notin DOMAIN log
  /\ \A q \in DOMAIN log : new[q] = log[q] /\ q < n /\ q \in Nat /\ q <= Len(log)

\* Handling an instruction extends the log by one answer.
LEMMA AppendExtends ==
  ASSUME NEW log \in Seq(Answers), NEW a \in Answers
  PROVE  Append(log, a) \in Seq(Answers) /\ Extends(Append(log, a), log, a, Len(log) + 1)
  BY DEF Extends

\* a answers a clear of key.
ClearAnswer(a, key) == ~IsBid(a.id) /\ AuctionKey(Instructions[a.id].message) = key

\* The clears of an auction after one more answer.
LEMMA ClearsExtended ==
  ASSUME NEW log, NEW new, NEW a, NEW n, Extends(new, log, a, n), NEW key
  PROVE  ClearsOf(new, key) = ClearsOf(log, key) \cup (IF ClearAnswer(a, key) THEN {n} ELSE {})
  <1>1. /\ ClearsOf(new, key) = {p \in DOMAIN new : ClearAnswer(new[p], key)}
        /\ ClearsOf(log, key) = {p \in DOMAIN log : ClearAnswer(log[p], key)}
    BY DEF ClearsOf, ClearAnswer
  <1>. QED
    BY <1>1 DEF Extends

\* A new answer leaves the genuine bids before earlier positions alone.
LEMMA GenuineKept ==
  ASSUME NEW log, NEW new, NEW a, NEW n, Extends(new, log, a, n), NEW key, NEW x,
         NEW p, p \in DOMAIN log
  PROVE  GenuineBids(new, key, x, p) = GenuineBids(log, key, x, p)
  <1>1. ~(n <= p)
    BY DEF Extends
  <1>2. \A q : q \in GenuineBids(new, key, x, p) <=>
                 q \in DOMAIN new /\ q <= p /\ GenuineBid(new[q], key, x)
    BY DEF GenuineBids
  <1>3. \A q : q \in GenuineBids(log, key, x, p) <=>
                 q \in DOMAIN log /\ q <= p /\ GenuineBid(log[q], key, x)
    BY DEF GenuineBids
  <1>4. \A q : q \in GenuineBids(new, key, x, p) <=> q \in GenuineBids(log, key, x, p)
    BY <1>1, <1>2, <1>3 DEF Extends
  <1>. QED
    BY <1>4

\* The genuine bids before the new end of the log.
LEMMA GenuineExtended ==
  ASSUME NEW log, NEW new, NEW a, NEW n, Extends(new, log, a, n), NEW key, NEW x
  PROVE  GenuineBids(new, key, x, n) = GenuineBids(log, key, x, Len(log))
           \cup (IF GenuineBid(a, key, x) THEN {n} ELSE {})
  <1> DEFINE C(e) == GenuineBid(e, key, x)
  <1>3. \A p : /\ GenuineBids(new, key, x, p) = {q \in DOMAIN new : q <= p /\ C(new[q])}
               /\ GenuineBids(log, key, x, p) = {q \in DOMAIN log : q <= p /\ C(log[q])}
    BY DEF GenuineBids
  <1> HIDE DEF C
  <1>4. GenuineBids(log, key, x, Len(log)) = {q \in DOMAIN log : C(log[q])}
    BY <1>3 DEF Extends
  <1>5. GenuineBids(new, key, x, n) = {q \in DOMAIN new : C(new[q])}
    BY <1>3 DEF Extends
  <1>7. GenuineBids(new, key, x, n) = GenuineBids(log, key, x, Len(log))
          \cup (IF C(a) THEN {n} ELSE {})
    BY <1>4, <1>5 DEF Extends
  <1>. QED
    BY <1>7 DEF C

\* What an answer says is settled when it is given: later ones change neither
\* the bids that arrived before it nor which of them stand.
LEMMA StandingExtended ==
  ASSUME NEW log \in Seq(Answers), NEW new \in Seq(Answers), NEW a, NEW n,
         Extends(new, log, a, n), Paired(log), Paired(new), NEW key, NEW x, NEW p \in DOMAIN log,
         GenuineBids(log, key, x, p) # {}
  PROVE  StandingBid(new, key, x, p) = StandingBid(log, key, x, p)
  <1>1. \A q \in DOMAIN log : new[q] = log[q]
    BY DEF Extends
  <1>2. /\ GenuineBids(new, key, x, p) = GenuineBids(log, key, x, p)
        /\ GenuineBids(log, key, x, p) \subseteq DOMAIN log
    <2>1. GenuineBids(new, key, x, p) = GenuineBids(log, key, x, p)
      BY GenuineKept
    <2>2. GenuineBids(log, key, x, p) \subseteq DOMAIN log
      BY GenuineTyped
    <2>. QED
      BY <2>1, <2>2
  <1>3. PICK q : Standing(log, key, x, p, q)
    BY StandingIs
  <1>4. Standing(new, key, x, p, q) /\ q \in DOMAIN log
    BY <1>1, <1>2, <1>3 DEF Standing
  <1>5. StandingBid(log, key, x, p) = log[q].plaintext
    BY <1>3, StandingIs
  <1>6. StandingBid(new, key, x, p) = new[q].plaintext
    BY <1>4, StandingIs
  <1>. QED
    BY <1>1, <1>4, <1>5, <1>6

\* The standing bid after one more answer: the new bid when it is genuine and
\* has a higher nonce than every one before, the standing bid of before
\* otherwise.
LEMMA StandingAfter ==
  ASSUME NEW log \in Seq(Answers), NEW new \in Seq(Answers), NEW a \in Answers, NEW n,
         Extends(new, log, a, n), Paired(log), Paired(new), NEW key, NEW x
  PROVE  LET G == GenuineBids(log, key, x, Len(log))
             old == StandingBid(log, key, x, Len(log))
         IN  /\ GenuineBid(a, key, x) /\ (G = {} \/ a.plaintext.nonce > old.nonce)
                => StandingBid(new, key, x, n) = a.plaintext
             /\ G # {} /\ (~GenuineBid(a, key, x) \/ a.plaintext.nonce <= old.nonce)
                => StandingBid(new, key, x, n) = old
  <1> DEFINE G == GenuineBids(log, key, x, Len(log))
             H == GenuineBids(new, key, x, n)
             old == StandingBid(log, key, x, Len(log))
             c == GenuineBid(a, key, x)
             v == a.plaintext.nonce
  <1>1. H = G \cup (IF c THEN {n} ELSE {})
    BY GenuineExtended
  <1>2. G \subseteq DOMAIN log /\ \A q \in G : GenuineBid(log[q], key, x)
    BY GenuineTyped
  <1>3. \A q \in G : new[q] = log[q] /\ q < n /\ q \in Nat
    BY <1>2 DEF Extends
  <1>4. new[n] = a /\ n \in Nat /\ n \in DOMAIN new
    BY DEF Extends
  <1>5. \A q \in G : log[q].plaintext.nonce \in Nat
    <2>1. \A q \in G : log[q] \in Answers /\ log[q].plaintext \in Plaintexts(log[q].id)
      BY <1>2, LogDomain DEF Paired
    <2>. QED
      BY <1>2, <2>1, GenuinePlain
  <1>6. c => v \in Nat
    BY <1>4, GenuinePlain DEF Paired
  <1>7. G # {} => \E q : Standing(log, key, x, Len(log), q) /\ old = log[q].plaintext
    BY StandingIs
  <1>8. ASSUME c, G = {} \/ v > old.nonce PROVE StandingBid(new, key, x, n) = a.plaintext
    <2>1. \A q \in G : log[q].plaintext.nonce < v
      <3> SUFFICES ASSUME NEW q \in G PROVE log[q].plaintext.nonce < v
        OBVIOUS
      <3>1. PICK s : Standing(log, key, x, Len(log), s) /\ old = log[s].plaintext
        BY <1>7
      <3>2. /\ s \in G
            /\ \/ log[q].plaintext.nonce < log[s].plaintext.nonce
               \/ log[q].plaintext.nonce = log[s].plaintext.nonce
        BY <3>1 DEF Standing
      <3>. QED
        BY <1>5, <1>6, <1>8, <3>1, <3>2
    <2>2. n \in H /\ \A o \in H : \/ new[o].plaintext.nonce < new[n].plaintext.nonce
                                  \/ new[o].plaintext.nonce = new[n].plaintext.nonce /\ n <= o
      <3> HIDE DEF G, H
      <3>. QED
        BY <1>1, <1>3, <1>4, <1>8, <2>1
    <2>3. Standing(new, key, x, n, n)
      BY <2>2 DEF Standing
    <2>. QED
      BY <1>4, <2>3, StandingIs
  <1>9. ASSUME G # {}, ~c \/ v <= old.nonce PROVE StandingBid(new, key, x, n) = old
    <2>1. PICK s : Standing(log, key, x, Len(log), s) /\ old = log[s].plaintext
      BY <1>7, <1>9
    <2>2. /\ s \in G
          /\ \A o \in G : \/ log[o].plaintext.nonce < log[s].plaintext.nonce
                          \/ log[o].plaintext.nonce = log[s].plaintext.nonce /\ s <= o
      BY <2>1 DEF Standing
    <2>3. c => v < log[s].plaintext.nonce \/ (v = log[s].plaintext.nonce /\ s <= n)
      <3> HIDE DEF G, c, v, old
      <3>. QED
        BY <1>3, <1>4, <1>5, <1>6, <1>9, <2>1, <2>2
    <2>4. s \in H /\ \A o \in H : \/ new[o].plaintext.nonce < new[s].plaintext.nonce
                                  \/ new[o].plaintext.nonce = new[s].plaintext.nonce /\ s <= o
      <3> HIDE DEF G, H, c
      <3>. QED
        BY <1>1, <1>3, <1>4, <2>2, <2>3
    <2>5. Standing(new, key, x, n, s)
      BY <2>4 DEF Standing
    <2>. QED
      BY <1>3, <2>1, <2>2, <2>5, StandingIs
  <1>. QED
    BY <1>8, <1>9

-----------------------------------------------------------------------------
(* What the handlers do                                                    *)

\* What the first line of each handler leaves of the retained results.
Pruned(e, k, time) ==
  IF e.cleared[k] # NotCleared /\ e.cleared[k].expiresAt <= time
  THEN NotCleared ELSE e.cleared[k]

\* pruneCleared keeps the bids and drops exactly the results past their time.
LEMMA PruneEffect ==
  ASSUME NEW e \in Extensions, NEW time
  PROVE  /\ PruneCleared(e, time) \in Extensions
         /\ PruneCleared(e, time).bids = e.bids
         /\ \A k \in Keys : PruneCleared(e, time).cleared[k] = Pruned(e, k, time)
  BY DEF Extensions, PruneCleared, Pruned

\* The three ways handlePrivateBid can end.
LEMMA BidOutcome ==
  ASSUME NEW e, NEW envelope, NEW bid, NEW time
  PROVE  LET out == HandlePrivateBid(e, envelope, bid, time)
             pruned == PruneCleared(e, time)
             key == AuctionKey(bid)
         IN  \/ ~Acceptable(envelope, bid) /\ out = Failure(e)
             \/ /\ Acceptable(envelope, bid) /\ out = Failure(pruned)
                /\ \/ pruned.cleared[key] # NotCleared
                   \/ ~NonceIncreases(pruned.bids[key][bid.bidder], bid)
             \/ /\ Acceptable(envelope, bid)
                /\ out = Success(BidReceipt(bid), StoreBid(pruned, bid))
                /\ pruned.cleared[key] = NotCleared
                /\ NonceIncreases(pruned.bids[key][bid.bidder], bid)
  BY DEF HandlePrivateBid

\* The two ways handleClear can end: the retained answer, or a new one retained.
LEMMA ClearOutcome ==
  ASSUME NEW e, NEW message, ValidClear(message), NEW time
  PROVE  LET out == HandleClear(e, message, time)
             pruned == PruneCleared(e, time)
             key == AuctionKey(message)
             result == ClearResult(pruned, message)
         IN  \/ /\ pruned.cleared[key] # NotCleared
                /\ out = Success(pruned.cleared[key].result, pruned)
             \/ /\ pruned.cleared[key] = NotCleared
                /\ out = Success(result, RetainResult(pruned, key, result, time))
  BY DEF HandleClear

\* The action result that Handle logs for an outcome.
AnswerOf(id, plaintext, time, out) ==
  [id |-> id, at |-> time, plaintext |-> plaintext, status |-> out.status, data |-> out.data]

\* A bid is stored when it is genuine, its auction is not remembered as
\* cleared and its nonce is higher; nothing else changes but the pruning.
BidEffect(e, f, a) ==
  /\ f \in Extensions /\ IsBid(a.id)
  /\ \A k \in Keys : f.cleared[k] \in {e.cleared[k], Pruned(e, k, a.at)}
  /\ \A k \in Keys, x \in Bidders : f.bids[k][x] =
       IF /\ GenuineBid(a, k, x) /\ Pruned(e, k, a.at) = NotCleared
          /\ NonceIncreases(e.bids[k][x], a.plaintext)
       THEN StoredBid(a.plaintext) ELSE e.bids[k][x]

\* A clear is answered from memory, or computed, retained and its bids purged.
ClearEffect(e, f, a) ==
  LET m == Instructions[a.id].message
      key == AuctionKey(m)
  IN  /\ f \in Extensions /\ ~IsBid(a.id) /\ key \in Keys /\ a.status = 1
      /\ \A k \in Keys \ {key} : f.cleared[k] = Pruned(e, k, a.at) /\ f.bids[k] = e.bids[k]
      /\ \/ /\ Pruned(e, key, a.at) # NotCleared
            /\ f.cleared[key] = e.cleared[key] /\ f.bids[key] = e.bids[key]
            /\ a.data = e.cleared[key].result
         \/ /\ Pruned(e, key, a.at) = NotCleared
            /\ f.cleared[key] = [result |-> a.data, expiresAt |-> a.at + ClearRetention]
            /\ f.bids[key] = [x \in Bidders |-> NoBid]
            /\ a.data = ClearResult(e, m)

\* Instructions and what they decrypt to have their types.
LEMMA InstructionTyped ==
  ASSUME NEW id \in DOMAIN Instructions
  PROVE  LET m == Instructions[id].message IN
         /\ IsBid(id) => m.bidder \in Bidders /\ m.auctionId \in Auctions
         /\ ~IsBid(id) => /\ m.contractAddr \in Contracts /\ m.auctionId \in Auctions
                          /\ m.floorPriceWei \in Nat /\ m.ceilingPriceWei \in Nat
                          /\ ValidClear(m) /\ AuctionKey(m) \in Keys
  BY InstructionAssumption DEF AuctionKey, Keys

\* What the handler's checks accept is what the properties call genuine.
LEMMA AcceptableIsGenuine ==
  ASSUME NEW a, IsBid(a.id), NEW k, NEW x
  PROVE  GenuineBid(a, k, x) <=>
           /\ Acceptable(Instructions[a.id].message, a.plaintext)
           /\ k = AuctionKey(a.plaintext) /\ x = a.plaintext.bidder
  <1>1. AuctionKey(a.plaintext)[2] = a.plaintext.auctionId
    BY DEF AuctionKey
  <1>. QED
    BY <1>1 DEF GenuineBid, Acceptable, MatchesEnvelope, Suspends

\* What handlePrivateBid does to the process and to the log.
LEMMA BidHandled ==
  ASSUME NEW e \in Extensions, NEW id \in DOMAIN Instructions, IsBid(id),
         NEW bid \in Plaintexts(id), NEW time \in 0 .. MaxClock
  PROVE  LET out == HandlePrivateBid(e, Instructions[id].message, bid, time)
             a == AnswerOf(id, bid, time, out)
         IN  a \in Answers /\ BidEffect(e, out.ext, a)
  <1> DEFINE m == Instructions[id].message
             out == HandlePrivateBid(e, m, bid, time)
             a == AnswerOf(id, bid, time, out)
             pruned == PruneCleared(e, time)
             key == AuctionKey(bid)
             x == bid.bidder
  <1>1. /\ a.id = id /\ a.at = time /\ a.plaintext = bid
        /\ a.status = out.status /\ a.data = out.data
    BY DEF AnswerOf
  <1>2. ASSUME out.status \in {0, 1}, out.data \in Receipts \cup {NoData} PROVE a \in Answers
    <2>1. bid \in UNION {Plaintexts(j) : j \in DOMAIN Instructions}
      BY Zenon
    <2>. QED
      BY <1>2, <2>1 DEF Answers, AnswerOf
  <1>3. /\ pruned \in Extensions /\ pruned.bids = e.bids
        /\ \A k \in Keys : pruned.cleared[k] = Pruned(e, k, time)
    BY PruneEffect
  <1>4. \A k, y : GenuineBid(a, k, y) <=> Acceptable(m, bid) /\ k = key /\ y = x
    BY <1>1, AcceptableIsGenuine
  <1> HIDE DEF a, out, pruned
  <1>5. ASSUME ~Acceptable(m, bid), out = Failure(e)
        PROVE  a \in Answers /\ BidEffect(e, out.ext, a)
    <2>1. out.ext = e /\ out.status = 0 /\ out.data = NoData
      BY <1>5 DEF Failure
    <2>. QED
      BY <1>1, <1>2, <1>4, <1>5, <2>1 DEF BidEffect
  <1>6. ASSUME Acceptable(m, bid)
        PROVE  /\ key \in Keys /\ x \in Bidders /\ x = m.bidder
               /\ bid \in PlainBids /\ bid.nonce \in Nat /\ bid.unitPriceWei \in Nat
               /\ bid.contractAddr \in Contracts /\ bid.auctionId \in Auctions
    <2>1. /\ Suspends(id) /\ bid \notin {DecryptFailed, Undecodable}
          /\ bid.bidder = m.bidder /\ bid.auctionId = m.auctionId
      BY <1>6 DEF Acceptable, MatchesEnvelope, Suspends
    <2>2. bid \in PlainBids
      <3> DEFINE U == UNION {Plaintexts(j) : j \in {i \in DOMAIN Instructions : Suspends(i)}}
      <3>1. bid \in U
        BY <2>1, Zenon
      <3>2. PlainBids = U \ {DecryptFailed, Undecodable}
        BY DEF PlainBids
      <3> HIDE DEF U
      <3>. QED
        BY <2>1, <3>1, <3>2
    <2>3. m.bidder \in Bidders /\ m.auctionId \in Auctions
      BY InstructionTyped
    <2>4. bid.contractAddr \in Contracts /\ bid.nonce \in Nat /\ bid.unitPriceWei \in Nat
      BY <2>2, InstructionAssumption
    <2>. QED
      BY <2>1, <2>2, <2>3, <2>4 DEF AuctionKey, Keys
  <1>7. ASSUME Acceptable(m, bid), out = Failure(pruned),
               \/ pruned.cleared[key] # NotCleared
               \/ ~NonceIncreases(pruned.bids[key][x], bid)
        PROVE  a \in Answers /\ BidEffect(e, out.ext, a)
    <2>1. out.ext = pruned /\ out.status = 0 /\ out.data = NoData
      BY <1>7 DEF Failure
    <2>2. key \in Keys
      BY <1>6, <1>7
    <2> HIDE DEF key, x
    <2>. QED
      BY <1>1, <1>2, <1>3, <1>4, <1>7, <2>1, <2>2 DEF BidEffect
  <1>8. ASSUME Acceptable(m, bid), out = Success(BidReceipt(bid), StoreBid(pruned, bid)),
               pruned.cleared[key] = NotCleared, NonceIncreases(pruned.bids[key][x], bid)
        PROVE  a \in Answers /\ BidEffect(e, out.ext, a)
    <2>1. out.ext = StoreBid(pruned, bid) /\ out.status = 1 /\ out.data = BidReceipt(bid)
      BY <1>8 DEF Success
    <2>2. /\ key \in Keys /\ x \in Bidders /\ bid \in PlainBids
          /\ bid.nonce \in Nat /\ bid.unitPriceWei \in Nat
          /\ bid.contractAddr \in Contracts /\ bid.auctionId \in Auctions
      BY <1>6, <1>8
    <2>3. StoredBid(bid) \in StoredBids /\ Keccak256(bid) \in Commitments
      BY <2>2 DEF StoredBid, StoredBids, Commitments
    <2>4. BidReceipt(bid) \in Receipts
      BY <2>2, <2>3 DEF BidReceipt, Receipts
    <2> DEFINE f == out.ext
    <2>5. f = [pruned EXCEPT !.bids[key][x] = StoredBid(bid)]
      BY <2>1 DEF StoreBid, StoredBid
    <2> HIDE DEF key, x, f
    <2>6. /\ f.cleared = pruned.cleared
          /\ f.bids = [pruned.bids EXCEPT ![key][x] = StoredBid(bid)]
          /\ f = [bids |-> f.bids, cleared |-> f.cleared]
      BY <1>3, <2>5 DEF Extensions
    <2>7. /\ f.bids \in [Keys -> [Bidders -> StoredBids \cup {NoBid}]]
          /\ \A k \in Keys, y \in Bidders :
               f.bids[k][y] = IF k = key /\ y = x THEN StoredBid(bid) ELSE e.bids[k][y]
      BY <1>3, <2>2, <2>3, <2>6 DEF Extensions
    <2>8. f \in Extensions
      BY <1>3, <2>6, <2>7 DEF Extensions
    <2>9. NonceIncreases(e.bids[key][x], bid) /\ Pruned(e, key, time) = NotCleared
      BY <1>3, <1>8, <2>2
    <2>10. BidEffect(e, f, a)
      BY <1>1, <1>3, <1>4, <1>8, <2>6, <2>7, <2>8, <2>9 DEF BidEffect
    <2>. QED
      BY <1>2, <2>1, <2>4, <2>10 DEF f
  <1>9. \/ ~Acceptable(m, bid) /\ out = Failure(e)
        \/ /\ Acceptable(m, bid) /\ out = Failure(pruned)
           /\ \/ pruned.cleared[key] # NotCleared
              \/ ~NonceIncreases(pruned.bids[key][x], bid)
        \/ /\ Acceptable(m, bid)
           /\ out = Success(BidReceipt(bid), StoreBid(pruned, bid))
           /\ pruned.cleared[key] = NotCleared
           /\ NonceIncreases(pruned.bids[key][x], bid)
    BY BidOutcome DEF out, pruned
  <1>10. a \in Answers /\ BidEffect(e, out.ext, a)
    <2> HIDE DEF m, key, x
    <2>. QED
      BY <1>5, <1>7, <1>8, <1>9
  <1>. QED
    BY <1>10 DEF a, out

\* What a result computed from the stored bids says about them.
ResultFacts(r, e, m) ==
  LET key == AuctionKey(m)
      bids == e.bids[key]
      S == Eligible(e, m)
  IN  /\ r \in Results /\ AuctionKey(r) = key
      /\ r.submittedBidCount = Cardinality(Submitted(e, key))
      /\ r.eligibleBidCount = Cardinality(S)
      /\ S = {} => r.winner = Zero /\ r.unitPriceWei = 0
      /\ S # {} =>
           /\ r.winner \in S
           /\ r.unitPriceWei = bids[r.winner].unitPriceWei
           /\ r.winningCommitment = bids[r.winner].commitment
           /\ \A y \in S : /\ bids[y].unitPriceWei <= r.unitPriceWei
                           /\ bids[y].unitPriceWei = r.unitPriceWei =>
                                AddressRank[r.winner] <= AddressRank[y]

\* The result of a clear counts the stored bids and names the best inside the collar.
LEMMA ResultIsBest ==
  ASSUME NEW e \in Extensions, NEW id \in DOMAIN Instructions, ~IsBid(id)
  PROVE  ResultFacts(ClearResult(e, Instructions[id].message), e, Instructions[id].message)
  <1> DEFINE m == Instructions[id].message
             key == AuctionKey(m)
             bids == e.bids[key]
             S == Eligible(e, m)
             price == [x \in S |-> bids[x].unitPriceWei]
             rank == [x \in S |-> AddressRank[x]]
             top == m.ceilingPriceWei
             w == Winner(bids, S)
             r == ClearResult(e, m)
  <1>1. /\ m.contractAddr \in Contracts /\ m.auctionId \in Auctions
        /\ m.floorPriceWei \in Nat /\ top \in Nat /\ key \in Keys
    BY InstructionTyped
  <1>2. bids \in [Bidders -> StoredBids \cup {NoBid}]
    BY <1>1 DEF Extensions
  <1>3. S \subseteq Bidders /\ \A x \in S : bids[x] \in StoredBids /\ bids[x].unitPriceWei <= top
    BY <1>2 DEF Eligible, Submitted
  <1>4. \A x \in S : /\ bids[x].unitPriceWei \in Nat /\ bids[x].nonce \in Nat
                     /\ bids[x].commitment \in Commitments
    BY <1>3 DEF StoredBids
  <1>5. Cardinality(Submitted(e, key)) \in Nat /\ Cardinality(S) \in Nat
    <2>1. Submitted(e, key) \subseteq Bidders
      BY DEF Submitted
    <2>2. IsFiniteSet(Submitted(e, key)) /\ IsFiniteSet(S)
      BY <1>3, <2>1, InstructionAssumption, FS_Subset
    <2>. QED
      BY <2>2, FS_CardinalityType
  <1>6. r = [contractAddr |-> m.contractAddr, auctionId |-> m.auctionId,
             winner |-> IF S # {} THEN w ELSE Zero,
             unitPriceWei |-> IF S # {} THEN bids[w].unitPriceWei ELSE 0,
             winningNonce |-> IF S # {} THEN bids[w].nonce ELSE 0,
             winningCommitment |-> IF S # {} THEN bids[w].commitment ELSE ZeroBytes32,
             submittedBidCount |-> Cardinality(Submitted(e, key)),
             eligibleBidCount |-> Cardinality(S)]
    BY DEF ClearResult
  <1>7. AuctionKey(r) = <<r.contractAddr, r.auctionId>> /\ key = <<m.contractAddr, m.auctionId>>
    BY DEF AuctionKey
  <1>8. S # {} =>
          w \in S /\ \A y \in S \ {w} : SortsBefore(bids, w, y)
    <2> SUFFICES ASSUME S # {}
                 PROVE  w \in S /\ \A y \in S \ {w} : SortsBefore(bids, w, y)
      OBVIOUS
    <2> HIDE DEF key, bids, S, top, m
    <2>1. Candidates(S, price, rank, top)
      BY <1>1, <1>3, <1>4, InstructionAssumption, RankAssumption DEF Candidates
    <2>2. \E x \in S : \A y \in S \ {x} :
            price[x] > price[y] \/ (price[x] = price[y] /\ rank[x] < rank[y])
      <3> HIDE DEF price, rank
      <3>. QED
        BY <2>1, BestExists
    <2>3. \E x \in S : \A y \in S \ {x} : SortsBefore(bids, x, y)
      BY <2>2 DEF SortsBefore
    <2>. QED
      BY <2>3 DEF Winner
  <1> HIDE DEF bids, S, w, r, m, key
  <1>9. S # {} => w \in Bidders
    BY <1>3, <1>8
  <1>10. r \in Results
    BY <1>1, <1>4, <1>5, <1>6, <1>8, <1>9 DEF Results
  <1>11. AuctionKey(r) = key
    BY <1>6, <1>7
  <1>12. ASSUME NEW y \in S
         PROVE  /\ bids[y].unitPriceWei <= bids[w].unitPriceWei
                /\ bids[y].unitPriceWei = bids[w].unitPriceWei =>
                     AddressRank[w] <= AddressRank[y]
    <2>1. y # w => SortsBefore(bids, w, y)
      BY <1>8
    <2>2. AddressRank[w] \in Nat /\ AddressRank[y] \in Nat /\ w \in S
      BY <1>3, <1>8, RankAssumption
    <2>. QED
      BY <1>4, <2>1, <2>2 DEF SortsBefore
  <1>13. /\ r.submittedBidCount = Cardinality(Submitted(e, key))
         /\ r.eligibleBidCount = Cardinality(S)
         /\ S = {} => r.winner = Zero /\ r.unitPriceWei = 0
         /\ S # {} => /\ r.winner = w /\ r.unitPriceWei = bids[w].unitPriceWei
                      /\ r.winningCommitment = bids[w].commitment
    BY <1>6
  <1>. QED
    BY <1>8, <1>10, <1>11, <1>12, <1>13 DEF ResultFacts, r, S, bids, key, m

\* What handleClear does to the process and to the log.
LEMMA ClearHandled ==
  ASSUME NEW e \in Extensions, NEW id \in DOMAIN Instructions, ~IsBid(id),
         NEW time \in 0 .. MaxClock
  PROVE  LET out == HandleClear(e, Instructions[id].message, time)
             a == AnswerOf(id, NoData, time, out)
         IN  a \in Answers /\ ClearEffect(e, out.ext, a)
  <1> DEFINE m == Instructions[id].message
             out == HandleClear(e, m, time)
             a == AnswerOf(id, NoData, time, out)
             pruned == PruneCleared(e, time)
             key == AuctionKey(m)
             result == ClearResult(pruned, m)
             none == [x \in Bidders |-> NoBid]
             entry == [result |-> result, expiresAt |-> time + ClearRetention]
  <1>1. /\ a.id = id /\ a.at = time /\ a.plaintext = NoData
        /\ a.status = out.status /\ a.data = out.data
    BY DEF AnswerOf
  <1>2. ASSUME out.status = 1, out.data \in Results PROVE a \in Answers
    <2>1. ~Suspends(id)
      BY DEF Suspends
    <2>2. NoData \in Plaintexts(id)
      BY <2>1 DEF Plaintexts
    <2>3. NoData \in UNION {Plaintexts(j) : j \in DOMAIN Instructions}
      BY <2>2, Zenon
    <2>. QED
      BY <1>2, <2>3 DEF Answers, AnswerOf
  <1>3. /\ pruned \in Extensions /\ pruned.bids = e.bids
        /\ \A k \in Keys : pruned.cleared[k] = Pruned(e, k, time)
    BY PruneEffect
  <1>4. ValidClear(m) /\ key \in Keys
    BY InstructionTyped
  <1>5. result = ClearResult(e, m)
    <2>1. pruned.bids = e.bids
      BY <1>3
    <2>2. \A k : Submitted(pruned, k) = Submitted(e, k)
      BY <2>1 DEF Submitted
    <2> HIDE DEF pruned
    <2>3. Eligible(pruned, m) = Eligible(e, m)
      BY <2>1, <2>2 DEF Eligible
    <2>. QED
      BY <2>1, <2>2, <2>3 DEF ClearResult
  <1>6. result \in Results
    <2>1. ResultFacts(ClearResult(e, m), e, m)
      BY ResultIsBest
    <2>. QED
      BY <1>5, <2>1 DEF ResultFacts
  <1>7. \/ pruned.cleared[key] # NotCleared /\ out = Success(pruned.cleared[key].result, pruned)
        \/ /\ pruned.cleared[key] = NotCleared
           /\ out = Success(result, RetainResult(pruned, key, result, time))
    BY <1>4, ClearOutcome
  <1> HIDE DEF out, pruned, result, a
  <1>8. ASSUME pruned.cleared[key] # NotCleared,
               out = Success(pruned.cleared[key].result, pruned)
        PROVE  a \in Answers /\ ClearEffect(e, out.ext, a)
    <2>1. /\ out.ext = pruned /\ out.status = 1 /\ out.data = pruned.cleared[key].result
      BY <1>8 DEF Success
    <2>2. pruned.cleared[key] = e.cleared[key] /\ Pruned(e, key, time) # NotCleared
      BY <1>3, <1>4, <1>8 DEF Pruned
    <2>3. e.cleared[key] \in RetainedResults
      BY <1>4, <1>8, <2>2 DEF Extensions
    <2>4. out.data \in Results
      BY <2>1, <2>2, <2>3 DEF RetainedResults
    <2> HIDE DEF key
    <2>. QED
      BY <1>1, <1>2, <1>3, <1>4, <2>1, <2>2, <2>4 DEF ClearEffect, key, m
  <1>9. ASSUME pruned.cleared[key] = NotCleared,
               out = Success(result, RetainResult(pruned, key, result, time))
        PROVE  a \in Answers /\ ClearEffect(e, out.ext, a)
    <2> DEFINE f == out.ext
    <2>1. out.status = 1 /\ out.data = result /\ f = RetainResult(pruned, key, result, time)
      BY <1>9 DEF Success
    <2>2. f = [pruned EXCEPT !.cleared[key] = entry, !.bids[key] = none]
      BY <2>1 DEF RetainResult
    <2>3. entry \in RetainedResults
      <3>1. time + ClearRetention \in Nat
        BY RetentionAssumption, BoundAssumption
      <3>. QED
        BY <1>6, <3>1 DEF RetainedResults
    <2> HIDE DEF key, none, entry, f
    <2>4. /\ f.bids = [pruned.bids EXCEPT ![key] = none]
          /\ f.cleared = [pruned.cleared EXCEPT ![key] = entry]
          /\ f = [bids |-> f.bids, cleared |-> f.cleared]
      BY <1>3, <2>2 DEF Extensions
    <2>5. none \in [Bidders -> StoredBids \cup {NoBid}]
      BY DEF none
    <2>6. f \in Extensions
      BY <1>3, <2>3, <2>4, <2>5, SMTT(60) DEF Extensions
    <2>7. /\ f.bids[key] = none /\ f.cleared[key] = entry
          /\ \A k \in Keys \ {key} : f.cleared[k] = Pruned(e, k, time) /\ f.bids[k] = e.bids[k]
      BY <1>3, <1>4, <2>4 DEF Extensions
    <2>8. Pruned(e, key, time) = NotCleared
      BY <1>3, <1>4, <1>9
    <2>9. a.status = 1 /\ a.data = result
      BY <1>1, <2>1
    <2>10. ClearEffect(e, f, a)
      BY <1>1, <1>4, <1>5, <2>6, <2>7, <2>8, <2>9 DEF ClearEffect, key, m, none, entry
    <2>. QED
      BY <1>2, <1>6, <2>1, <2>10 DEF f
  <1>10. a \in Answers /\ ClearEffect(e, out.ext, a)
    BY <1>7, <1>8, <1>9
  <1>. QED
    BY <1>10 DEF a, out

-----------------------------------------------------------------------------
(* One more answer preserves what the log and the process state say of     *)
(* each other                                                              *)

Effect(e, f, a) == BidEffect(e, f, a) \/ ClearEffect(e, f, a)

\* On the auctions that it does not clear, an instruction has the effect of a
\* bid, if it is one for them.
LEMMA OtherEffect ==
  ASSUME NEW e, NEW f, NEW a, Effect(e, f, a), NEW key \in Keys, ~ClearAnswer(a, key)
  PROVE  /\ f.cleared[key] \in {e.cleared[key], Pruned(e, key, a.at)}
         /\ \A x \in Bidders : f.bids[key][x] =
              IF /\ GenuineBid(a, key, x) /\ Pruned(e, key, a.at) = NotCleared
                 /\ NonceIncreases(e.bids[key][x], a.plaintext)
              THEN StoredBid(a.plaintext) ELSE e.bids[key][x]
  <1>1. CASE BidEffect(e, f, a)
    BY <1>1 DEF BidEffect
  <1>2. CASE ClearEffect(e, f, a)
    <2>1. ~IsBid(a.id) /\ key # AuctionKey(Instructions[a.id].message)
      BY <1>2 DEF ClearEffect, ClearAnswer
    <2>2. f.cleared[key] = Pruned(e, key, a.at) /\ f.bids[key] = e.bids[key]
      BY <1>2, <2>1 DEF ClearEffect
    <2>3. \A x \in Bidders : ~GenuineBid(a, key, x)
      BY <2>1 DEF GenuineBid, Suspends
    <2>. QED
      BY <2>2, <2>3
  <1>. QED
    BY <1>1, <1>2 DEF Effect

\* A clear whose result is in memory changes nothing, ...
LEMMA RepeatEffect ==
  ASSUME NEW e, NEW f, NEW a, Effect(e, f, a), NEW key, ClearAnswer(a, key),
         Pruned(e, key, a.at) # NotCleared
  PROVE  /\ f.cleared[key] = e.cleared[key] /\ f.bids[key] = e.bids[key]
         /\ a.data = e.cleared[key].result
  BY DEF Effect, BidEffect, ClearEffect, ClearAnswer

\* ... and another one is computed.
LEMMA ComputeEffect ==
  ASSUME NEW e, NEW f, NEW a, Effect(e, f, a), NEW key, ClearAnswer(a, key),
         Pruned(e, key, a.at) = NotCleared
  PROVE  /\ a.status = 1 /\ ~IsBid(a.id) /\ key = AuctionKey(Instructions[a.id].message)
         /\ f.cleared[key] = [result |-> a.data, expiresAt |-> a.at + ClearRetention]
         /\ f.bids[key] = [x \in Bidders |-> NoBid]
         /\ a.data = ClearResult(e, Instructions[a.id].message)
  BY DEF Effect, BidEffect, ClearEffect, ClearAnswer

\* Handling one more instruction, at a time no earlier than before.
Step(new, log, f, e, a, n) ==
  /\ log \in Seq(Answers) /\ new \in Seq(Answers) /\ a \in Answers
  /\ Paired(log) /\ Paired(new) /\ Extends(new, log, a, n)
  /\ \A q \in DOMAIN log : log[q].at <= a.at
  /\ e \in Extensions /\ Effect(e, f, a)

\* A standing bid can be stored.
LEMMA StandingTyped ==
  ASSUME NEW log \in Seq(Answers), Paired(log), NEW key, NEW x, NEW p,
         GenuineBids(log, key, x, p) # {}
  PROVE  LET bid == StandingBid(log, key, x, p)
         IN  bid \in PlainBids /\ bid.nonce \in Nat /\ bid.unitPriceWei \in Nat
             /\ StoredBid(bid) \in StoredBids /\ StoredBid(bid) # NoBid
  <1> DEFINE bid == StandingBid(log, key, x, p)
  <1>1. PICK q : Standing(log, key, x, p, q) /\ bid = log[q].plaintext
    BY StandingIs
  <1>2. q \in DOMAIN log /\ GenuineBid(log[q], key, x)
    BY <1>1, GenuineTyped DEF Standing
  <1>3. log[q] \in Answers /\ log[q].plaintext \in Plaintexts(log[q].id)
    BY <1>2, LogDomain DEF Paired
  <1>4. bid \in PlainBids /\ bid.nonce \in Nat /\ bid.unitPriceWei \in Nat
    BY <1>1, <1>2, <1>3, GenuinePlain
  <1> HIDE DEF bid
  <1>5. StoredBid(bid) \in StoredBids
    BY <1>4 DEF StoredBid, StoredBids, Commitments
  <1>. QED
    BY <1>4, <1>5, MarkerAssumption DEF bid

\* Handling one more instruction keeps the stored bids the standing ones.
LEMMA HoldsStep ==
  ASSUME NEW log, NEW new, NEW e, NEW f, NEW a, NEW n, Step(new, log, f, e, a, n),
         NEW key \in Keys, HoldsStandingBids(log, e, key)
  PROVE  HoldsStandingBids(new, f, key)
  <1>1. /\ log \in Seq(Answers) /\ new \in Seq(Answers) /\ a \in Answers
        /\ Paired(log) /\ Paired(new) /\ Extends(new, log, a, n)
        /\ Effect(e, f, a)
    BY DEF Step
  <1> SUFFICES ASSUME ClearsOf(new, key) = {}
               PROVE  /\ f.cleared[key] = NotCleared
                      /\ \A x \in Bidders : f.bids[key][x] =
                           IF GenuineBids(new, key, x, Len(new)) = {} THEN NoBid
                           ELSE StoredBid(StandingBid(new, key, x, Len(new)))
    BY DEF HoldsStandingBids
  <1>2. ClearsOf(log, key) = {} /\ ~ClearAnswer(a, key)
    <2>1. ClearsOf(new, key) = ClearsOf(log, key) \cup (IF ClearAnswer(a, key) THEN {n} ELSE {})
      BY <1>1, ClearsExtended
    <2>. QED
      BY <2>1
  <1>3. /\ e.cleared[key] = NotCleared
        /\ \A x \in Bidders : e.bids[key][x] =
             IF GenuineBids(log, key, x, Len(log)) = {} THEN NoBid
             ELSE StoredBid(StandingBid(log, key, x, Len(log)))
    BY <1>2 DEF HoldsStandingBids
  <1>4. Pruned(e, key, a.at) = NotCleared
    BY <1>3 DEF Pruned
  <1>5. /\ f.cleared[key] = NotCleared
        /\ \A x \in Bidders : f.bids[key][x] =
             IF GenuineBid(a, key, x) /\ NonceIncreases(e.bids[key][x], a.plaintext)
             THEN StoredBid(a.plaintext) ELSE e.bids[key][x]
    <2>1. /\ f.cleared[key] \in {e.cleared[key], Pruned(e, key, a.at)}
          /\ \A x \in Bidders : f.bids[key][x] =
               IF /\ GenuineBid(a, key, x) /\ Pruned(e, key, a.at) = NotCleared
                  /\ NonceIncreases(e.bids[key][x], a.plaintext)
               THEN StoredBid(a.plaintext) ELSE e.bids[key][x]
      BY <1>1, <1>2, OtherEffect
    <2>. QED
      BY <1>3, <1>4, <2>1
  <1>6. Len(new) = n
    BY <1>1 DEF Extends
  <1>7. ASSUME NEW x \in Bidders
        PROVE  f.bids[key][x] = IF GenuineBids(new, key, x, n) = {} THEN NoBid
                                ELSE StoredBid(StandingBid(new, key, x, n))
    <2> DEFINE G == GenuineBids(log, key, x, Len(log))
               H == GenuineBids(new, key, x, n)
               old == StandingBid(log, key, x, Len(log))
               c == GenuineBid(a, key, x)
    <2>1. H = G \cup (IF c THEN {n} ELSE {})
      BY <1>1, GenuineExtended
    <2>2. /\ c /\ (G = {} \/ a.plaintext.nonce > old.nonce)
             => StandingBid(new, key, x, n) = a.plaintext
          /\ G # {} /\ (~c \/ a.plaintext.nonce <= old.nonce)
             => StandingBid(new, key, x, n) = old
      BY <1>1, StandingAfter
    <2>3. G # {} => /\ old.nonce \in Nat /\ StoredBid(old) # NoBid
                    /\ StoredBid(old).nonce = old.nonce
      BY <1>1, StandingTyped DEF StoredBid
    <2>4. c => a.plaintext.nonce \in Nat
      <3>1. n \in DOMAIN new /\ new[n] = a
        BY <1>1 DEF Extends
      <3>2. a.plaintext \in Plaintexts(a.id)
        BY <1>1, <3>1 DEF Paired
      <3>. QED
        BY <1>1, <3>2, GenuinePlain
    <2>5. e.bids[key][x] = IF G = {} THEN NoBid ELSE StoredBid(old)
      BY <1>3
    <2>6. f.bids[key][x] = IF c /\ NonceIncreases(e.bids[key][x], a.plaintext)
                           THEN StoredBid(a.plaintext) ELSE e.bids[key][x]
      BY <1>5
    <2> HIDE DEF G, H, old, c
    <2>7. NonceIncreases(e.bids[key][x], a.plaintext) <=>
            e.bids[key][x] = NoBid \/ a.plaintext.nonce > e.bids[key][x].nonce
      BY DEF NonceIncreases
    <2>8. CASE G = {}
      BY <2>1, <2>2, <2>5, <2>6, <2>7, <2>8 DEF H
    <2>9. CASE G # {}
      BY <2>1, <2>2, <2>3, <2>4, <2>5, <2>6, <2>7, <2>9 DEF H
    <2>. QED
      BY <2>8, <2>9
  <1>. QED
    BY <1>5, <1>6, <1>7

\* The first clear of an auction after one more answer.
LEMMA FirstExtended ==
  ASSUME NEW log, NEW new, NEW e, NEW f, NEW a, NEW n, Step(new, log, f, e, a, n), NEW key
  PROVE  /\ ClearsOf(log, key) # {} =>
              /\ ClearsOf(new, key) # {} /\ FirstClear(new, key) = FirstClear(log, key)
              /\ FirstClear(log, key) \in ClearsOf(log, key)
              /\ FirstClear(log, key) \in DOMAIN log /\ FirstClear(log, key) < n
         /\ ClearsOf(log, key) = {} /\ ClearsOf(new, key) # {} =>
              ClearAnswer(a, key) /\ FirstClear(new, key) = n /\ ClearsOf(new, key) = {n}
  <1>1. /\ log \in Seq(Answers) /\ new \in Seq(Answers) /\ Extends(new, log, a, n)
    BY DEF Step
  <1>2. ClearsOf(new, key) = ClearsOf(log, key) \cup (IF ClearAnswer(a, key) THEN {n} ELSE {})
    BY <1>1, ClearsExtended
  <1>3. ASSUME ClearsOf(log, key) # {}
        PROVE  /\ FirstClear(new, key) = FirstClear(log, key)
               /\ FirstClear(log, key) \in ClearsOf(log, key)
               /\ FirstClear(log, key) \in DOMAIN log /\ FirstClear(log, key) < n
    <2> DEFINE p == FirstClear(log, key)
    <2>1. First(log, key, p) /\ ClearsOf(log, key) \subseteq DOMAIN log
      BY <1>1, <1>3, FirstIs
    <2>2. p \in ClearsOf(log, key) /\ p \in DOMAIN log /\ p < n /\ p \in Nat /\ n \in Nat
      BY <1>1, <2>1 DEF First, Extends
    <2> HIDE DEF p
    <2>3. First(new, key, p)
      BY <1>2, <2>1, <2>2 DEF First
    <2>4. p = FirstClear(new, key)
      BY <1>1, <2>3, FirstIs
    <2>. QED
      BY <2>2, <2>4 DEF p
  <1>4. ASSUME ClearsOf(log, key) = {}, ClearsOf(new, key) # {}
        PROVE  ClearAnswer(a, key) /\ FirstClear(new, key) = n /\ ClearsOf(new, key) = {n}
    <2>1. ClearAnswer(a, key) /\ ClearsOf(new, key) = {n}
      BY <1>2, <1>4
    <2>2. First(new, key, FirstClear(new, key))
      BY <1>1, <1>4, FirstIs
    <2>. QED
      BY <2>1, <2>2 DEF First
  <1>. QED
    BY <1>2, <1>3, <1>4

\* Handling one more instruction keeps the first result remembered while retained.
LEMMA RemembersStep ==
  ASSUME NEW log, NEW new, NEW e, NEW f, NEW a, NEW n, Step(new, log, f, e, a, n),
         NEW key \in Keys, HoldsStandingBids(log, e, key), RemembersFirstClear(log, e, key)
  PROVE  RemembersFirstClear(new, f, key)
  <1> DEFINE first == FirstClear(new, key)
  <1> SUFFICES ASSUME ClearsOf(new, key) # {},
                      \A q \in DOMAIN new : q > first => StillRetained(new, first, q)
               PROVE  /\ f.cleared[key] # NotCleared
                      /\ f.cleared[key] = [result |-> new[first].data,
                                           expiresAt |-> new[first].at + ClearRetention]
                      /\ Submitted(f, key) = {}
    BY DEF RemembersFirstClear
  <1>1. /\ log \in Seq(Answers) /\ new \in Seq(Answers) /\ Extends(new, log, a, n)
        /\ Effect(e, f, a) /\ e \in Extensions
    BY DEF Step
  <1>2. new[n] = a /\ n \in DOMAIN new /\ n \in Nat
        /\ \A q \in DOMAIN log : new[q] = log[q] /\ q \in DOMAIN new
    BY <1>1 DEF Extends
  <1>3. CASE ClearsOf(log, key) = {}
    <2>1. first = n /\ ClearAnswer(a, key)
      BY <1>3, FirstExtended
    <2>2. Pruned(e, key, a.at) = NotCleared
      BY <1>3 DEF HoldsStandingBids, Pruned
    <2>3. /\ f.cleared[key] = [result |-> a.data, expiresAt |-> a.at + ClearRetention]
          /\ f.bids[key] = [x \in Bidders |-> NoBid]
          /\ ~IsBid(a.id) /\ a.data = ClearResult(e, Instructions[a.id].message)
      BY <1>1, <2>1, <2>2, ComputeEffect
    <2>4. a.id \in DOMAIN Instructions /\ a.at \in Nat
      BY BoundAssumption DEF Step, Answers
    <2>5. a.data \in Results
      <3>1. ResultFacts(a.data, e, Instructions[a.id].message)
        BY <1>1, <2>3, <2>4, ResultIsBest
      <3>. QED
        BY <3>1 DEF ResultFacts
    <2>6. f.cleared[key] \in RetainedResults
      BY <2>3, <2>4, <2>5, RetentionAssumption DEF RetainedResults
    <2>. QED
      BY <1>2, <2>1, <2>3, <2>6, MarkerAssumption DEF Submitted
  <1>4. CASE ClearsOf(log, key) # {}
    <2>1. first = FirstClear(log, key) /\ first \in DOMAIN log /\ first < n
      BY <1>4, FirstExtended
    <2> HIDE DEF first
    <2>2. \A q \in DOMAIN log : q > first => StillRetained(log, first, q)
      BY <1>2, <2>1 DEF StillRetained
    <2>3. /\ e.cleared[key] # NotCleared
          /\ e.cleared[key] = [result |-> log[first].data,
                               expiresAt |-> log[first].at + ClearRetention]
          /\ Submitted(e, key) = {}
      BY <1>4, <2>1, <2>2 DEF RemembersFirstClear, first
    <2>4. a.at < log[first].at + ClearRetention
      <3>1. n > first
        BY <2>1
      <3>2. StillRetained(new, first, n)
        BY <1>2, <3>1
      <3>. QED
        BY <1>2, <2>1, <3>2 DEF StillRetained
    <2>5. log[first].at \in Nat /\ a.at \in Nat
      <3>1. \A answer \in Answers : answer.at \in Nat
        BY BoundAssumption DEF Answers
      <3>2. log[first] \in Answers /\ a \in Answers
        BY <1>1, <2>1, LogDomain DEF Step
      <3>. QED
        BY <3>1, <3>2
    <2>6. e.cleared[key] # NotCleared
      BY <2>3
    <2>7. Pruned(e, key, a.at) = e.cleared[key]
      <3>1. e.cleared[key].expiresAt = log[first].at + ClearRetention
        BY <2>3
      <3>2. ~(e.cleared[key].expiresAt <= a.at)
        BY <2>4, <2>5, <3>1, RetentionAssumption
      <3>. QED
        BY <3>2 DEF Pruned
    <2>8. f.cleared[key] = e.cleared[key] /\ \A x \in Bidders : f.bids[key][x] = e.bids[key][x]
      <3>1. CASE ClearAnswer(a, key)
        <4>1. Pruned(e, key, a.at) # NotCleared
          BY <2>6, <2>7
        <4>2. f.cleared[key] = e.cleared[key] /\ f.bids[key] = e.bids[key]
          BY <1>1, <3>1, <4>1, RepeatEffect
        <4>. QED
          BY <4>2
      <3>2. CASE ~ClearAnswer(a, key)
        <4>1. /\ f.cleared[key] \in {e.cleared[key], Pruned(e, key, a.at)}
              /\ \A x \in Bidders : f.bids[key][x] =
                   IF /\ GenuineBid(a, key, x) /\ Pruned(e, key, a.at) = NotCleared
                      /\ NonceIncreases(e.bids[key][x], a.plaintext)
                   THEN StoredBid(a.plaintext) ELSE e.bids[key][x]
          BY <1>1, <3>2, OtherEffect
        <4>. QED
          BY <2>6, <2>7, <4>1
      <3>. QED
        BY <3>1, <3>2
    <2>9. Submitted(f, key) = {}
      BY <2>3, <2>8 DEF Submitted
    <2>. QED
      BY <1>2, <2>1, <2>3, <2>8, <2>9
  <1>. QED
    BY <1>3, <1>4

\* Clears answered while the first result is retained are answered alike.
LEMMA StableStep ==
  ASSUME NEW log, NEW new, NEW e, NEW f, NEW a, NEW n, Step(new, log, f, e, a, n),
         NEW key \in Keys, RemembersFirstClear(log, e, key),
         NEW q \in ClearsOf(new, key), StillRetained(new, FirstClear(new, key), q),
         \A o \in ClearsOf(log, key) : StillRetained(log, FirstClear(log, key), o) =>
           log[o].data = log[FirstClear(log, key)].data
  PROVE  new[q].data = new[FirstClear(new, key)].data
  <1> DEFINE first == FirstClear(new, key)
  <1>1. /\ log \in Seq(Answers) /\ new \in Seq(Answers) /\ Extends(new, log, a, n)
        /\ Effect(e, f, a) /\ \A o \in DOMAIN log : log[o].at <= a.at
    BY DEF Step
  <1>2. /\ new[n] = a /\ n \in Nat /\ \A o \in DOMAIN log : new[o] = log[o] /\ o # n
    BY <1>1 DEF Extends
  <1>3. CASE ClearsOf(log, key) = {}
    <2>1. first = n /\ ClearsOf(new, key) = {n}
      BY <1>3, FirstExtended
    <2>. QED
      BY <2>1
  <1>4. CASE ClearsOf(log, key) # {}
    <2>1. first = FirstClear(log, key) /\ first \in DOMAIN log
      BY <1>4, FirstExtended
    <2>2. /\ ClearsOf(new, key) = ClearsOf(log, key) \cup (IF ClearAnswer(a, key) THEN {n} ELSE {})
          /\ ClearsOf(log, key) \subseteq DOMAIN log
      BY <1>1, ClearsExtended, SMTT(30) DEF ClearsOf
    <2> HIDE DEF first
    <2>3. CASE q \in ClearsOf(log, key)
      <3>1. StillRetained(log, first, q)
        BY <1>2, <2>1, <2>2, <2>3 DEF StillRetained, first
      <3>2. log[q].data = log[first].data
        BY <2>1, <2>3, <3>1
      <3>. QED
        BY <1>2, <2>1, <2>2, <2>3, <3>2 DEF first
    <2>4. CASE q = n /\ ClearAnswer(a, key)
      <3>1. a.at < log[first].at + ClearRetention
        BY <1>2, <2>1, <2>4 DEF StillRetained, first
      <3>2. \A o \in DOMAIN log : log[o].at \in Nat
        BY <1>1, LogDomain, BoundAssumption, SMTT(30) DEF Answers
      <3>3. a.at \in Nat
        BY BoundAssumption DEF Answers, Step
      <3>4. \A o \in DOMAIN log : StillRetained(log, first, o)
        BY <1>1, <2>1, <3>1, <3>2, <3>3, RetentionAssumption DEF StillRetained
      <3>5. /\ e.cleared[key] # NotCleared
            /\ e.cleared[key] = [result |-> log[first].data,
                                 expiresAt |-> log[first].at + ClearRetention]
        BY <1>4, <2>1, <3>4 DEF RemembersFirstClear
      <3>6. e.cleared[key].expiresAt = log[first].at + ClearRetention
            /\ e.cleared[key].result = log[first].data
        BY <3>5
      <3>7. ~(e.cleared[key].expiresAt <= a.at)
        BY <2>1, <3>1, <3>2, <3>3, <3>6, RetentionAssumption
      <3>8. Pruned(e, key, a.at) # NotCleared
        BY <3>5, <3>7 DEF Pruned
      <3>9. a.data = e.cleared[key].result
        BY <1>1, <2>4, <3>8, RepeatEffect
      <3>. QED
        BY <1>2, <2>1, <2>4, <3>6, <3>9 DEF first
    <2>5. q \in ClearsOf(log, key) \/ (q = n /\ ClearAnswer(a, key))
      BY <2>2
    <2>. QED
      BY <2>3, <2>4, <2>5
  <1>. QED
    BY <1>3, <1>4

\* The dealers that bid, their offers, and the offers inside the collar.
Dealers(log, key, p) == {x \in Bidders : GenuineBids(log, key, x, p) # {}}
Offer(log, key, p, x) == StandingBid(log, key, x, p).unitPriceWei
Inside(log, key, p) ==
  LET m == Instructions[log[p].id].message
  IN  {x \in Dealers(log, key, p) : Offer(log, key, p, x) \in m.floorPriceWei .. m.ceilingPriceWei}
Highest(log, key, p) == Max({Offer(log, key, p, x) : x \in Inside(log, key, p)})

\* ClearCorrect in terms of the dealers and offers at the clear.
LEMMA ClearCorrectIs ==
  ASSUME NEW log, NEW key, NEW p
  PROVE  ClearCorrect(log, key, p) <=>
           LET r == log[p].data
               inside == Inside(log, key, p)
           IN  /\ log[p].status = 1
               /\ r.submittedBidCount = Cardinality(Dealers(log, key, p))
               /\ r.eligibleBidCount = Cardinality(inside)
               /\ inside = {} => r.winner = Zero /\ r.unitPriceWei = 0
               /\ inside # {} =>
                    /\ r.winner \in inside
                    /\ r.unitPriceWei = Highest(log, key, p)
                    /\ \A x \in inside : Offer(log, key, p, x) = r.unitPriceWei =>
                         AddressRank[r.winner] <= AddressRank[x]
                    /\ r.winningCommitment = Keccak256(StandingBid(log, key, r.winner, p))
  BY DEF ClearCorrect, Dealers, Offer, Inside, Highest

\* A correct answer stays correct.
LEMMA CorrectKept ==
  ASSUME NEW log, NEW new, NEW e, NEW f, NEW a, NEW n, Step(new, log, f, e, a, n),
         NEW key, NEW p \in DOMAIN log, ClearCorrect(log, key, p)
  PROVE  ClearCorrect(new, key, p)
  <1>1. /\ log \in Seq(Answers) /\ new \in Seq(Answers) /\ Paired(log) /\ Paired(new)
        /\ Extends(new, log, a, n)
    BY DEF Step
  <1>2. new[p] = log[p]
    BY <1>1 DEF Extends
  <1>3. \A x : GenuineBids(new, key, x, p) = GenuineBids(log, key, x, p)
    BY <1>1, GenuineKept
  <1>4. Dealers(new, key, p) = Dealers(log, key, p)
    BY <1>3 DEF Dealers
  <1>5. \A x \in Dealers(log, key, p) :
          StandingBid(new, key, x, p) = StandingBid(log, key, x, p)
    BY <1>1, StandingExtended DEF Dealers
  <1>6. \A x \in Dealers(log, key, p) : Offer(new, key, p, x) = Offer(log, key, p, x)
    BY <1>5 DEF Offer
  <1>7. /\ Inside(new, key, p) = Inside(log, key, p)
        /\ Inside(log, key, p) \subseteq Dealers(log, key, p)
    BY <1>2, <1>4, <1>6 DEF Inside
  <1>8. {Offer(new, key, p, x) : x \in Inside(new, key, p)}
          = {Offer(log, key, p, x) : x \in Inside(log, key, p)}
    BY <1>6, <1>7
  <1>9. Highest(new, key, p) = Highest(log, key, p)
    BY <1>8 DEF Highest
  <1>10. Inside(log, key, p) # {} => log[p].data.winner \in Dealers(log, key, p)
    BY <1>7, ClearCorrectIs
  <1>. QED
    BY <1>2, <1>4, <1>5, <1>6, <1>7, <1>9, <1>10, ClearCorrectIs

\* The answer computed from the standing bids is correct.
LEMMA CorrectFirst ==
  ASSUME NEW log, NEW new, NEW e, NEW f, NEW a, NEW n, Step(new, log, f, e, a, n),
         NEW key \in Keys, HoldsStandingBids(log, e, key),
         ClearsOf(log, key) = {}, ClearAnswer(a, key)
  PROVE  ClearCorrect(new, key, n)
  <1> DEFINE m == Instructions[a.id].message
             bids == e.bids[key]
             r == a.data
             L == Len(log)
  <1>1. /\ log \in Seq(Answers) /\ new \in Seq(Answers) /\ a \in Answers
        /\ Paired(log) /\ Paired(new) /\ Extends(new, log, a, n)
        /\ Effect(e, f, a) /\ e \in Extensions /\ a.id \in DOMAIN Instructions
    BY DEF Step, Answers
  <1>2. new[n] = a
    BY <1>1 DEF Extends
  <1>3. Pruned(e, key, a.at) = NotCleared
    BY DEF HoldsStandingBids, Pruned
  <1>4. /\ a.status = 1 /\ ~IsBid(a.id) /\ key = AuctionKey(m) /\ r = ClearResult(e, m)
    <2> HIDE DEF HoldsStandingBids, m, r
    <2>1. Effect(e, f, a)
      BY <1>1
    <2>2. /\ a.status = 1 /\ ~IsBid(a.id) /\ key = AuctionKey(Instructions[a.id].message)
          /\ f.cleared[key] = [result |-> a.data, expiresAt |-> a.at + ClearRetention]
          /\ f.bids[key] = [x \in Bidders |-> NoBid]
          /\ a.data = ClearResult(e, Instructions[a.id].message)
      BY <1>3, <2>1, ComputeEffect
    <2>. QED
      BY <2>2 DEF m, r
  <1>5. ResultFacts(r, e, m)
    BY <1>1, <1>4, ResultIsBest
  <1>6. \A x : ~GenuineBid(a, key, x)
    BY <1>4 DEF GenuineBid, Suspends
  <1>7. \A x : GenuineBids(new, key, x, n) = GenuineBids(log, key, x, L)
    <2> TAKE x
    <2>1. GenuineBids(new, key, x, n) = GenuineBids(log, key, x, Len(log))
            \cup (IF GenuineBid(a, key, x) THEN {n} ELSE {})
      BY <1>1, GenuineExtended
    <2>. QED
      BY <1>6, <2>1
  <1>8. \A x \in Bidders :
          bids[x] = IF GenuineBids(log, key, x, L) = {} THEN NoBid
                    ELSE StoredBid(StandingBid(log, key, x, L))
    BY DEF HoldsStandingBids
  <1>9. ASSUME NEW x \in Bidders, GenuineBids(log, key, x, L) # {}
        PROVE  /\ StandingBid(new, key, x, n) = StandingBid(log, key, x, L)
               /\ bids[x] # NoBid
               /\ bids[x].unitPriceWei = Offer(new, key, n, x)
               /\ bids[x].unitPriceWei \in Nat
               /\ bids[x].commitment = Keccak256(StandingBid(new, key, x, n))
    <2>1. StandingBid(new, key, x, n) = StandingBid(log, key, x, L)
      BY <1>1, <1>6, <1>9, StandingAfter
    <2>2. bids[x] = StoredBid(StandingBid(log, key, x, L))
      BY <1>8, <1>9
    <2>3. /\ StoredBid(StandingBid(log, key, x, L)) # NoBid
          /\ StandingBid(log, key, x, L).unitPriceWei \in Nat
      BY <1>1, <1>9, StandingTyped
    <2>. QED
      BY <2>1, <2>2, <2>3 DEF StoredBid, Offer
  <1>10. \A x \in Bidders : bids[x] # NoBid <=> GenuineBids(log, key, x, L) # {}
    BY <1>8, <1>9
  <1>11. Submitted(e, key) = Dealers(new, key, n)
    BY <1>7, <1>10 DEF Submitted, Dealers
  <1>12. \A x \in Dealers(new, key, n) :
           /\ x \in Bidders
           /\ bids[x].unitPriceWei = Offer(new, key, n, x) /\ bids[x].unitPriceWei \in Nat
           /\ bids[x].commitment = Keccak256(StandingBid(new, key, x, n))
    BY <1>7, <1>9 DEF Dealers
  <1>13. m.floorPriceWei \in Nat /\ m.ceilingPriceWei \in Nat
    BY <1>1, <1>4, InstructionTyped
  <1>14. Eligible(e, m) = Inside(new, key, n)
    <2>1. Eligible(e, m) = {x \in Dealers(new, key, n) :
                              /\ bids[x].unitPriceWei >= m.floorPriceWei
                              /\ bids[x].unitPriceWei <= m.ceilingPriceWei}
      BY <1>4, <1>11 DEF Eligible
    <2>2. Inside(new, key, n) = {x \in Dealers(new, key, n) :
                                   Offer(new, key, n, x) \in m.floorPriceWei .. m.ceilingPriceWei}
      BY <1>2 DEF Inside
    <2> HIDE DEF m, bids
    <2>. QED
      BY <1>12, <1>13, <2>1, <2>2
  <1>15. Inside(new, key, n) \subseteq Dealers(new, key, n)
    BY DEF Inside
  <1> DEFINE S == Inside(new, key, n)
  <1>16. /\ r.submittedBidCount = Cardinality(Dealers(new, key, n))
         /\ r.eligibleBidCount = Cardinality(S)
         /\ S = {} => r.winner = Zero /\ r.unitPriceWei = 0
    BY <1>4, <1>5, <1>11, <1>14 DEF ResultFacts
  <1>17. S # {} =>
           /\ r.winner \in S
           /\ r.unitPriceWei = bids[r.winner].unitPriceWei
           /\ r.winningCommitment = bids[r.winner].commitment
           /\ \A y \in S : /\ bids[y].unitPriceWei <= r.unitPriceWei
                           /\ bids[y].unitPriceWei = r.unitPriceWei =>
                                AddressRank[r.winner] <= AddressRank[y]
    BY <1>4, <1>5, <1>14 DEF ResultFacts
  <1> HIDE DEF S, r, bids, m
  <1>18. ASSUME S # {}
         PROVE  /\ r.unitPriceWei = Highest(new, key, n)
                /\ r.winningCommitment = Keccak256(StandingBid(new, key, r.winner, n))
                /\ \A x \in S : Offer(new, key, n, x) = r.unitPriceWei =>
                     AddressRank[r.winner] <= AddressRank[x]
    <2> DEFINE O == {Offer(new, key, n, x) : x \in S}
    <2>1. /\ r.winner \in S /\ r.unitPriceWei = Offer(new, key, n, r.winner)
          /\ r.winningCommitment = Keccak256(StandingBid(new, key, r.winner, n))
      BY <1>12, <1>15, <1>17, <1>18 DEF S
    <2>2. \A y \in S : Offer(new, key, n, y) <= r.unitPriceWei /\ Offer(new, key, n, y) \in Nat
      BY <1>12, <1>15, <1>17, <1>18 DEF S
    <2>3. r.unitPriceWei \in O /\ O \subseteq Nat /\ \A o \in O : r.unitPriceWei >= o
      BY <2>1, <2>2
    <2> HIDE DEF O
    <2>4. Max(O) \in O /\ \A o \in O : Max(O) >= o
      BY <2>3 DEF Max
    <2>5. Max(O) = r.unitPriceWei
      <3>1. Max(O) >= r.unitPriceWei /\ r.unitPriceWei >= Max(O)
        BY <2>3, <2>4
      <3>2. Max(O) \in Nat /\ r.unitPriceWei \in Nat
        BY <2>3, <2>4
      <3>. QED
        BY <3>1, <3>2
    <2>6. \A x \in S : Offer(new, key, n, x) = r.unitPriceWei =>
            AddressRank[r.winner] <= AddressRank[x]
      BY <1>12, <1>15, <1>17, <1>18 DEF S
    <2>. QED
      BY <2>1, <2>5, <2>6 DEF Highest, O, S
  <1>. QED
    BY <1>2, <1>4, <1>16, <1>17, <1>18, ClearCorrectIs DEF r, S

-----------------------------------------------------------------------------
(* The invariant                                                           *)

\* The invariant holds at first.
LEMMA InitInv == Init => ExtensionInv
  <1> SUFFICES ASSUME Init PROVE ExtensionInv
    OBVIOUS
  <1>1. ext = EmptyExtension /\ clock = 0 /\ answers = <<>>
    BY DEF Init
  <1>2. /\ ext \in Extensions
        /\ \A k \in Keys : ext.cleared[k] = NotCleared /\ \A x \in Bidders : ext.bids[k][x] = NoBid
    BY <1>1 DEF EmptyExtension, Extensions
  <1>3. answers \in Seq(Answers) /\ Len(answers) = 0 /\ DOMAIN answers = {}
    BY <1>1
  <1>4. TypeOK
    BY <1>1, <1>2, <1>3, BoundAssumption DEF TypeOK
  <1>5. \A key : ClearsOf(answers, key) = {}
    BY <1>3 DEF ClearsOf
  <1>6. \A key, x, p : GenuineBids(answers, key, x, p) = {}
    BY <1>3 DEF GenuineBids
  <1>7. FirstClearCorrect /\ ClearStableWhileRetained
    BY <1>5 DEF FirstClearCorrect, ClearStableWhileRetained
  <1>8. ASSUME NEW key \in Keys
        PROVE  HoldsStandingBids(answers, ext, key) /\ RemembersFirstClear(answers, ext, key)
    BY <1>2, <1>5, <1>6 DEF HoldsStandingBids, RemembersFirstClear
  <1>. QED
    BY <1>4, <1>7, <1>8 DEF ExtensionInv

\* The passing of time keeps the invariant.
LEMMA AdvanceInv == ExtensionInv /\ Advance => ExtensionInv'
  <1> SUFFICES ASSUME ExtensionInv, Advance PROVE ExtensionInv'
    OBVIOUS
  <1>1. clock < MaxClock /\ clock' = clock + 1 /\ ext' = ext /\ answers' = answers
    BY DEF Advance
  <1>2. TypeOK
    BY DEF ExtensionInv
  <1>3. clock \in 0 .. MaxClock /\ clock' \in 0 .. MaxClock /\ clock <= clock'
    BY <1>1, <1>2, BoundAssumption DEF TypeOK
  <1>4. \A q \in DOMAIN answers : answers[q].at <= clock'
    <2>1. \A q \in DOMAIN answers : answers[q].at <= clock /\ answers[q].at \in 0 .. MaxClock
      BY <1>2, LogDomain DEF TypeOK, Answers
    <2>. QED
      BY <1>3, <2>1, BoundAssumption
  <1>5. \A k \in Keys : ext.cleared[k] # NotCleared =>
          ext.cleared[k].expiresAt <= clock' + ClearRetention
    <2> SUFFICES ASSUME NEW k \in Keys, ext.cleared[k] # NotCleared
                 PROVE  ext.cleared[k].expiresAt <= clock' + ClearRetention
      OBVIOUS
    <2>1. ext.cleared[k].expiresAt <= clock + ClearRetention
      BY <1>2 DEF TypeOK
    <2>2. ext.cleared[k].expiresAt \in Nat
      <3>1. ext.cleared[k] \in RetainedResults
        BY <1>2 DEF TypeOK, Extensions
      <3>. QED
        BY <3>1 DEF RetainedResults
    <2>. QED
      BY <1>3, <2>1, <2>2, BoundAssumption, RetentionAssumption
  <1>6. TypeOK'
    BY <1>1, <1>2, <1>3, <1>4, <1>5 DEF TypeOK
  <1>7. FirstClearCorrect' /\ ClearStableWhileRetained'
    BY <1>1 DEF ExtensionInv, FirstClearCorrect, ClearStableWhileRetained
  <1>8. \A key \in Keys : /\ HoldsStandingBids(answers', ext', key)
                          /\ RemembersFirstClear(answers', ext', key)
    BY <1>1 DEF ExtensionInv
  <1>. QED
    BY <1>6, <1>7, <1>8 DEF ExtensionInv

\* Handling an instruction keeps the invariant.
LEMMA HandleInv ==
  ASSUME ExtensionInv, NEW id \in DOMAIN Instructions, NEW plaintext \in Plaintexts(id),
         Handle(id, plaintext)
  PROVE  ExtensionInv'
  <1> DEFINE out == Outcome(id, plaintext)
             a == AnswerOf(id, plaintext, clock, out)
             n == Len(answers) + 1
  <1>1. /\ Len(answers) < MaxDeliveries /\ clock' = clock
        /\ ext' = out.ext /\ answers' = Append(answers, a)
    BY DEF Handle, AnswerOf
  <1>2. /\ TypeOK /\ FirstClearCorrect /\ ClearStableWhileRetained
        /\ \A key \in Keys : /\ HoldsStandingBids(answers, ext, key)
                             /\ RemembersFirstClear(answers, ext, key)
    BY DEF ExtensionInv
  <1>3. /\ clock \in 0 .. MaxClock /\ ext \in Extensions /\ answers \in Seq(Answers)
        /\ Paired(answers) /\ \A q \in DOMAIN answers : answers[q].at <= clock
    BY <1>2 DEF TypeOK, Paired
  <1>4. a.id = id /\ a.at = clock /\ a.plaintext = plaintext
    BY DEF AnswerOf
  <1>5. a \in Answers /\ Effect(ext, ext', a)
    <2>1. CASE IsBid(id)
      <3>1. out = HandlePrivateBid(ext, Instructions[id].message, plaintext, clock)
        BY <2>1 DEF Outcome
      <3>2. a \in Answers /\ BidEffect(ext, out.ext, a)
        BY <1>3, <2>1, <3>1, BidHandled
      <3>. QED
        BY <1>1, <3>2 DEF Effect
    <2>2. CASE ~IsBid(id)
      <3>1. out = HandleClear(ext, Instructions[id].message, clock) /\ plaintext = NoData
        BY <2>2 DEF Outcome, Plaintexts, Suspends
      <3>2. a \in Answers /\ ClearEffect(ext, out.ext, a)
        BY <1>3, <2>2, <3>1, ClearHandled
      <3>. QED
        BY <1>1, <3>2 DEF Effect
    <2>. QED
      BY <2>1, <2>2
  <1> HIDE DEF a, out
  <1>6. answers' \in Seq(Answers) /\ Extends(answers', answers, a, n)
    BY <1>1, <1>3, <1>5, AppendExtends
  <1> HIDE DEF n
  <1>7. Paired(answers')
    BY <1>3, <1>4, <1>6 DEF Paired, Extends
  <1>8. Step(answers', answers, ext', ext, a, n)
    BY <1>3, <1>4, <1>5, <1>6, <1>7 DEF Step
  <1>9. ASSUME NEW key \in Keys
        PROVE  HoldsStandingBids(answers', ext', key) /\ RemembersFirstClear(answers', ext', key)
    BY <1>2, <1>8, HoldsStep, RemembersStep
  <1>10. ASSUME NEW key \in Keys, ClearsOf(answers', key) # {}
         PROVE  ClearCorrect(answers', key, FirstClear(answers', key))
    <2>1. CASE ClearsOf(answers, key) = {}
      <3>1. ClearAnswer(a, key) /\ FirstClear(answers', key) = n
        BY <1>8, <1>10, <2>1, FirstExtended
      <3>. QED
        BY <1>2, <1>8, <2>1, <3>1, CorrectFirst
    <2>2. CASE ClearsOf(answers, key) # {}
      <3>1. /\ FirstClear(answers', key) = FirstClear(answers, key)
            /\ FirstClear(answers, key) \in DOMAIN answers
        BY <1>8, <2>2, FirstExtended
      <3>2. ClearCorrect(answers, key, FirstClear(answers, key))
        BY <1>2, <2>2 DEF FirstClearCorrect
      <3>. QED
        BY <1>8, <3>1, <3>2, CorrectKept
    <2>. QED
      BY <2>1, <2>2
  <1>11. ASSUME NEW key \in Keys, NEW q \in ClearsOf(answers', key),
                StillRetained(answers', FirstClear(answers', key), q)
         PROVE  answers'[q].data = answers'[FirstClear(answers', key)].data
    <2>1. \A o \in ClearsOf(answers, key) : StillRetained(answers, FirstClear(answers, key), o) =>
            answers[o].data = answers[FirstClear(answers, key)].data
      BY <1>2 DEF ClearStableWhileRetained
    <2>. QED
      BY <1>2, <1>8, <1>11, <2>1, StableStep
  <1>12. TypeOK'
    <2>1. clock' \in 0 .. MaxClock /\ Len(answers') <= MaxDeliveries
      BY <1>1, <1>3, <1>6, LogDomain, BoundAssumption DEF Extends
    <2>2. ASSUME NEW q \in DOMAIN answers'
          PROVE  /\ answers'[q].plaintext \in Plaintexts(answers'[q].id)
                 /\ answers'[q].at <= clock'
                 /\ \A p \in 1 .. q : answers'[p].at <= answers'[q].at
      <3>1. answers'[q].plaintext \in Plaintexts(answers'[q].id)
        BY <1>7 DEF Paired
      <3>2. CASE q \in DOMAIN answers
        <4>1. answers'[q] = answers[q] /\ q \in Nat /\ q <= Len(answers)
          BY <1>6, <3>2 DEF Extends
        <4>2. \A p \in 1 .. q : p \in DOMAIN answers
          BY <1>3, <4>1, LogDomain
        <4>3. \A p \in 1 .. q : answers'[p] = answers[p]
          BY <1>6, <4>2 DEF Extends
        <4>4. answers[q].at <= clock /\ \A p \in 1 .. q : answers[p].at <= answers[q].at
          BY <1>2, <3>2 DEF TypeOK
        <4>. QED
          BY <1>1, <3>1, <4>1, <4>3, <4>4
      <3>3. CASE q = n
        <4>1. answers'[q] = a /\ n \in Nat /\ n = Len(answers) + 1
          BY <1>6, <3>3 DEF Extends
        <4>2. \A p \in 1 .. q : p \in DOMAIN answers \/ p = n
          BY <1>3, <3>3, <4>1, LogDomain
        <4>3. \A p \in 1 .. q : answers'[p].at <= clock
          BY <1>3, <1>4, <1>6, <3>3, <4>1, <4>2, BoundAssumption DEF Extends
        <4>. QED
          BY <1>1, <1>3, <1>4, <3>1, <4>1, <4>3, BoundAssumption
      <3>. QED
        BY <1>6, <3>2, <3>3 DEF Extends
    <2>3. ext' \in Extensions
      BY <1>5 DEF Effect, BidEffect, ClearEffect
    <2>4. ASSUME NEW k \in Keys, ext'.cleared[k] # NotCleared
          PROVE  /\ ext'.cleared[k].expiresAt <= clock' + ClearRetention
                 /\ AuctionKey(ext'.cleared[k].result) = k
      <3>1. CASE ext'.cleared[k] = ext.cleared[k]
        BY <1>1, <1>2, <2>4, <3>1 DEF TypeOK
      <3>2. CASE ~ClearAnswer(a, k)
        <4>1. ext'.cleared[k] \in {ext.cleared[k], Pruned(ext, k, a.at)}
          BY <1>5, <3>2, OtherEffect
        <4>2. ext'.cleared[k] = ext.cleared[k]
          BY <2>4, <4>1 DEF Pruned
        <4>. QED
          BY <3>1, <4>2
      <3>3. CASE ClearAnswer(a, k) /\ Pruned(ext, k, a.at) # NotCleared
        <4>1. ext'.cleared[k] = ext.cleared[k]
          BY <1>5, <3>3, RepeatEffect
        <4>. QED
          BY <3>1, <4>1
      <3>4. CASE ClearAnswer(a, k) /\ Pruned(ext, k, a.at) = NotCleared
        <4>1. /\ ~IsBid(a.id) /\ k = AuctionKey(Instructions[a.id].message)
              /\ ext'.cleared[k] = [result |-> a.data, expiresAt |-> a.at + ClearRetention]
              /\ a.data = ClearResult(ext, Instructions[a.id].message)
          BY <1>5, <3>4, ComputeEffect
        <4>2. ResultFacts(a.data, ext, Instructions[a.id].message)
          BY <1>3, <1>4, <4>1, ResultIsBest
        <4>3. AuctionKey(a.data) = k
          BY <4>1, <4>2 DEF ResultFacts
        <4>4. ext'.cleared[k].expiresAt = clock' + ClearRetention /\ ext'.cleared[k].result = a.data
          BY <1>1, <1>4, <4>1
        <4>5. clock' + ClearRetention \in Nat
          <5>1. clock \in Nat
            BY <1>3, BoundAssumption
          <5>. QED
            BY <1>1, <5>1, RetentionAssumption
        <4>. QED
          BY <4>3, <4>4, <4>5
      <3>. QED
        BY <3>2, <3>3, <3>4
    <2>. QED
      BY <1>6, <2>1, <2>2, <2>3, <2>4 DEF TypeOK
  <1>. QED
    BY <1>9, <1>10, <1>11, <1>12 DEF ExtensionInv, FirstClearCorrect, ClearStableWhileRetained

\* Every step keeps the invariant.
LEMMA NextInv == ExtensionInv /\ [Next]_extensionVars => ExtensionInv'
  <1> SUFFICES ASSUME ExtensionInv, [Next]_extensionVars PROVE ExtensionInv'
    OBVIOUS
  <1>1. CASE Advance
    BY <1>1, AdvanceInv
  <1>2. ASSUME NEW id \in DOMAIN Instructions, NEW plaintext \in Plaintexts(id),
               Handle(id, plaintext)
        PROVE  ExtensionInv'
    BY <1>2, HandleInv
  <1>3. CASE UNCHANGED extensionVars
    BY <1>3 DEF extensionVars, ExtensionInv, TypeOK, FirstClearCorrect, ClearStableWhileRetained
  <1>. QED
    BY <1>1, <1>2, <1>3 DEF Next

\* The inductive invariant of one extension process.
THEOREM ExtensionInvariance == Spec => []ExtensionInv
  <1>. QED
    BY InitInv, NextInv, PTL DEF Spec

\* The process's two maps hold stored bids and retained results under their
\* own keys, no result is retained for longer than clearRetentionMs, and every
\* answer is a receipt, a result or a failure.
THEOREM ExtensionTypeCorrect == Spec => []TypeOK
  <1>1. ExtensionInv => TypeOK
    BY DEF ExtensionInv
  <1>. QED
    BY <1>1, ExtensionInvariance, PTL

\* Until an auction is cleared, the process holds for each dealer exactly the
\* bid with its highest nonce, of several the one that arrived first, in
\* whatever order and however often the instructions were delivered.
THEOREM StandingBidsAreStored == Spec => []StandingBidsStored
  <1>1. ExtensionInv => StandingBidsStored
    <2> SUFFICES ASSUME ExtensionInv, NEW key \in Keys, ClearsOf(answers, key) = {},
                        NEW x \in Bidders
                 PROVE  IF GenuineBids(answers, key, x, Len(answers)) = {}
                        THEN ext.bids[key][x] = NoBid
                        ELSE /\ ext.bids[key][x] # NoBid
                             /\ ext.bids[key][x].commitment
                                  = Keccak256(StandingBid(answers, key, x, Len(answers)))
      BY DEF StandingBidsStored
    <2>1. answers \in Seq(Answers) /\ Paired(answers)
      BY DEF ExtensionInv, TypeOK, Paired
    <2>2. ext.bids[key][x] =
            IF GenuineBids(answers, key, x, Len(answers)) = {} THEN NoBid
            ELSE StoredBid(StandingBid(answers, key, x, Len(answers)))
      BY DEF ExtensionInv, HoldsStandingBids
    <2>3. GenuineBids(answers, key, x, Len(answers)) # {} =>
            StoredBid(StandingBid(answers, key, x, Len(answers))) # NoBid
      BY <2>1, StandingTyped
    <2>. QED
      BY <2>2, <2>3 DEF StoredBid
  <1>. QED
    BY <1>1, ExtensionInvariance, PTL

\* The first answer to a clear names the highest standing bid inside the
\* collar, the lowest address among equals, with its price and commitment and
\* with the right counts, or is the no-fill when there is none.
THEOREM FirstClearIsCorrect == Spec => []FirstClearCorrect
  <1>1. ExtensionInv => FirstClearCorrect
    BY DEF ExtensionInv
  <1>. QED
    BY <1>1, ExtensionInvariance, PTL

\* A clear delivered again while its result is retained gets the first answer,
\* whatever arrived in between.
THEOREM ClearIsStable == Spec => []ClearStableWhileRetained
  <1>1. ExtensionInv => ClearStableWhileRetained
    BY DEF ExtensionInv
  <1>. QED
    BY <1>1, ExtensionInvariance, PTL

\* While the result of a cleared auction is retained, the process holds no
\* plaintext bid of it.
THEOREM ClearedIsPurged == Spec => []PurgedWhileRetained
  <1>1. ExtensionInv => PurgedWhileRetained
    BY DEF ExtensionInv, RemembersFirstClear, PurgedWhileRetained
  <1>. QED
    BY <1>1, ExtensionInvariance, PTL
=============================================================================
