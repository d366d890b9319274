---------------------------- MODULE ServerProofs ----------------------------
(***************************************************************************)
(* Proofs about Server, the promise chain and the await around the         *)
(* handlers, for any number of requests of any kind.                       *)
(***************************************************************************)
EXTENDS Server, ExtensionProofs

-----------------------------------------------------------------------------
(* Requests and the chain                                                  *)

\* An accepted action names an instruction; a rejection has a status.
LEMMA InputKinds ==
  ASSUME NEW r \in Inputs
  PROVE  /\ r.kind = "action" => r.id \in DOMAIN Instructions /\ r.kind \notin DOMAIN Rejections
         /\ r.kind \in DOMAIN Rejections => Rejections[r.kind] \in Nat
  BY DEF Inputs, Rejections

\* Requests are numbered as they arrive, and the chain holds such numbers.
LEMMA QueueFacts ==
  ASSUME QueueInv
  PROVE  /\ DOMAIN requests = 1 .. Len(requests) /\ Len(requests) \in Nat
         /\ \A n \in DOMAIN requests : n \in Nat /\ n # NoJob /\ n <= Len(requests)
                                       /\ requests[n] \in Inputs
         /\ DOMAIN queue = 1 .. Len(queue) /\ Len(queue) \in Nat
         /\ \A p \in DOMAIN queue : queue[p] \in DOMAIN requests
         /\ \A n : n \in Range(queue) <=> \E p \in DOMAIN queue : queue[p] = n
         /\ \A n \in DOMAIN requests : IsAction(n) => /\ Instruction(n) \in DOMAIN Instructions
                                                      /\ Accepted(n)
  <1>1. requests \in Seq(Inputs) /\ queue \in Seq(DOMAIN requests)
    BY DEF QueueInv
  <1>2. /\ DOMAIN requests = 1 .. Len(requests) /\ Len(requests) \in Nat
        /\ \A n \in DOMAIN requests : n \in Nat /\ n <= Len(requests) /\ requests[n] \in Inputs
    BY <1>1
  <1>3. /\ DOMAIN queue = 1 .. Len(queue) /\ Len(queue) \in Nat
        /\ \A p \in DOMAIN queue : queue[p] \in DOMAIN requests
    BY <1>1
  <1>4. \A n : n \in Range(queue) <=> \E p \in DOMAIN queue : queue[p] = n
    BY DEF Range
  <1>5. \A n \in DOMAIN requests : n # NoJob
    BY <1>2, JobAssumption
  <1>6. \A n \in DOMAIN requests : IsAction(n) => Instruction(n) \in DOMAIN Instructions /\ Accepted(n)
    BY <1>2, InputKinds DEF IsAction, Instruction, Accepted
  <1>. QED
    BY <1>2, <1>3, <1>4, <1>5, <1>6

\* One more request arrives.
Arrived(request, n) ==
  /\ n = Len(requests) + 1 /\ n \in Nat /\ n # NoJob /\ ~Pends(n)
  /\ n \notin DOMAIN requests /\ DOMAIN requests' = DOMAIN requests \cup {n}
  /\ requests'[n] = request
  /\ \A m \in DOMAIN requests : requests'[m] = requests[m] /\ m < n

\* A received request is appended to those that arrived.
LEMMA ReceiveArrives ==
  ASSUME QueueInv, NEW request \in Inputs, Receive(request)
  PROVE  /\ requests' \in Seq(Inputs) /\ Len(requests') <= MaxRequests
         /\ Arrived(request, Len(requests) + 1)
  <1> DEFINE n == Len(requests) + 1
  <1>1. requests \in Seq(Inputs) /\ requests' = Append(requests, request) /\ n <= MaxRequests
    BY DEF QueueInv, Receive
  <1>2. /\ requests' \in Seq(Inputs) /\ Len(requests') = n
        /\ DOMAIN requests' = DOMAIN requests \cup {n} /\ n \notin DOMAIN requests
        /\ requests'[n] = request /\ n \in Nat
        /\ \A m \in DOMAIN requests : requests'[m] = requests[m] /\ m < n
    BY <1>1
  <1>3. n # NoJob
    BY <1>2, JobAssumption
  <1>4. ~Pends(n)
    <2>1. running \in DOMAIN requests \cup {NoJob}
      BY DEF QueueInv
    <2> HIDE DEF n
    <2>2. n \notin Range(queue)
      BY <1>2, QueueFacts
    <2>. QED
      BY <1>2, <1>3, <2>1, <2>2 DEF Pends
  <1>. QED
    BY <1>1, <1>2, <1>3, <1>4 DEF Arrived

\* A received request is rejected or joins the end of the chain.
LEMMA ReceiveQueueInv ==
  ASSUME QueueInv, NEW request \in Inputs, Receive(request)
  PROVE  /\ QueueInv'
         /\ request.kind \in DOMAIN Rejections => \A m : Pends(m)' <=> Pends(m)
         /\ request.kind \notin DOMAIN Rejections =>
              \A m : Pends(m)' <=> Pends(m) \/ m = Len(requests) + 1
  <1> DEFINE n == Len(requests) + 1
  <1>1. /\ requests' \in Seq(Inputs) /\ Len(requests') <= MaxRequests
        /\ Arrived(request, n)
    BY ReceiveArrives
  <1>2. /\ n \in Nat /\ n # NoJob /\ ~Pends(n) /\ n \notin DOMAIN requests
        /\ DOMAIN requests' = DOMAIN requests \cup {n} /\ requests'[n] = request
        /\ \A m \in DOMAIN requests : requests'[m] = requests[m] /\ m < n /\ m \in Nat
    BY <1>1, QueueFacts DEF Arrived
  <1>3. running' = running
    BY DEF Receive
  <1>4. \/ request.kind \in DOMAIN Rejections /\ queue' = queue
        \/ request.kind \notin DOMAIN Rejections /\ queue' = Append(queue, n)
    BY DEF Receive
  <1>5. queue \in Seq(DOMAIN requests) /\ running \in DOMAIN requests \cup {NoJob}
    BY DEF QueueInv
  <1> HIDE DEF n
  <1>6. /\ running' \in DOMAIN requests' \cup {NoJob}
        /\ running' # NoJob => IsAction(running)' /\ Suspends(Instruction(running))'
    BY <1>2, <1>3, <1>5 DEF QueueInv, IsAction, Instruction
  <1>7. \A m \in DOMAIN requests : Accepted(m)' <=> Accepted(m)
    BY <1>2 DEF Accepted
  <1>8. CASE request.kind \in DOMAIN Rejections /\ queue' = queue
    <2>1. \A m : Pends(m)' <=> Pends(m)
      BY <1>3, <1>8 DEF Pends
    <2>2. queue' \in Seq(DOMAIN requests')
      BY <1>2, <1>5, <1>8
    <2>3. \A p \in DOMAIN queue' : Accepted(queue[p])' /\ (running' # NoJob => running' < queue'[p])
      <3> SUFFICES ASSUME NEW p \in DOMAIN queue
                   PROVE  Accepted(queue[p])' /\ (running' # NoJob => running' < queue'[p])
        BY <1>8
      <3>1. queue[p] \in DOMAIN requests /\ Accepted(queue[p]) /\ (running # NoJob => running < queue[p])
        BY QueueFacts DEF QueueInv
      <3>. QED
        BY <1>2, <1>3, <1>8, <3>1 DEF Accepted
    <2>4. ASSUME NEW m \in DOMAIN requests', NEW k \in DOMAIN requests',
                 Pends(m)', m < k, Accepted(k)'
          PROVE  Pends(k)'
      <3>1. k # n
        BY <1>2, <1>8, <2>4 DEF Accepted
      <3>2. k \in DOMAIN requests /\ k # n
        BY <1>2, <2>4, <3>1
      <3>3. m \in DOMAIN requests /\ Pends(m)
        BY <1>2, <2>1, <2>4
      <3>. QED
        BY <1>7, <2>1, <2>4, <3>2, <3>3 DEF QueueInv
    <2>5. \A p, q \in DOMAIN queue' : p < q => queue'[p] < queue'[q]
      BY <1>8 DEF QueueInv
    <2>6. QueueInv'
      BY <1>1, <1>6, <2>2, <2>3, <2>4, <2>5 DEF QueueInv
    <2>. QED
      BY <1>8, <2>1, <2>6
  <1>9. CASE request.kind \notin DOMAIN Rejections /\ queue' = Append(queue, n)
    <2>1. /\ queue' \in Seq(DOMAIN requests')
          /\ DOMAIN queue' = DOMAIN queue \cup {Len(queue) + 1}
          /\ queue'[Len(queue) + 1] = n
          /\ \A p \in DOMAIN queue : queue'[p] = queue[p] /\ p < Len(queue) + 1
      <3>1. queue \in Seq(DOMAIN requests') /\ n \in DOMAIN requests'
        BY <1>2, <1>5
      <3>. QED
        BY <1>9, <3>1
    <2>2. \A p \in DOMAIN queue : queue[p] \in DOMAIN requests
      BY QueueFacts
    <2>3. \A m : m \in Range(queue)' <=> m \in Range(queue) \/ m = n
      BY <2>1 DEF Range
    <2>4. \A m : Pends(m)' <=> Pends(m) \/ m = n
      BY <1>3, <2>3 DEF Pends
    <2>5. ASSUME NEW p \in DOMAIN queue'
          PROVE  requests'[queue'[p]].kind \notin DOMAIN Rejections
                 /\ (running' # NoJob => running' < queue'[p])
      <3>1. CASE p \in DOMAIN queue
        <4>1. queue[p] \in DOMAIN requests /\ Accepted(queue[p])
              /\ (running # NoJob => running < queue[p])
          BY <3>1, <2>2 DEF QueueInv
        <4>. QED
          BY <1>2, <1>3, <2>1, <3>1, <4>1 DEF Accepted
      <3>2. CASE p = Len(queue) + 1
        BY <1>2, <1>3, <1>5, <1>9, <2>1, <3>2
      <3>. QED
        BY <2>1, <3>1, <3>2
    <2>6. ASSUME NEW p \in DOMAIN queue', NEW q \in DOMAIN queue', p < q
          PROVE  queue'[p] < queue'[q]
      <3>0. Len(queue) \in Nat /\ DOMAIN queue = 1 .. Len(queue)
        BY QueueFacts
      <3>1. p \in DOMAIN queue
        BY <2>1, <2>6, <3>0
      <3>2. CASE q \in DOMAIN queue
        <4>1. queue[p] < queue[q]
          BY <2>6, <3>1, <3>2 DEF QueueInv
        <4>. QED
          BY <2>1, <3>1, <3>2, <4>1
      <3>3. CASE q = Len(queue) + 1
        BY <1>2, <2>1, <2>2, <3>1, <3>3
      <3>. QED
        BY <2>1, <3>2, <3>3
    <2>7. ASSUME NEW m \in DOMAIN requests', NEW k \in DOMAIN requests',
                 Pends(m)', m < k, Accepted(k)'
          PROVE  Pends(k)'
      <3>1. CASE k = n
        BY <2>4, <3>1
      <3>2. CASE k # n
        <4>1. k \in DOMAIN requests /\ m # n /\ m \in DOMAIN requests /\ Pends(m)
          <5>1. k \in DOMAIN requests
            BY <1>2, <3>2
          <5>2. m # n
            BY <1>2, <2>7, <5>1
          <5>. QED
            BY <1>2, <2>4, <2>7, <5>1, <5>2
        <4>. QED
          BY <1>7, <2>4, <2>7, <4>1 DEF QueueInv
      <3>. QED
        BY <3>1, <3>2
    <2>8. QueueInv'
      BY <1>1, <1>6, <2>1, <2>5, <2>6, <2>7 DEF QueueInv, Accepted
    <2>. QED
      BY <1>9, <2>4, <2>8 DEF n
  <1>. QED
    BY <1>4, <1>8, <1>9

\* The first of the chain starts.
LEMMA StartFacts ==
  ASSUME QueueInv, NEW n, MayStart(n)
  PROVE  /\ n \in DOMAIN requests /\ running = NoJob /\ Accepted(n) /\ n \in Range(queue) /\ Pends(n)
         /\ Tail(queue) \in Seq(DOMAIN requests)
         /\ \A p \in DOMAIN Tail(queue) : /\ Tail(queue)[p] = queue[p + 1] /\ p + 1 \in DOMAIN queue
                                          /\ p \in Nat /\ n < Tail(queue)[p]
         /\ \A m : m \in Range(Tail(queue)) <=> m \in Range(queue) /\ m # n
         /\ \A m : Pends(m) => n <= m \/ m = NoJob
  <1>1. running = NoJob /\ queue # <<>> /\ n = Head(queue) /\ queue \in Seq(DOMAIN requests)
    BY DEF MayStart, QueueInv
  <1>2. 1 \in DOMAIN queue /\ n = queue[1] /\ DOMAIN queue = 1 .. Len(queue) /\ Len(queue) \in Nat
    BY <1>1
  <1>3. n \in DOMAIN requests /\ Accepted(n) /\ n \in Range(queue) /\ n \in Nat
    BY <1>2, QueueFacts DEF QueueInv
  <1>4. /\ Tail(queue) \in Seq(DOMAIN requests)
        /\ DOMAIN Tail(queue) = 1 .. (Len(queue) - 1)
        /\ \A p \in DOMAIN Tail(queue) : Tail(queue)[p] = queue[p + 1]
    BY <1>1
  <1>5. \A p \in DOMAIN Tail(queue) : p + 1 \in DOMAIN queue /\ p \in Nat /\ 1 < p + 1
    BY <1>2, <1>4
  <1>6. \A p \in DOMAIN queue : p # 1 => n < queue[p] /\ queue[p] \in Nat
    <2> SUFFICES ASSUME NEW p \in DOMAIN queue, p # 1 PROVE n < queue[p] /\ queue[p] \in Nat
      OBVIOUS
    <2>1. 1 < p
      BY <1>2
    <2>2. queue[1] < queue[p]
      BY <1>2, <2>1 DEF QueueInv
    <2>. QED
      BY <1>2, <2>2, QueueFacts
  <1>7. \A p \in DOMAIN Tail(queue) : n < Tail(queue)[p]
    BY <1>4, <1>5, <1>6
  <1>8. ASSUME NEW m PROVE m \in Range(Tail(queue)) <=> m \in Range(queue) /\ m # n
    <2>1. ASSUME m \in Range(Tail(queue)) PROVE m \in Range(queue) /\ m # n
      <3>1. PICK p \in DOMAIN Tail(queue) : m = Tail(queue)[p]
        BY <2>1 DEF Range
      <3>2. m = queue[p + 1] /\ p + 1 \in DOMAIN queue /\ n < m
        BY <1>4, <1>5, <1>7, <3>1
      <3>. QED
        BY <1>3, <3>2, QueueFacts
    <2>2. ASSUME m \in Range(queue), m # n PROVE m \in Range(Tail(queue))
      <3>1. PICK p \in DOMAIN queue : m = queue[p] /\ p # 1
        BY <1>2, <2>2 DEF Range
      <3>2. p - 1 \in DOMAIN Tail(queue) /\ (p - 1) + 1 = p
        BY <1>2, <1>4, <3>1
      <3>3. Tail(queue)[p - 1] = m
        BY <1>4, <3>1, <3>2
      <3>. QED
        BY <3>2, <3>3 DEF Range
    <2>. QED
      BY <2>1, <2>2
  <1>9. ASSUME NEW m, Pends(m) PROVE n <= m \/ m = NoJob
    <2>1. m \in Range(queue) \/ m = NoJob
      BY <1>1, <1>9 DEF Pends
    <2>2. CASE m \in Range(queue)
      <3>1. PICK p \in DOMAIN queue : m = queue[p]
        BY <2>2 DEF Range
      <3>. QED
        BY <1>2, <1>3, <1>6, <3>1
    <2>. QED
      BY <2>1, <2>2
  <1>. QED
    BY <1>1, <1>3, <1>4, <1>5, <1>7, <1>8, <1>9 DEF Pends

\* Job n is over: it no longer pends, and nothing else changes.
Finished(n) ==
  /\ n \in DOMAIN requests /\ requests' = requests
  /\ \A m \in DOMAIN requests : Pends(m)' <=> Pends(m) /\ m # n
  /\ Pends(n) /\ \A m \in DOMAIN requests : Pends(m) => n <= m

\* A job that runs to its end at once leaves the chain in order.
LEMMA StartedQueueInv ==
  ASSUME QueueInv, NEW n, MayStart(n), queue' = Tail(queue), UNCHANGED <<requests, running>>
  PROVE  QueueInv' /\ Finished(n)
  <1>1. /\ n \in DOMAIN requests /\ running = NoJob /\ Pends(n)
        /\ Tail(queue) \in Seq(DOMAIN requests)
        /\ \A p \in DOMAIN Tail(queue) : /\ Tail(queue)[p] = queue[p + 1] /\ p + 1 \in DOMAIN queue
                                         /\ p \in Nat
        /\ \A m : m \in Range(Tail(queue)) <=> m \in Range(queue) /\ m # n
        /\ \A m : Pends(m) => n <= m \/ m = NoJob
    BY StartFacts
  <1>2. \A m \in DOMAIN requests : m \in Nat /\ m # NoJob
    BY QueueFacts
  <1>3. \A m \in DOMAIN requests : Pends(m)' <=> Pends(m) /\ m # n
    BY <1>1, <1>2 DEF Pends
  <1>4. Finished(n)
    BY <1>1, <1>2, <1>3 DEF Finished
  <1>5. \A p, q \in DOMAIN queue' : p < q => queue'[p] < queue'[q]
    BY <1>1 DEF QueueInv
  <1>6. \A p \in DOMAIN queue' : Accepted(queue[p])' /\ (running' # NoJob => running' < queue'[p])
    BY <1>1 DEF QueueInv, Accepted
  <1>7. ASSUME NEW m \in DOMAIN requests', NEW k \in DOMAIN requests',
               Pends(m)', m < k, Accepted(k)'
        PROVE  Pends(k)'
    <2>1. Pends(m) /\ Accepted(k)
      BY <1>3, <1>7 DEF Accepted
    <2>2. Pends(k)
      BY <1>7, <2>1 DEF QueueInv
    <2>3. n <= m
      BY <1>1, <1>2, <1>7, <2>1
    <2>4. k # n
      BY <1>1, <1>2, <1>7, <2>3
    <2>. QED
      BY <1>3, <1>7, <2>2, <2>4
  <1>8. QueueInv'
    BY <1>1, <1>5, <1>6, <1>7 DEF QueueInv, IsAction, Instruction
  <1>. QED
    BY <1>4, <1>8

\* A job that is suspended still counts as under way.
LEMMA BeginQueueInv ==
  ASSUME QueueInv, NEW n, BeginBid(n)
  PROVE  QueueInv' /\ \A m \in DOMAIN requests : Pends(m)' <=> Pends(m)
  <1>0. /\ MayStart(n) /\ IsAction(n) /\ Suspends(Instruction(n))
        /\ queue' = Tail(queue) /\ running' = n /\ requests' = requests
    BY DEF BeginBid, Dequeued
  <1>1. /\ n \in DOMAIN requests /\ running = NoJob /\ Pends(n)
        /\ Tail(queue) \in Seq(DOMAIN requests) /\ n \in Range(queue)
        /\ \A p \in DOMAIN Tail(queue) : /\ Tail(queue)[p] = queue[p + 1] /\ p + 1 \in DOMAIN queue
                                         /\ p \in Nat /\ n < Tail(queue)[p]
        /\ \A m : m \in Range(Tail(queue)) <=> m \in Range(queue) /\ m # n
    BY <1>0, StartFacts
  <1>2. \A m \in DOMAIN requests : m \in Nat /\ m # NoJob
    BY QueueFacts
  <1>3. \A m \in DOMAIN requests : Pends(m)' <=> Pends(m)
    BY <1>0, <1>1, <1>2 DEF Pends
  <1>5. \A p, q \in DOMAIN queue' : p < q => queue'[p] < queue'[q]
    BY <1>0, <1>1 DEF QueueInv
  <1>6. \A p \in DOMAIN queue' : Accepted(queue[p])' /\ (running' # NoJob => running' < queue'[p])
    BY <1>0, <1>1 DEF QueueInv, Accepted
  <1>7. \A m, k \in DOMAIN requests' : Pends(m)' /\ m < k /\ Accepted(k)' => Pends(k)'
    BY <1>0, <1>3 DEF QueueInv, Accepted
  <1>8. running' \in DOMAIN requests' /\ IsAction(running)' /\ Suspends(Instruction(running))'
    BY <1>0, <1>1 DEF IsAction, Instruction
  <1>9. requests' \in Seq(Inputs) /\ Len(requests') <= MaxRequests /\ queue' \in Seq(DOMAIN requests')
    BY <1>0, <1>1 DEF QueueInv
  <1>10. QueueInv'
    BY <1>5, <1>6, <1>7, <1>8, <1>9 DEF QueueInv
  <1>. QED
    BY <1>3, <1>10

\* A job that ends after its await leaves the chain in order.
LEMMA FinishQueueInv ==
  ASSUME QueueInv, running # NoJob, running' = NoJob, UNCHANGED <<requests, queue>>
  PROVE  QueueInv' /\ Finished(running)
  <1> DEFINE n == running
  <1>1. /\ n \in DOMAIN requests /\ queue \in Seq(DOMAIN requests)
        /\ \A p \in DOMAIN queue : n < queue[p]
    BY DEF QueueInv
  <1>2. \A m \in DOMAIN requests : m \in Nat /\ m # NoJob
    BY QueueFacts
  <1>3. \A m \in Range(queue) : n < m
    BY <1>1 DEF Range
  <1>4. \A m \in DOMAIN requests : Pends(m)' <=> Pends(m) /\ m # n
    BY <1>1, <1>2, <1>3 DEF Pends
  <1>5. \A m \in DOMAIN requests : Pends(m) => n <= m
    BY <1>1, <1>2, <1>3 DEF Pends
  <1>6. Finished(n)
    BY <1>1, <1>4, <1>5 DEF Finished, Pends
  <1>7. ASSUME NEW m \in DOMAIN requests, NEW k \in DOMAIN requests,
               Pends(m)', m < k, Accepted(k)'
        PROVE  Pends(k)'
    <2>1. Pends(m) /\ Accepted(k) /\ n <= m
      BY <1>4, <1>5, <1>7 DEF Accepted
    <2>2. Pends(k)
      BY <1>7, <2>1 DEF QueueInv
    <2>3. k # n
      BY <1>1, <1>2, <1>7, <2>1
    <2>. QED
      BY <1>4, <1>7, <2>2, <2>3
  <1>8. \A p \in DOMAIN queue' : Accepted(queue[p])'
    BY DEF QueueInv, Accepted
  <1>9. QueueInv'
    BY <1>7, <1>8 DEF QueueInv
  <1>. QED
    BY <1>6, <1>9

-----------------------------------------------------------------------------
(* Replies                                                                 *)

\* The elements of a sequence belong to its element set.
LEMMA SeqElements ==
  ASSUME NEW S, NEW s \in Seq(S)
  PROVE  DOMAIN s = 1 .. Len(s) /\ Len(s) \in Nat /\ \A p \in DOMAIN s : s[p] \in S
  OBVIOUS

\* A sequence over a set is one over any larger set.
LEMMA SeqOfMore ==
  ASSUME NEW S, NEW T, S \subseteq T, NEW s \in Seq(S)
  PROVE  s \in Seq(T)
  OBVIOUS

\* Replies to some requests are replies to more of them.
LEMMA MoreReplies ==
  ASSUME NEW D, NEW E, D \subseteq E
  PROVE  Replies(D) \subseteq Replies(E) /\ \A r \in Replies(D) : r.request \in D
  BY DEF Replies

\* A step without a reply leaves every request answered or under way.
LEMMA ReplyInvKept ==
  ASSUME ReplyInv, replies' = replies, DOMAIN requests \subseteq DOMAIN requests',
         \A m \in DOMAIN requests : Pends(m)' <=> Pends(m),
         \A m \in DOMAIN requests' : m \in DOMAIN requests \/ Pends(m)'
  PROVE  ReplyInv'
  <1>1. replies \in Seq(Replies(DOMAIN requests))
    BY DEF ReplyInv
  <1>2. \A p \in DOMAIN replies : replies[p].request \in DOMAIN requests
    BY <1>1, SeqElements, MoreReplies
  <1>3. replies' \in Seq(Replies(DOMAIN requests'))
    BY <1>1, SeqOfMore, MoreReplies
  <1>4. \A p \in DOMAIN replies' : ~Pends(replies[p].request)'
    BY <1>2 DEF ReplyInv, Pends
  <1>. QED
    BY <1>3, <1>4 DEF ReplyInv, Answered

\* A reply goes to a request that had none.
LEMMA ReplyInvAdded ==
  ASSUME ReplyInv, NEW n, NEW code \in Nat, Reply(n, code),
         DOMAIN requests' = DOMAIN requests \cup {n},
         Pends(n) \/ n \notin DOMAIN requests, ~Pends(n)',
         \A m \in DOMAIN requests : m # n => (Pends(m)' <=> Pends(m))
  PROVE  ReplyInv'
  <1> DEFINE k == Len(replies) + 1
             e == [request |-> n, code |-> code]
  <1>1. /\ replies \in Seq(Replies(DOMAIN requests))
        /\ replies' = Append(replies, e)
    BY DEF ReplyInv, Reply
  <1>2. \A p \in DOMAIN replies : replies[p].request \in DOMAIN requests /\ ~Pends(replies[p].request)
    <2>1. \A p \in DOMAIN replies : replies[p] \in Replies(DOMAIN requests)
      BY <1>1, SeqElements
    <2>. QED
      BY <2>1, MoreReplies DEF ReplyInv
  <1>3. \A p \in DOMAIN replies : replies[p].request # n
    BY <1>2
  <1>4. replies \in Seq(Replies(DOMAIN requests'))
    BY <1>1, SeqOfMore, MoreReplies
  <1>5. /\ replies' \in Seq(Replies(DOMAIN requests'))
        /\ DOMAIN replies' = DOMAIN replies \cup {k} /\ replies'[k] = e /\ k \notin DOMAIN replies
        /\ \A p \in DOMAIN replies : replies'[p] = replies[p]
    <2>1. e \in Replies(DOMAIN requests')
      BY DEF Replies
    <2> HIDE DEF e
    <2>. QED
      BY <1>1, <1>4, <2>1
  <1> HIDE DEF k
  <1>6. \A p \in DOMAIN replies' : ~Pends(replies[p].request)'
    <2> SUFFICES ASSUME NEW p \in DOMAIN replies' PROVE ~Pends(replies[p].request)'
      OBVIOUS
    <2>1. CASE p = k
      <3>1. replies'[p].request = n
        BY <1>5, <2>1
      <3>. QED
        BY <3>1 DEF Pends
    <2>2. CASE p \in DOMAIN replies
      <3> DEFINE m == replies[p].request
      <3>1. m \in DOMAIN requests /\ ~Pends(m) /\ m # n /\ replies'[p].request = m
        BY <1>2, <1>3, <1>5, <2>2
      <3>2. PICK j \in DOMAIN requests : j = m /\ ~Pends(j) /\ j # n
        BY <3>1
      <3>3. ~Pends(j)'
        BY <3>2
      <3>. QED
        BY <3>1, <3>2, <3>3 DEF Pends
    <2>. QED
      BY <1>5, <2>1, <2>2
  <1>7. \A p, q \in DOMAIN replies' : replies'[p].request = replies'[q].request => p = q
    <2>1. \A p, q \in DOMAIN replies : replies[p].request = replies[q].request => p = q
      BY DEF ReplyInv
    <2>2. replies'[k].request = n
      BY <1>5
    <2>. QED
      BY <1>3, <1>5, <2>1, <2>2
  <1>8. \A m \in DOMAIN requests' : Pends(m)' \/ Answered(m)'
    <2> SUFFICES ASSUME NEW m \in DOMAIN requests', ~Pends(m)'
                 PROVE  \E p \in DOMAIN replies' : replies'[p].request = m
      BY DEF Answered
    <2>1. CASE m = n
      BY <1>5, <2>1
    <2>2. CASE m # n
      <3>1. m \in DOMAIN requests /\ ~Pends(m)
        BY <2>2
      <3>2. PICK p \in DOMAIN replies : replies[p].request = m
        BY <3>1 DEF ReplyInv, Answered
      <3>. QED
        BY <1>5, <3>2
    <2>. QED
      BY <2>1, <2>2
  <1>. QED
    BY <1>5, <1>6, <1>7, <1>8 DEF ReplyInv

-----------------------------------------------------------------------------
(* Results                                                                 *)

\* No later request is an action that a result stands for.
LEMMA ResultInvKept ==
  ASSUME ResultInv, answers' = answers,
         DOMAIN requests \subseteq DOMAIN requests', DOMAIN requests' \subseteq Nat,
         \A m \in DOMAIN requests : /\ requests'[m] = requests[m]
                                    /\ Pends(m)' <=> Pends(m),
         \A n \in DOMAIN requests' \ DOMAIN requests :
           /\ requests'[n].kind = "action" => Pends(n)'
           /\ \A m \in DOMAIN requests : m < n
  PROVE  ResultInv'
  <1>1. Done' = Done
    BY DEF Done, IsAction
  <1>2. ASSUME NEW m \in DOMAIN requests
        PROVE  ActionsUpTo(m)' = ActionsUpTo(m)
    <2>1. \A k \in DOMAIN requests' : k <= m => k \in DOMAIN requests
      OBVIOUS
    <2>. QED
      BY <2>1 DEF ActionsUpTo, IsAction
  <1>3. \A m \in DOMAIN requests : /\ IsAction(m)' <=> IsAction(m)
                                   /\ Instruction(m)' = Instruction(m)
    BY DEF IsAction, Instruction
  <1>4. EffectInArrivalOrder'
    <2> SUFFICES ASSUME NEW p \in DOMAIN answers
                 PROVE  \E n \in DOMAIN requests' :
                          /\ IsAction(n)' /\ Cardinality(ActionsUpTo(n)') = p
                          /\ answers[p].id = Instruction(n)'
      BY DEF EffectInArrivalOrder
    <2>1. PICK n \in DOMAIN requests : /\ IsAction(n) /\ Cardinality(ActionsUpTo(n)) = p
                                       /\ answers[p].id = Instruction(n)
      BY DEF ResultInv, EffectInArrivalOrder
    <2>2. n \in DOMAIN requests' /\ IsAction(n)' /\ ActionsUpTo(n)' = ActionsUpTo(n)
          /\ Instruction(n)' = Instruction(n)
      BY <1>2, <1>3, <2>1
    <2>. QED
      BY <2>1, <2>2
  <1>. QED
    BY <1>1, <1>4 DEF ResultInv

\* A finished action adds its result: the actions up to it are those done
\* before it, and itself.
LEMMA ResultInvAdded ==
  ASSUME QueueInv, ResultInv, NEW n, Finished(n), IsAction(n),
         NEW a, NEW k, Extends(answers', answers, a, k), a.id = Instruction(n)
  PROVE  ResultInv'
  <1>1. /\ n \in DOMAIN requests /\ requests' = requests
        /\ \A m \in DOMAIN requests : Pends(m)' <=> Pends(m) /\ m # n
        /\ Pends(n) /\ \A m \in DOMAIN requests : Pends(m) => n <= m
    BY DEF Finished
  <1>2. /\ DOMAIN requests = 1 .. Len(requests) /\ Len(requests) \in Nat
        /\ \A m \in DOMAIN requests : m \in Nat /\ (IsAction(m) => Accepted(m))
    BY QueueFacts
  <1>3. \A m : IsAction(m)' <=> IsAction(m)
    BY <1>1 DEF IsAction
  <1>4. Done' = Done \cup {n} /\ n \notin Done
    BY <1>1, <1>3 DEF Done
  <1>5. IsFiniteSet(Done)
    <2>1. IsFiniteSet(1 .. Len(requests))
      BY <1>2, FS_Interval
    <2>2. Done \subseteq 1 .. Len(requests)
      BY <1>2 DEF Done
    <2>. QED
      BY <2>1, <2>2, FS_Subset
  <1>6. Cardinality(Done \cup {n}) = Cardinality(Done) + 1
    BY <1>4, <1>5, FS_AddElement
  <1>7. /\ k = Len(answers) + 1 /\ Len(answers') = k /\ answers'[k] = a
        /\ DOMAIN answers' = DOMAIN answers \cup {k}
        /\ \A p \in DOMAIN answers : answers'[p] = answers[p]
    BY DEF Extends
  <1>8. Len(answers) = Cardinality(Done)
    BY DEF ResultInv
  <1>9. Len(answers') = Cardinality(Done')
    BY <1>4, <1>6, <1>7, <1>8
  <1>10. ActionsUpTo(n) = Done \cup {n}
    <2>1. ASSUME NEW m \in ActionsUpTo(n), m # n PROVE m \in Done
      <3>1. m \in DOMAIN requests /\ m <= n /\ IsAction(m)
        BY <2>1 DEF ActionsUpTo
      <3>2. ~Pends(m)
        BY <1>1, <1>2, <2>1, <3>1
      <3>. QED
        BY <3>1, <3>2 DEF Done
    <2>2. ASSUME NEW m \in Done PROVE m \in ActionsUpTo(n)
      <3>1. m \in DOMAIN requests /\ IsAction(m) /\ ~Pends(m) /\ Accepted(m)
        BY <1>2, <2>2 DEF Done
      <3>2. ~(n < m)
        BY <1>1, <3>1 DEF QueueInv
      <3>. QED
        BY <1>1, <1>2, <3>1, <3>2 DEF ActionsUpTo
    <2>3. n \in ActionsUpTo(n)
      BY <1>1, <1>2 DEF ActionsUpTo
    <2>. QED
      BY <2>1, <2>2, <2>3
  <1>11. \A m : ActionsUpTo(m)' = ActionsUpTo(m)
    BY <1>1, <1>3 DEF ActionsUpTo
  <1>12. \A m : Instruction(m)' = Instruction(m)
    BY <1>1 DEF Instruction
  <1>13. ASSUME NEW p \in DOMAIN answers'
         PROVE  \E m \in DOMAIN requests' :
                  /\ IsAction(m)' /\ Cardinality(ActionsUpTo(m)') = p
                  /\ answers'[p].id = Instruction(m)'
    <2>1. CASE p = k
      <3>1. Cardinality(ActionsUpTo(n)') = k
        BY <1>6, <1>7, <1>8, <1>10, <1>11
      <3>2. answers'[k].id = Instruction(n)'
        BY <1>7, <1>12
      <3>. QED
        BY <1>1, <1>3, <2>1, <3>1, <3>2
    <2>2. CASE p \in DOMAIN answers
      <3>1. PICK m \in DOMAIN requests : /\ IsAction(m) /\ Cardinality(ActionsUpTo(m)) = p
                                         /\ answers[p].id = Instruction(m)
        BY <2>2 DEF ResultInv, EffectInArrivalOrder
      <3>2. /\ m \in DOMAIN requests' /\ IsAction(m)' /\ ActionsUpTo(m)' = ActionsUpTo(m)
            /\ Instruction(m)' = Instruction(m) /\ answers'[p] = answers[p]
        BY <1>1, <1>3, <1>7, <1>11, <1>12, <2>2, <3>1
      <3>. QED
        BY <3>1, <3>2
    <2>. QED
      BY <1>7, <2>1, <2>2
  <1>14. EffectInArrivalOrder'
    BY <1>13 DEF EffectInArrivalOrder
  <1>. QED
    BY <1>9, <1>14 DEF ResultInv

-----------------------------------------------------------------------------
(* The invariant, and the implementation of the atomic handlers            *)

\* A handler call adds one answer, for its own instruction.
LEMMA HandleAppends ==
  ASSUME answers \in Seq(Answers), NEW id, NEW plaintext, Handle(id, plaintext)
  PROVE  \E a, k : Extends(answers', answers, a, k) /\ a.id = id
  <1> DEFINE a == [id |-> id, at |-> clock, plaintext |-> plaintext,
                   status |-> Outcome(id, plaintext).status, data |-> Outcome(id, plaintext).data]
             S == Answers \cup {a}
             k == Len(answers) + 1
  <1>1. answers' = Append(answers, a) /\ a.id = id
    BY DEF Handle
  <1> HIDE DEF a
  <1>2. a \in S /\ answers \in Seq(S)
    BY SeqOfMore
  <1>3. Extends(answers', answers, a, k)
    BY <1>1, <1>2 DEF Extends
  <1>. QED
    BY <1>1, <1>3

\* The invariant holds at first.
LEMMA ServerInitInv == ServerInit => ServerInv /\ Init
  <1> SUFFICES ASSUME ServerInit PROVE ServerInv /\ Init
    OBVIOUS
  <1>1. Init /\ requests = <<>> /\ queue = <<>> /\ running = NoJob /\ replies = <<>> /\ answers = <<>>
    BY DEF ServerInit, Init
  <1>2. DOMAIN requests = {} /\ DOMAIN queue = {} /\ DOMAIN replies = {} /\ DOMAIN answers = {}
        /\ Len(requests) = 0 /\ Len(answers) = 0
    BY <1>1
  <1>3. requests \in Seq(Inputs) /\ queue \in Seq(DOMAIN requests)
        /\ replies \in Seq(Replies(DOMAIN requests))
    BY <1>1
  <1>4. QueueInv
    BY <1>1, <1>2, <1>3, JobAssumption DEF QueueInv
  <1>5. ReplyInv
    BY <1>2, <1>3 DEF ReplyInv
  <1>6. Done = {}
    BY <1>2 DEF Done
  <1>7. ResultInv
    BY <1>2, <1>6, FS_EmptySet DEF ResultInv, EffectInArrivalOrder
  <1>. QED
    BY <1>1, <1>4, <1>5, <1>7 DEF ServerInv

\* The arrival of a request keeps the invariant; the extension does not see it.
LEMMA ReceiveServerInv ==
  ASSUME ServerInv, NEW request \in Inputs, Receive(request)
  PROVE  ServerInv' /\ UNCHANGED extensionVars
  <1>1. QueueInv /\ ReplyInv /\ ResultInv
    BY DEF ServerInv
  <1>2. UNCHANGED extensionVars
    BY DEF Receive, extensionVars
  <1>3. answers' = answers
    BY DEF Receive
  <1>4. PICK n : n = Len(requests) + 1
    OBVIOUS
  <1>5. /\ n \in Nat /\ ~Pends(n) /\ n \notin DOMAIN requests
        /\ DOMAIN requests' = DOMAIN requests \cup {n} /\ requests'[n] = request
        /\ \A m \in DOMAIN requests : requests'[m] = requests[m] /\ m < n /\ m \in Nat
    BY <1>1, <1>4, ReceiveArrives, QueueFacts DEF Arrived
  <1>6. /\ QueueInv'
        /\ request.kind \in DOMAIN Rejections => \A m : Pends(m)' <=> Pends(m)
        /\ request.kind \notin DOMAIN Rejections => \A m : Pends(m)' <=> Pends(m) \/ m = n
    BY <1>1, <1>4, ReceiveQueueInv
  <1>7. \A m \in DOMAIN requests : Pends(m)' <=> Pends(m)
    BY <1>5, <1>6
  <1>8. requests'[n].kind = "action" => Pends(n)'
    BY <1>5, <1>6, InputKinds
  <1>9. ResultInv'
    <2>1. DOMAIN requests' \subseteq Nat
      BY <1>5
    <2>2. \A k \in DOMAIN requests' \ DOMAIN requests : k = n
      BY <1>5
    <2>. QED
      BY <1>1, <1>3, <1>5, <1>7, <1>8, <2>1, <2>2, ResultInvKept
  <1>10. CASE request.kind \in DOMAIN Rejections
    <2>1. Reply(n, Rejections[request.kind]) /\ Rejections[request.kind] \in Nat
      BY <1>4, <1>10, InputKinds DEF Receive
    <2>2. ~Pends(n)'
      BY <1>5, <1>6, <1>10
    <2>3. ReplyInv'
      BY <1>1, <1>5, <1>7, <2>1, <2>2, ReplyInvAdded
    <2>. QED
      BY <1>2, <1>6, <1>9, <2>3 DEF ServerInv
  <1>11. CASE request.kind \notin DOMAIN Rejections
    <2>1. replies' = replies
      BY <1>11 DEF Receive
    <2>2. Pends(n)'
      BY <1>6, <1>11
    <2>3. ReplyInv'
      BY <1>1, <1>5, <1>7, <2>1, <2>2, ReplyInvKept
    <2>. QED
      BY <1>2, <1>6, <1>9, <2>3 DEF ServerInv
  <1>. QED
    BY <1>10, <1>11

\* A job that is over is answered; an action also gave a result.
LEMMA FinishedServerInv ==
  ASSUME ServerInv, QueueInv', NEW n, Finished(n), Reply(n, 200),
         \/ ~IsAction(n) /\ answers' = answers
         \/ IsAction(n) /\ \E a, k : Extends(answers', answers, a, k) /\ a.id = Instruction(n)
  PROVE  ServerInv'
  <1>1. QueueInv /\ ReplyInv /\ ResultInv
    BY DEF ServerInv
  <1>2. /\ n \in DOMAIN requests /\ requests' = requests /\ Pends(n)
        /\ \A m \in DOMAIN requests : Pends(m)' <=> Pends(m) /\ m # n
    BY DEF Finished
  <1>3. ReplyInv'
    <2>1. DOMAIN requests' = DOMAIN requests \cup {n} /\ ~Pends(n)' /\ 200 \in Nat
      BY <1>2
    <2>2. \A m \in DOMAIN requests : m # n => (Pends(m)' <=> Pends(m))
      BY <1>2
    <2>. QED
      BY <1>1, <1>2, <2>1, <2>2, ReplyInvAdded
  <1>4. CASE ~IsAction(n) /\ answers' = answers
    <2>1. Done' = Done
      BY <1>2, <1>4 DEF Done, IsAction
    <2>2. \A m : ActionsUpTo(m)' = ActionsUpTo(m)
      BY <1>2 DEF ActionsUpTo, IsAction
    <2>3. ResultInv'
      BY <1>1, <1>2, <1>4, <2>1, <2>2 DEF ResultInv, EffectInArrivalOrder, IsAction, Instruction
    <2>. QED
      BY <1>3, <2>3 DEF ServerInv
  <1>5. CASE IsAction(n) /\ \E a, k : Extends(answers', answers, a, k) /\ a.id = Instruction(n)
    <2>1. ResultInv'
      BY <1>1, <1>5, ResultInvAdded
    <2>. QED
      BY <1>3, <2>1 DEF ServerInv
  <1>. QED
    BY <1>4, <1>5

\* A job that runs at once keeps the invariant and is a step of the extension.
LEMMA RunServerInv ==
  ASSUME ServerInv, answers \in Seq(Answers), NEW n \in DOMAIN requests,
         ReportState(n) \/ RunAtOnce(n)
  PROVE  ServerInv' /\ [Next]_extensionVars
  <1>1. QueueInv
    BY DEF ServerInv
  <1>2. MayStart(n) /\ queue' = Tail(queue) /\ UNCHANGED <<requests, running>> /\ Reply(n, 200)
    BY DEF ReportState, RunAtOnce, Dequeued
  <1>3. QueueInv' /\ Finished(n)
    BY <1>1, <1>2, StartedQueueInv
  <1>4. CASE ReportState(n)
    <2>1. ~IsAction(n) /\ answers' = answers /\ UNCHANGED extensionVars
      BY <1>4 DEF ReportState, extensionVars
    <2>. QED
      BY <1>2, <1>3, <2>1, FinishedServerInv
  <1>5. CASE RunAtOnce(n)
    <2>1. IsAction(n) /\ ~Suspends(Instruction(n)) /\ Handle(Instruction(n), NoData)
      BY <1>5 DEF RunAtOnce
    <2>2. PICK id : id = Instruction(n)
      OBVIOUS
    <2>3. \E a, k : Extends(answers', answers, a, k) /\ a.id = id
      BY <2>1, <2>2, HandleAppends
    <2>4. ServerInv'
      BY <1>2, <1>3, <2>1, <2>2, <2>3, FinishedServerInv
    <2>5. id \in DOMAIN Instructions /\ NoData \in Plaintexts(id) /\ Handle(id, NoData)
      BY <1>1, <2>1, <2>2, QueueFacts DEF Plaintexts
    <2>. QED
      BY <2>4, <2>5 DEF Next
  <1>. QED
    BY <1>4, <1>5

\* A bid that awaits its decryption has no effect yet.
LEMMA BeginServerInv ==
  ASSUME ServerInv, NEW n \in DOMAIN requests, BeginBid(n)
  PROVE  ServerInv' /\ UNCHANGED extensionVars
  <1>1. QueueInv /\ ReplyInv /\ ResultInv
    BY DEF ServerInv
  <1>2. /\ UNCHANGED extensionVars /\ answers' = answers /\ replies' = replies
        /\ requests' = requests
    BY DEF BeginBid, extensionVars
  <1>3. QueueInv' /\ \A m \in DOMAIN requests : Pends(m)' <=> Pends(m)
    BY <1>1, BeginQueueInv
  <1>4. ReplyInv'
    BY <1>1, <1>2, <1>3, ReplyInvKept
  <1>5. ResultInv'
    <2>1. DOMAIN requests \subseteq Nat
      BY <1>1, QueueFacts
    <2>. QED
      BY <1>1, <1>2, <1>3, <2>1, ResultInvKept
  <1>. QED
    BY <1>2, <1>3, <1>4, <1>5 DEF ServerInv

\* A bid takes effect when its await returns, as a step of the extension.
LEMMA FinishServerInv ==
  ASSUME ServerInv, answers \in Seq(Answers), NEW plaintext, FinishBid(plaintext)
  PROVE  ServerInv' /\ Next
  <1>1. QueueInv
    BY DEF ServerInv
  <1>2. /\ running # NoJob /\ running' = NoJob /\ UNCHANGED <<requests, queue>>
        /\ plaintext \in Plaintexts(Instruction(running)) /\ Reply(running, 200)
        /\ Handle(Instruction(running), plaintext)
    BY DEF FinishBid
  <1>3. PICK n : n = running
    OBVIOUS
  <1>4. PICK id : id = Instruction(n)
    OBVIOUS
  <1>5. n \in DOMAIN requests /\ IsAction(n)
    BY <1>1, <1>2, <1>3 DEF QueueInv
  <1>6. /\ QueueInv' /\ Finished(n)
    BY <1>1, <1>2, <1>3, FinishQueueInv
  <1>7. \E a, k : Extends(answers', answers, a, k) /\ a.id = id
    BY <1>2, <1>3, <1>4, HandleAppends
  <1>8. Reply(n, 200)
    BY <1>2, <1>3
  <1>9. ServerInv'
    BY <1>4, <1>5, <1>6, <1>7, <1>8, FinishedServerInv
  <1>10. id \in DOMAIN Instructions /\ plaintext \in Plaintexts(id) /\ Handle(id, plaintext)
    BY <1>1, <1>2, <1>3, <1>4, <1>5, QueueFacts
  <1>. QED
    BY <1>9, <1>10 DEF Next

\* Every step keeps the invariant and is a step of the extension.
LEMMA ServerStep ==
  ASSUME ServerInv, ExtensionInv, [ServerNext]_serverVars
  PROVE  ServerInv' /\ [Next]_extensionVars
  <1>0. answers \in Seq(Answers)
    BY DEF ExtensionInv, TypeOK
  <1>1. ASSUME NEW request \in Inputs, Receive(request) PROVE ServerInv' /\ [Next]_extensionVars
    BY <1>1, ReceiveServerInv
  <1>2. ASSUME NEW n \in DOMAIN requests, ReportState(n) \/ RunAtOnce(n) \/ BeginBid(n)
        PROVE  ServerInv' /\ [Next]_extensionVars
    BY <1>0, <1>2, RunServerInv, BeginServerInv
  <1>3. CASE FinishSomehow
    BY <1>0, <1>3, FinishServerInv DEF FinishSomehow
  <1>4. ASSUME answers' = answers, UNCHANGED <<requests, queue, running, replies>>
        PROVE  ServerInv'
    <2>1. QueueInv'
      BY <1>4 DEF ServerInv, QueueInv, Pends, Accepted, IsAction, Instruction
    <2>2. ReplyInv'
      BY <1>4 DEF ServerInv, ReplyInv, Pends, Answered
    <2>3. Done' = Done /\ \A n : ActionsUpTo(n)' = ActionsUpTo(n)
      BY <1>4 DEF Done, Pends, IsAction, ActionsUpTo
    <2>4. ResultInv'
      BY <1>4, <2>3 DEF ServerInv, ResultInv, EffectInArrivalOrder, IsAction, Instruction
    <2>. QED
      BY <2>1, <2>2, <2>4 DEF ServerInv
  <1>5. CASE PassTime
    <2>1. Advance /\ answers' = answers /\ UNCHANGED <<requests, queue, running, replies>>
      BY <1>5 DEF PassTime, Advance
    <2>. QED
      BY <1>4, <2>1 DEF Next
  <1>6. CASE UNCHANGED serverVars
    <2>1. UNCHANGED extensionVars /\ answers' = answers
          /\ UNCHANGED <<requests, queue, running, replies>>
      BY <1>6 DEF serverVars, extensionVars
    <2>. QED
      BY <1>4, <2>1
  <1>. QED
    BY <1>1, <1>2, <1>3, <1>5, <1>6 DEF ServerNext

\* The server's inductive invariant, with that of the handlers it runs.
THEOREM ServerInvariance == ServerSpec => [](ServerInv /\ ExtensionInv)
  <1>1. ServerInit => ServerInv /\ ExtensionInv
    BY ServerInitInv, InitInv
  <1>2. ServerInv /\ ExtensionInv /\ [ServerNext]_serverVars => (ServerInv /\ ExtensionInv)'
    BY ServerStep, NextInv
  <1>. QED
    BY <1>1, <1>2, PTL DEF ServerSpec

\* The promise chain makes each handler one atomic step, although a bid
\* handler awaits the node in the middle while requests keep arriving: the
\* server implements Extension, so all that is proved of its handlers (the
\* theorems of ExtensionProofs) holds of the server.
THEOREM ServerImplementsExtension == ServerSpec => ImplementsExtension
  <1>1. ServerInit => Init
    BY ServerInitInv
  <1>2. ServerInv /\ ExtensionInv /\ [ServerNext]_serverVars => [Next]_extensionVars
    BY ServerStep
  <1>. QED
    BY <1>1, <1>2, ServerInvariance, PTL DEF ServerSpec, Spec, ImplementsExtension

\* Actions take effect in the order of their arrival: a clear sees every bid
\* that arrived before it, even one still waiting for its plaintext, and none
\* that arrived after.
THEOREM ArrivalOrderKept == ServerSpec => []EffectInArrivalOrder
  <1>1. ServerInv => EffectInArrivalOrder
    BY DEF ServerInv, ResultInv
  <1>. QED
    BY <1>1, ServerInvariance, PTL

\* Every request is answered at most once, and has been unless it is queued or
\* running; the action results are those of the answered actions.
THEOREM EachRequestAnsweredOnce == ServerSpec => []ServerTypeOK
  <1>1. ServerInv => ServerTypeOK
    <2> SUFFICES ASSUME ServerInv PROVE ServerTypeOK
      OBVIOUS
    <2>1. QueueInv /\ ReplyInv /\ Len(answers) = Cardinality(Done)
      BY DEF ServerInv, ResultInv
    <2>2. ASSUME NEW n \in DOMAIN requests
          PROVE  Cardinality({p \in DOMAIN replies : replies[p].request = n})
                   = IF n \in Range(queue) \cup {running} THEN 0 ELSE 1
      <3> DEFINE R == {p \in DOMAIN replies : replies[p].request = n}
      <3>1. CASE Pends(n)
        <4>1. R = {}
          BY <2>1, <3>1 DEF ReplyInv
        <4>. QED
          BY <3>1, <4>1, FS_EmptySet DEF Pends
      <3>2. CASE ~Pends(n)
        <4>1. PICK p \in DOMAIN replies : replies[p].request = n
          BY <2>1, <3>2 DEF ReplyInv, Answered
        <4>2. R = {p}
          BY <2>1, <4>1 DEF ReplyInv
        <4>. QED
          BY <3>2, <4>2, FS_Singleton DEF Pends
      <3>. QED
        BY <3>1, <3>2
    <2>3. Done = {n \in DOMAIN requests : Answered(n) /\ IsAction(n)}
      <3>1. \A n \in DOMAIN requests : Answered(n) <=> ~Pends(n)
        BY <2>1 DEF ReplyInv, Answered
      <3>. QED
        BY <3>1 DEF Done
    <2>. QED
      BY <2>1, <2>2, <2>3 DEF ServerTypeOK, QueueInv
  <1>. QED
    BY <1>1, ServerInvariance, PTL
=============================================================================
