------------------------------ MODULE Server -------------------------------
(***************************************************************************)
(* The HTTP server around the handlers (typescript/src/base/server.ts) and *)
(* its one suspension point, the call to tee-node's decrypt API            *)
(* (base/node.ts).  Requests arrive at any time; the promise chain         *)
(* (serialize) runs one job after the other, so that no job starts while a *)
(* bid handler awaits its plaintext.                                       *)
(*                                                                         *)
(* Shown to implement Extension, where a handler is one atomic step.       *)
(***************************************************************************)
EXTENDS Extension

CONSTANTS
  MaxRequests,   \* bound on HTTP requests
  NoJob

ASSUME JobAssumption == MaxRequests \in Nat /\ NoJob \notin Nat

VARIABLES
  requests,   \* the requests that have arrived: [kind, id]
  queue,      \* the promise chain: arrival numbers of jobs not started
  running,    \* the job awaiting decrypt, or NoJob
  replies     \* the HTTP responses sent: [request, code], in order

serverVars == <<ext, clock, answers, requests, queue, running, replies>>

ServerInit ==
  /\ Init
  /\ requests = <<>>
  /\ queue = <<>>
  /\ running = NoJob
  /\ replies = <<>>

\* The response to a request that never reaches the queue: handleRequest's
\* routing, processAction's parsing and the handler lookup.
Rejections == [malformed |-> 400, unrouted |-> 404, wrongMethod |-> 405, unsupported |-> 501]

Inputs ==
  [kind : {"action"}, id : DOMAIN Instructions]
  \cup [kind : {"state"} \cup DOMAIN Rejections, id : {0}]

Reply(n, code) == replies' = Append(replies, [request |-> n, code |-> code])

\* A request's body has been read (serve).
Receive(request) ==
  LET n == Len(requests) + 1 IN
  /\ n <= MaxRequests
  /\ requests' = Append(requests, request)
  /\ \/ /\ request.kind \in DOMAIN Rejections
        /\ Reply(n, Rejections[request.kind])
        /\ UNCHANGED queue
     \/ /\ request.kind \notin DOMAIN Rejections
        /\ queue' = Append(queue, n)
        /\ UNCHANGED replies
  /\ UNCHANGED <<ext, clock, answers, running>>

\* Faulty variant: no promise chain.
MayStartAtOnce(n) == n \in Range(queue)

\* serialize: the next job starts when every earlier one is done.
MayStart(n) == running = NoJob /\ queue # <<>> /\ n = Head(queue)

\* Faulty variant: a started job stays at the head of the chain.
DequeuedNothing == queue

\* The chain without the job that starts.
Dequeued == Tail(queue)

IsAction(n) == requests[n].kind = "action"
Instruction(n) == requests[n].id

\* GET /state: reportState reads nothing.
ReportState(n) ==
  /\ MayStart(n) /\ ~IsAction(n)
  /\ queue' = Dequeued
  /\ Reply(n, 200)
  /\ UNCHANGED <<extensionVars, requests, running>>

\* Faulty variant: the cleared result is not saved.
RunAtOnceUnsaved(n) ==
  LET outcome == Outcome(Instruction(n), NoData) IN
  /\ MayStart(n) /\ IsAction(n) /\ ~Suspends(Instruction(n))
  /\ answers' = Append(answers, [id |-> Instruction(n), at |-> clock, plaintext |-> NoData,
                                 status |-> outcome.status, data |-> outcome.data])
  /\ queue' = Dequeued
  /\ Reply(n, 200)
  /\ UNCHANGED <<ext, clock, requests, running>>

\* A clear, and a bid without ciphertext, are handled without suspending.
RunAtOnce(n) ==
  /\ MayStart(n) /\ IsAction(n) /\ ~Suspends(Instruction(n))
  /\ Handle(Instruction(n), NoData)
  /\ queue' = Dequeued
  /\ Reply(n, 200)
  /\ UNCHANGED <<requests, running>>

\* A bid handler runs up to its await.
BeginBid(n) ==
  /\ MayStart(n) /\ IsAction(n) /\ Suspends(Instruction(n))
  /\ queue' = Dequeued
  /\ running' = n
  /\ UNCHANGED <<extensionVars, requests, replies>>

\* The node answered, or the 30 s timer aborted the call; the rest of the
\* handler runs without suspending.
FinishBid(plaintext) ==
  /\ running # NoJob
  /\ plaintext \in Plaintexts(Instruction(running))
  /\ Handle(Instruction(running), plaintext)
  /\ Reply(running, 200)
  /\ running' = NoJob
  /\ UNCHANGED <<requests, queue>>

FinishSomehow ==
  \E plaintext \in (IF running = NoJob THEN {} ELSE Plaintexts(Instruction(running))) :
    FinishBid(plaintext)

PassTime == Advance /\ UNCHANGED <<requests, queue, running, replies>>

ServerNext ==
  \/ \E request \in Inputs : Receive(request)
  \/ PassTime
  \/ \E n \in DOMAIN requests : ReportState(n) \/ RunAtOnce(n) \/ BeginBid(n)
  \/ FinishSomehow

ServerSpec == ServerInit /\ [][ServerNext]_serverVars

\* Node's event loop runs what is ready, and the call to the node ends: it is
\* answered or its timer fires.
ServerFairness ==
  /\ WF_serverVars(\E n \in DOMAIN requests : ReportState(n) \/ RunAtOnce(n) \/ BeginBid(n))
  /\ WF_serverVars(FinishSomehow)

FairServerSpec == ServerSpec /\ ServerFairness

-----------------------------------------------------------------------------
(* Properties                                                              *)

Answered(n) == \E p \in DOMAIN replies : replies[p].request = n

\* Every request is answered at most once; one that is neither queued nor
\* running has been; the action results are those of the answered actions.
ServerTypeOK ==
  /\ requests \in Seq(Inputs) /\ Len(requests) <= MaxRequests
  /\ running \in DOMAIN requests \cup {NoJob}
  /\ \A n \in DOMAIN requests :
       Cardinality({p \in DOMAIN replies : replies[p].request = n})
         = IF n \in Range(queue) \cup {running} THEN 0 ELSE 1
  /\ Len(answers) =
       Cardinality({n \in DOMAIN requests : Answered(n) /\ IsAction(n)})

\* Actions take effect in the order in which they arrived, although bids wait
\* for the node and clears do not: the p-th result answers the p-th action to
\* arrive, so a clear sees every bid that arrived before it and none that
\* arrived after.
ActionsUpTo(n) == {m \in DOMAIN requests : m <= n /\ IsAction(m)}
EffectInArrivalOrder ==
  \A p \in DOMAIN answers : \E n \in DOMAIN requests :
    /\ IsAction(n) /\ Cardinality(ActionsUpTo(n)) = p
    /\ answers[p].id = Instruction(n)

\* What makes these inductive: the jobs that are not done are the last ones
\* accepted, in order; a running job is a bid that awaits its plaintext; every
\* other request has one reply; as many actions are done as were answered.
Pends(n) == n \in Range(queue) \cup {running}
Accepted(n) == requests[n].kind \notin DOMAIN Rejections
QueueInv ==
  /\ requests \in Seq(Inputs) /\ Len(requests) <= MaxRequests
  /\ running \in DOMAIN requests \cup {NoJob}
  /\ running # NoJob => IsAction(running) /\ Suspends(Instruction(running))
  /\ queue \in Seq(DOMAIN requests)
  /\ \A p, q \in DOMAIN queue : p < q => queue[p] < queue[q]
  /\ \A p \in DOMAIN queue : Accepted(queue[p]) /\ (running # NoJob => running < queue[p])
  /\ \A m, n \in DOMAIN requests : Pends(m) /\ m < n /\ Accepted(n) => Pends(n)
Replies(arrived) == [request : arrived, code : Nat]
ReplyInv ==
  /\ replies \in Seq(Replies(DOMAIN requests))
  /\ \A p \in DOMAIN replies : ~Pends(replies[p].request)
  /\ \A p, q \in DOMAIN replies : replies[p].request = replies[q].request => p = q
  /\ \A n \in DOMAIN requests : Pends(n) \/ Answered(n)
Done == {n \in DOMAIN requests : IsAction(n) /\ ~Pends(n)}
ResultInv == Len(answers) = Cardinality(Done) /\ EffectInArrivalOrder
ServerInv == QueueInv /\ ReplyInv /\ ResultInv

\* The server implements the atomic handlers, whatever is awaited meanwhile.
ImplementsExtension == Spec

\* No request waits forever: not behind a bid whose decryption fails, and not
\* behind one that the node never answers.
EveryRequestAnswered ==
  \A n \in 1 .. MaxRequests : Len(requests) >= n ~> Answered(n)
=============================================================================
