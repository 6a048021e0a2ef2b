---------------------------- MODULE SignalClient ----------------------------
(***************************************************************************)
(* The Signal client of the engine (signal/client): GrpcClient.Receive     *)
(* with its retry loop, the message worker behind it, the callers of       *)
(* WaitStreamConnected, and Close.  Receive is called once, by the engine; *)
(* Close is called by the connect loop once c.ctx is cancelled, after      *)
(* Engine.Stop has waited for Receive to return or has given up waiting.   *)
(*                                                                         *)
(* A message is the number of its Recv call.  A worker's message pool is a *)
(* channel with room for one message.  connectedCh is the set of callers   *)
(* that wait on the channel: closing it empties the set.  Close leaves     *)
(* decryptionWorker nil, so that a Receive that is still running may start *)
(* a second worker: workers are numbered.  The gRPC library and the        *)
(* servers are external.                                                   *)
(***************************************************************************)
EXTENDS Integers, Sequences

CONSTANTS
  Waiters,   \* callers of WaitStreamConnected
  MaxMsgs    \* bound: messages received
ASSUME MaxMsgsAssumption == MaxMsgs \in Nat

Workers == 1..2
Msgs    == 1..MaxMsgs

VARIABLES
  ctxDone,           \* c.ctx, and with it the context of Receive, is cancelled
  conn,              \* signalConn is not shut down
  status,            \* GrpcClient.status
  connectedCh,       \* the callers that wait on GrpcClient.connectedCh
  wait,              \* where each caller of WaitStreamConnected is
  rpc,               \* where Receive is
  received,          \* messages Recv has returned
  adding,            \* the message received that is not in a pool yet
  target,            \* the worker whose AddMsg was called
  decryptionWorker,  \* GrpcClient.decryptionWorker, 0 when nil
  started,           \* workers started
  worker,            \* where each worker is
  quit,              \* workers whose context is cancelled
  pool,              \* each worker's encryptedMsgPool
  handling,          \* the message each worker's handler runs on
  handled,           \* the messages whose handling is over, in order
  close,             \* where Close is
  drained            \* Close was called after Receive had returned

waiting   == <<connectedCh, wait>>
receiver  == <<rpc, received, adding, target>>
working   == <<decryptionWorker, started, worker, quit, pool, handling, handled>>
closing   == <<close, conn, drained>>
vars      == <<ctxDone, status, waiting, receiver, working, closing>>

RpcAt    == {"op", "connect", "opened", "notified", "recv", "got", "add",
             "failed", "sleep", "nil", "error", "panic"}
WorkerAt == {"none", "select", "handle", "done"}
CloseAt  == {"no", "waitWorkers", "closed"}

AtMostOne(s) == s \in {<<>>} \cup {<<m>> : m \in Msgs}

TypeOK ==
  /\ ctxDone \in BOOLEAN
  /\ conn \in BOOLEAN
  /\ status \in {"Connected", "Disconnected"}
  /\ connectedCh \subseteq Waiters
  /\ wait \in [Waiters -> {"call", "checked", "wait", "returned"}]
  /\ rpc \in RpcAt
  /\ received \in 0..MaxMsgs
  /\ AtMostOne(adding)
  /\ target \in 0..2
  /\ decryptionWorker \in 0..started
  /\ started \in 0..2
  /\ worker \in [Workers -> WorkerAt]
  /\ quit \subseteq Workers
  /\ \A w \in Workers : AtMostOne(pool[w]) /\ AtMostOne(handling[w])
  /\ handled \in Seq(Msgs)
  /\ close \in CloseAt
  /\ drained \in BOOLEAN

\* A panic ends the process.
Alive == rpc # "panic"
Rpc(from, to) == rpc = from /\ rpc' = to

-----------------------------------------------------------------------------
(* WaitStreamConnected.                                                    *)

\* The status is read without the lock.
WaitChecks(w) ==
  /\ Alive
  /\ wait[w] = "call"
  /\ wait' = [wait EXCEPT ![w] = IF status = "Connected" THEN "returned" ELSE "checked"]
  /\ UNCHANGED <<ctxDone, status, connectedCh, receiver, working, closing>>

getStreamStatusChan(w) ==
  /\ Alive
  /\ wait[w] = "checked"
  /\ connectedCh' = connectedCh \cup {w}
  /\ wait' = [wait EXCEPT ![w] = "wait"]
  /\ UNCHANGED <<ctxDone, status, receiver, working, closing>>

\* The select on the channel and the context.
WaitReturns(w) ==
  /\ Alive
  /\ wait[w] = "wait"
  /\ w \notin connectedCh \/ ctxDone
  /\ wait' = [wait EXCEPT ![w] = "returned"]
  /\ UNCHANGED <<ctxDone, status, connectedCh, receiver, working, closing>>

-----------------------------------------------------------------------------
(* Receive.                                                                *)

\* One round of the retry loop begins.
notifyStreamDisconnected ==
  /\ Rpc("op", "connect")
  /\ status' = "Disconnected"
  /\ UNCHANGED <<ctxDone, waiting, received, adding, target, working, closing>>

OnlyRpc == UNCHANGED <<ctxDone, status, waiting, received, adding, target, working, closing>>

\* signalConn is shut down: a permanent error.
Shutdown == ~conn /\ Rpc("connect", "error") /\ OnlyRpc

\* signalConn is not ready, or connect fails.
ConnectFails == Rpc("connect", "failed") /\ OnlyRpc

\* connect has got its header; its context was live then.
connect == ~ctxDone /\ conn /\ Rpc("connect", "opened") /\ OnlyRpc

notifyStreamConnected ==
  /\ Rpc("opened", "notified")
  /\ status' = "Connected"
  /\ connectedCh' = {}
  /\ UNCHANGED <<ctxDone, wait, received, adding, target, working, closing>>

\* Mutant of startEncryptionWorker: every stream starts a worker.
startWorkerAlways ==
  /\ started < 2
  /\ Rpc("notified", "recv")
  /\ started' = started + 1
  /\ decryptionWorker' = started + 1
  /\ worker' = [worker EXCEPT ![started + 1] = "select"]
  /\ UNCHANGED <<ctxDone, status, waiting, received, adding, target, quit,
                 pool, handling, handled, closing>>

\* A worker is started unless there is one.
startEncryptionWorker ==
  /\ Rpc("notified", "recv")
  /\ IF decryptionWorker # 0
       THEN UNCHANGED <<decryptionWorker, started, worker>>
       ELSE /\ started' = started + 1
            /\ decryptionWorker' = started + 1
            /\ worker' = [worker EXCEPT ![started + 1] = "select"]
  /\ UNCHANGED <<ctxDone, status, waiting, received, adding, target, quit,
                 pool, handling, handled, closing>>

\* Recv returns a message.
Recv ==
  /\ conn
  /\ received < MaxMsgs
  /\ Rpc("recv", "got")
  /\ received' = received + 1
  /\ adding' = <<received + 1>>
  /\ UNCHANGED <<ctxDone, status, waiting, target, working, closing>>

\* The call of AddMsg, on a nil worker if Close has taken it away.
CallAddMsg ==
  /\ IF decryptionWorker # 0 THEN Rpc("got", "add") ELSE Rpc("got", "panic")
  /\ target' = decryptionWorker
  /\ UNCHANGED <<ctxDone, status, waiting, received, adding, working, closing>>

\* Mutant of AddMsg: a message that finds the pool full is dropped.
AddMsgDrops ==
  /\ Rpc("add", "recv")
  /\ pool' = [pool EXCEPT ![target] = IF @ = <<>> THEN adding ELSE @]
  /\ adding' = <<>>
  /\ UNCHANGED <<ctxDone, status, waiting, received, target, decryptionWorker,
                 started, worker, quit, handling, handled, closing>>

\* AddMsg's select puts the message in the pool of the worker, ...
AddMsg ==
  /\ Rpc("add", "recv")
  /\ pool[target] = <<>>
  /\ pool' = [pool EXCEPT ![target] = adding]
  /\ adding' = <<>>
  /\ UNCHANGED <<ctxDone, status, waiting, received, target, decryptionWorker,
                 started, worker, quit, handling, handled, closing>>

\* Mutant of AddMsgCancelled: AddMsg does not select on the context.
AddMsgIgnoresCtx == FALSE

\* ... or drops it because c.ctx is done.
AddMsgCancelled ==
  /\ ctxDone
  /\ Rpc("add", "recv")
  /\ adding' = <<>>
  /\ UNCHANGED <<ctxDone, status, waiting, received, target, working, closing>>

\* The stream ends with an error, Receive retries.
StreamFails == Rpc("recv", "failed") /\ OnlyRpc

\* The stream ends as cancelled, by the context (Cancelled, which a stream
\* always ends with once the context is done), or by the server.
ServerCancels == ~ctxDone /\ Rpc("recv", "nil") /\ OnlyRpc
Cancelled     == ctxDone /\ Rpc("recv", "nil") /\ OnlyRpc

\* The operation failed: unless the context is done the loop sleeps, and then
\* tries again; it gives up after retrying for too long.
BackoffSleeps    == ~ctxDone /\ Rpc("failed", "sleep") /\ OnlyRpc
BackoffGivesUp   == ~ctxDone /\ Rpc("failed", "error") /\ OnlyRpc
BackoffRetries   == Rpc("sleep", "op") /\ OnlyRpc
BackoffCancelled == /\ ctxDone
                    /\ Rpc("failed", "error") \/ Rpc("sleep", "error")
                    /\ OnlyRpc

-----------------------------------------------------------------------------
(* The worker, and Close.                                                  *)

WorkTakes(w) ==
  /\ Alive
  /\ worker[w] = "select"
  /\ pool[w] # <<>>
  /\ worker' = [worker EXCEPT ![w] = "handle"]
  /\ handling' = [handling EXCEPT ![w] = pool[w]]
  /\ pool' = [pool EXCEPT ![w] = <<>>]
  /\ UNCHANGED <<ctxDone, status, waiting, receiver, decryptionWorker, started,
                 quit, handled, closing>>

\* The message is decrypted and handled; errors of both are only logged.
WorkHandles(w) ==
  /\ Alive
  /\ worker[w] = "handle"
  /\ worker' = [worker EXCEPT ![w] = "select"]
  /\ handled' = handled \o handling[w]
  /\ handling' = [handling EXCEPT ![w] = <<>>]
  /\ UNCHANGED <<ctxDone, status, waiting, receiver, decryptionWorker, started,
                 quit, pool, closing>>

WorkEnds(w) ==
  /\ Alive
  /\ worker[w] = "select"
  /\ w \in quit
  /\ worker' = [worker EXCEPT ![w] = "done"]
  /\ UNCHANGED <<ctxDone, status, waiting, receiver, decryptionWorker, started,
                 quit, pool, handling, handled, closing>>

Returned == rpc \in {"nil", "error"}

\* Mutant of CloseCancels: the context of the worker is not cancelled.
CloseCancelsNothing ==
  /\ Alive
  /\ close = "no"
  /\ ctxDone
  /\ close' = "waitWorkers"
  /\ drained' = Returned
  /\ UNCHANGED <<ctxDone, status, waiting, receiver, decryptionWorker, started,
                 worker, quit, pool, handling, handled, conn>>

\* decryptionWorkerCancel is the function of the last worker started.
CloseCancels ==
  /\ Alive
  /\ close = "no"
  /\ ctxDone
  /\ close' = "waitWorkers"
  /\ drained' = Returned
  /\ quit' = IF started = 0 THEN quit ELSE quit \cup {started}
  /\ UNCHANGED <<ctxDone, status, waiting, receiver, decryptionWorker, started,
                 worker, pool, handling, handled, conn>>

\* Mutant of CloseReturns: the workers are not waited for.
CloseReturnsEarly ==
  /\ Alive
  /\ close = "waitWorkers"
  /\ close' = "closed"
  /\ decryptionWorker' = 0
  /\ conn' = FALSE
  /\ UNCHANGED <<ctxDone, status, waiting, receiver, started, worker, quit,
                 pool, handling, handled, drained>>

CloseReturns ==
  /\ Alive
  /\ close = "waitWorkers"
  /\ \A w \in 1..started : worker[w] = "done"
  /\ close' = "closed"
  /\ decryptionWorker' = 0
  /\ conn' = FALSE
  /\ UNCHANGED <<ctxDone, status, waiting, receiver, started, worker, quit,
                 pool, handling, handled, drained>>

-----------------------------------------------------------------------------
\* The context of the engine is cancelled.
Cancel ==
  /\ Alive
  /\ ~ctxDone
  /\ ctxDone' = TRUE
  /\ UNCHANGED <<status, waiting, receiver, working, closing>>

Init ==
  /\ ctxDone = FALSE
  /\ conn = TRUE
  /\ status = "Disconnected"
  /\ connectedCh = {}
  /\ wait = [w \in Waiters |-> "call"]
  /\ rpc = "op"
  /\ received = 0
  /\ adding = <<>>
  /\ target = 0
  /\ decryptionWorker = 0
  /\ started = 0
  /\ worker = [w \in Workers |-> "none"]
  /\ quit = {}
  /\ pool = [w \in Workers |-> <<>>]
  /\ handling = [w \in Workers |-> <<>>]
  /\ handled = <<>>
  /\ close = "no"
  /\ drained = FALSE

\* The steps Receive takes by itself: all but what the server or the network
\* decide.
ReceiveSteps ==
  \/ notifyStreamDisconnected \/ Shutdown \/ ConnectFails
  \/ notifyStreamConnected \/ startEncryptionWorker
  \/ CallAddMsg \/ AddMsg \/ AddMsgCancelled
  \/ Cancelled \/ BackoffSleeps \/ BackoffRetries \/ BackoffCancelled

ServerSteps == connect \/ Recv \/ StreamFails \/ ServerCancels \/ BackoffGivesUp

WaitSteps(w) == WaitChecks(w) \/ getStreamStatusChan(w) \/ WaitReturns(w)

WorkerSteps(w) == WorkTakes(w) \/ WorkEnds(w)

Next ==
  \/ ReceiveSteps
  \/ ServerSteps
  \/ Cancel
  \/ \E w \in Waiters : WaitSteps(w)
  \/ \E w \in Workers : WorkerSteps(w) \/ WorkHandles(w)
  \/ CloseCancels
  \/ CloseReturns

Spec == Init /\ [][Next]_vars

\* Goroutines are scheduled fairly, and a select with two ready cases does not
\* choose one of them forever: the worker's, and the one inside Recv, which
\* returns no more messages once the context is done.  The handler takes Engine.syncMsgMux,
\* which Engine.Stop holds while it waits for Receive: it is only sure to end
\* once Close has been called, after Stop.
Fairness ==
  /\ WF_vars(ReceiveSteps)
  /\ SF_vars(Cancelled)
  /\ WF_vars(CloseReturns)
  /\ \A w \in Waiters : WF_vars(WaitSteps(w))
  /\ \A w \in Workers : /\ WF_vars(WorkerSteps(w))
                        /\ SF_vars(WorkEnds(w))
                        /\ WF_vars(close # "no" /\ WorkHandles(w))

FairSpec == Spec /\ Fairness

-----------------------------------------------------------------------------
(* Properties.                                                             *)

\* AddMsg: "this is blocker because do not want to drop messages here".  While
\* the context is live every message received is handled, being handled, in
\* the pool or about to be added, once and in the order received, over any
\* number of streams.
NoMessageLost ==
  ~ctxDone => handled \o handling[1] \o pool[1] \o adding = [i \in 1..received |-> i]

\* Even while everything is being cancelled, and when a second worker is
\* started, no message is handled twice or after a later one.
HandledInOrder == \A i, j \in 1..Len(handled) : i < j => handled[i] < handled[j]

\* Close: once it has returned no worker runs, if Receive had ended before it.
NoWorkerLeft ==
  close = "closed" /\ drained => \A w \in 1..started : worker[w] = "done"

\* Engine.Stop waits for Receive and the callers of WaitStreamConnected (Start)
\* while the handlers may wait for Stop: a cancelled context ends them all,
\* with the pool full as well.
CancelEndsReceive ==
  ctxDone ~> (~Alive \/ (Returned /\ \A w \in Waiters : wait[w] = "returned"))

\* Close returns if Receive had ended before it was called.
CloseEnds == (close = "waitWorkers" /\ drained) ~> close = "closed"

\* WaitStreamConnected "waits until the client is connected to the Signal
\* stream": if a stream stays open, every caller returns.
WaitEnds ==
  <>[](rpc \in {"recv", "got", "add"}) => <>(\A w \in Waiters : wait[w] = "returned")
=============================================================================
