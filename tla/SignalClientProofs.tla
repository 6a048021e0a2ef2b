------------------------- MODULE SignalClientProofs -------------------------
(***************************************************************************)
(* TypeOK, NoMessageLost, HandledInOrder and NoWorkerLeft of the Signal    *)
(* client, for any callers and any number of messages.  The hard part is   *)
(* the second worker: Close leaves decryptionWorker nil, and a Receive     *)
(* that is past connect by then starts another one.                        *)
(***************************************************************************)
EXTENDS SignalClient, TLAPS

\* Every message of s is older than every one of t.
Before(s, t) == \A i \in 1..Len(s), j \in 1..Len(t) : s[i] < t[j]
Ascending(s) == \A i, j \in 1..Len(s) : i < j => s[i] < s[j]
Received(s)  == \A i \in 1..Len(s) : s[i] <= received

Pools ==
  /\ pool \in [Workers -> Seq(Msgs)]
  /\ handling \in [Workers -> Seq(Msgs)]

\* A worker is started by the first stream, and by one that Close overtook: no
\* stream is opened after Close, so there is no third worker.
Starts ==
  /\ ~ctxDone => close = "no"
  /\ close = "closed" => ~conn
  /\ close # "closed" => decryptionWorker = started /\ started <= 1
  /\ close = "closed" /\ decryptionWorker = 0 =>
       /\ started <= 1
       /\ \A w \in 1..started : worker[w] = "done"
  /\ close = "closed" /\ decryptionWorker # 0 =>
       /\ decryptionWorker = started
       /\ rpc \notin {"opened", "notified"}
  /\ drained => Returned

\* Receive holds a message from Recv to the end of AddMsg, on the last worker.
Holds ==
  /\ rpc \notin {"got", "add", "panic"} => adding = <<>>
  /\ rpc = "add" => target = started /\ target # 0

\* Only the last worker may run, and only a running one has a message.
LastRuns ==
  /\ \A w \in Workers : worker[w] = "none" <=> w > started
  /\ \A w \in Workers : worker[w] = "none" => pool[w] = <<>>
  /\ \A w \in Workers : worker[w] # "handle" => handling[w] = <<>>
  /\ started = 2 => worker[1] = "done"

\* A message is handled before the ones behind it.  What a worker left in its
\* pool when it ended is never handled.
Ordered ==
  /\ Received(handled) /\ Received(adding)
  /\ Before(handled, adding)
  /\ \A w \in Workers :
       /\ Received(handling[w]) /\ Received(pool[w])
       /\ Before(handled, handling[w])
       /\ worker[w] # "done" => Before(handled, pool[w])
       /\ Before(handling[w], pool[w])
       /\ Before(handling[w], adding)
       /\ Before(pool[w], adding)

IInv ==
  /\ TypeOK
  /\ Pools
  /\ Starts
  /\ Holds
  /\ LastRuns
  /\ Ordered
  /\ NoMessageLost
  /\ HandledInOrder
  /\ NoWorkerLeft

-----------------------------------------------------------------------------
(* Sequences.                                                              *)

\* What a variable that holds at most one message is.
LEMMA OneShape ==
  ASSUME NEW s, AtMostOne(s)
  PROVE  s \in Seq(Msgs) /\ (s = <<>> \/ \E m \in Msgs : s = <<m>>)
<1>1. s = <<>> \/ \E m \in Msgs : s = <<m>>
  BY DEF AtMostOne
<1>2. <<>> \in Seq(Msgs) /\ \A m \in Msgs : <<m>> \in Seq(Msgs)
  OBVIOUS
<1> QED BY <1>1, <1>2

\* A queue with a newer part appended is still in order.
LEMMA AscendingAppend ==
  ASSUME NEW s \in Seq(Msgs), NEW t \in Seq(Msgs), Ascending(s), AtMostOne(t), Before(s, t)
  PROVE  Ascending(s \o t)
<1>1. CASE t = <<>>
  BY <1>1
<1>2. CASE \E m \in Msgs : t = <<m>>
  <2>1. PICK m \in Msgs : t = <<m>>
    BY <1>2
  <2>2. \A i \in 1..Len(s) : s[i] < m
    BY <2>1 DEF Before
  <2> QED BY <2>1, <2>2 DEF Ascending
<1> QED BY <1>1, <1>2, OneShape

\* What is newer than both parts is newer than the whole.
LEMMA BeforeAppend ==
  ASSUME NEW s \in Seq(Msgs), NEW t \in Seq(Msgs), NEW u \in Seq(Msgs), AtMostOne(t),
         Before(s, u), Before(t, u)
  PROVE  Before(s \o t, u)
<1>1. CASE t = <<>>
  BY <1>1
<1>2. CASE \E m \in Msgs : t = <<m>>
  <2>1. PICK m \in Msgs : t = <<m>>
    BY <1>2
  <2>2. \A j \in 1..Len(u) : m < u[j]
    BY <2>1 DEF Before
  <2> QED BY <2>1, <2>2 DEF Before
<1> QED BY <1>1, <1>2, OneShape

\* Nothing is before, or after, an empty queue.
LEMMA BeforeEmpty == \A s : Before(<<>>, s) /\ Before(s, <<>>)
BY DEF Before

\* An empty part of a queue may be left out.
LEMMA ConcatEmpty ==
  ASSUME NEW s \in Seq(Msgs)
  PROVE  s \o <<>> = s /\ <<>> \o s = s
OBVIOUS

\* Parts of a queue are one.
LEMMA ConcatType ==
  ASSUME NEW s \in Seq(Msgs), NEW t \in Seq(Msgs)
  PROVE  s \o t \in Seq(Msgs)
OBVIOUS

\* The next message in order.
LEMMA CountUp ==
  ASSUME NEW n \in Nat, NEW s \in Seq(Msgs), s = [i \in 1..n |-> i], n + 1 \in Msgs
  PROVE  s \o <<n + 1>> = [i \in 1..(n + 1) |-> i]
<1>1. Len(s) = n
  OBVIOUS
<1> QED BY <1>1

-----------------------------------------------------------------------------
(* The steps.                                                              *)

Message == {"got", "add", "panic"}

\* Steps that move no message: the callers', and most of Receive's.
LEMMA QuietStep ==
  ASSUME IInv, UNCHANGED <<received, adding, target, working, closing>>,
         ctxDone' \in BOOLEAN, ctxDone => ctxDone',
         status' \in {"Connected", "Disconnected"},
         connectedCh' \subseteq Waiters,
         wait' \in [Waiters -> {"call", "checked", "wait", "returned"}],
         rpc' \in RpcAt,
         rpc' = rpc \/ (rpc \notin Message /\ rpc' \notin Message /\ ~Returned),
         rpc' = rpc \/ rpc' \notin {"opened", "notified"} \/ rpc = "opened" \/ close # "closed"
  PROVE  IInv'
<1> USE DEF IInv, working, closing
<1>1. TypeOK' /\ Pools'
  BY DEF TypeOK, Pools, AtMostOne
<1>2. Starts'
  BY DEF Starts, Returned, Message
<1>3. Holds'
  BY DEF Holds, Message
<1>4. LastRuns'
  BY DEF LastRuns
<1>5. Ordered'
  BY DEF Ordered, Received, Before
<1>6. NoMessageLost' /\ HandledInOrder' /\ NoWorkerLeft'
  BY DEF NoMessageLost, HandledInOrder, NoWorkerLeft
<1> QED BY <1>1, <1>2, <1>3, <1>4, <1>5, <1>6

\* The callers of WaitStreamConnected.
LEMMA WaitStep ==
  ASSUME IInv, NEW w \in Waiters, WaitSteps(w)
  PROVE  IInv'
<1>1. /\ UNCHANGED <<received, adding, target, working, closing, ctxDone, status, rpc>>
      /\ connectedCh' \in {connectedCh, connectedCh \cup {w}}
      /\ \E v \in {"call", "checked", "wait", "returned"} : wait' = [wait EXCEPT ![w] = v]
  BY DEF WaitSteps, WaitChecks, getStreamStatusChan, WaitReturns, receiver
<1>2. /\ connectedCh' \subseteq Waiters
      /\ wait' \in [Waiters -> {"call", "checked", "wait", "returned"}]
  BY <1>1 DEF IInv, TypeOK
<1>3. /\ ctxDone' \in BOOLEAN /\ rpc' \in RpcAt
      /\ status' \in {"Connected", "Disconnected"}
  BY <1>1 DEF IInv, TypeOK
<1> QED BY <1>1, <1>2, <1>3, QuietStep

QuietReceive ==
  \/ notifyStreamDisconnected \/ Shutdown \/ ConnectFails \/ connect \/ notifyStreamConnected
  \/ StreamFails \/ ServerCancels \/ Cancelled
  \/ BackoffSleeps \/ BackoffGivesUp \/ BackoffRetries \/ BackoffCancelled

\* Receive between two messages.
LEMMA QuietReceiveStep ==
  ASSUME IInv, QuietReceive
  PROVE  IInv'
<1>1. /\ UNCHANGED <<ctxDone, received, adding, target, working, closing>>
      /\ wait' = wait /\ connectedCh' \in {connectedCh, {}}
      /\ status' \in {status, "Connected", "Disconnected"}
      /\ rpc \in {"op", "connect", "opened", "recv", "failed", "sleep"}
      /\ rpc' \in {"op", "connect", "opened", "notified", "failed", "sleep", "nil", "error"}
      /\ rpc' = "notified" => rpc = "opened"
      /\ rpc' = "opened" => conn
  <2>1. CASE notifyStreamDisconnected
    BY <2>1 DEF notifyStreamDisconnected, Rpc, waiting
  <2>2. CASE notifyStreamConnected
    BY <2>2 DEF notifyStreamConnected, Rpc
  <2>3. CASE Shutdown \/ ConnectFails \/ connect \/ StreamFails \/ ServerCancels \/ Cancelled
    BY <2>3 DEF Shutdown, ConnectFails, connect, StreamFails, ServerCancels, Cancelled,
                OnlyRpc, Rpc, waiting
  <2>4. CASE BackoffSleeps \/ BackoffGivesUp \/ BackoffRetries \/ BackoffCancelled
    BY <2>4 DEF BackoffSleeps, BackoffGivesUp, BackoffRetries, BackoffCancelled,
                OnlyRpc, Rpc, waiting
  <2> QED BY <2>1, <2>2, <2>3, <2>4 DEF QuietReceive
<1>2. /\ ctxDone' \in BOOLEAN /\ status' \in {"Connected", "Disconnected"}
      /\ connectedCh' \subseteq Waiters
      /\ wait' \in [Waiters -> {"call", "checked", "wait", "returned"}]
      /\ rpc' \in RpcAt
  BY <1>1 DEF IInv, TypeOK, RpcAt
<1>3. /\ rpc \notin Message /\ rpc' \notin Message /\ ~Returned
      /\ rpc' \notin {"opened", "notified"} \/ rpc = "opened" \/ close # "closed"
  BY <1>1 DEF IInv, Starts, Message, Returned
<1> QED BY <1>1, <1>2, <1>3, QuietStep

\* The engine's context is cancelled.
LEMMA CancelStep ==
  ASSUME IInv, Cancel
  PROVE  IInv'
<1>1. /\ UNCHANGED <<received, adding, target, working, closing, status, connectedCh, wait, rpc>>
      /\ ctxDone' = TRUE
  BY DEF Cancel, waiting, receiver
<1>2. /\ ctxDone' \in BOOLEAN /\ rpc' \in RpcAt
      /\ status' \in {"Connected", "Disconnected"} /\ connectedCh' \subseteq Waiters
      /\ wait' \in [Waiters -> {"call", "checked", "wait", "returned"}]
  BY <1>1 DEF IInv, TypeOK
<1> QED BY <1>1, <1>2, QuietStep

\* A worker is started with nothing to do; a second one only after Close has
\* seen the first one end.
LEMMA StartStep ==
  ASSUME IInv, startEncryptionWorker
  PROVE  IInv'
<1> USE DEF IInv, waiting, closing
<1>1. /\ rpc = "notified" /\ rpc' = "recv"
      /\ UNCHANGED <<ctxDone, status, connectedCh, wait, received, adding, target, quit, pool,
                     handling, handled, close, conn, drained>>
  BY DEF startEncryptionWorker, Rpc
<1>2. CASE decryptionWorker # 0
  <2>1. UNCHANGED <<decryptionWorker, started, worker>>
    BY <1>2 DEF startEncryptionWorker
  <2>2. TypeOK' /\ Pools'
    BY <1>1, <2>1 DEF TypeOK, Pools, AtMostOne, RpcAt
  <2>3. Starts' /\ Holds' /\ LastRuns'
    BY <1>1, <1>2, <2>1 DEF Starts, Holds, LastRuns, Returned
  <2>4. Ordered'
    BY <1>1, <2>1 DEF Ordered, Received, Before
  <2>5. NoMessageLost' /\ HandledInOrder' /\ NoWorkerLeft'
    BY <1>1, <2>1 DEF NoMessageLost, HandledInOrder, NoWorkerLeft
  <2> QED BY <2>2, <2>3, <2>4, <2>5
<1>3. CASE decryptionWorker = 0
  <2>1. /\ started' = started + 1 /\ decryptionWorker' = started + 1
        /\ worker' = [worker EXCEPT ![started + 1] = "select"]
    BY <1>3 DEF startEncryptionWorker
  <2>2. /\ started \in {0, 1}
        /\ started = 1 => worker[1] = "done" /\ close = "closed"
        /\ ~drained
    BY <1>1, <1>3 DEF Starts, TypeOK, Returned
  <2>3. /\ worker' \in [Workers -> WorkerAt]
        /\ worker'[started + 1] = "select" /\ worker[started + 1] = "none"
        /\ \A w \in Workers : w # started + 1 => worker'[w] = worker[w]
    BY <2>1, <2>2 DEF TypeOK, Workers, WorkerAt, LastRuns
  <2>4. TypeOK' /\ Pools'
    BY <1>1, <2>1, <2>2, <2>3 DEF TypeOK, Pools, AtMostOne, RpcAt
  <2>5. Starts' /\ Holds'
    BY <1>1, <1>3, <2>1, <2>2 DEF Starts, Holds, Returned
  <2>6. LastRuns'
    BY <1>1, <2>1, <2>2, <2>3 DEF LastRuns, Workers
  <2>7. Ordered'
    <3>1. \A w \in Workers : worker'[w] # "done" => worker[w] # "done"
      BY <2>3
    <3> QED BY <1>1, <3>1 DEF Ordered, Received, Before
  <2>8. NoMessageLost' /\ HandledInOrder' /\ NoWorkerLeft'
    BY <1>1, <2>2 DEF NoMessageLost, HandledInOrder, NoWorkerLeft
  <2> QED BY <2>4, <2>5, <2>6, <2>7, <2>8
<1> QED BY <1>2, <1>3


\* The message received is newer than all before it.
LEMMA RecvStep ==
  ASSUME IInv, Recv
  PROVE  IInv'
<1> USE DEF IInv, waiting, closing, working
<1>1. /\ rpc = "recv" /\ rpc' = "got" /\ received < MaxMsgs
      /\ received' = received + 1 /\ adding' = <<received + 1>>
      /\ UNCHANGED <<ctxDone, status, connectedCh, wait, target, working, closing>>
  BY DEF Recv, Rpc
<1>2. /\ received \in Nat /\ received + 1 \in Msgs /\ received' \in 0..MaxMsgs
      /\ adding = <<>>
  BY <1>1, MaxMsgsAssumption DEF TypeOK, Msgs, Holds
<1>3. AtMostOne(adding')
  BY <1>1, <1>2 DEF AtMostOne
<1>4. TypeOK' /\ Pools'
  <2>1. AtMostOne(adding)'
    BY <1>3 DEF AtMostOne
  <2>2. \A w \in Workers : AtMostOne(pool[w])' /\ AtMostOne(handling[w])'
    BY <1>1 DEF TypeOK, AtMostOne
  <2> QED BY <1>1, <1>2, <2>1, <2>2 DEF TypeOK, Pools, RpcAt
<1>5. Starts' /\ Holds' /\ LastRuns'
  BY <1>1 DEF Starts, Holds, LastRuns, Returned
<1>6. Ordered'
  <2>1. \A s \in Seq(Msgs) : Received(s) => Received(s)' /\ Before(s, adding')
    <3> SUFFICES ASSUME NEW s \in Seq(Msgs), Received(s)
                 PROVE  Received(s)' /\ Before(s, adding')
      OBVIOUS
    <3>1. \A i \in 1..Len(s) : s[i] \in Msgs /\ s[i] <= received
      BY DEF Received
    <3> QED BY <1>1, <1>2, <3>1 DEF Received, Before, Msgs
  <2>2. handled \in Seq(Msgs) /\ \A w \in Workers : handling[w] \in Seq(Msgs) /\ pool[w] \in Seq(Msgs)
    BY DEF TypeOK, Pools
  <2>3. Received(adding)'
    BY <1>1, <1>2 DEF Received
  <2>4. Before(handled, adding)' /\ Received(handled)'
    BY <1>1, <2>1, <2>2 DEF Ordered, Before, Received
  <2>5. ASSUME NEW w \in Workers
        PROVE  /\ Received(handling[w])' /\ Received(pool[w])'
               /\ Before(handling[w], adding)' /\ Before(pool[w], adding)'
    <3>1. Received(handling[w]) /\ Received(pool[w])
      BY DEF Ordered
    <3> QED BY <1>1, <2>1, <2>2, <3>1 DEF Before, Received
  <2>6. ASSUME NEW w \in Workers
        PROVE  /\ Before(handled, handling[w])' /\ Before(handling[w], pool[w])'
               /\ worker'[w] # "done" => Before(handled, pool[w])'
    BY <1>1 DEF Ordered, Before
  <2> QED BY <2>3, <2>4, <2>5, <2>6 DEF Ordered
<1>7. NoMessageLost'
  <2> SUFFICES ASSUME ~ctxDone
               PROVE  handled \o handling[1] \o pool[1] \o adding' = [i \in 1..received' |-> i]
    BY <1>1 DEF NoMessageLost
  <2>1. 1 \in Workers
    BY DEF Workers
  <2>2. handled \o handling[1] \o pool[1] \in Seq(Msgs)
    BY <2>1, ConcatType DEF TypeOK, Pools
  <2>3. handled \o handling[1] \o pool[1] = [i \in 1..received |-> i]
    BY <1>2, <2>2, ConcatEmpty DEF NoMessageLost
  <2> QED BY <1>1, <1>2, <2>2, <2>3, CountUp
<1>8. HandledInOrder' /\ NoWorkerLeft'
  BY <1>1 DEF HandledInOrder, NoWorkerLeft
<1> QED BY <1>4, <1>5, <1>6, <1>7, <1>8

\* AddMsg is called on the worker, or on nil.
LEMMA CallStep ==
  ASSUME IInv, CallAddMsg
  PROVE  IInv'
<1> USE DEF IInv, waiting, closing, working
<1>1. /\ rpc = "got" /\ target' = decryptionWorker
      /\ (decryptionWorker # 0 /\ rpc' = "add") \/ (decryptionWorker = 0 /\ rpc' = "panic")
      /\ UNCHANGED <<ctxDone, status, connectedCh, wait, received, adding, working, closing>>
  BY DEF CallAddMsg, Rpc
<1>2. TypeOK' /\ Pools'
  BY <1>1 DEF TypeOK, Pools, AtMostOne, RpcAt
<1>3. Starts'
  BY <1>1 DEF Starts, Returned
<1>4. Holds'
  BY <1>1 DEF Holds, Starts
<1>5. LastRuns'
  BY <1>1 DEF LastRuns
<1>6. Ordered'
  BY <1>1 DEF Ordered, Received, Before
<1>7. NoMessageLost' /\ HandledInOrder' /\ NoWorkerLeft'
  BY <1>1 DEF NoMessageLost, HandledInOrder, NoWorkerLeft
<1> QED BY <1>2, <1>3, <1>4, <1>5, <1>6, <1>7

\* The message goes to the pool of the last worker, behind all others.
LEMMA AddMsgStep ==
  ASSUME IInv, AddMsg
  PROVE  IInv'
<1> USE DEF IInv, waiting, closing
<1>1. /\ rpc = "add" /\ rpc' = "recv" /\ pool[target] = <<>>
      /\ pool' = [pool EXCEPT ![target] = adding] /\ adding' = <<>>
      /\ UNCHANGED <<ctxDone, status, connectedCh, wait, received, target, decryptionWorker,
                     started, worker, quit, handling, handled, closing>>
  BY DEF AddMsg, Rpc
<1>2. target \in Workers /\ target = started /\ worker[target] # "none"
  BY <1>1 DEF Holds, TypeOK, Workers, LastRuns
<1>3. adding \in Seq(Msgs)
  BY OneShape DEF TypeOK
<1>4. /\ pool' \in [Workers -> Seq(Msgs)] /\ pool'[target] = adding
      /\ \A w \in Workers : w # target => pool'[w] = pool[w]
  BY <1>1, <1>2, <1>3 DEF Pools
<1>5. TypeOK' /\ Pools'
  <2>1. AtMostOne(adding)'
    BY <1>1 DEF AtMostOne
  <2>2. \A w \in Workers : AtMostOne(pool[w])' /\ AtMostOne(handling[w])'
    BY <1>1, <1>4 DEF TypeOK, AtMostOne
  <2> QED BY <1>1, <1>4, <2>1, <2>2 DEF TypeOK, Pools, RpcAt
<1>6. Starts' /\ Holds'
  BY <1>1 DEF Starts, Holds, Returned
<1>7. LastRuns'
  BY <1>1, <1>2, <1>4 DEF LastRuns
<1>8. Ordered'
  <2>1. Received(handled)' /\ Received(adding)' /\ Before(handled, adding)'
    BY <1>1 DEF Ordered, Received, Before
  <2>2. ASSUME NEW w \in Workers, w # target
        PROVE  /\ Received(handling[w])' /\ Received(pool[w])'
               /\ Before(handled, handling[w])'
               /\ worker'[w] # "done" => Before(handled, pool[w])'
               /\ Before(handling[w], pool[w])'
               /\ Before(handling[w], adding)' /\ Before(pool[w], adding)'
    BY <1>1, <1>4, <2>2 DEF Ordered, Received, Before
  <2>3. /\ Received(handling[target])' /\ Received(pool[target])'
        /\ Before(handled, handling[target])' /\ Before(handled, pool[target])'
        /\ Before(handling[target], pool[target])'
        /\ Before(handling[target], adding)' /\ Before(pool[target], adding)'
    BY <1>1, <1>2, <1>4 DEF Ordered, Received, Before
  <2> QED BY <1>1, <2>1, <2>2, <2>3 DEF Ordered
<1>9. NoMessageLost'
  <2> SUFFICES ASSUME ~ctxDone
               PROVE  handled \o handling[1] \o pool'[1] \o adding' = [i \in 1..received |-> i]
    BY <1>1 DEF NoMessageLost
  <2>1. target = 1 /\ 1 \in Workers
    BY <1>2 DEF Starts, Workers
  <2>2. /\ handled \o handling[1] \in Seq(Msgs)
        /\ handled \o handling[1] \o adding \in Seq(Msgs)
    BY <1>3, <2>1, ConcatType DEF TypeOK, Pools
  <2>3. handled \o handling[1] \o <<>> \o adding = [i \in 1..received |-> i]
    BY <1>1, <2>1 DEF NoMessageLost
  <2> QED BY <1>1, <1>4, <2>1, <2>2, <2>3, ConcatEmpty
<1>10. HandledInOrder' /\ NoWorkerLeft'
  BY <1>1 DEF HandledInOrder, NoWorkerLeft
<1> QED BY <1>5, <1>6, <1>7, <1>8, <1>9, <1>10

\* A message is dropped only once the context is done.
LEMMA AddMsgCancelledStep ==
  ASSUME IInv, AddMsgCancelled
  PROVE  IInv'
<1> USE DEF IInv, waiting, closing, working
<1>1. /\ rpc = "add" /\ rpc' = "recv" /\ adding' = <<>> /\ ctxDone
      /\ UNCHANGED <<ctxDone, status, connectedCh, wait, received, target, working, closing>>
  BY DEF AddMsgCancelled, Rpc
<1>2. TypeOK' /\ Pools'
  <2>1. AtMostOne(adding)'
    BY <1>1 DEF AtMostOne
  <2>2. \A w \in Workers : AtMostOne(pool[w])' /\ AtMostOne(handling[w])'
    BY <1>1 DEF TypeOK, AtMostOne
  <2> QED BY <1>1, <2>1, <2>2 DEF TypeOK, Pools, RpcAt
<1>3. Starts' /\ Holds' /\ LastRuns'
  BY <1>1 DEF Starts, Holds, LastRuns, Returned
<1>4. Ordered'
  <2>1. Received(handled)' /\ Received(adding)' /\ Before(handled, adding)'
    BY <1>1 DEF Ordered, Received, Before
  <2>2. ASSUME NEW w \in Workers
        PROVE  /\ Received(handling[w])' /\ Received(pool[w])'
               /\ Before(handled, handling[w])'
               /\ worker'[w] # "done" => Before(handled, pool[w])'
               /\ Before(handling[w], pool[w])'
    BY <1>1 DEF Ordered, Received, Before
  <2>3. ASSUME NEW w \in Workers
        PROVE  Before(handling[w], adding)' /\ Before(pool[w], adding)'
    BY <1>1 DEF Before
  <2> QED BY <2>1, <2>2, <2>3 DEF Ordered
<1>5. NoMessageLost' /\ HandledInOrder' /\ NoWorkerLeft'
  BY <1>1 DEF NoMessageLost, HandledInOrder, NoWorkerLeft
<1> QED BY <1>2, <1>3, <1>4, <1>5

\* A worker takes what is in its pool.
LEMMA TakesStep ==
  ASSUME IInv, NEW w \in Workers, WorkTakes(w)
  PROVE  IInv'
<1> USE DEF IInv, waiting, closing, receiver
<1>1. /\ worker[w] = "select" /\ pool[w] # <<>>
      /\ worker' = [worker EXCEPT ![w] = "handle"]
      /\ handling' = [handling EXCEPT ![w] = pool[w]] /\ pool' = [pool EXCEPT ![w] = <<>>]
      /\ UNCHANGED <<ctxDone, status, connectedCh, wait, rpc, received, adding, target,
                     decryptionWorker, started, quit, handled, close, conn, drained>>
  BY DEF WorkTakes
<1>2. /\ pool' \in [Workers -> Seq(Msgs)] /\ handling' \in [Workers -> Seq(Msgs)]
      /\ worker' \in [Workers -> WorkerAt]
      /\ pool'[w] = <<>> /\ handling'[w] = pool[w] /\ worker'[w] = "handle"
      /\ \A v \in Workers : v # w => /\ pool'[v] = pool[v] /\ handling'[v] = handling[v]
                                     /\ worker'[v] = worker[v]
  <2>1. <<>> \in Seq(Msgs)
    OBVIOUS
  <2> QED BY <1>1, <2>1 DEF Pools, TypeOK, WorkerAt
<1>3. handling[w] = <<>>
  BY <1>1 DEF LastRuns
<1>4. TypeOK' /\ Pools'
  <2>1. AtMostOne(adding)'
    BY <1>1 DEF TypeOK, AtMostOne
  <2>2. \A v \in Workers : AtMostOne(pool[v])' /\ AtMostOne(handling[v])'
    BY <1>1, <1>2 DEF TypeOK, AtMostOne
  <2> QED BY <1>1, <1>2, <2>1, <2>2 DEF TypeOK, Pools
<1>5. Starts'
  BY <1>1, <1>2 DEF Starts, Returned, TypeOK, Workers
<1>6. Holds'
  BY <1>1 DEF Holds
<1>7. LastRuns'
  BY <1>1, <1>2 DEF LastRuns, Workers
<1>8. Ordered'
  <2>1. Received(handled)' /\ Received(adding)' /\ Before(handled, adding)'
    BY <1>1 DEF Ordered, Received, Before
  <2>2. ASSUME NEW v \in Workers, v # w
        PROVE  /\ Received(handling[v])' /\ Received(pool[v])'
               /\ Before(handled, handling[v])'
               /\ worker'[v] # "done" => Before(handled, pool[v])'
               /\ Before(handling[v], pool[v])'
               /\ Before(handling[v], adding)' /\ Before(pool[v], adding)'
    BY <1>1, <1>2, <2>2 DEF Ordered, Received, Before
  <2>3. Received(handling[w])' /\ Before(handled, handling[w])' /\ Before(handling[w], adding)'
    BY <1>1, <1>2 DEF Ordered, Received, Before
  <2>4. /\ Received(pool[w])' /\ Before(handled, pool[w])' /\ Before(handling[w], pool[w])'
        /\ Before(pool[w], adding)'
    BY <1>2 DEF Received, Before
  <2> QED BY <2>1, <2>2, <2>3, <2>4 DEF Ordered
<1>9. NoMessageLost'
  <2> SUFFICES ASSUME ~ctxDone
               PROVE  handled \o handling'[1] \o pool'[1] \o adding = [i \in 1..received |-> i]
    BY <1>1 DEF NoMessageLost
  <2>1. w = 1 /\ started = 1
    BY <1>1 DEF Starts, Workers, LastRuns, TypeOK
  <2>2. /\ handled \in Seq(Msgs) /\ pool[1] \in Seq(Msgs) /\ handled \o pool[1] \in Seq(Msgs)
    BY <2>1, ConcatType DEF TypeOK, Pools
  <2>3. handled \o <<>> \o pool[1] \o adding = [i \in 1..received |-> i]
    BY <1>3, <2>1 DEF NoMessageLost
  <2>4. handled \o <<>> = handled /\ handled \o pool[1] \o <<>> = handled \o pool[1]
    BY <2>2, ConcatEmpty
  <2> QED BY <1>2, <2>1, <2>3, <2>4
<1>10. HandledInOrder'
  BY <1>1 DEF HandledInOrder
<1>11. NoWorkerLeft'
  BY <1>1, <1>2 DEF NoWorkerLeft, TypeOK, Workers
<1> QED BY <1>4, <1>5, <1>6, <1>7, <1>8, <1>9, <1>10, <1>11

\* The only worker that runs has the oldest message that is not handled.
LEMMA HandlesStep ==
  ASSUME IInv, NEW w \in Workers, WorkHandles(w)
  PROVE  IInv'
<1> USE DEF IInv, waiting, closing, receiver
<1>1. /\ worker[w] = "handle" /\ worker' = [worker EXCEPT ![w] = "select"]
      /\ handled' = handled \o handling[w] /\ handling' = [handling EXCEPT ![w] = <<>>]
      /\ UNCHANGED <<ctxDone, status, connectedCh, wait, rpc, received, adding, target,
                     decryptionWorker, started, quit, pool, close, conn, drained>>
  BY DEF WorkHandles
<1>2. /\ handling' \in [Workers -> Seq(Msgs)] /\ worker' \in [Workers -> WorkerAt]
      /\ handling'[w] = <<>> /\ worker'[w] = "select"
      /\ \A v \in Workers : v # w => handling'[v] = handling[v] /\ worker'[v] = worker[v]
  <2>1. <<>> \in Seq(Msgs)
    OBVIOUS
  <2> QED BY <1>1, <2>1 DEF Pools, TypeOK, WorkerAt
<1>3. /\ handled \in Seq(Msgs) /\ handling[w] \in Seq(Msgs) /\ AtMostOne(handling[w])
      /\ pool[w] \in Seq(Msgs) /\ adding \in Seq(Msgs) /\ handled' \in Seq(Msgs)
  BY <1>1, OneShape, ConcatType DEF TypeOK, Pools
<1>4. w = started
  BY <1>1 DEF LastRuns, Workers, TypeOK
<1>5. \A v \in Workers : v # w => handling[v] = <<>> /\ (worker[v] # "done" => pool[v] = <<>>)
  BY <1>4 DEF LastRuns, Workers
<1>6. TypeOK' /\ Pools'
  <2>1. AtMostOne(adding)'
    BY <1>1 DEF TypeOK, AtMostOne
  <2>2. \A v \in Workers : AtMostOne(pool[v])' /\ AtMostOne(handling[v])'
    BY <1>1, <1>2 DEF TypeOK, AtMostOne
  <2> QED BY <1>1, <1>2, <1>3, <2>1, <2>2 DEF TypeOK, Pools
<1>7. Starts'
  BY <1>1, <1>2 DEF Starts, Returned, TypeOK, Workers
<1>8. Holds' /\ LastRuns'
  BY <1>1, <1>2 DEF Holds, LastRuns, Workers
<1>9. Ordered'
  <2>1. Before(handled', adding) /\ Before(handled', pool[w])
    <3>1. /\ Before(handled, adding) /\ Before(handling[w], adding)
          /\ Before(handled, pool[w]) /\ Before(handling[w], pool[w])
      BY <1>1 DEF Ordered
    <3> QED BY <1>1, <1>3, <3>1, BeforeAppend
  <2>2. Received(handled)'
    <3>1. /\ \A i \in 1..Len(handled) : handled[i] <= received
          /\ \A i \in 1..Len(handling[w]) : handling[w][i] <= received
      BY DEF Ordered, Received
    <3> QED BY <1>1, <1>3, <3>1 DEF Received
  <2>3. Received(adding)' /\ Before(handled, adding)'
    BY <1>1, <2>1 DEF Ordered, Received, Before
  <2>4. ASSUME NEW v \in Workers
        PROVE  Received(pool[v])' /\ Before(pool[v], adding)' 
    BY <1>1 DEF Ordered, Received, Before
  <2>5. ASSUME NEW v \in Workers
        PROVE  /\ Received(handling[v])' /\ Before(handled, handling[v])'
               /\ Before(handling[v], pool[v])' /\ Before(handling[v], adding)'
    <3>1. handling'[v] = <<>>
      BY <1>2, <1>5
    <3> QED BY <3>1 DEF Received, Before
  <2>6. ASSUME NEW v \in Workers, worker'[v] # "done"
        PROVE  Before(handled, pool[v])'
    <3>1. CASE v = w
      BY <1>1, <2>1, <3>1 DEF Before
    <3>2. CASE v # w
      <4>1. pool'[v] = <<>>
        BY <1>1, <1>2, <1>5, <2>6, <3>2
      <4> QED BY <4>1 DEF Before
    <3> QED BY <3>1, <3>2
  <2> QED BY <2>2, <2>3, <2>4, <2>5, <2>6 DEF Ordered
<1>10. NoMessageLost'
  <2> SUFFICES ASSUME ~ctxDone
               PROVE  handled' \o handling'[1] \o pool[1] \o adding = [i \in 1..received |-> i]
    BY <1>1 DEF NoMessageLost
  <2>1. w = 1
    BY <1>4 DEF Starts, Workers, TypeOK
  <2>2. handled' \o <<>> = handled'
    BY <1>3, ConcatEmpty
  <2> QED BY <1>1, <1>2, <2>1, <2>2 DEF NoMessageLost
<1>11. HandledInOrder'
  <2>1. Ascending(handled) /\ Before(handled, handling[w])
    BY DEF HandledInOrder, Ascending, Ordered
  <2>2. Ascending(handled')
    BY <1>1, <1>3, <2>1, AscendingAppend
  <2> QED BY <2>2 DEF HandledInOrder, Ascending
<1>12. NoWorkerLeft'
  BY <1>1, <1>2 DEF NoWorkerLeft, TypeOK, Workers
<1> QED BY <1>6, <1>7, <1>8, <1>9, <1>10, <1>11, <1>12

\* A worker ends, perhaps with a message in its pool.
LEMMA EndsStep ==
  ASSUME IInv, NEW w \in Workers, WorkEnds(w)
  PROVE  IInv'
<1> USE DEF IInv, waiting, closing, receiver
<1>1. /\ worker[w] = "select" /\ worker' = [worker EXCEPT ![w] = "done"]
      /\ UNCHANGED <<ctxDone, status, connectedCh, wait, rpc, received, adding, target,
                     decryptionWorker, started, quit, pool, handling, handled, close, conn, drained>>
  BY DEF WorkEnds
<1>2. /\ worker' \in [Workers -> WorkerAt] /\ worker'[w] = "done"
      /\ \A v \in Workers : v # w => worker'[v] = worker[v]
  BY <1>1 DEF TypeOK, WorkerAt
<1>3. TypeOK' /\ Pools'
  <2>1. AtMostOne(adding)' /\ \A v \in Workers : AtMostOne(pool[v])' /\ AtMostOne(handling[v])'
    BY <1>1 DEF TypeOK, AtMostOne
  <2> QED BY <1>1, <1>2, <2>1 DEF TypeOK, Pools
<1>4. Starts'
  BY <1>1, <1>2 DEF Starts, Returned, TypeOK, Workers
<1>5. Holds' /\ LastRuns'
  BY <1>1, <1>2 DEF Holds, LastRuns, Workers
<1>6. Ordered'
  <2>1. \A v \in Workers : worker'[v] # "done" => worker[v] # "done"
    BY <1>2
  <2> QED BY <1>1, <2>1 DEF Ordered, Received, Before
<1>7. NoMessageLost' /\ HandledInOrder'
  BY <1>1 DEF NoMessageLost, HandledInOrder
<1>8. NoWorkerLeft'
  BY <1>1, <1>2 DEF NoWorkerLeft, TypeOK, Workers
<1> QED BY <1>3, <1>4, <1>5, <1>6, <1>7, <1>8

\* Close remembers whether Receive had returned.
LEMMA DrainedBoolean ==
  ASSUME CloseCancels
  PROVE  drained' \in BOOLEAN
BY SMT DEF CloseCancels, Returned

\* Close.
LEMMA CloseStep ==
  ASSUME IInv, CloseCancels \/ CloseReturns
  PROVE  IInv'
<1> USE DEF IInv, waiting, closing, receiver
<1>1. /\ UNCHANGED <<ctxDone, status, connectedCh, wait, rpc, received, adding, target, started,
                     worker, pool, handling, handled>>
      /\ ctxDone \/ close # "no"
  BY DEF CloseCancels, CloseReturns
<1>2. ctxDone
  BY <1>1 DEF Starts
<1>3. /\ close' \in CloseAt /\ drained' \in BOOLEAN /\ conn' \in BOOLEAN
      /\ decryptionWorker' \in 0..started /\ quit' \subseteq Workers
  <2>1. CASE CloseCancels
    <3>1. close' = "waitWorkers" /\ conn' = conn /\ decryptionWorker' = decryptionWorker
      BY <2>1 DEF CloseCancels
    <3>2. quit' = quit \/ (quit' = quit \cup {started} /\ started # 0)
      <4>1. quit' = IF started = 0 THEN quit ELSE quit \cup {started}
        BY <2>1 DEF CloseCancels
      <4> QED BY <4>1
    <3>3. drained' \in BOOLEAN
      BY <2>1, DrainedBoolean
    <3>4. quit' \subseteq Workers
      <4>1. started # 0 => started \in Workers
        BY DEF TypeOK, Workers
      <4>2. quit \subseteq Workers
        BY DEF TypeOK
      <4> QED BY <3>2, <4>1, <4>2
    <3>5. close' \in CloseAt /\ conn' \in BOOLEAN /\ decryptionWorker' \in 0..started
      BY <3>1 DEF TypeOK, CloseAt
    <3> QED BY <3>3, <3>4, <3>5
  <2>2. CASE CloseReturns
    <3>1. close' = "closed" /\ decryptionWorker' = 0 /\ UNCHANGED <<quit, drained>>
      BY <2>2 DEF CloseReturns
    <3>2. conn' \in BOOLEAN
      BY <2>2, Zenon DEF CloseReturns
    <3>3. 0 \in 0..started
      BY DEF TypeOK
    <3> QED BY <3>1, <3>2, <3>3 DEF TypeOK, CloseAt
  <2> QED BY <2>1, <2>2
<1>4. TypeOK' /\ Pools'
  <2>1. AtMostOne(adding)' /\ \A v \in Workers : AtMostOne(pool[v])' /\ AtMostOne(handling[v])'
    BY <1>1 DEF TypeOK, AtMostOne
  <2> QED BY <1>1, <1>3, <2>1 DEF TypeOK, Pools
<1>5. Starts' /\ NoWorkerLeft'
  <2>1. CASE CloseCancels
    <3>1. /\ close = "no" /\ close' = "waitWorkers" /\ conn' = conn
          /\ decryptionWorker' = decryptionWorker /\ (drained' => Returned)
      BY <2>1 DEF CloseCancels
    <3> QED BY <1>1, <1>2, <3>1 DEF Starts, Returned, NoWorkerLeft
  <2>2. CASE CloseReturns
    BY <1>1, <1>2, <2>2 DEF CloseReturns, Starts, Returned, NoWorkerLeft
  <2> QED BY <2>1, <2>2
<1>6. Holds' /\ LastRuns'
  BY <1>1 DEF Holds, LastRuns
<1>7. Ordered'
  BY <1>1 DEF Ordered, Received, Before
<1>8. NoMessageLost' /\ HandledInOrder'
  BY <1>1, <1>2 DEF NoMessageLost, HandledInOrder
<1> QED BY <1>4, <1>5, <1>6, <1>7, <1>8

-----------------------------------------------------------------------------
(* The theorems.                                                           *)

\* The client starts with nothing received and no worker.
LEMMA InitIInv == Init => IInv
<1> SUFFICES ASSUME Init PROVE IInv
  OBVIOUS
<1> USE DEF Init
<1>1. TypeOK /\ Pools
  <2>1. <<>> \in Seq(Msgs)
    OBVIOUS
  <2>2. AtMostOne(adding) /\ \A w \in Workers : AtMostOne(pool[w]) /\ AtMostOne(handling[w])
    BY DEF AtMostOne
  <2>3. /\ pool \in [Workers -> Seq(Msgs)] /\ handling \in [Workers -> Seq(Msgs)]
        /\ worker \in [Workers -> WorkerAt] /\ handled \in Seq(Msgs)
    BY <2>1 DEF WorkerAt
  <2>4. ctxDone \in BOOLEAN /\ conn \in BOOLEAN /\ drained \in BOOLEAN
    BY Zenon
  <2>5. received \in 0..MaxMsgs /\ target \in 0..2 /\ started \in 0..2
    BY MaxMsgsAssumption
  <2>6. wait \in [Waiters -> {"call", "checked", "wait", "returned"}]
    OBVIOUS
  <2> QED BY <2>2, <2>3, <2>4, <2>5, <2>6 DEF TypeOK, Pools, RpcAt, CloseAt
<1>2. Starts /\ Holds /\ LastRuns
  BY DEF Starts, Holds, LastRuns, Workers, Returned
<1>3. Ordered /\ HandledInOrder
  BY DEF Ordered, Received, Before, HandledInOrder
<1>4. NoMessageLost
  BY DEF NoMessageLost, Workers
<1>5. NoWorkerLeft
  BY DEF NoWorkerLeft
<1> QED BY <1>1, <1>2, <1>3, <1>4, <1>5 DEF IInv

\* Every step of the client keeps the inductive invariant.
LEMMA NextIInv == IInv /\ [Next]_vars => IInv'
<1> SUFFICES ASSUME IInv, [Next]_vars PROVE IInv'
  OBVIOUS
<1>1. CASE ReceiveSteps \/ ServerSteps
  BY <1>1, QuietReceiveStep, StartStep, RecvStep, CallStep, AddMsgStep, AddMsgCancelledStep
     DEF ReceiveSteps, ServerSteps, QuietReceive
<1>2. CASE Cancel
  BY <1>2, CancelStep
<1>3. CASE \E w \in Waiters : WaitSteps(w)
  BY <1>3, WaitStep
<1>4. CASE \E w \in Workers : WorkerSteps(w) \/ WorkHandles(w)
  BY <1>4, TakesStep, EndsStep, HandlesStep DEF WorkerSteps
<1>5. CASE CloseCancels \/ CloseReturns
  BY <1>5, CloseStep
<1>6. CASE UNCHANGED vars
  <2>1. UNCHANGED <<received, adding, target, working, closing, ctxDone, status, connectedCh,
                    wait, rpc>>
    BY <1>6 DEF vars, waiting, receiver
  <2>2. /\ ctxDone' \in BOOLEAN /\ rpc' \in RpcAt
        /\ status' \in {"Connected", "Disconnected"} /\ connectedCh' \subseteq Waiters
        /\ wait' \in [Waiters -> {"call", "checked", "wait", "returned"}]
    BY <2>1 DEF IInv, TypeOK
  <2> QED BY <2>1, <2>2, QuietStep
<1> QED BY <1>1, <1>2, <1>3, <1>4, <1>5, <1>6 DEF Next

\* The inductive invariant holds in every state.
LEMMA Invariance == Spec => []IInv
BY InitIInv, NextIInv, PTL DEF Spec

\* At most two workers are ever started, no pool holds more than one message,
\* and every variable keeps its type.
THEOREM TypeCorrect == Spec => []TypeOK
<1>1. IInv => TypeOK
  BY DEF IInv
<1> QED BY <1>1, Invariance, PTL

\* While the context is live no message is lost, handled twice or overtaken
\* on its way from Recv through AddMsg and the pool to the handler.
THEOREM NoMessageLostAlways == Spec => []NoMessageLost
<1>1. IInv => NoMessageLost
  BY DEF IInv
<1> QED BY <1>1, Invariance, PTL

\* Messages are handled in the order received and none twice, also during the
\* shutdown and by a second worker.
THEOREM HandledInOrderAlways == Spec => []HandledInOrder
<1>1. IInv => HandledInOrder
  BY DEF IInv
<1> QED BY <1>1, Invariance, PTL

\* Close that was called after Receive returned leaves no worker running.
THEOREM NoWorkerLeftAlways == Spec => []NoWorkerLeft
<1>1. IInv => NoWorkerLeft
  BY DEF IInv
<1> QED BY <1>1, Invariance, PTL
=============================================================================
