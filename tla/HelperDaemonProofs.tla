-------------------------- MODULE HelperDaemonProofs --------------------------
(***************************************************************************)
(* DemoMeansFailure and FilesFollowMap of the helper daemon, and that it   *)
(* implements Documents, for any number of network maps, faults and        *)
(* restarts.  The argument turns on the order of the maps: those in the    *)
(* queue are the newest ones, without a gap, and newer than what is being  *)
(* written, which is no older than what the files have held.               *)
(***************************************************************************)
EXTENDS HelperDaemon, TLAPS

Messages == Maps \cup {NoMap, Garbage}

\* What is to be written and what was sent are lists of these.
Seqs ==
  /\ todo \in Seq(Files \X Docs)
  /\ queue \in Seq(Messages)

Entries == 1..Len(todo)
Sent    == 1..Len(queue)

\* Map n was sent on the stream and is not received yet.
Pending(n) == \E i \in Sent : queue[i] = n

\* Who has something to write, and how far the first document is.
Busy ==
  /\ todo # <<>> => pc \in {"recv", "stub"}
  /\ queue # <<>> => pc = "recv"
  /\ w # "start" => todo # <<>>
  /\ w = "written" => tmp[todo[1][1]] = todo[1][2]
  /\ \A i, j \in Entries : i # j => todo[i][1] # todo[j][1]
  /\ pc = "recv" => \A i \in Entries : todo[i][2] \in Maps
  /\ pc = "stub" => \A i \in Entries : todo[i][2] = Demo

\* Where demo data may come from.
DemoWhere ==
  /\ pc = "stub" /\ (key # NoKey \/ todo # <<>>) => fellBack
  /\ DemoMeansFailure

\* A file that a reader has open exists.
Readable == fp = Linked => file["peers"] # NoDoc

\* The queue holds the newest maps, in order and without a gap; what is being
\* written is older.
InOrder ==
  /\ \A i, j \in Sent : i < j /\ queue[i] \in Maps /\ queue[j] \in Maps => queue[i] < queue[j]
  /\ \A i \in Sent : queue[i] \in Maps =>
       /\ first <= queue[i] /\ queue[i] <= top
       /\ \A n \in Maps : queue[i] <= n /\ n <= top => Pending(n)
  /\ \A i \in Sent, k \in Entries :
       queue[i] \in Maps /\ todo[k][2] \in Maps => todo[k][2] < queue[i]
  /\ \A k \in Entries : todo[k][2] \in Maps => todo[k][2] <= top
  /\ pc = "recv" => first <= top

\* What comes is no older than what a file has held.
NoneOlder ==
  /\ \A f \in Files : newest[f] <= top
  /\ \A f \in Files, i \in Sent : queue[i] \in Maps => newest[f] <= queue[i]
  /\ \A k \in Entries : todo[k][2] \in Maps => newest[todo[k][1]] <= todo[k][2]

\* The maps of the stream, received so far, with a list for file f.
Lists(f) == {n \in first..top : f \in shape[n] /\ ~Pending(n)}

\* Document v is the last of these lists, or what the file held before.
IsLast(f, v) ==
  /\ Lists(f) = {} => v = base[f]
  /\ Lists(f) # {} => v \in Lists(f) /\ \A m \in Lists(f) : m <= v

\* File f is about to hold document v, or holds it and none is to be written.
Coming(f, v) ==
  \/ \E k \in Entries : todo[k][1] = f /\ todo[k][2] = v
  \/ v = file[f] /\ \A k \in Entries : todo[k][1] # f

\* Each file follows the stream, unless a write or a message of it failed.
Follows ==
  pc = "recv" /\ ~dirty =>
    \A f \in Files, v \in Docs \cup {NoDoc} : Coming(f, v) => IsLast(f, v)

IInv ==
  /\ TypeOK
  /\ Seqs
  /\ Busy
  /\ DemoWhere
  /\ Readable
  /\ InOrder
  /\ NoneOlder
  /\ Follows

Pcs == {"off", "load", "run", "dial", "serverKey", "login", "sync", "recv", "ended", "stub"}

-----------------------------------------------------------------------------
(* Steps that leave nothing to write and nothing to receive.               *)

\* The elements of a list.
LEMMA SeqMembers ==
  ASSUME NEW S, NEW s \in Seq(S)
  PROVE  DOMAIN s = 1..Len(s) /\ \A i \in DOMAIN s : s[i] \in S
OBVIOUS

\* An empty list has no elements.
LEMMA EmptySeq ==
  ASSUME NEW s, s = <<>>
  PROVE  Len(s) = 0 /\ 1..Len(s) = {} /\ \A S : s \in Seq(S)
OBVIOUS

\* The Management Service has a first map.
LEMMA FirstMap == 1 \in Maps
BY BoundsAssumption DEF Maps

\* Nothing is said about the files while nothing is written or received.
LEMMA NothingToDo ==
  ASSUME todo' = <<>>, queue' = <<>>, w' = "start", pc' # "recv"
  PROVE  /\ Seqs' /\ Follows'
         /\ Entries' = {} /\ Sent' = {}
         /\ Busy' /\ InOrder'
<1>1. Entries' = {} /\ Sent' = {}
  BY DEF Entries, Sent
<1>2. Seqs' /\ Follows'
  BY DEF Seqs, Follows
<1>3. Busy'
  BY <1>1 DEF Busy
<1>4. InOrder'
  BY <1>1 DEF InOrder
<1> QED BY <1>1, <1>2, <1>3, <1>4

\* A step to a place where there is no stream: what it needs to know of the
\* stub mode is whether a helper with a key has failed.
LEMMA CalmStep ==
  ASSUME IInv,
         todo' = <<>>, queue' = <<>>, w' = "start",
         pc' \in Pcs \ {"recv"}, key' \in {NoKey, "short", "full"},
         pc' = "stub" => key' = NoKey \/ fellBack', fellBack => fellBack',
         config' = config, saver' = saver, starts' \in 0..MaxStarts,
         fellBack' \in BOOLEAN, dirty' \in BOOLEAN, first' \in Maps,
         base' \in [Files -> Docs \cup {NoDoc}],
         UNCHANGED <<file, tmp, top, shape, fp, faults, newest>>
  PROVE  IInv'
<1>1. Seqs' /\ Follows' /\ Entries' = {} /\ Sent' = {} /\ Busy' /\ InOrder'
  BY NothingToDo DEF Pcs
<1>2. TypeOK'
  <2>1. Len(todo') <= 2
    <3>1. Len(todo') = 0
      BY EmptySeq
    <3> QED BY <3>1
  <2>2. /\ \A i \in DOMAIN todo' : todo'[i] \in Files \X Docs
        /\ \A i \in DOMAIN queue' : queue'[i] \in Maps \cup {NoMap, Garbage}
    BY <1>1, SeqMembers DEF Seqs, Messages
  <2> QED BY <2>1, <2>2 DEF IInv, TypeOK, Pcs
<1>3. DemoWhere'
  BY DEF IInv, DemoWhere, DemoMeansFailure
<1>4. Readable' /\ NoneOlder'
  BY <1>1 DEF IInv, Readable, NoneOlder
<1> QED BY <1>1, <1>2, <1>3, <1>4 DEF IInv

\* Before the stream is open, and after it has ended, there is nothing to do.
LEMMA Resting ==
  ASSUME IInv, pc \notin {"recv", "stub"}
  PROVE  todo = <<>> /\ queue = <<>> /\ w = "start"
BY DEF IInv, Busy

\* A step that only moves on.
LEMMA MovesStep ==
  ASSUME IInv, NEW from \in Pcs, NEW to \in Pcs \ {"recv"}, Moves(from, to),
         from # "stub", from = "recv" => todo = <<>> /\ queue = <<>>,
         to = "stub" => key = NoKey
  PROVE  IInv'
<1>1. /\ pc = from /\ pc' = to
      /\ UNCHANGED <<config, saver, key, todo, w, file, tmp, top, shape, queue, fp, faults, starts,
                     fellBack, dirty, first, base, newest>>
  BY DEF Moves, cfg, server, history
<1>2. todo = <<>> /\ queue = <<>> /\ w = "start"
  BY <1>1, Resting DEF IInv, Busy
<1>3. TypeOK
  BY DEF IInv
<1> QED BY <1>1, <1>2, <1>3, CalmStep DEF TypeOK

\* A helper with a key falls back to the stub mode.
LEMMA FallBackStep ==
  ASSUME IInv, NEW from \in Pcs \ {"stub"}, FallBack(from), todo = <<>>
  PROVE  IInv'
<1>1. /\ pc' = "stub" /\ fellBack' = TRUE /\ queue' = <<>> /\ dirty' = FALSE /\ first' = 1
      /\ base' = [f \in Files |-> NoDoc]
      /\ UNCHANGED <<config, saver, key, todo, w, file, tmp, top, shape, fp, faults, starts, newest>>
  BY DEF FallBack, ForgetStream, cfg, server
<1>2. w = "start"
  BY DEF IInv, Busy
<1>3. first' \in Maps /\ base' \in [Files -> Docs \cup {NoDoc}]
  BY <1>1, FirstMap
<1>4. TypeOK
  BY DEF IInv
<1> QED BY <1>1, <1>2, <1>3, <1>4, CalmStep DEF TypeOK, Pcs

\* The helper is started, or reads its configuration.
LEMMA StartStep ==
  ASSUME IInv, Start \/ LoadConfig
  PROVE  IInv'
<1>1. /\ pc \in {"off", "load"} /\ pc' \in {"load", "run"} /\ key' \in {NoKey, "short", "full"}
      /\ starts' \in 0..MaxStarts
      /\ UNCHANGED <<config, saver, todo, w, file, tmp, top, shape, queue, fp, faults,
                     fellBack, dirty, first, base, newest>>
  <2>0. key \in {NoKey, "short", "full"} /\ starts \in 0..MaxStarts
    BY DEF IInv, TypeOK
  <2>1. CASE Start
    <3>1. starts' \in 0..MaxStarts
      <4>1. starts < MaxStarts /\ starts' = starts + 1
        BY <2>1 DEF Start
      <4> QED BY <2>0, <4>1, BoundsAssumption
    <3> QED BY <2>0, <2>1, <3>1 DEF Start, cfg, server, history
  <2>2. CASE LoadConfig
    BY <2>0, <2>2 DEF LoadConfig, cfg, server, history
  <2> QED BY <2>1, <2>2
<1>2. todo = <<>> /\ queue = <<>> /\ w = "start"
  BY <1>1, Resting
<1>3. TypeOK
  BY DEF IInv
<1> QED BY <1>1, <1>2, <1>3, CalmStep DEF TypeOK, Pcs

\* The helper is killed.
LEMMA KillStep ==
  ASSUME IInv, Kill
  PROVE  IInv'
<1>1. /\ pc' = "off" /\ todo' = <<>> /\ w' = "start" /\ key' = NoKey /\ queue' = <<>>
      /\ dirty' = FALSE /\ first' = 1 /\ base' = [f \in Files |-> NoDoc]
      /\ UNCHANGED <<config, saver, file, tmp, top, shape, fp, faults, starts, fellBack, newest>>
  BY DEF Kill, ForgetStream, cfg, server
<1>2. first' \in Maps /\ base' \in [Files -> Docs \cup {NoDoc}]
  BY <1>1, FirstMap
<1>3. TypeOK
  BY DEF IInv
<1> QED BY <1>1, <1>2, <1>3, CalmStep DEF TypeOK, Pcs

-----------------------------------------------------------------------------
(* Steps of the C client.                                                  *)

\* A step that only opens or closes a file, or writes config.json.
LEMMA AsideStep ==
  ASSUME IInv, config' \in Configs, saver' \in BOOLEAN, faults' \in 0..MaxFaults,
         fp' \in Docs \cup {Closed, Linked}, fp' = Linked => file["peers"] # NoDoc,
         UNCHANGED <<pc, key, todo, w, file, tmp, top, shape, queue, starts, fellBack, dirty, first,
                     base, newest>>
  PROVE  IInv'
<1>1. TypeOK'
  BY DEF IInv, TypeOK
<1>2. Seqs' /\ Busy' /\ DemoWhere'
  BY DEF IInv, Seqs, Busy, DemoWhere, DemoMeansFailure, Entries, Sent
<1>3. Readable'
  BY DEF Readable
<1>4. InOrder' /\ NoneOlder'
  BY DEF IInv, InOrder, NoneOlder, Pending, Entries, Sent
<1>5. Follows'
  <2>1. \A f : Lists(f)' = Lists(f)
    BY DEF Lists, Pending, Sent
  <2> QED BY <2>1 DEF IInv, Follows, Coming, IsLast, Entries
<1> QED BY <1>1, <1>2, <1>3, <1>4, <1>5 DEF IInv

\* Loading peers.json and saving config.json.
LEMMA ClientStep ==
  ASSUME IInv, LoadOpens \/ LoadReads \/ SaveOpens \/ SaveWrites \/ SaveKilled
  PROVE  IInv'
<1>0. TypeOK /\ Readable
  BY DEF IInv
<1>1. CASE LoadOpens
  BY <1>0, <1>1, AsideStep DEF LoadOpens, TypeOK, cfg, server, history
<1>2. CASE LoadReads
  BY <1>0, <1>2, DocsAssumption, AsideStep DEF LoadReads, TypeOK, cfg, server, history
<1>3. CASE SaveOpens
  <2>1. faults' \in 0..MaxFaults
    <3>1. faults \in 0..MaxFaults
      BY <1>0 DEF TypeOK
    <3> QED BY <1>3, <3>1, BoundsAssumption DEF SaveOpens
  <2> QED BY <1>0, <1>3, <2>1, AsideStep DEF SaveOpens, TypeOK, Readable, Configs, server, history
<1>4. CASE SaveWrites \/ SaveKilled
  BY <1>0, <1>4, AsideStep DEF SaveWrites, SaveKilled, TypeOK, Readable, Configs, server, history
<1> QED BY <1>1, <1>2, <1>3, <1>4

-----------------------------------------------------------------------------
(* The stream.                                                             *)

\* A map is a number.
LEMMA MapsAreNumbers ==
  /\ Maps \subseteq Int /\ NoMap \notin Maps /\ Garbage \notin Maps
  /\ \A n \in Int : n \in Maps <=> 1 <= n /\ n <= MaxMaps
BY BoundsAssumption DEF Maps, NoMap, Garbage

\* What lies between two maps is a map.
LEMMA MapsBetween ==
  ASSUME NEW a \in Maps, NEW b \in Maps
  PROVE  \A n \in a..b : n \in Maps
BY BoundsAssumption DEF Maps

\* A message is sent after the others.
LEMMA AppendFacts ==
  ASSUME queue \in Seq(Messages), NEW x \in Messages, queue' = Append(queue, x)
  PROVE  /\ queue' \in Seq(Messages)
         /\ Len(queue) \in Nat
         /\ Sent' = Sent \cup {Len(queue) + 1}
         /\ \A i \in Sent : i \in Int /\ i < Len(queue) + 1 /\ queue'[i] = queue[i]
         /\ queue'[Len(queue) + 1] = x
         /\ \A n : Pending(n)' <=> Pending(n) \/ n = x
<1>1. /\ queue' \in Seq(Messages) /\ Len(queue) \in Nat /\ Len(queue') = Len(queue) + 1
      /\ \A i \in 1..Len(queue) : queue'[i] = queue[i]
      /\ queue'[Len(queue) + 1] = x
  OBVIOUS
<1>2. Sent' = Sent \cup {Len(queue) + 1}
  BY <1>1 DEF Sent
<1>3. \A i \in Sent : i \in Int /\ i < Len(queue) + 1 /\ queue'[i] = queue[i]
  BY <1>1 DEF Sent
<1>4. \A n : Pending(n)' <=> Pending(n) \/ n = x
  BY <1>1, <1>2, <1>3 DEF Pending
<1> QED BY <1>1, <1>2, <1>3, <1>4

\* The first message is received.
LEMMA TailFacts ==
  ASSUME queue \in Seq(Messages), queue # <<>>, queue' = Tail(queue)
  PROVE  /\ queue' \in Seq(Messages)
         /\ 1 \in Sent /\ queue[1] = Head(queue) /\ Head(queue) \in Messages
         /\ \A i \in Sent' : i \in Int /\ 1 <= i /\ i + 1 \in Sent /\ queue'[i] = queue[i + 1]
         /\ \A n : Pending(n) <=> Pending(n)' \/ n = Head(queue)
<1>1. /\ queue' \in Seq(Messages) /\ Len(queue) \in Nat /\ Len(queue) >= 1
      /\ Len(queue') = Len(queue) - 1 /\ queue[1] = Head(queue) /\ Head(queue) \in Messages
      /\ \A i \in 1..Len(queue') : queue'[i] = queue[i + 1]
  OBVIOUS
<1>2. 1 \in Sent
  BY <1>1 DEF Sent
<1>3. \A i \in Sent' : i \in Int /\ 1 <= i /\ i + 1 \in Sent /\ queue'[i] = queue[i + 1]
  BY <1>1 DEF Sent
<1>4. ASSUME NEW n PROVE Pending(n) <=> Pending(n)' \/ n = Head(queue)
  <2>1. Pending(n)' \/ n = Head(queue) => Pending(n)
    BY <1>1, <1>2, <1>3 DEF Pending
  <2>2. ASSUME Pending(n), n # Head(queue) PROVE Pending(n)'
    <3>1. PICK i \in Sent : queue[i] = n
      BY <2>2 DEF Pending
    <3>2. i \in Int /\ 1 < i /\ i <= Len(queue)
      BY <1>1, <2>2, <3>1 DEF Sent
    <3>3. i - 1 \in Sent' /\ (i - 1) + 1 = i
      BY <1>1, <3>2 DEF Sent
    <3>4. queue'[i - 1] = n
      BY <1>3, <3>1, <3>3
    <3> QED BY <3>3, <3>4 DEF Pending
  <2> QED BY <2>1, <2>2
<1> QED BY <1>1, <1>2, <1>3, <1>4

\* Both lists of a map are written, the peers first, unless they are empty.
LEMMA ProcessedFacts ==
  ASSUME NEW n \in Maps, shape[n] \subseteq Files
  PROVE  /\ processed(n) \in Seq(Files \X Docs) /\ Len(processed(n)) <= 2
         /\ \A k \in 1..Len(processed(n)) : processed(n)[k][2] = n /\ processed(n)[k][1] \in shape[n]
         /\ \A j, k \in 1..Len(processed(n)) : j # k => processed(n)[j][1] # processed(n)[k][1]
         /\ \A f \in shape[n] : \E k \in 1..Len(processed(n)) : processed(n)[k][1] = f
<1> DEFINE P == <<"peers", n>>
           R == <<"routes", n>>
<1>1. /\ P \in Files \X Docs /\ R \in Files \X Docs
      /\ P[1] = "peers" /\ P[2] = n /\ R[1] = "routes" /\ R[2] = n
  BY DEF Files, Docs
<1>2. shape[n] \subseteq {"peers", "routes"} /\ "peers" # "routes"
  BY DEF Files
<1> HIDE DEF P, R
<1>3. CASE "peers" \in shape[n] /\ "routes" \in shape[n]
  <2>1. processed(n) = <<P>> \o <<R>>
    BY <1>3 DEF processed, P, R
  <2>2. /\ processed(n) \in Seq(Files \X Docs) /\ Len(processed(n)) = 2
        /\ processed(n)[1] = P /\ processed(n)[2] = R
    BY <1>1, <2>1
  <2> QED BY <1>1, <1>2, <1>3, <2>2
<1>4. CASE "peers" \in shape[n] /\ "routes" \notin shape[n]
  <2>1. processed(n) = <<P>> \o <<>>
    BY <1>4 DEF processed, P
  <2>2. processed(n) \in Seq(Files \X Docs) /\ Len(processed(n)) = 1 /\ processed(n)[1] = P
    BY <1>1, <2>1
  <2> QED BY <1>1, <1>2, <1>4, <2>2
<1>5. CASE "peers" \notin shape[n] /\ "routes" \in shape[n]
  <2>1. processed(n) = <<>> \o <<R>>
    BY <1>5 DEF processed, R
  <2>2. processed(n) \in Seq(Files \X Docs) /\ Len(processed(n)) = 1 /\ processed(n)[1] = R
    BY <1>1, <2>1
  <2> QED BY <1>1, <1>2, <1>5, <2>2
<1>6. CASE "peers" \notin shape[n] /\ "routes" \notin shape[n]
  <2>1. processed(n) = <<>> \o <<>>
    BY <1>6 DEF processed
  <2>2. processed(n) \in Seq(Files \X Docs) /\ Len(processed(n)) = 0
    BY <2>1
  <2> QED BY <1>2, <1>6, <2>2
<1> QED BY <1>3, <1>4, <1>5, <1>6

\* A message arrives on the stream: the next map, or nothing of use.
LEMMA SendsStep ==
  ASSUME IInv, pc = "recv", NEW x \in Messages, queue' = Append(queue, x),
         IF x \in Maps THEN x = top + 1 /\ top' = x ELSE top' = top,
         shape' \in [Maps -> SUBSET Files], \A n \in Maps : n <= top => shape'[n] = shape[n],
         faults' \in 0..MaxFaults,
         UNCHANGED <<config, saver, pc, key, todo, w, file, tmp, fp, starts, fellBack, dirty, first,
                     base, newest>>
  PROVE  IInv'
<1>0. TypeOK /\ Seqs /\ top \in Maps /\ first \in Maps /\ first <= top
  BY DEF IInv, TypeOK, InOrder
<1>1. /\ queue' \in Seq(Messages)
      /\ Sent' = Sent \cup {Len(queue) + 1}
      /\ \A i \in Sent : i \in Int /\ i < Len(queue) + 1 /\ queue'[i] = queue[i]
      /\ queue'[Len(queue) + 1] = x
      /\ \A n : Pending(n)' <=> Pending(n) \/ n = x
  BY <1>0, AppendFacts DEF Seqs
<1>2. top' \in Maps /\ Maps \subseteq Int /\ top <= top' /\ (x \in Maps => top < x)
  BY <1>0, MapsAreNumbers
<1>3. Seqs'
  BY <1>0, <1>1 DEF Seqs
<1>4. TypeOK'
  <2>1. \A i \in DOMAIN queue' : queue'[i] \in Maps \cup {NoMap, Garbage}
    BY <1>1, SeqMembers DEF Messages
  <2> QED BY <1>0, <1>2, <2>1 DEF TypeOK
<1>5. Busy' /\ DemoWhere' /\ Readable'
  BY DEF IInv, Busy, DemoWhere, DemoMeansFailure, Readable, Entries
<1>6. InOrder'
  <2>1. /\ \A i, j \in Sent : i < j /\ queue[i] \in Maps /\ queue[j] \in Maps => queue[i] < queue[j]
        /\ \A i \in Sent : queue[i] \in Maps => first <= queue[i] /\ queue[i] <= top
        /\ \A i \in Sent : queue[i] \in Maps =>
             \A n \in Maps : queue[i] <= n /\ n <= top => Pending(n)
        /\ \A i \in Sent, k \in Entries :
             queue[i] \in Maps /\ todo[k][2] \in Maps => todo[k][2] < queue[i]
        /\ \A k \in Entries : todo[k][2] \in Maps => todo[k][2] <= top
    BY DEF IInv, InOrder
  <2>2. ASSUME NEW i \in Sent', NEW j \in Sent', i < j, queue'[i] \in Maps, queue'[j] \in Maps
        PROVE  queue'[i] < queue'[j]
    <3>1. i \in Sent
      BY <1>1, <2>2
    <3>2. CASE j \in Sent
      BY <1>1, <2>1, <2>2, <3>1, <3>2
    <3>3. CASE j = Len(queue) + 1
      <4>1. queue'[j] = x /\ queue'[i] = queue[i] /\ queue[i] <= top
        BY <1>1, <2>1, <2>2, <3>1, <3>3
      <4> QED BY <1>0, <1>2, <2>2, <4>1
    <3> QED BY <1>1, <3>2, <3>3
  <2>3. ASSUME NEW i \in Sent', queue'[i] \in Maps
        PROVE  /\ first <= queue'[i] /\ queue'[i] <= top'
               /\ \A n \in Maps : queue'[i] <= n /\ n <= top' => Pending(n)'
    <3>1. CASE i \in Sent
      <4>1. queue'[i] = queue[i] /\ first <= queue[i] /\ queue[i] <= top
        BY <1>1, <2>1, <2>3, <3>1
      <4>2. ASSUME NEW n \in Maps, queue[i] <= n, n <= top' PROVE Pending(n)'
        <5>1. CASE n <= top
          BY <1>1, <2>1, <2>3, <4>1, <4>2, <5>1
        <5>2. CASE ~(n <= top)
          <6>1. n = x
            BY <1>0, <1>2, <4>2, <5>2
          <6> QED BY <1>1, <6>1
        <5> QED BY <5>1, <5>2
      <4>3. first <= queue'[i] /\ queue'[i] <= top'
        <5>1. queue'[i] \in Int /\ top \in Int /\ top' \in Int
          BY <1>0, <1>2, <2>3
        <5> QED BY <1>2, <4>1, <5>1
      <4> QED BY <4>1, <4>2, <4>3
    <3>2. CASE i = Len(queue) + 1
      <4>1. queue'[i] = x /\ top' = x
        BY <1>1, <2>3, <3>2
      <4>2. \A n \in Maps : x <= n /\ n <= x => n = x
        BY <1>2, <2>3, <4>1
      <4> QED BY <1>0, <1>1, <1>2, <2>3, <4>1, <4>2
    <3> QED BY <1>1, <3>1, <3>2
  <2>4. ASSUME NEW i \in Sent', NEW k \in Entries, queue'[i] \in Maps, todo[k][2] \in Maps
        PROVE  todo[k][2] < queue'[i]
    <3>1. CASE i \in Sent
      BY <1>1, <2>1, <2>4, <3>1
    <3>2. CASE i = Len(queue) + 1
      <4>1. queue'[i] = x /\ todo[k][2] <= top
        BY <1>1, <2>1, <2>4, <3>2
      <4> QED BY <1>0, <1>2, <2>4, <4>1
    <3> QED BY <1>1, <3>1, <3>2
  <2>5. \A k \in Entries : todo[k][2] \in Maps => todo[k][2] <= top'
    BY <1>0, <1>2, <2>1
  <2>6. first <= top'
    BY <1>0, <1>2
  <2>7. Entries' = Entries
    BY DEF Entries
  <2> QED BY <2>2, <2>3, <2>4, <2>5, <2>6, <2>7 DEF InOrder
<1>7. NoneOlder'
  <2>1. /\ \A f \in Files : newest[f] <= top
        /\ \A f \in Files, i \in Sent : queue[i] \in Maps => newest[f] <= queue[i]
        /\ \A k \in Entries : todo[k][2] \in Maps => newest[todo[k][1]] <= todo[k][2]
    BY DEF IInv, NoneOlder
  <2>2. \A f \in Files : newest[f] \in Int
    BY <1>0 DEF TypeOK
  <2>3. \A f \in Files : newest[f] <= top'
    BY <1>0, <1>2, <2>1, <2>2
  <2>4. ASSUME NEW f \in Files, NEW i \in Sent', queue'[i] \in Maps PROVE newest[f] <= queue'[i]
    <3>1. CASE i \in Sent
      BY <1>1, <2>1, <2>4, <3>1
    <3>2. CASE i = Len(queue) + 1
      BY <1>1, <2>3, <2>4, <3>2
    <3> QED BY <1>1, <3>1, <3>2
  <2>5. Entries' = Entries
    BY DEF Entries
  <2> QED BY <2>1, <2>3, <2>4, <2>5 DEF NoneOlder
<1>8. Follows'
  <2>1. ASSUME NEW f PROVE Lists(f)' = Lists(f)
    <3>1. ASSUME NEW n \in first..top'
          PROVE  (f \in shape'[n] /\ ~Pending(n)') <=> (n <= top /\ f \in shape[n] /\ ~Pending(n))
      <4>1. n \in Maps
        BY <1>0, <1>2, MapsAreNumbers
      <4>2. CASE n <= top
        <5>1. n # x
          BY <1>0, <1>2, <4>1, <4>2
        <5> QED BY <1>1, <4>1, <4>2, <5>1
      <4>3. CASE ~(n <= top)
        <5>1. n = x
          BY <1>0, <1>2, <4>1, <4>3
        <5> QED BY <1>1, <4>3, <5>1
      <4> QED BY <4>2, <4>3
    <3>2. \A n : n \in first..top <=> n \in first..top' /\ n <= top
      BY <1>0, <1>2
    <3>3. Lists(f)' = {n \in first..top' : f \in shape'[n] /\ ~Pending(n)'}
      BY DEF Lists
    <3> QED BY <3>1, <3>2, <3>3 DEF Lists
  <2> QED BY <2>1 DEF IInv, Follows, Coming, IsLast, Entries
<1> QED BY <1>3, <1>4, <1>5, <1>6, <1>7, <1>8 DEF IInv

\* The service publishes a map, to the stream if there is one.
LEMMA PublishStep ==
  ASSUME IInv, NEW s \in SUBSET Files, Publish(s)
  PROVE  IInv'
<1>0. TypeOK /\ top \in Maps /\ shape \in [Maps -> SUBSET Files] /\ faults \in 0..MaxFaults
  BY DEF IInv, TypeOK
<1>1. /\ top < MaxMaps /\ top' = top + 1 /\ shape' = [shape EXCEPT ![top + 1] = s]
      /\ queue' = IF pc = "recv" THEN Append(queue, top + 1) ELSE queue
      /\ UNCHANGED <<config, saver, pc, key, todo, w, file, tmp, fp, faults, starts, fellBack, dirty,
                     first, base, newest>>
  BY DEF Publish, cfg, history
<1>2. top' \in Maps /\ top <= top' /\ Maps \subseteq Int
  BY <1>0, <1>1, MapsAreNumbers, BoundsAssumption
<1>3. shape' \in [Maps -> SUBSET Files] /\ \A n \in Maps : n <= top => shape'[n] = shape[n]
  BY <1>0, <1>1, <1>2
<1>4. CASE pc = "recv"
  BY <1>0, <1>1, <1>2, <1>3, <1>4, SendsStep DEF Messages
<1>5. CASE pc # "recv"
  <2>1. queue = <<>> /\ queue' = <<>>
    BY <1>1, <1>5 DEF IInv, Busy
  <2>2. Sent = {} /\ Sent' = {} /\ Entries' = Entries
    BY <1>1, <2>1, EmptySeq DEF Sent, Entries
  <2>3. TypeOK'
    BY <1>0, <1>1, <1>2, <1>3, <2>1 DEF TypeOK
  <2>4. Seqs' /\ Busy' /\ DemoWhere' /\ Readable'
    BY <1>1, <2>1, <2>2 DEF IInv, Seqs, Busy, DemoWhere, DemoMeansFailure, Readable
  <2>5. InOrder'
    <3>1. \A k \in Entries : todo[k][2] \in Maps => todo[k][2] <= top'
      BY <1>0, <1>2 DEF IInv, InOrder
    <3> QED BY <1>1, <1>5, <2>2, <3>1 DEF InOrder
  <2>6. NoneOlder'
    <3>1. \A f \in Files : newest[f] \in Int /\ newest[f] <= top
      BY <1>0 DEF IInv, NoneOlder, TypeOK
    <3>2. \A f \in Files : newest[f] <= top'
      BY <1>0, <1>2, <3>1
    <3> QED BY <1>1, <2>2, <3>2 DEF IInv, NoneOlder
  <2>7. Follows'
    BY <1>1, <1>5 DEF Follows
  <2> QED BY <2>3, <2>4, <2>5, <2>6, <2>7 DEF IInv
<1> QED BY <1>4, <1>5

\* A message without a map the helper can use.
LEMMA SendUnusableStep ==
  ASSUME IInv, NEW m \in {NoMap, Garbage}, SendUnusable(m)
  PROVE  IInv'
<1>0. TypeOK
  BY DEF IInv
<1>1. /\ pc = "recv" /\ faults < MaxFaults /\ faults' = faults + 1 /\ queue' = Append(queue, m)
      /\ UNCHANGED <<config, saver, pc, key, todo, w, file, tmp, top, shape, fp, starts, fellBack,
                     dirty, first, base, newest>>
  BY DEF SendUnusable, cfg, server, history
<1>2. faults' \in 0..MaxFaults
  <2>1. faults \in 0..MaxFaults
    BY <1>0 DEF TypeOK
  <2> QED BY <1>1, <2>1, BoundsAssumption
<1>3. m \in Messages /\ m \notin Maps
  BY MapsAreNumbers DEF Messages
<1>4. shape' \in [Maps -> SUBSET Files] /\ shape' = shape /\ top' = top
  BY <1>0, <1>1 DEF TypeOK
<1> QED BY <1>1, <1>2, <1>3, <1>4, SendsStep

\* A new stream begins with the current map.
LEMMA SyncOpensStep ==
  ASSUME IInv, SyncOpens
  PROVE  IInv'
<1>0. TypeOK /\ top \in Maps /\ Maps \subseteq Int
  BY MapsAreNumbers DEF IInv, TypeOK
<1>1. /\ pc = "sync" /\ pc' = "recv" /\ queue' = <<top>> /\ first' = top /\ base' = file
      /\ dirty' = FALSE
      /\ UNCHANGED <<config, saver, key, todo, w, file, tmp, top, shape, fp, faults, starts,
                     fellBack, newest>>
  BY DEF SyncOpens, cfg, server
<1>2. todo = <<>> /\ w = "start"
  BY <1>1, Resting
<1>3. /\ queue' \in Seq(Messages) /\ Sent' = {1} /\ queue'[1] = top
      /\ \A n : Pending(n)' <=> n = top
  <2>1. queue' \in Seq(Messages) /\ Len(queue') = 1 /\ queue'[1] = top
    BY <1>0, <1>1 DEF Messages
  <2>2. Sent' = {1}
    BY <2>1 DEF Sent
  <2> QED BY <2>1, <2>2 DEF Pending
<1>4. Entries' = {}
  BY <1>1, <1>2, EmptySeq DEF Entries
<1>5. Seqs'
  BY <1>1, <1>2, <1>3, EmptySeq DEF Seqs
<1>6. TypeOK'
  <2>1. \A i \in DOMAIN queue' : queue'[i] \in Maps \cup {NoMap, Garbage}
    BY <1>3, SeqMembers DEF Messages
  <2> QED BY <1>0, <1>1, <2>1 DEF TypeOK
<1>7. Busy' /\ DemoWhere' /\ Readable'
  BY <1>1, <1>2, <1>4 DEF IInv, Busy, DemoWhere, DemoMeansFailure, Readable
<1>8. InOrder'
  BY <1>0, <1>1, <1>3, <1>4 DEF InOrder
<1>9. NoneOlder'
  BY <1>1, <1>3, <1>4 DEF IInv, NoneOlder
<1>10. Follows'
  <2>1. ASSUME NEW f PROVE Lists(f)' = {}
    <3>1. \A n \in top..top : n = top
      BY <1>0
    <3> QED BY <1>1, <1>3, <3>1 DEF Lists
  <2> QED BY <1>1, <1>4, <2>1 DEF Follows, Coming, IsLast
<1> QED BY <1>5, <1>6, <1>7, <1>8, <1>9, <1>10 DEF IInv

\* A message that cannot be decrypted is remembered.
LEMMA DirtyKept ==
  ASSUME dirty \in BOOLEAN, onSyncUpdate
  PROVE  dirty' \in BOOLEAN /\ (dirty => dirty')
<1>1. dirty' = (dirty \/ Head(queue) = Garbage)
  BY Zenon DEF onSyncUpdate
<1>2. (dirty \/ Head(queue) = Garbage) \in BOOLEAN
  BY Zenon
<1> QED BY <1>1, <1>2, Zenon

\* A message without a map is received: nothing changes for the files.
LEMMA SkipStep ==
  ASSUME IInv, onSyncUpdate, Head(queue) \notin Maps
  PROVE  IInv'
<1>0. TypeOK /\ Seqs /\ queue \in Seq(Messages)
  BY DEF IInv, Seqs
<1>1. /\ pc = "recv" /\ todo = <<>> /\ queue # <<>> /\ queue' = Tail(queue) /\ todo' = <<>>
      /\ UNCHANGED <<config, saver, pc, key, w, file, tmp, top, shape, fp, faults, starts, fellBack,
                     first, base, newest>>
  BY DEF onSyncUpdate, Receiving, cfg, server
<1>2. dirty' \in BOOLEAN /\ (dirty => dirty')
  BY <1>0, DirtyKept DEF TypeOK
<1>3. /\ queue' \in Seq(Messages)
      /\ \A i \in Sent' : i \in Int /\ 1 <= i /\ i + 1 \in Sent /\ queue'[i] = queue[i + 1]
      /\ \A n \in Maps : Pending(n) <=> Pending(n)'
  BY <1>0, <1>1, TailFacts
<1>4. Entries = {} /\ Entries' = {}
  BY <1>1, EmptySeq DEF Entries
<1>5. Seqs' /\ Busy' /\ DemoWhere' /\ Readable'
  BY <1>0, <1>1, <1>3, <1>4
     DEF IInv, Seqs, Busy, DemoWhere, DemoMeansFailure, Readable
<1>6. TypeOK'
  <2>1. \A i \in DOMAIN queue' : queue'[i] \in Maps \cup {NoMap, Garbage}
    BY <1>3, SeqMembers DEF Messages
  <2> QED BY <1>0, <1>1, <1>2, <2>1 DEF TypeOK
<1>7. InOrder'
  <2>1. /\ \A i, j \in Sent : i < j /\ queue[i] \in Maps /\ queue[j] \in Maps => queue[i] < queue[j]
        /\ \A i \in Sent : queue[i] \in Maps => first <= queue[i] /\ queue[i] <= top
        /\ \A i \in Sent : queue[i] \in Maps =>
             \A n \in Maps : queue[i] <= n /\ n <= top => Pending(n)
        /\ first <= top
    BY <1>1 DEF IInv, InOrder
  <2>2. ASSUME NEW i \in Sent', NEW j \in Sent', i < j, queue'[i] \in Maps, queue'[j] \in Maps
        PROVE  queue'[i] < queue'[j]
    <3>1. i + 1 < j + 1
      BY <1>3, <2>2
    <3> QED BY <1>3, <2>1, <2>2, <3>1
  <2>3. \A i \in Sent' : queue'[i] \in Maps =>
          /\ first <= queue'[i] /\ queue'[i] <= top
          /\ \A n \in Maps : queue'[i] <= n /\ n <= top => Pending(n)'
    BY <1>3, <2>1
  <2> QED BY <1>1, <1>4, <2>1, <2>2, <2>3 DEF InOrder
<1>8. NoneOlder'
  BY <1>1, <1>3, <1>4 DEF IInv, NoneOlder
<1>9. Follows'
  <2>1. ASSUME NEW f PROVE Lists(f)' = Lists(f)
    <3>1. \A n \in first..top : n \in Maps
      BY <1>0, MapsBetween DEF TypeOK
    <3> QED BY <1>1, <1>3, <3>1 DEF Lists
  <2> QED BY <1>1, <1>2, <1>4, <2>1 DEF IInv, Follows, Coming, IsLast
<1> QED BY <1>5, <1>6, <1>7, <1>8, <1>9 DEF IInv

\* A map is received: its lists are to be written, and are the last ones.
LEMMA ReceiveStep ==
  ASSUME IInv, onSyncUpdate, Head(queue) \in Maps
  PROVE  IInv'
<1> PICK h \in Maps : h = Head(queue)
  OBVIOUS
<1>0. /\ TypeOK /\ Seqs /\ queue \in Seq(Messages) /\ Maps \subseteq Int
      /\ first \in Maps /\ top \in Maps /\ shape \in [Maps -> SUBSET Files]
  BY MapsAreNumbers DEF IInv, Seqs, TypeOK
<1>1. /\ pc = "recv" /\ todo = <<>> /\ queue # <<>> /\ queue' = Tail(queue) /\ todo' = processed(h)
      /\ UNCHANGED <<config, saver, pc, key, w, file, tmp, top, shape, fp, faults, starts, fellBack,
                     first, base, newest>>
  BY DEF onSyncUpdate, Receiving, cfg, server
<1>2. dirty' \in BOOLEAN /\ (dirty => dirty')
  BY <1>0, DirtyKept DEF TypeOK
<1>3. /\ queue' \in Seq(Messages) /\ 1 \in Sent /\ queue[1] = h
      /\ \A i \in Sent' : i \in Int /\ 1 <= i /\ i + 1 \in Sent /\ queue'[i] = queue[i + 1]
      /\ \A n : Pending(n) <=> Pending(n)' \/ n = h
  BY <1>0, <1>1, TailFacts
<1>4. /\ todo' \in Seq(Files \X Docs) /\ Len(todo') <= 2
      /\ \A k \in Entries' : todo'[k][2] = h /\ todo'[k][1] \in shape[h]
      /\ \A j, k \in Entries' : j # k => todo'[j][1] # todo'[k][1]
      /\ \A f \in shape[h] : \E k \in Entries' : todo'[k][1] = f
  <2>1. shape[h] \subseteq Files
    BY <1>0
  <2> QED BY <1>1, <2>1, ProcessedFacts DEF Entries
<1>5. h \in Maps /\ shape[h] \subseteq Files /\ w = "start" /\ Entries = {}
  BY <1>0, <1>1, EmptySeq DEF IInv, Busy, Entries
<1>6. /\ \A i, j \in Sent : i < j /\ queue[i] \in Maps /\ queue[j] \in Maps => queue[i] < queue[j]
      /\ \A i \in Sent : queue[i] \in Maps => first <= queue[i] /\ queue[i] <= top
      /\ \A i \in Sent : queue[i] \in Maps =>
             \A n \in Maps : queue[i] <= n /\ n <= top => Pending(n)
      /\ first <= top
  BY <1>1 DEF IInv, InOrder
<1>7. first <= h /\ h <= top /\ \A n \in Maps : h <= n /\ n <= top => Pending(n)
  BY <1>3, <1>5, <1>6
<1>8. \A i \in Sent' : queue'[i] \in Maps => h < queue'[i]
  <2>1. ASSUME NEW i \in Sent', queue'[i] \in Maps PROVE h < queue'[i]
    <3>1. 1 < i + 1 /\ i + 1 \in Sent
      BY <1>3
    <3> QED BY <1>3, <1>5, <1>6, <2>1, <3>1
  <2> QED BY <2>1
<1>9. ~Pending(h)'
  <2>1. ASSUME NEW i \in Sent', queue'[i] = h PROVE FALSE
    BY <1>0, <1>5, <1>8, <2>1
  <2> QED BY <2>1 DEF Pending
<1>10. Seqs'
  BY <1>3, <1>4 DEF Seqs
<1>11. TypeOK'
  <2>1. /\ \A i \in DOMAIN queue' : queue'[i] \in Maps \cup {NoMap, Garbage}
        /\ \A i \in DOMAIN todo' : todo'[i] \in Files \X Docs
    BY <1>3, <1>4, SeqMembers DEF Messages
  <2> QED BY <1>0, <1>1, <1>2, <1>4, <2>1 DEF TypeOK
<1>12. Busy'
  BY <1>1, <1>4, <1>5 DEF IInv, Busy
<1>13. DemoWhere' /\ Readable'
  BY <1>1 DEF IInv, DemoWhere, DemoMeansFailure, Readable
<1>14. InOrder'
  <2>1. ASSUME NEW i \in Sent', NEW j \in Sent', i < j, queue'[i] \in Maps, queue'[j] \in Maps
        PROVE  queue'[i] < queue'[j]
    <3>1. i + 1 < j + 1
      BY <1>3, <2>1
    <3> QED BY <1>3, <1>6, <2>1, <3>1
  <2>2. ASSUME NEW i \in Sent', queue'[i] \in Maps
        PROVE  /\ first <= queue'[i] /\ queue'[i] <= top
               /\ \A n \in Maps : queue'[i] <= n /\ n <= top => Pending(n)'
    <3>1. first <= queue'[i] /\ queue'[i] <= top
      BY <1>3, <1>6, <2>2
    <3>2. ASSUME NEW n \in Maps, queue'[i] <= n, n <= top PROVE Pending(n)'
      <4>1. Pending(n)
        BY <1>3, <1>6, <2>2, <3>2
      <4>2. n # h
        <5>1. h < queue'[i] /\ h \in Int /\ n \in Int /\ queue'[i] \in Int
          BY <1>0, <1>5, <1>8, <2>2
        <5> QED BY <3>2, <5>1
      <4> QED BY <1>3, <4>1, <4>2
    <3> QED BY <3>1, <3>2
  <2> QED BY <1>1, <1>4, <1>6, <1>7, <1>8, <2>1, <2>2 DEF InOrder
<1>15. NoneOlder'
  <2>1. /\ \A f \in Files : newest[f] <= top
        /\ \A f \in Files, i \in Sent : queue[i] \in Maps => newest[f] <= queue[i]
    BY DEF IInv, NoneOlder
  <2>2. \A k \in Entries' : newest[todo'[k][1]] <= todo'[k][2]
    BY <1>3, <1>4, <1>5, <2>1
  <2> QED BY <1>1, <1>3, <2>1, <2>2 DEF NoneOlder
<1>16. Follows'
  <2>1. SUFFICES ASSUME ~dirty', NEW f \in Files, NEW v \in Docs \cup {NoDoc}, Coming(f, v)'
                 PROVE  IsLast(f, v)'
    BY <1>1 DEF Follows
  <2>2. IsLast(f, file[f])
    <3>1. Coming(f, file[f]) /\ file[f] \in Docs \cup {NoDoc}
      BY <1>0, <1>5 DEF Coming, TypeOK
    <3> QED BY <1>1, <1>2, <2>1, <3>1 DEF IInv, Follows
  <2>3. Lists(f)' = IF f \in shape[h] THEN Lists(f) \cup {h} ELSE Lists(f)
    <3>1. h \in first..top
      BY <1>0, <1>5, <1>7
    <3>2. Pending(h)
      BY <1>3
    <3>3. Lists(f)' = {n \in first..top : f \in shape[n] /\ ~Pending(n)'}
      BY <1>1 DEF Lists
    <3> QED BY <1>3, <1>9, <3>1, <3>2, <3>3 DEF Lists
  <2>4. ASSUME NEW m \in Lists(f) PROVE m <= h
    <3>1. m \in first..top /\ ~Pending(m)
      BY <2>4 DEF Lists
    <3>2. m \in Maps /\ m \in Int /\ h \in Int /\ m <= top
      BY <1>0, <1>5, <3>1, MapsBetween
    <3>3. ~(h <= m)
      BY <1>7, <3>1, <3>2
    <3> QED BY <3>2, <3>3
  <2>5. CASE f \in shape[h]
    <3>1. v = h
      BY <1>4, <2>1, <2>5 DEF Coming
    <3>2. h <= h
      BY <1>0
    <3> QED BY <2>3, <2>4, <2>5, <3>1, <3>2 DEF IsLast
  <2>6. CASE f \notin shape[h]
    <3>1. v = file[f]
      BY <1>1, <1>4, <2>1, <2>6 DEF Coming
    <3> QED BY <1>1, <2>2, <2>3, <2>6, <3>1 DEF IsLast
  <2> QED BY <2>5, <2>6
<1> QED BY <1>10, <1>11, <1>12, <1>13, <1>14, <1>15, <1>16 DEF IInv

\* onSyncUpdate, whatever the message holds.
LEMMA onSyncUpdateStep ==
  ASSUME IInv, onSyncUpdate
  PROVE  IInv'
BY SkipStep, ReceiveStep

-----------------------------------------------------------------------------
(* Writing.                                                                *)

\* A tick of the stub mode, with a key.
LEMMA updateStubStep ==
  ASSUME IInv, updateStub
  PROVE  IInv'
<1>0. TypeOK /\ Seqs
  BY DEF IInv
<1>1. /\ pc = "stub" /\ todo = <<>> /\ key # NoKey
      /\ todo' = <<<<"peers", Demo>>, <<"routes", Demo>>>>
      /\ UNCHANGED <<config, saver, pc, key, w, file, tmp, top, shape, queue, fp, faults, starts,
                     fellBack, dirty, first, base, newest>>
  BY DEF updateStub, cfg, server, history
<1>2. queue = <<>> /\ w = "start" /\ fellBack
  BY <1>1 DEF IInv, Busy, DemoWhere
<1>3. Sent' = {} /\ Sent = {}
  BY <1>1, <1>2, EmptySeq DEF Sent
<1>4. /\ todo' \in Seq(Files \X Docs) /\ Len(todo') = 2 /\ Entries' = {1, 2}
      /\ todo'[1][1] = "peers" /\ todo'[2][1] = "routes" /\ todo'[1][2] = Demo /\ todo'[2][2] = Demo
  <2>1. <<"peers", Demo>> \in Files \X Docs /\ <<"routes", Demo>> \in Files \X Docs
    BY DEF Files, Docs
  <2>2. todo' \in Seq(Files \X Docs) /\ Len(todo') = 2
    BY <1>1, <2>1
  <2>3. Entries' = {1, 2}
    BY <2>2 DEF Entries
  <2> QED BY <1>1, <2>2, <2>3
<1>5. Seqs'
  BY <1>0, <1>1, <1>4 DEF Seqs
<1>6. TypeOK'
  <2>1. \A i \in DOMAIN todo' : todo'[i] \in Files \X Docs
    BY <1>4, SeqMembers
  <2>2. Len(todo') <= 2
    BY <1>4
  <2> QED BY <1>0, <1>1, <2>1, <2>2 DEF TypeOK
<1>7. Busy'
  BY <1>1, <1>2, <1>4 DEF Busy
<1>8. DemoWhere' /\ Readable'
  BY <1>1, <1>2 DEF IInv, DemoWhere, DemoMeansFailure, Readable
<1>9. InOrder' /\ NoneOlder'
  BY <1>1, <1>3, <1>4, DocsAssumption DEF IInv, InOrder, NoneOlder
<1>10. Follows'
  BY <1>1 DEF Follows
<1> QED BY <1>5, <1>6, <1>7, <1>8, <1>9, <1>10 DEF IInv

\* The first document to be written.
LEMMA FirstEntry ==
  ASSUME Seqs, todo # <<>>
  PROVE  /\ 1 \in Entries /\ todo[1] = Head(todo) /\ todo[1] \in Files \X Docs
         /\ todo[1][1] \in Files /\ todo[1][2] \in Docs
         /\ f0 = todo[1][1] /\ d0 = todo[1][2]
<1>1. Len(todo) \in Nat /\ Len(todo) >= 1 /\ todo[1] = Head(todo) /\ todo[1] \in Files \X Docs
  BY DEF Seqs
<1>2. 1 \in Entries
  BY <1>1 DEF Entries
<1> QED BY <1>1, <1>2 DEF f0, d0

\* The temporary file is truncated, then written.
LEMMA StageStep ==
  ASSUME IInv, Truncate \/ WriteFile
  PROVE  IInv'
<1>0. TypeOK /\ Seqs
  BY DEF IInv
<1>1. /\ todo # <<>>
      /\ UNCHANGED <<config, saver, pc, key, todo, file, top, shape, queue, fp, faults, starts,
                     fellBack, dirty, first, base, newest>>
      /\ \/ w' = "opened" /\ tmp' = [tmp EXCEPT ![f0] = Torn]
         \/ w' = "written" /\ tmp' = [tmp EXCEPT ![f0] = d0]
  BY DEF Truncate, WriteFile, Writing, cfg, server, history
<1>2. f0 \in Files /\ d0 \in Docs /\ f0 = todo[1][1] /\ d0 = todo[1][2]
  BY <1>0, <1>1, FirstEntry
<1>3. tmp' \in [Files -> Docs \cup {NoDoc, Torn}] /\ (w' = "written" => tmp'[f0] = d0)
  BY <1>0, <1>1, <1>2 DEF TypeOK
<1>4. TypeOK'
  BY <1>0, <1>1, <1>3 DEF TypeOK
<1>5. Seqs' /\ DemoWhere' /\ Readable'
  BY <1>1 DEF IInv, Seqs, DemoWhere, DemoMeansFailure, Readable
<1>6. Busy'
  BY <1>1, <1>2, <1>3 DEF IInv, Busy, Entries
<1>7. InOrder' /\ NoneOlder'
  BY <1>1 DEF IInv, InOrder, NoneOlder, Pending, Entries, Sent
<1>8. Follows'
  <2>1. \A f : Lists(f)' = Lists(f)
    BY <1>1 DEF Lists, Pending, Sent
  <2> QED BY <1>1, <2>1 DEF IInv, Follows, Coming, IsLast, Entries
<1> QED BY <1>4, <1>5, <1>6, <1>7, <1>8 DEF IInv

\* The documents that are left.
LEMMA TodoTail ==
  ASSUME todo \in Seq(Files \X Docs), todo # <<>>, Len(todo) <= 2, todo' = Tail(todo)
  PROVE  /\ todo' \in Seq(Files \X Docs) /\ Len(todo') <= 2
         /\ \A i \in Entries' : i \in Int /\ \E j \in Entries : j = i + 1 /\ j # 1 /\ todo'[i] = todo[j]
         /\ \A j \in Entries : j # 1 => \E i \in Entries' : todo'[i] = todo[j]
<1>1. /\ todo' \in Seq(Files \X Docs) /\ Len(todo) \in Nat /\ Len(todo) >= 1
      /\ Len(todo') = Len(todo) - 1
      /\ \A i \in 1..Len(todo') : todo'[i] = todo[i + 1]
  OBVIOUS
<1>2. ASSUME NEW i \in Entries'
      PROVE  i \in Int /\ \E j \in Entries : j = i + 1 /\ j # 1 /\ todo'[i] = todo[j]
  <2>1. i \in Int /\ i + 1 \in Entries /\ i + 1 # 1 /\ todo'[i] = todo[i + 1]
    BY <1>1 DEF Entries
  <2> QED BY <2>1
<1>3. ASSUME NEW j \in Entries, j # 1 PROVE \E i \in Entries' : todo'[i] = todo[j]
  <2>1. j \in Int /\ j - 1 \in Entries' /\ (j - 1) + 1 = j
    BY <1>1, <1>3 DEF Entries
  <2>2. todo'[j - 1] = todo[j]
    BY <1>1, <2>1 DEF Entries
  <2> QED BY <2>1, <2>2
<1>4. Len(todo') <= 2
  BY <1>1
<1> QED BY <1>1, <1>2, <1>3, <1>4

\* A document is in place, or its write has failed: on to the next one.
LEMMA WrittenStep ==
  ASSUME IInv, todo # <<>>, todo' = Tail(todo), w' = "start",
         NEW f \in Files, NEW d \in Docs, f = todo[1][1], d = todo[1][2],
         file' = file \/ file' = [file EXCEPT ![f] = d],
         newest' = newest \/ (d \in Maps /\ newest' = [newest EXCEPT ![f] = d]),
         (dirty' = dirty /\ file'[f] = d) \/ dirty' = TRUE,
         tmp' \in [Files -> Docs \cup {NoDoc, Torn}],
         fp' \in Docs \cup {Closed, Linked}, fp' = Linked => fp = Linked,
         faults' \in 0..MaxFaults,
         UNCHANGED <<config, saver, pc, key, top, shape, queue, starts, fellBack, first, base>>
  PROVE  IInv'
<1>0. /\ TypeOK /\ Seqs /\ Maps \subseteq Int /\ file \in [Files -> Docs \cup {NoDoc}]
      /\ newest \in [Files -> 0..MaxMaps] /\ Len(todo) <= 2 /\ top \in Maps
      /\ todo \in Seq(Files \X Docs)
  BY MapsAreNumbers DEF IInv, TypeOK, Seqs
<1>1. /\ todo' \in Seq(Files \X Docs) /\ Len(todo') <= 2
      /\ \A i \in Entries' : i \in Int /\ \E j \in Entries : j = i + 1 /\ j # 1 /\ todo'[i] = todo[j]
      /\ \A j \in Entries : j # 1 => \E i \in Entries' : todo'[i] = todo[j]
  BY <1>0, TodoTail
<1>2. 1 \in Entries /\ Sent' = Sent
  BY <1>0, FirstEntry DEF Sent
<1>3. ASSUME NEW i \in Entries' PROVE todo'[i][1] # f
  <2>1. PICK j \in Entries : j # 1 /\ todo'[i] = todo[j]
    BY <1>1
  <2>2. todo[j][1] # todo[1][1]
    BY <1>2, <2>1 DEF IInv, Busy
  <2> QED BY <2>1, <2>2
<1>4. /\ file' \in [Files -> Docs \cup {NoDoc}] /\ (file'[f] = d \/ file'[f] = file[f])
      /\ \A g \in Files : g # f => file'[g] = file[g]
  BY <1>0
<1>5. /\ newest' \in [Files -> 0..MaxMaps] /\ (newest'[f] = newest[f] \/ (d \in Maps /\ newest'[f] = d))
      /\ \A g \in Files : g # f => newest'[g] = newest[g]
  <2>1. d \in Maps => d \in 0..MaxMaps
    BY BoundsAssumption DEF Maps
  <2> QED BY <1>0, <2>1
<1>6. Seqs'
  BY <1>0, <1>1 DEF Seqs
<1>7. TypeOK'
  <2>1. \A i \in DOMAIN todo' : todo'[i] \in Files \X Docs
    BY <1>1, SeqMembers
  <2>2. dirty' \in BOOLEAN
    BY <1>0 DEF TypeOK
  <2> QED BY <1>0, <1>1, <1>4, <1>5, <2>1, <2>2 DEF TypeOK
<1>8. pc = "recv" \/ (pc = "stub" /\ d = Demo /\ fellBack)
  BY <1>2 DEF IInv, Busy, DemoWhere
<1>9. Busy'
  <2>1. \A i, j \in Entries' : i # j => todo'[i][1] # todo'[j][1]
    <3>1. ASSUME NEW i \in Entries', NEW j \in Entries', i # j PROVE todo'[i][1] # todo'[j][1]
      <4>1. PICK a \in Entries : a = i + 1 /\ todo'[i] = todo[a]
        BY <1>1
      <4>2. PICK b \in Entries : b = j + 1 /\ todo'[j] = todo[b]
        BY <1>1
      <4>3. a # b
        BY <1>1, <3>1, <4>1, <4>2
      <4>4. todo[a][1] # todo[b][1]
        BY <4>3 DEF IInv, Busy
      <4> QED BY <4>1, <4>2, <4>4
    <3> QED BY <3>1
  <2>2. /\ pc = "recv" => \A i \in Entries' : todo'[i][2] \in Maps
        /\ pc = "stub" => \A i \in Entries' : todo'[i][2] = Demo
    <3>1. /\ pc = "recv" => \A j \in Entries : todo[j][2] \in Maps
          /\ pc = "stub" => \A j \in Entries : todo[j][2] = Demo
      BY DEF IInv, Busy
    <3>2. ASSUME NEW i \in Entries'
          PROVE  (pc = "recv" => todo'[i][2] \in Maps) /\ (pc = "stub" => todo'[i][2] = Demo)
      <4>1. PICK j \in Entries : todo'[i] = todo[j]
        BY <1>1
      <4> QED BY <3>1, <4>1
    <3> QED BY <3>2
  <2> QED BY <1>8, <2>1, <2>2 DEF IInv, Busy
<1>10. DemoWhere'
  <2>1. ASSUME NEW g \in Files, file'[g] = Demo PROVE fellBack
    <3>1. CASE file[g] = Demo
      BY <3>1 DEF IInv, DemoWhere, DemoMeansFailure
    <3>2. CASE file[g] # Demo
      <4>1. d = Demo
        BY <1>4, <2>1, <3>2
      <4>2. pc # "recv"
        <5>1. pc = "recv" => d \in Maps
          BY <1>2 DEF IInv, Busy
        <5> QED BY <4>1, <5>1, DocsAssumption
      <4> QED BY <1>8, <4>2
    <3> QED BY <3>1, <3>2
  <2>2. pc = "stub" /\ (key # NoKey \/ todo # <<>>) => fellBack
    BY DEF IInv, DemoWhere
  <2> QED BY <1>8, <2>1, <2>2 DEF DemoWhere, DemoMeansFailure
<1>11. Readable'
  <2>1. "peers" \in Files /\ d # NoDoc
    BY DocsAssumption DEF Files
  <2> QED BY <1>4, <2>1 DEF IInv, Readable
<1>12. /\ \A k \in Entries : todo[k][2] \in Maps => todo[k][2] <= top
       /\ \A i \in Sent, k \in Entries :
            queue[i] \in Maps /\ todo[k][2] \in Maps => todo[k][2] < queue[i]
  BY DEF IInv, InOrder
<1>13. InOrder'
  <2>1. /\ \A k \in Entries' : todo'[k][2] \in Maps => todo'[k][2] <= top
        /\ \A i \in Sent, k \in Entries' :
            queue[i] \in Maps /\ todo'[k][2] \in Maps => todo'[k][2] < queue[i]
    <3>1. ASSUME NEW k \in Entries', todo'[k][2] \in Maps
          PROVE  /\ todo'[k][2] <= top
                 /\ \A i \in Sent : queue[i] \in Maps => todo'[k][2] < queue[i]
      <4>1. PICK j \in Entries : todo'[k] = todo[j]
        BY <1>1
      <4> QED BY <1>12, <3>1, <4>1
    <3> QED BY <3>1
  <2>2. \A n : Pending(n)' <=> Pending(n)
    BY <1>2 DEF Pending
  <2> QED BY <1>2, <2>1, <2>2 DEF IInv, InOrder
<1>14. NoneOlder'
  <2>1. /\ \A g \in Files : newest[g] <= top
        /\ \A g \in Files, i \in Sent : queue[i] \in Maps => newest[g] <= queue[i]
        /\ \A k \in Entries : todo[k][2] \in Maps => newest[todo[k][1]] <= todo[k][2]
    BY DEF IInv, NoneOlder
  <2>2. d \in Maps => d <= top /\ \A i \in Sent : queue[i] \in Maps => d <= queue[i]
    <3>1. d \in Maps => d <= top /\ \A i \in Sent : queue[i] \in Maps => d < queue[i]
      BY <1>2, <1>12
    <3>2. \A a, b \in Int : a < b => a <= b
      OBVIOUS
    <3> QED BY <1>0, <3>1, <3>2
  <2>3. \A g \in Files : newest'[g] <= top
    BY <1>5, <2>1, <2>2
  <2>4. \A g \in Files, i \in Sent : queue[i] \in Maps => newest'[g] <= queue[i]
    BY <1>5, <2>1, <2>2
  <2>5. ASSUME NEW k \in Entries', todo'[k][2] \in Maps PROVE newest'[todo'[k][1]] <= todo'[k][2]
    <3>1. todo'[k] \in Files \X Docs
      BY <1>1, SeqMembers DEF Entries
    <3>2. newest'[todo'[k][1]] = newest[todo'[k][1]]
      BY <1>3, <1>5, <3>1
    <3>3. PICK j \in Entries : todo'[k] = todo[j]
      BY <1>1
    <3> QED BY <2>1, <2>5, <3>2, <3>3
  <2> QED BY <1>2, <2>3, <2>4, <2>5 DEF NoneOlder
<1>15. Follows'
  <2>1. SUFFICES ASSUME pc = "recv", ~dirty', NEW g \in Files, NEW v \in Docs \cup {NoDoc},
                        Coming(g, v)'
                 PROVE  IsLast(g, v)'
    BY DEF Follows
  <2>2. ~dirty /\ file'[f] = d
    BY <2>1
  <2>3. Coming(g, v)
    <3>1. CASE \E k \in Entries' : todo'[k][1] = g /\ todo'[k][2] = v
      <4>1. PICK k \in Entries' : todo'[k][1] = g /\ todo'[k][2] = v
        BY <3>1
      <4>2. PICK j \in Entries : todo'[k] = todo[j]
        BY <1>1
      <4> QED BY <4>1, <4>2 DEF Coming
    <3>2. CASE v = file'[g] /\ \A k \in Entries' : todo'[k][1] # g
      <4>1. CASE g = f
        BY <1>2, <2>2, <3>2, <4>1 DEF Coming
      <4>2. CASE g # f
        <5>1. \A k \in Entries : todo[k][1] # g
          BY <1>1, <3>2, <4>2
        <5> QED BY <1>4, <3>2, <4>2, <5>1 DEF Coming
      <4> QED BY <4>1, <4>2
    <3> QED BY <2>1, <3>1, <3>2 DEF Coming
  <2>4. IsLast(g, v)
    BY <2>1, <2>2, <2>3 DEF IInv, Follows
  <2>5. Lists(g)' = Lists(g)
    BY <1>2 DEF Lists, Pending
  <2> QED BY <2>4, <2>5 DEF IsLast
<1> QED BY <1>6, <1>7, <1>9, <1>10, <1>11, <1>13, <1>14, <1>15 DEF IInv

\* The temporary file is renamed.
LEMMA RenameStep ==
  ASSUME IInv, Rename
  PROVE  IInv'
<1>0. TypeOK /\ Seqs /\ Readable
  BY DEF IInv
<1>1. /\ todo # <<>> /\ w = "written" /\ file' = [file EXCEPT ![f0] = tmp[f0]]
      /\ tmp' = [tmp EXCEPT ![f0] = NoDoc] /\ todo' = Tail(todo) /\ w' = "start"
      /\ fp' = IF f0 = "peers" /\ fp = Linked THEN file["peers"] ELSE fp
      /\ newest' = [newest EXCEPT ![f0] = IF d0 = Demo THEN @ ELSE d0]
      /\ UNCHANGED <<config, saver, pc, key, top, shape, queue, faults, starts, fellBack, dirty,
                     first, base>>
  BY DEF Rename, Writing, cfg, server
<1>2. /\ f0 \in Files /\ d0 \in Docs /\ f0 = todo[1][1] /\ d0 = todo[1][2]
  BY <1>0, <1>1, FirstEntry
<1>3. tmp[f0] = d0
  BY <1>1, <1>2 DEF IInv, Busy
<1>4. PICK f \in Files, d \in Docs : f = f0 /\ d = d0
  BY <1>2
<1>5. /\ file \in [Files -> Docs \cup {NoDoc}] /\ newest \in [Files -> 0..MaxMaps]
      /\ tmp \in [Files -> Docs \cup {NoDoc, Torn}] /\ fp \in Docs \cup {Closed, Linked}
      /\ faults \in 0..MaxFaults
  BY <1>0 DEF TypeOK
<1>6. file' = [file EXCEPT ![f] = d] /\ file'[f] = d
  BY <1>1, <1>3, <1>4, <1>5
<1>7. newest' = newest \/ (d \in Maps /\ newest' = [newest EXCEPT ![f] = d])
  <2>1. CASE d = Demo
    BY <1>1, <1>4, <1>5, <2>1
  <2>2. CASE d # Demo
    BY <1>1, <1>4, <2>2 DEF Docs
  <2> QED BY <2>1, <2>2
<1>8. tmp' \in [Files -> Docs \cup {NoDoc, Torn}]
  BY <1>1, <1>4, <1>5
<1>9. fp' \in Docs \cup {Closed, Linked} /\ (fp' = Linked => fp = Linked)
  <2>1. "peers" \in Files
    BY DEF Files
  <2> QED BY <1>0, <1>1, <1>5, <2>1 DEF Readable
<1> QED BY <1>1, <1>2, <1>4, <1>5, <1>6, <1>7, <1>8, <1>9, WrittenStep

\* A write fails, and is not tried again.
LEMMA WriteFailsStep ==
  ASSUME IInv, WriteFails
  PROVE  IInv'
<1>0. TypeOK /\ Seqs /\ Readable
  BY DEF IInv
<1>1. /\ todo # <<>> /\ faults < MaxFaults /\ faults' = faults + 1 /\ todo' = Tail(todo)
      /\ w' = "start" /\ dirty' = TRUE
      /\ UNCHANGED <<config, saver, pc, key, file, tmp, top, shape, queue, fp, starts, fellBack,
                     first, base, newest>>
  BY DEF WriteFails, cfg, server
<1>2. PICK f \in Files, d \in Docs : f = todo[1][1] /\ d = todo[1][2]
  BY <1>0, <1>1, FirstEntry
<1>3. faults \in 0..MaxFaults /\ tmp' \in [Files -> Docs \cup {NoDoc, Torn}]
      /\ fp' \in Docs \cup {Closed, Linked}
  BY <1>0, <1>1 DEF TypeOK
<1>4. faults' \in 0..MaxFaults
  BY <1>1, <1>3, BoundsAssumption
<1> QED BY <1>1, <1>2, <1>3, <1>4, WrittenStep

-----------------------------------------------------------------------------
(* The inductive invariant and what follows from it.                       *)

\* Before the first start there are no files.
LEMMA InitIInv ==
  ASSUME Init
  PROVE  IInv
<1> USE DEF Init
<1>1. Entries = {} /\ Sent = {}
  BY EmptySeq DEF Entries, Sent
<1>2. Seqs
  BY EmptySeq DEF Seqs
<1>3. TypeOK
  <2>1. /\ \A i \in DOMAIN queue : queue[i] \in Maps \cup {NoMap, Garbage}
        /\ \A i \in DOMAIN todo : todo[i] \in Files \X Docs
    BY <1>2, SeqMembers DEF Seqs, Messages
  <2>2. Len(todo) <= 2
    <3>1. Len(todo) = 0
      BY EmptySeq
    <3> QED BY <3>1
  <2>3. shape \in [Maps -> SUBSET Files]
    OBVIOUS
  <2>4. 0 \in 0..MaxFaults /\ 0 \in 0..MaxStarts /\ 0 \in 0..MaxMaps
    BY BoundsAssumption
  <2> QED BY <2>1, <2>2, <2>3, <2>4, FirstMap DEF TypeOK, Configs
<1>4. Busy /\ Follows
  BY <1>1 DEF Busy, Follows
<1>5. DemoWhere /\ Readable
  BY DocsAssumption DEF DemoWhere, DemoMeansFailure, Readable, Docs
<1>6. InOrder
  BY <1>1 DEF InOrder
<1>7. NoneOlder
  <2>1. \A f \in Files : newest[f] = 0
    OBVIOUS
  <2>2. 0 <= 1
    OBVIOUS
  <2> QED BY <1>1, <2>1, <2>2 DEF NoneOlder
<1> QED BY <1>2, <1>3, <1>4, <1>5, <1>6, <1>7 DEF IInv

\* Every step of the helper's loop keeps it.
LEMMA WorksIInv ==
  ASSUME IInv, Works
  PROVE  IInv'
<1>1. CASE LoadConfigFails \/ SetupKey \/ Connect \/ GetServerKey \/ LoginPanics \/ Login
  BY <1>1, MovesStep DEF LoadConfigFails, SetupKey, Connect, GetServerKey, LoginPanics, Login, Pcs
<1>2. CASE NoSetupKey
  BY <1>2, MovesStep DEF NoSetupKey, Pcs
<1>3. CASE ConnectFails \/ GetServerKeyFails \/ LoginFails \/ SyncFails
  <2>1. PICK from \in {"dial", "serverKey", "login", "sync"} : FallBack(from)
    BY <1>3 DEF ConnectFails, GetServerKeyFails, LoginFails, SyncFails
  <2>2. pc \notin {"recv", "stub"} /\ from \in Pcs \ {"stub"}
    BY <2>1 DEF FallBack, Pcs
  <2> QED BY <2>1, <2>2, Resting, FallBackStep
<1>4. CASE LoadConfig
  BY <1>4, StartStep
<1>5. CASE SyncOpens
  BY <1>5, SyncOpensStep
<1>6. CASE onSyncUpdate
  BY <1>6, onSyncUpdateStep
<1>7. CASE updateStub
  BY <1>7, updateStubStep
<1>8. CASE Truncate \/ WriteFile
  BY <1>8, StageStep
<1>9. CASE Rename
  BY <1>9, RenameStep
<1>10. CASE WriteFails
  BY <1>10, WriteFailsStep
<1> QED BY <1>1, <1>2, <1>3, <1>4, <1>5, <1>6, <1>7, <1>8, <1>9, <1>10 DEF Works

\* And so does every other step.
LEMMA NextIInv ==
  ASSUME IInv, [Next]_vars
  PROVE  IInv'
<1>1. CASE Works
  BY <1>1, WorksIInv
<1>2. CASE Start
  BY <1>2, StartStep
<1>3. CASE Kill
  BY <1>3, KillStep
<1>4. CASE StreamEnds
  BY <1>4, MovesStep DEF StreamEnds, Pcs
<1>5. CASE StreamBreaks
  BY <1>5, FallBackStep DEF StreamBreaks, Receiving, Pcs
<1>6. ASSUME NEW s \in SUBSET Files, Publish(s) PROVE IInv'
  BY <1>6, PublishStep
<1>7. ASSUME NEW m \in {NoMap, Garbage}, SendUnusable(m) PROVE IInv'
  BY <1>7, SendUnusableStep
<1>8. CASE LoadOpens \/ LoadReads \/ SaveOpens \/ SaveWrites \/ SaveKilled
  BY <1>8, ClientStep
<1>9. CASE UNCHANGED vars
  <2>1. TypeOK /\ Readable
    BY DEF IInv
  <2>2. UNCHANGED <<config, saver, pc, key, todo, w, file, tmp, top, shape, queue, fp, faults, starts,
                    fellBack, dirty, first, base, newest>>
    BY <1>9 DEF vars, history
  <2> QED BY <2>1, <2>2, AsideStep DEF TypeOK, Readable
<1> QED BY <1>1, <1>2, <1>3, <1>4, <1>5, <1>6, <1>7, <1>8, <1>9 DEF Next

\* The invariant holds in every state the helper reaches.
LEMMA Invariance == Spec => []IInv
<1>1. Init => IInv
  BY InitIInv
<1>2. IInv /\ [Next]_vars => IInv'
  BY NextIInv
<1> QED BY <1>1, <1>2, PTL DEF Spec

\* Every variable keeps its type; in particular a file never holds a part of
\* a document.
THEOREM TypeCorrect == Spec => []TypeOK
<1>1. IInv => TypeOK
  BY DEF IInv
<1> QED BY <1>1, Invariance, PTL

\* Demo data reaches a file only after a helper that had a setup key failed.
THEOREM DemoMeansFailureAlways == Spec => []DemoMeansFailure
<1>1. IInv => DemoMeansFailure
  BY DEF IInv, DemoWhere
<1> QED BY <1>1, Invariance, PTL

\* When the helper has handled all that was sent on its stream, and nothing
\* failed, each file holds the list of the newest map, except where that list is
\* empty: there it still holds the last one that was not, or what it held before.
THEOREM FilesFollowMapAlways == Spec => []FilesFollowMap
<1>1. ASSUME IInv PROVE FilesFollowMap
  <2>1. SUFFICES ASSUME Receiving, queue = <<>>, ~dirty, NEW f \in Files
                 PROVE  file[f] = top \/ (f \notin shape[top] /\ Overtaken(f))
    BY DEF FilesFollowMap
  <2> DEFINE lists == {n \in first..top : f \in shape[n]}
  <2>2. Sent = {} /\ Entries = {} /\ pc = "recv"
    BY <2>1, EmptySeq DEF Sent, Entries, Receiving
  <2>3. Lists(f) = lists
    BY <2>2 DEF Lists, Pending
  <2>4. file[f] \in Docs \cup {NoDoc} /\ first \in Maps /\ top \in Maps
    BY <1>1 DEF IInv, TypeOK
  <2>5. IsLast(f, file[f])
    BY <1>1, <2>1, <2>2, <2>4 DEF IInv, Follows, Coming
  <2>6. lists = {} => file[f] = base[f]
    BY <2>3, <2>5 DEF IsLast
  <2>7. lists # {} => file[f] \in lists /\ \A m \in lists : m <= file[f]
    BY <2>3, <2>5 DEF IsLast
  <2>8. lists \subseteq Int /\ top \in Int
    BY <2>4, MapsBetween, MapsAreNumbers
  <2>9. \A a, b \in Int : a <= b /\ b <= a => a = b
    OBVIOUS
  <2>10. CASE f \in shape[top]
    <3>1. first <= top
      BY <1>1, <2>2 DEF IInv, InOrder
    <3>2. top \in lists /\ \A m \in lists : m <= top
      BY <2>4, <2>10, <3>1, MapsAreNumbers
    <3>3. file[f] \in lists /\ \A m \in lists : m <= file[f]
      BY <2>7, <3>2
    <3> HIDE DEF lists
    <3> QED BY <2>8, <2>9, <3>2, <3>3
  <2>11. CASE f \notin shape[top]
    <3>1. ASSUME lists # {} PROVE file[f] = CHOOSE n \in lists : \A m \in lists : m <= n
      <4> HIDE DEF lists
      <4> DEFINE c == CHOOSE n \in lists : \A m \in lists : m <= n
      <4>1. c \in lists /\ \A m \in lists : m <= c
        BY <2>7, <3>1
      <4> HIDE DEF c
      <4>2. file[f] = c
        BY <2>7, <2>8, <2>9, <3>1, <4>1
      <4> QED BY <4>2 DEF c
    <3> QED BY <2>6, <2>11, <3>1 DEF Overtaken
  <2> QED BY <2>10, <2>11
<1> QED BY <1>1, Invariance, PTL

-----------------------------------------------------------------------------
(* The helper implements Documents.                                        *)

\* At first there is no document.
LEMMA DocumentsInit ==
  ASSUME Init
  PROVE  Promise!AInit
BY DEF Init, Promise!AInit

\* A rename is the one step that replaces a document, with one that is no
\* older, and a reader keeps the document it has open.
LEMMA RenamePuts ==
  ASSUME IInv, Rename
  PROVE  \E f \in Files : Promise!PutDemo(f) \/ \E n \in 1..MaxMaps : Promise!PutMap(f, n)
<1>0. TypeOK /\ Seqs /\ Readable
  BY DEF IInv
<1>1. /\ todo # <<>> /\ w = "written" /\ file' = [file EXCEPT ![f0] = tmp[f0]]
      /\ fp' = IF f0 = "peers" /\ fp = Linked THEN file["peers"] ELSE fp
      /\ newest' = [newest EXCEPT ![f0] = IF d0 = Demo THEN @ ELSE d0]
  BY DEF Rename, Writing
<1>2. /\ f0 \in Files /\ d0 \in Docs /\ f0 = todo[1][1] /\ d0 = todo[1][2] /\ 1 \in Entries
  BY <1>0, <1>1, FirstEntry
<1>3. tmp[f0] = d0
  BY <1>1, <1>2 DEF IInv, Busy
<1>4. PICK f \in Files, d \in Docs : f = f0 /\ d = d0
  BY <1>2
<1>5. file \in [Files -> Docs \cup {NoDoc}] /\ newest \in [Files -> 0..MaxMaps]
  BY <1>0 DEF TypeOK
<1>6. file' = [file EXCEPT ![f] = d]
  BY <1>1, <1>3, <1>4
<1>7. fp' = fp \/ (f = "peers" /\ fp = Linked /\ fp' = file["peers"] /\ fp' \notin {Closed, Linked})
  BY <1>0, <1>1, <1>4, DocsAssumption DEF Readable, TypeOK, Files
<1>8. [g \in Files |-> IF g = "peers" /\ fp' # Closed THEN Held' ELSE NoDoc]
        = [g \in Files |-> IF g = "peers" /\ fp # Closed THEN Held ELSE NoDoc]
  <2>1. CASE fp' = fp /\ fp = Linked
    <3>1. f # "peers"
      BY <1>0, <1>1, <1>4, <1>5, <2>1, DocsAssumption DEF Files
    <3>2. file'["peers"] = file["peers"]
      BY <1>5, <1>6, <3>1 DEF Files
    <3> QED BY <2>1, <3>2 DEF Held
  <2>2. CASE fp' = fp /\ fp # Linked
    BY <2>2 DEF Held
  <2>3. CASE f = "peers" /\ fp = Linked /\ fp' = file["peers"] /\ fp' \notin {Closed, Linked}
    <3>1. Held' = file["peers"] /\ Held = file["peers"] /\ fp # Closed /\ fp' # Closed
      BY <2>3, DocsAssumption DEF Held
    <3> QED BY <3>1
  <2> QED BY <1>7, <2>1, <2>2, <2>3
<1>9. CASE d = Demo
  <2>1. newest' = newest
    BY <1>1, <1>4, <1>5, <1>9
  <2>2. Promise!PutDemo(f)
    BY <1>6, <1>8, <1>9, <2>1 DEF Promise!PutDemo
  <2> QED BY <2>2
<1>10. CASE d # Demo
  <2>1. d \in Maps
    BY <1>10 DEF Docs
  <2>2. newest' = [newest EXCEPT ![f] = d]
    BY <1>1, <1>4, <1>10
  <2>3. newest[f] <= d
    BY <1>2, <1>4, <2>1 DEF IInv, NoneOlder
  <2>4. d >= newest[f]
    <3>1. newest[f] \in Int /\ d \in Int
      BY <1>5, <2>1, MapsAreNumbers
    <3> QED BY <2>3, <3>1
  <2>5. Promise!PutMap(f, d)
    BY <1>6, <1>8, <2>2, <2>4 DEF Promise!PutMap
  <2> QED BY <2>1, <2>5 DEF Maps
<1> QED BY <1>9, <1>10

\* Every other step leaves the documents alone, or opens or ends a load.
LEMMA DocumentsStep ==
  ASSUME IInv, [Next]_vars
  PROVE  [Promise!ANext]_(Promise!avars)
<1>1. CASE Rename
  BY <1>1, RenamePuts DEF Promise!ANext
<1>2. CASE LoadOpens
  <2>1. fp = Closed /\ file["peers"] # NoDoc /\ fp' = Linked /\ UNCHANGED <<file, newest>>
    BY <1>2 DEF LoadOpens, history
  <2>2. Held' = file["peers"] /\ fp' # Closed /\ "peers" \in Files
    BY <2>1, DocsAssumption DEF Held, Files
  <2>3. Promise!Get("peers")
    BY <2>1, <2>2 DEF Promise!Get
  <2> QED BY <2>2, <2>3 DEF Promise!ANext
<1>3. CASE LoadReads
  <2>1. fp' = Closed /\ UNCHANGED <<file, newest>> /\ "peers" \in Files
    BY <1>3 DEF LoadReads, history, Files
  <2>2. Promise!Return("peers")
    BY <2>1 DEF Promise!Return
  <2> QED BY <2>1, <2>2 DEF Promise!ANext
<1>4. ASSUME UNCHANGED <<file, newest, fp>> PROVE UNCHANGED Promise!avars
  BY <1>4 DEF Promise!avars, Held
<1>5. CASE Works /\ ~Rename
  <2>1. UNCHANGED <<file, newest, fp>>
    BY <1>5 DEF Works, LoadConfig, LoadConfigFails, NoSetupKey, SetupKey, Connect, ConnectFails,
       GetServerKey, GetServerKeyFails, Login, LoginFails, LoginPanics, SyncOpens, SyncFails,
       onSyncUpdate, updateStub, Truncate, WriteFile, WriteFails, Moves, FallBack, history
  <2> QED BY <1>4, <2>1
<1>6. CASE Start \/ Kill \/ StreamEnds \/ StreamBreaks \/ SaveOpens \/ SaveWrites \/ SaveKilled
           \/ UNCHANGED vars
  <2>1. UNCHANGED <<file, newest, fp>>
    BY <1>6 DEF Start, Kill, StreamEnds, StreamBreaks, SaveOpens, SaveWrites, SaveKilled, Moves,
       FallBack, history, vars
  <2> QED BY <1>4, <2>1
<1>7. ASSUME NEW s \in SUBSET Files, Publish(s) PROVE UNCHANGED <<file, newest, fp>>
  BY <1>7 DEF Publish, history
<1>8. ASSUME NEW m \in {NoMap, Garbage}, SendUnusable(m) PROVE UNCHANGED <<file, newest, fp>>
  BY <1>8 DEF SendUnusable, history
<1> QED BY <1>1, <1>2, <1>3, <1>4, <1>5, <1>6, <1>7, <1>8 DEF Next

\* The files the helper writes are whole documents, replaced in one step and
\* never by an older map, wherever it is killed and whatever fails.
THEOREM ImplementsDocumentsAlways == Spec => ImplementsDocuments
<1>1. Init => Promise!AInit
  BY DocumentsInit
<1>2. IInv /\ [Next]_vars => [Promise!ANext]_(Promise!avars)
  BY DocumentsStep
<1> QED BY <1>1, <1>2, Invariance, PTL DEF Spec, ImplementsDocuments, Promise!ASpec

=============================================================================
