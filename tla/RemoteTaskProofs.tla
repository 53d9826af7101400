-------------------------- MODULE RemoteTaskProofs --------------------------
(***************************************************************************)
(* Proofs about the isolated task, for every number of FIFO threads and of  *)
(* tokens: no token is signalled twice, a crash leaves none unanswered, and *)
(* nothing the service hands over comes behind the end of the task.         *)
(***************************************************************************)
EXTENDS RemoteTask, TLAPS, FiniteSetTheorems, SequenceTheorems

ThreadPCs == {"free", "issue", "send", "wait", "fail", "signal"} \cup Dropping
LinkPCs   == {"free", "signal", "release", "closing", "drain", "invalidate", "exit", "wakes", "later"}

\* What the link's queue and the connection's queue may hold.
Completions == [kind : {"complete", "reply"}, of : Ids, status : {"ok", "fail"}]
LinkEvents  == Completions \cup [kind : {"trip"}, of : Ids]
                           \cup [kind : {"end"}, of : {"Died", "Invalidated"}]
ConnItems == [kind : {"message"}, of : Ids] \cup [kind : {"sync"}, of : Threads]
             \cup [kind : {"end"}, of : {"Died", "Invalidated"}]

\* The type invariant in five parts, with pc as a function and the queues' items.
TableTyped ==
  /\ tokens \subseteq Ids /\ next_id \in 1..(MaxTokens + 1) /\ crashed \in BOOLEAN
  /\ status \in [Ids -> Statuses] /\ parked \in BOOLEAN
  /\ dead \in {"no", "TokenSignalledTwice"}
HostTyped ==
  /\ pc \in [Hosts -> ThreadPCs \cup LinkPCs]
  /\ \A t \in Threads : pc[t] \in ThreadPCs
  /\ pc[Link] \in LinkPCs
  /\ tok \in [Threads -> [reply : 0..MaxTokens, done : 0..MaxTokens]]
  /\ back \in [Hosts -> {"free", "wait", "gone"}] /\ back[Link] = "free"
  /\ held \in BOOLEAN
QueuesTyped == link_q \in Seq(LinkEvents) /\ conn_q \in Seq(ConnItems)
ConnTyped ==
  /\ ended \in BOOLEAN /\ invalidated \in BOOLEAN /\ service \in BOOLEAN /\ closed \in BOOLEAN
  /\ pending \subseteq Ids /\ ending \in {"no", "Died", "Invalidated"}
ServiceTyped ==
  /\ life \in {"Running", "Died", "Exited"} /\ dying \in {"no", "wake", "hook", "told"}
  /\ work \in [Ids -> Works] /\ completion \in [Ids -> 0..MaxTokens]
  /\ gpu \subseteq Ids /\ wakers \subseteq Ids /\ filled \subseteq Ids /\ unbuffered \subseteq Ids
Typed == TableTyped /\ HostTyped /\ QueuesTyped /\ ConnTyped /\ ServiceTyped

\* Where the threads are and what the queues hold agree.
Flow ==
  /\ Room >= 0
  /\ \A t \in Threads : pc[t] \in {"issue", "send"} => tok[t].reply \in Ids
  /\ pc[Link] \in {"signal", "release", "closing"} => link_q # <<>>
  /\ pc[Link] = "signal" => Event \in Completions
  /\ ending # "no" => conn_q # <<>> /\ Head(conn_q).kind = "end"
  /\ \A i \in DOMAIN conn_q : conn_q[i].kind = "sync" => pc[conn_q[i].of] = "turn"
  /\ \A i, j \in DOMAIN conn_q :
       conn_q[i].kind = "sync" /\ conn_q[j].kind = "sync" /\ conn_q[i].of = conn_q[j].of => i = j

\* The tokens that somebody has taken out of the table and is about to signal.
ThreadSignals(t, i) == pc[t] = "signal" /\ tok[t].done = i
LinkSignalling(i)   == pc[Link] = "signal" /\ Event.of = i

\* A token not yet signalled is in the table or in one pair of hands, and no other is.
TokenInv ==
  /\ dead = "no"
  /\ \A i \in Ids : i \in tokens => i < next_id /\ status[i] = "none"
  /\ \A i \in Ids : i >= next_id => status[i] = "none"
  /\ \A t \in Threads, i \in Nat : ThreadSignals(t, i) =>
       i \in Ids /\ i < next_id /\ i \notin tokens /\ status[i] = "none"
  /\ \A t, u \in Threads, i \in Nat : ThreadSignals(t, i) /\ ThreadSignals(u, i) => t = u
  /\ \A i \in Ids : LinkSignalling(i) =>
       /\ i < next_id /\ i \notin tokens /\ status[i] = "none"
       /\ \A t \in Threads : ~ThreadSignals(t, i)
  /\ \A i \in Issued : \/ i \in tokens \/ status[i] # "none"
                       \/ LinkSignalling(i) \/ \E t \in Threads : ThreadSignals(t, i)
  /\ crashed => tokens = {} /\ pc[Link] # "signal"

\* Behind an end on the link's queue there is at most the invalidation, and once there is an
\* end the connection has ended.
EndInv ==
  /\ EndComesLast
  /\ \A i \in DOMAIN link_q : link_q[i].kind = "end" => ended

IInv == Typed /\ Flow /\ TokenInv /\ EndInv

-----------------------------------------------------------------------------
(* Sequences and constants *)

\* What appending to a queue keeps and adds.
LEMMA AppendFacts ==
  ASSUME NEW S, NEW q \in Seq(S), NEW x \in S
  PROVE  /\ Append(q, x) \in Seq(S) /\ Append(q, x) # <<>>
         /\ q # <<>> => Head(Append(q, x)) = Head(q)
         /\ \A i \in DOMAIN Append(q, x) :
              \/ i \in DOMAIN q /\ Append(q, x)[i] = q[i]
              \/ i = Len(q) + 1 /\ Append(q, x)[i] = x
         /\ \A i \in DOMAIN q : i < Len(q) + 1
  BY AppendProperties, LenProperties

\* What taking the head off a queue keeps.
LEMMA TailFacts ==
  ASSUME NEW S, NEW q \in Seq(S), q # <<>>
  PROVE  /\ Tail(q) \in Seq(S) /\ Head(q) \in S /\ 1 \in DOMAIN q /\ Head(q) = q[1]
         /\ \A i \in DOMAIN Tail(q) : i + 1 \in DOMAIN q /\ i + 1 # 1 /\ Tail(q)[i] = q[i + 1]
         /\ DOMAIN q \subseteq Int /\ DOMAIN Tail(q) \subseteq Int
  BY HeadTailProperties, LenProperties

\* What the assumption says of the constants.
LEMMA Constants ==
  /\ Link \in Hosts /\ Link \notin Threads /\ Threads \subseteq Hosts
  /\ MaxTokens \in Nat /\ Ids \subseteq Nat /\ 0 \notin Ids /\ Ids \subseteq 0..MaxTokens
  /\ IsFiniteSet(Threads)
  BY RemoteTaskAssumption DEF Hosts, Ids

\* A task just launched has issued nothing and has nothing queued.
LEMMA InitInv == Init => IInv
<1> SUFFICES ASSUME Init PROVE IInv
  OBVIOUS
<1> USE Constants
<1>1. TableTyped
  <2>1. crashed \in BOOLEAN /\ parked \in BOOLEAN /\ dead = "no" /\ tokens = {}
    BY Zenon DEF Init
  <2>2. next_id \in 1..(MaxTokens + 1) /\ status \in [Ids -> Statuses]
    BY DEF Init, Statuses
  <2> QED
    BY <2>1, <2>2 DEF TableTyped
<1>2. HostTyped
  BY DEF Init, HostTyped, ThreadPCs, LinkPCs, Hosts, NoToken
<1>3. QueuesTyped /\ ConnTyped
  <2>1. /\ ended \in BOOLEAN /\ invalidated \in BOOLEAN /\ service \in BOOLEAN /\ closed \in BOOLEAN
        /\ pending = {} /\ ending = "no"
    BY Zenon DEF Init
  <2>2. link_q \in Seq(LinkEvents) /\ conn_q \in Seq(ConnItems)
    BY DEF Init
  <2> QED
    BY <2>1, <2>2 DEF QueuesTyped, ConnTyped
<1>4. ServiceTyped
  BY DEF Init, ServiceTyped, Works, NoToken
<1>5. Flow
  <2>1. {t \in Threads : pc[t] = "issue"} = {}
    BY DEF Init, Hosts
  <2>2. Room >= 0
    <3>1. Cardinality({t \in Threads : pc[t] = "issue"}) = 0
      BY <2>1, FS_EmptySet, Zenon
    <3> QED
      BY <3>1 DEF Init, Room
  <2> QED
    BY <2>2 DEF Init, Flow, Hosts
<1>6. TokenInv
  BY DEF Init, TokenInv, Issued, ThreadSignals, LinkSignalling, Hosts
<1>7. EndInv
  BY DEF Init, EndInv, EndComesLast
<1> QED
  BY <1>1, <1>2, <1>3, <1>4, <1>5, <1>6, <1>7 DEF IInv, Typed

-----------------------------------------------------------------------------
(* What keeps the parts of the invariant *)

\* The tokens left do not change in a step that issues none and reserves none.
LEMMA RoomKept ==
  ASSUME next_id' = next_id, \A t \in Threads : pc'[t] = "issue" <=> pc[t] = "issue"
  PROVE  Room' = Room
<1>1. {t \in Threads : pc'[t] = "issue"} = {t \in Threads : pc[t] = "issue"}
  OBVIOUS
<1> QED
  BY <1>1 DEF Room

\* A step that touches no token and takes none in hand.
LEMMA TokensKept ==
  ASSUME TokenInv, UNCHANGED <<tokens, next_id, crashed, status, dead, tok>>,
         \A a \in Hosts : pc'[a] = "signal" <=> pc[a] = "signal",
         pc[Link] = "signal" => Head(link_q') = Head(link_q)
  PROVE  TokenInv'
<1> USE Constants
<1>1. \A t \in Threads : \A i : ThreadSignals(t, i)' <=> ThreadSignals(t, i)
  BY DEF ThreadSignals
<1>2. \A i : LinkSignalling(i)' <=> LinkSignalling(i)
  BY DEF LinkSignalling, Event
<1>3. Issued' = Issued
  BY DEF Issued
<1>4. pc'[Link] = "signal" <=> pc[Link] = "signal"
  OBVIOUS
<1> QED
  BY <1>1, <1>2, <1>3, <1>4, Zenon DEF TokenInv

\* The end stays last on the link's queue in a step that leaves that queue alone.
LEMMA EndKept ==
  ASSUME EndInv, link_q' = link_q, ended => ended'
  PROVE  EndInv'
  BY DEF EndInv, EndComesLast

\* What the service hands over goes behind no end.
LEMMA EndKeptByAppend ==
  ASSUME Typed, EndInv, NEW x \in LinkEvents, x.kind # "end", ~ended, ended' = ended,
         link_q' = Append(link_q, x)
  PROVE  EndInv'
<1>1. \A i \in DOMAIN link_q : link_q[i].kind # "end"
  BY DEF EndInv
<1>2. \A i \in DOMAIN link_q' : link_q'[i].kind # "end"
  BY <1>1, AppendFacts DEF Typed, QueuesTyped
<1> QED
  BY <1>2 DEF EndInv, EndComesLast

\* The end stays last when the link's queue takes its head.
LEMMA EndKeptByTail ==
  ASSUME Typed, EndInv, link_q # <<>>, link_q' = Tail(link_q), ended' = ended
  PROVE  EndInv'
<1>1. /\ \A i \in DOMAIN link_q' : i + 1 \in DOMAIN link_q /\ link_q'[i] = link_q[i + 1]
      /\ DOMAIN link_q' \subseteq Int
  BY TailFacts DEF Typed, QueuesTyped
<1> QED
  BY <1>1 DEF EndInv, EndComesLast

\* A host thread that moves in its own code, with the connection's queue left alone or longer.
LEMMA MoveKeepsFlow ==
  ASSUME Typed, Flow, NEW a \in Hosts,
         NEW l \in (ThreadPCs \cup LinkPCs) \ {"issue", "send", "signal", "release", "closing", "turn"},
         pc' = [pc EXCEPT ![a] = l], pc[a] \notin {"issue", "turn"},
         UNCHANGED <<next_id, tok, link_q, ending>>,
         \/ conn_q' = conn_q
         \/ \E x \in ConnItems : x.kind # "sync" /\ conn_q' = Append(conn_q, x)
  PROVE  Flow'
<1> USE Constants
<1>1. \A b \in Hosts : pc'[b] = IF b = a THEN l ELSE pc[b]
  BY DEF Typed, HostTyped
<1>2. Room' >= 0
  <2>1. Room' = Room
    BY <1>1, RoomKept
  <2> QED
    BY <2>1 DEF Flow
<1>3. \A t \in Threads : pc'[t] \in {"issue", "send"} => tok'[t].reply \in Ids
  BY <1>1 DEF Flow
<1>4. /\ pc'[Link] \in {"signal", "release", "closing"} => link_q' # <<>>
      /\ pc'[Link] = "signal" => Event' \in Completions
  BY <1>1 DEF Flow, Event
<1>5. /\ ending' # "no" => conn_q' # <<>> /\ Head(conn_q').kind = "end"
      /\ \A i \in DOMAIN conn_q' : conn_q'[i].kind = "sync" =>
           i \in DOMAIN conn_q /\ conn_q'[i] = conn_q[i]
  <2>1. CASE conn_q' = conn_q
    BY <2>1 DEF Flow
  <2>2. ASSUME NEW x \in ConnItems, x.kind # "sync", conn_q' = Append(conn_q, x)
        PROVE  /\ conn_q' # <<>> /\ (conn_q # <<>> => Head(conn_q') = Head(conn_q))
               /\ \A i \in DOMAIN conn_q' : conn_q'[i].kind = "sync" =>
                    i \in DOMAIN conn_q /\ conn_q'[i] = conn_q[i]
    <3>1. conn_q \in Seq(ConnItems)
      BY DEF Typed, QueuesTyped
    <3> QED
      BY <2>2, <3>1, AppendFacts
  <2> QED
    BY <2>1, <2>2 DEF Flow
<1>6. \A i \in DOMAIN conn_q' : conn_q'[i].kind = "sync" => pc'[conn_q'[i].of] = "turn"
  <2> SUFFICES ASSUME NEW i \in DOMAIN conn_q', conn_q'[i].kind = "sync"
               PROVE  pc'[conn_q'[i].of] = "turn"
    OBVIOUS
  <2>1. i \in DOMAIN conn_q /\ conn_q'[i] = conn_q[i] /\ pc[conn_q[i].of] = "turn"
    BY <1>5 DEF Flow
  <2>2. conn_q[i] \in ConnItems
    BY <2>1, ElementOfSeq, LenProperties DEF Typed, QueuesTyped
  <2>3. conn_q[i].of \in Threads
    BY <2>1, <2>2 DEF ConnItems
  <2> QED
    BY <1>1, <2>1, <2>3
<1>7. \A i, j \in DOMAIN conn_q' :
        conn_q'[i].kind = "sync" /\ conn_q'[j].kind = "sync" /\ conn_q'[i].of = conn_q'[j].of => i = j
  BY <1>5 DEF Flow
<1> QED
  BY <1>2, <1>3, <1>4, <1>5, <1>6, <1>7 DEF Flow

\* A host thread that moves outside the completion of tokens.
LEMMA MoveKeeps ==
  ASSUME IInv, NEW a \in Hosts,
         NEW l \in (ThreadPCs \cup LinkPCs) \ {"issue", "send", "signal", "release", "closing", "turn"},
         IF a = Link THEN l \in LinkPCs ELSE l \in ThreadPCs,
         pc' = [pc EXCEPT ![a] = l], pc[a] \notin {"issue", "turn", "signal"},
         UNCHANGED <<tokens, next_id, crashed, status, dead, tok, link_q, ending>>,
         parked' \in BOOLEAN, held' \in BOOLEAN,
         back' \in [Hosts -> {"free", "wait", "gone"}], back'[Link] = "free",
         \/ conn_q' = conn_q
         \/ \E x \in ConnItems : x.kind # "sync" /\ conn_q' = Append(conn_q, x),
         ended => ended', ConnTyped', ServiceTyped'
  PROVE  IInv'
<1> USE Constants
<1>1. TableTyped'
  BY DEF IInv, Typed, TableTyped
<1>2. HostTyped'
  BY DEF IInv, Typed, HostTyped, Hosts
<1>3. QueuesTyped'
  BY AppendFacts DEF IInv, Typed, QueuesTyped
<1>4. Flow'
  BY MoveKeepsFlow DEF IInv
<1>5. TokenInv'
  <2>1. \A b \in Hosts : pc'[b] = "signal" <=> pc[b] = "signal"
    BY DEF IInv, Typed, HostTyped
  <2> QED
    BY <2>1, TokensKept DEF IInv
<1>6. EndInv'
  BY EndKept DEF IInv
<1> QED
  BY <1>1, <1>2, <1>3, <1>4, <1>5, <1>6 DEF IInv, Typed

\* A step of the service, which may hand something over or queue an end.
LEMMA ServiceKeeps ==
  ASSUME IInv, UNCHANGED <<tokens, next_id, crashed, status, parked, dead, host, ended, ending>>,
         \/ conn_q' = conn_q
         \/ \E x \in ConnItems : x.kind # "sync" /\ conn_q' = Append(conn_q, x),
         \/ link_q' = link_q
         \/ \E x \in LinkEvents : x.kind # "end" /\ ~ended /\ link_q' = Append(link_q, x),
         ConnTyped', ServiceTyped'
  PROVE  IInv'
<1> USE Constants
<1>1. TableTyped' /\ HostTyped'
  BY DEF IInv, Typed, TableTyped, HostTyped, host
<1>2. link_q \in Seq(LinkEvents) /\ conn_q \in Seq(ConnItems)
  BY DEF IInv, Typed, QueuesTyped
<1>3. QueuesTyped'
  <2>1. link_q' \in Seq(LinkEvents)
    BY <1>2, AppendFacts
  <2>2. conn_q' \in Seq(ConnItems)
    BY <1>2, AppendFacts
  <2> QED
    BY <2>1, <2>2 DEF QueuesTyped
<1>4. link_q # <<>> => link_q' # <<>> /\ Head(link_q') = Head(link_q)
  BY <1>2, AppendFacts
<1>5. /\ conn_q # <<>> => conn_q' # <<>> /\ Head(conn_q') = Head(conn_q)
      /\ \A i \in DOMAIN conn_q' : conn_q'[i].kind = "sync" =>
           i \in DOMAIN conn_q /\ conn_q'[i] = conn_q[i]
  <2>1. CASE conn_q' = conn_q
    BY <2>1
  <2>2. ASSUME NEW x \in ConnItems, x.kind # "sync", conn_q' = Append(conn_q, x)
        PROVE  /\ conn_q # <<>> => conn_q' # <<>> /\ Head(conn_q') = Head(conn_q)
               /\ \A i \in DOMAIN conn_q' : conn_q'[i].kind = "sync" =>
                    i \in DOMAIN conn_q /\ conn_q'[i] = conn_q[i]
    BY <1>2, <2>2, AppendFacts
  <2> QED
    BY <2>1, <2>2
<1>6. Flow'
  <2>1. Room' = Room
    BY RoomKept DEF host
  <2>2. pc[Link] = "signal" => Event' = Event
    BY <1>4 DEF IInv, Flow, Event
  <2> QED
    BY <1>4, <1>5, <2>1, <2>2 DEF IInv, Flow, host
<1>7. TokenInv'
  BY <1>4, TokensKept DEF IInv, Flow, host
<1>8. EndInv'
  BY EndKept, EndKeptByAppend DEF IInv
<1> QED
  BY <1>1, <1>3, <1>6, <1>7, <1>8 DEF IInv, Typed, ConnTyped, ServiceTyped

-----------------------------------------------------------------------------
(* The service's steps *)

\* The service's steps keep the invariant: commit, round trip, the GPU's completion, death.
LEMMA ServiceSteps_Keep ==
  ASSUME IInv, NEW i \in Ids,
         ServiceSteps(i) \/ Commit(i) \/ RoundTrip(i) \/ GpuCompletes(i) \/ die(i)
  PROVE  IInv'
<1> USE Constants
<1> USE DEF table, queues, conn
<1>1. ConnTyped /\ ServiceTyped /\ HostTyped
  BY DEF IInv, Typed
<1>2. CASE Answer(i)
  <2>1. PICK st \in {"ok", "fail"} : relay(i, st) /\ gpu' \subseteq gpu
    BY <1>2 DEF Answer
  <2>2. ConnTyped'
    BY <1>1, <1>2, <2>1 DEF ConnTyped, Answer, relay
  <2>3. ServiceTyped'
    BY <1>1, <1>2, <2>1 DEF ServiceTyped, Answer, Works
  <2>4. \/ link_q' = link_q
        \/ \E x \in LinkEvents : x.kind # "end" /\ ~ended /\ link_q' = Append(link_q, x)
    <3> DEFINE x == [kind |-> "reply", of |-> i, status |-> st]
    <3>1. x \in LinkEvents /\ x.kind # "end"
      BY DEF LinkEvents, Completions
    <3> QED
      BY <2>1, <3>1, Zenon DEF relay
  <2> QED
    BY <1>2, <2>2, <2>3, <2>4, ServiceKeeps DEF Answer
<1>3. CASE waiting(i) \/ SlotWait(i) \/ stop_if_ended(i)
  <2>1. ServiceTyped'
    BY <1>1, <1>3 DEF ServiceTyped, waiting, SlotWait, stop_if_ended, Works
  <2>2. UNCHANGED <<table, host, queues, conn>>
    BY <1>3 DEF waiting, SlotWait, stop_if_ended
  <2>3. ConnTyped'
    BY <1>1, <2>2 DEF ConnTyped
  <2> QED
    BY <2>1, <2>2, <2>3, ServiceKeeps
<1>4. CASE Commit(i) \/ die(i)
  <2>1. ServiceTyped'
    <3>1. CASE Commit(i)
      <4>1. completion[i] \in Ids
        BY <1>1, <3>1 DEF ServiceTyped, Commit, Ids, NoToken
      <4> QED
        BY <1>1, <3>1, <4>1 DEF ServiceTyped, Commit, Works
    <3>2. CASE die(i)
      BY <1>1, <3>2 DEF ServiceTyped, die, Works
    <3> QED
      BY <1>4, <3>1, <3>2
  <2>2. UNCHANGED <<table, host, queues, conn>>
    BY <1>4 DEF Commit, die
  <2>3. ConnTyped'
    BY <1>1, <2>2 DEF ConnTyped
  <2> QED
    BY <2>1, <2>2, <2>3, ServiceKeeps
<1>5. CASE RoundTrip(i)
  <2>1. ServiceTyped' /\ ConnTyped'
    BY <1>1, <1>5 DEF ServiceTyped, ConnTyped, RoundTrip, Works
  <2> DEFINE x == [kind |-> "trip", of |-> i]
  <2>2. x \in LinkEvents /\ x.kind # "end"
    BY DEF LinkEvents
  <2>3. \/ link_q' = link_q
        \/ \E y \in LinkEvents : y.kind # "end" /\ ~ended /\ link_q' = Append(link_q, y)
    BY <1>5, <2>2, Zenon DEF RoundTrip, to_host
  <2> QED
    BY <1>5, <2>1, <2>3, ServiceKeeps DEF RoundTrip
<1>6. CASE GpuCompletes(i)
  <2>1. ServiceTyped' /\ ConnTyped'
    BY <1>1, <1>6 DEF ServiceTyped, ConnTyped, GpuCompletes
  <2>2. PICK st \in {"ok", "fail"} : to_host([kind |-> "complete", of |-> i, status |-> st])
    BY <1>6 DEF GpuCompletes
  <2> DEFINE x == [kind |-> "complete", of |-> i, status |-> st]
  <2>3. x \in LinkEvents /\ x.kind # "end"
    BY DEF LinkEvents, Completions
  <2>4. \/ link_q' = link_q
        \/ \E y \in LinkEvents : y.kind # "end" /\ ~ended /\ link_q' = Append(link_q, y)
    BY <2>2, <2>3, Zenon DEF to_host
  <2> QED
    BY <1>6, <2>1, <2>4, ServiceKeeps DEF GpuCompletes
<1> QED
  BY <1>2, <1>3, <1>4, <1>5, <1>6 DEF ServiceSteps

\* The wakers of a death, and its report to the link's queue, keep the invariant.
LEMMA DeathKeeps ==
  ASSUME IInv, DeathWakes \/ report_death
  PROVE  IInv'
<1> USE Constants
<1> USE DEF table, queues, conn
<1>1. ConnTyped /\ ServiceTyped /\ HostTyped
  BY DEF IInv, Typed
<1>2. CASE DeathWakes
  <2>1. work' \in [Ids -> Works]
    BY <1>1, <1>2 DEF ServiceTyped, DeathWakes, WakeAll, Works
  <2>2. ServiceTyped'
    BY <1>1, <1>2, <2>1 DEF ServiceTyped, DeathWakes
  <2>3. UNCHANGED <<table, host, queues, conn>>
    BY <1>2 DEF DeathWakes
  <2>4. ConnTyped'
    BY <1>1, <2>3 DEF ConnTyped
  <2> QED
    BY <2>2, <2>3, <2>4, ServiceKeeps
<1>3. CASE report_death
  <2>1. ServiceTyped' /\ ConnTyped'
    BY <1>1, <1>3 DEF ServiceTyped, ConnTyped, report_death, serv
  <2> DEFINE x == [kind |-> "end", of |-> "Died"]
  <2>2. x \in ConnItems /\ x.kind # "sync"
    BY DEF ConnItems
  <2> QED
    BY <1>3, <2>1, <2>2, ServiceKeeps DEF report_death
<1> QED
  BY <1>2, <1>3

-----------------------------------------------------------------------------
(* The connection's queue *)

\* The queue loses its head: what is left of it still agrees with the threads.
LEMMA ConnTail ==
  ASSUME Typed, Flow, conn_q # <<>>, conn_q' = Tail(conn_q)
  PROVE  /\ conn_q' \in Seq(ConnItems) /\ Head(conn_q) \in ConnItems
         /\ \A i \in DOMAIN conn_q' : i + 1 \in DOMAIN conn_q /\ conn_q'[i] = conn_q[i + 1]
         /\ \A i \in DOMAIN conn_q' : conn_q'[i].kind = "sync" =>
              /\ pc[conn_q'[i].of] = "turn" /\ conn_q'[i].of \in Threads
              /\ Head(conn_q).kind = "sync" => conn_q'[i].of # Head(conn_q).of
         /\ \A i, j \in DOMAIN conn_q' :
              conn_q'[i].kind = "sync" /\ conn_q'[j].kind = "sync" /\ conn_q'[i].of = conn_q'[j].of => i = j
<1>1. /\ conn_q' \in Seq(ConnItems) /\ Head(conn_q) \in ConnItems
      /\ 1 \in DOMAIN conn_q /\ Head(conn_q) = conn_q[1]
      /\ \A i \in DOMAIN conn_q' : i + 1 \in DOMAIN conn_q /\ i + 1 # 1 /\ conn_q'[i] = conn_q[i + 1]
      /\ DOMAIN conn_q' \subseteq Int
  BY TailFacts DEF Typed, QueuesTyped
<1>2. ASSUME NEW i \in DOMAIN conn_q', conn_q'[i].kind = "sync"
      PROVE  /\ pc[conn_q'[i].of] = "turn" /\ conn_q'[i].of \in Threads
             /\ Head(conn_q).kind = "sync" => conn_q'[i].of # Head(conn_q).of
  <2>1. conn_q'[i] \in ConnItems
    BY <1>1, ElementOfSeq, LenProperties
  <2>2. conn_q'[i].of \in Threads
    BY <1>2, <2>1 DEF ConnItems
  <2> QED
    BY <1>1, <1>2, <2>2 DEF Flow
<1>3. \A i, j \in DOMAIN conn_q' :
        conn_q'[i].kind = "sync" /\ conn_q'[j].kind = "sync" /\ conn_q'[i].of = conn_q'[j].of => i = j
  BY <1>1 DEF Flow
<1> QED
  BY <1>1, <1>2, <1>3

\* What the connection's queue runs keeps the invariant.
LEMMA ConnectionKeeps ==
  ASSUME IInv, ConnectionQueue
  PROVE  IInv'
<1> USE Constants
<1> USE DEF table, queues, conn
<1>1. /\ TableTyped /\ HostTyped /\ ConnTyped /\ ServiceTyped /\ Flow
      /\ link_q \in Seq(LinkEvents) /\ conn_q \in Seq(ConnItems)
  BY DEF IInv, Typed, QueuesTyped
<1>2. CASE deliver
  <2>1. conn_q # <<>> /\ conn_q' = Tail(conn_q) /\ Head(conn_q).kind = "message" /\ ending = "no"
    BY <1>1, <1>2 DEF deliver, Flow
  <2>2. UNCHANGED <<table, host, link_q, conn>>
    BY <1>2 DEF deliver
  <2>3. Head(conn_q).of \in Ids
    BY <2>1, ConnTail DEF IInv, ConnItems
  <2>4. ServiceTyped' /\ ConnTyped' /\ TableTyped' /\ HostTyped'
    BY <1>1, <1>2, <2>2, <2>3 DEF ServiceTyped, ConnTyped, TableTyped, HostTyped, host, deliver, Works
  <2>5. Flow'
    <3>1. Room' = Room
      BY <2>2, RoomKept DEF host
    <3> QED
      BY <1>1, <2>1, <2>2, <3>1, ConnTail DEF IInv, Flow, host, Event
  <2>6. TokenInv'
    BY <2>2, TokensKept DEF IInv, host
  <2>7. EndInv'
    BY <2>2, EndKept DEF IInv
  <2> QED
    BY <1>1, <2>1, <2>2, <2>4, <2>5, <2>6, <2>7, ConnTail DEF IInv, Typed, QueuesTyped
<1>3. CASE SyncRuns
  <2> DEFINE t == Head(conn_q).of
  <2>1. /\ conn_q # <<>> /\ conn_q' = Tail(conn_q) /\ Head(conn_q).kind = "sync" /\ ending = "no"
        /\ pc' = [pc EXCEPT ![t] = back[t]]
        /\ UNCHANGED <<table, tok, back, held, link_q, conn, life, dying, serv>>
    BY <1>1, <1>3 DEF SyncRuns, Flow, Goto
  <2>2. t \in Threads /\ pc[t] = "turn"
    <3>1. Head(conn_q) \in ConnItems /\ 1 \in DOMAIN conn_q /\ Head(conn_q) = conn_q[1]
      BY <1>1, <2>1, TailFacts
    <3> QED
      BY <1>1, <2>1, <3>1 DEF ConnItems, Flow
  <2>3. \A i \in DOMAIN conn_q' : conn_q'[i].kind = "sync" =>
              /\ pc[conn_q'[i].of] = "turn" /\ conn_q'[i].of \in Threads /\ conn_q'[i].of # t
    BY <2>1, ConnTail DEF IInv
  <2> HIDE DEF t
  <2>4. back[t] \in {"free", "wait", "gone"}
    BY <1>1, <2>2 DEF HostTyped
  <2>5. \A a \in Hosts : pc'[a] = IF a = t THEN back[t] ELSE pc[a]
    BY <1>1, <2>1 DEF HostTyped
  <2>6. ServiceTyped' /\ ConnTyped' /\ TableTyped'
    BY <1>1, <2>1 DEF ServiceTyped, ConnTyped, TableTyped, serv
  <2>7. HostTyped'
    BY <1>1, <2>1, <2>2, <2>4, <2>5 DEF HostTyped, ThreadPCs, Dropping
  <2>8. Flow'
    <3>1. Room' = Room
      BY <2>1, <2>2, <2>4, <2>5, RoomKept
    <3>2. \A i \in DOMAIN conn_q' : conn_q'[i].kind = "sync" => pc'[conn_q'[i].of] = "turn"
      BY <2>3, <2>5
    <3>3. /\ pc'[Link] \in {"signal", "release", "closing"} => link_q' # <<>>
          /\ pc'[Link] = "signal" => Event' \in Completions
      BY <1>1, <2>1, <2>2, <2>5 DEF Flow, Event
    <3>4. \A u \in Threads : pc'[u] \in {"issue", "send"} => tok'[u].reply \in Ids
      BY <1>1, <2>1, <2>4, <2>5 DEF Flow
    <3> QED
      BY <1>1, <2>1, <3>1, <3>2, <3>3, <3>4, ConnTail DEF IInv, Flow
  <2>9. TokenInv'
    <3>1. \A a \in Hosts : pc'[a] = "signal" <=> pc[a] = "signal"
      BY <2>2, <2>4, <2>5
    <3> QED
      BY <2>1, <3>1, TokensKept DEF IInv
  <2>10. EndInv'
    BY <2>1, EndKept DEF IInv
  <2> QED
    BY <1>1, <2>1, <2>6, <2>7, <2>8, <2>9, <2>10, ConnTail DEF IInv, Typed, QueuesTyped
<1>4. CASE EndBegins
  <2>1. /\ conn_q # <<>> /\ Head(conn_q).kind = "end" /\ ending' = Head(conn_q).of
        /\ UNCHANGED <<table, host, queues, ended, invalidated, pending, closed, life, dying, serv>>
        /\ service' = FALSE
    BY <1>4 DEF EndBegins
  <2>2. Head(conn_q).of \in {"Died", "Invalidated"}
    <3>1. Head(conn_q) \in ConnItems
      BY <1>1, <2>1, TailFacts
    <3> QED
      BY <2>1, <3>1 DEF ConnItems
  <2>3. ServiceTyped' /\ ConnTyped' /\ TableTyped' /\ HostTyped' /\ QueuesTyped'
    <3>1. ConnTyped'
      BY <1>1, <2>1, <2>2 DEF ConnTyped
    <3>2. ServiceTyped' /\ TableTyped' /\ HostTyped' /\ QueuesTyped'
      BY <1>1, <2>1 DEF ServiceTyped, TableTyped, HostTyped, QueuesTyped, host, serv
    <3> QED
      BY <3>1, <3>2
  <2>4. Flow'
    <3>1. Room' = Room
      BY <2>1, RoomKept DEF host
    <3> QED
      BY <1>1, <2>1, <3>1 DEF Flow, host, Event
  <2>5. TokenInv' /\ EndInv'
    BY <2>1, TokensKept, EndKept DEF IInv, host
  <2> QED
    BY <2>3, <2>4, <2>5 DEF IInv, Typed
<1>5. CASE EndTold
  <2>1. /\ conn_q # <<>> /\ conn_q' = Tail(conn_q) /\ ending' = "no" /\ ended' = TRUE
        /\ ending \in {"Died", "Invalidated"}
        /\ UNCHANGED <<table, host, invalidated, service, pending, closed, life, dying, serv>>
    BY <1>1, <1>5 DEF EndTold, Flow, ConnTyped
  <2> DEFINE x == [kind |-> "end", of |-> ending]
  <2>2. x \in LinkEvents /\ x.kind = "end" /\ x.of = ending
    BY <2>1 DEF LinkEvents
  <2>3. \/ link_q' = link_q
        \/ link_q' = Append(link_q, x) /\ (ending = "Invalidated" \/ ~ended)
    BY <1>5, <2>1 DEF EndTold
  <2>4. /\ link_q' \in Seq(LinkEvents)
        /\ link_q # <<>> => link_q' # <<>> /\ Head(link_q') = Head(link_q)
    <3> HIDE DEF x
    <3> QED
      BY <1>1, <2>2, <2>3, AppendFacts
  <2>5. ServiceTyped' /\ TableTyped' /\ HostTyped'
    BY <1>1, <2>1 DEF ServiceTyped, TableTyped, HostTyped, host, serv
  <2>6. ConnTyped'
    BY <1>1, <2>1 DEF ConnTyped
  <2>7. Flow'
    <3>1. Room' = Room
      BY <2>1, RoomKept DEF host
    <3>2. pc[Link] = "signal" => Event' = Event
      BY <1>1, <2>4 DEF Flow, Event
    <3> QED
      BY <1>1, <2>1, <2>4, <3>1, <3>2, ConnTail DEF IInv, Flow, host
  <2>8. TokenInv'
    BY <1>1, <2>1, <2>4, TokensKept DEF IInv, Flow, host
  <2>9. EndInv'
    <3>1. CASE link_q' = link_q
      BY <2>1, <3>1, EndKept DEF IInv
    <3>2. CASE link_q' = Append(link_q, x) /\ ending = "Invalidated"
      <4> HIDE DEF x
      <4>1. \A i \in DOMAIN link_q' : \/ i \in DOMAIN link_q /\ link_q'[i] = link_q[i] /\ i < Len(link_q) + 1
                                      \/ i = Len(link_q) + 1 /\ link_q'[i] = x
        BY <1>1, <2>2, <3>2, AppendFacts
      <4>2. x = [kind |-> "end", of |-> "Invalidated"]
        BY <3>2 DEF x
      <4>3. Len(link_q) \in Nat /\ DOMAIN link_q \subseteq Int
        BY <1>1, LenProperties
      <4> QED
        BY <2>1, <4>1, <4>2, <4>3 DEF IInv, EndInv, EndComesLast
    <3>3. CASE link_q' = Append(link_q, x) /\ ~ended
      <4>1. \A i \in DOMAIN link_q : link_q[i].kind # "end"
        BY <3>3 DEF IInv, EndInv
      <4> HIDE DEF x
      <4>2. \A i \in DOMAIN link_q' : \/ i \in DOMAIN link_q /\ link_q'[i] = link_q[i] /\ i < Len(link_q) + 1
                                      \/ i = Len(link_q) + 1 /\ link_q'[i] = x
        BY <1>1, <2>2, <3>3, AppendFacts
      <4>3. Len(link_q) \in Nat /\ DOMAIN link_q \subseteq Int
        BY <1>1, LenProperties
      <4> QED
        BY <2>1, <4>1, <4>2, <4>3 DEF EndInv, EndComesLast
    <3> QED
      BY <2>3, <3>1, <3>2, <3>3
  <2> QED
    BY <1>1, <2>1, <2>4, <2>5, <2>6, <2>7, <2>8, <2>9, ConnTail DEF IInv, Typed, QueuesTyped
<1> QED
  BY <1>2, <1>3, <1>4, <1>5 DEF ConnectionQueue

-----------------------------------------------------------------------------
(* The host's threads *)

\* A FIFO thread's send, its exec's wait and its drop of the task keep the invariant.
LEMMA HostMovesKeep ==
  ASSUME IInv, NEW t \in Threads, send(t) \/ ExecWaits(t) \/ DropTask(t)
  PROVE  IInv'
<1> USE Constants
<1> USE DEF table, queues, conn
<1>1. TableTyped /\ HostTyped /\ ConnTyped /\ ServiceTyped /\ t \in Hosts /\ t # Link
  BY DEF IInv, Typed
<1>2. CASE send(t)
  <2> DEFINE r == tok[t].reply
             after == AfterSend(t)
  <2>1. r \in Ids /\ tok[t].done \in 0..MaxTokens /\ after \in {"free", "wait"} /\ pc[t] = "send"
    BY <1>1, <1>2 DEF IInv, Flow, HostTyped, send, AfterSend
  <2> HIDE DEF after
  <2>2. UNCHANGED <<table, tok, held, link_q, ended, invalidated, service, closed, ending, life, dying,
                    work, gpu, wakers, filled, unbuffered>>
    BY <1>2 DEF send
  <2>3. CASE ~ended
    <3>1. /\ pending' = IF closed THEN pending ELSE pending \cup {r}
          /\ completion' = [completion EXCEPT ![r] = tok[t].done]
          /\ conn_q' = Append(conn_q, [kind |-> "message", of |-> r])
          /\ pc' = [pc EXCEPT ![t] = after] /\ back' = back
      BY <1>2, <2>3 DEF send, Goto, after
    <3>2. [kind |-> "message", of |-> r] \in ConnItems
      BY <2>1 DEF ConnItems
    <3>3. ConnTyped' /\ ServiceTyped'
      BY <1>1, <2>1, <2>2, <3>1 DEF ConnTyped, ServiceTyped
    <3>4. after \in (ThreadPCs \cup LinkPCs) \ {"issue", "send", "signal", "release", "closing", "turn"}
          /\ after \in ThreadPCs
      BY <2>1 DEF ThreadPCs
    <3>5. \/ conn_q' = conn_q
          \/ \E x \in ConnItems : x.kind # "sync" /\ conn_q' = Append(conn_q, x)
      BY <3>1, <3>2
    <3>6. /\ parked' \in BOOLEAN /\ held' \in BOOLEAN
          /\ back' \in [Hosts -> {"free", "wait", "gone"}] /\ back'[Link] = "free"
      BY <1>1, <2>2, <3>1 DEF TableTyped, HostTyped
    <3> QED
      BY <1>1, <2>1, <2>2, <3>1, <3>3, <3>4, <3>5, <3>6, MoveKeeps
  <2>4. CASE ended
    <3> DEFINE l == IF invalidated THEN after ELSE "invalidate"
    <3>1. /\ pc' = [pc EXCEPT ![t] = l] /\ back' = [back EXCEPT ![t] = after]
          /\ UNCHANGED <<pending, completion, conn_q>>
      BY <1>2, <2>4 DEF send, Goto, after
    <3>2. ConnTyped' /\ ServiceTyped'
      BY <1>1, <2>2, <3>1 DEF ConnTyped, ServiceTyped
    <3>3. l \in (ThreadPCs \cup LinkPCs) \ {"issue", "send", "signal", "release", "closing", "turn"}
          /\ l \in ThreadPCs
      BY <2>1 DEF ThreadPCs, Dropping
    <3>4. /\ parked' \in BOOLEAN /\ held' \in BOOLEAN
          /\ back' \in [Hosts -> {"free", "wait", "gone"}] /\ back'[Link] = "free"
      BY <1>1, <2>1, <2>2, <3>1 DEF TableTyped, HostTyped
    <3> HIDE DEF l
    <3> QED
      BY <1>1, <2>1, <2>2, <3>1, <3>2, <3>3, <3>4, MoveKeeps
  <2> QED
    BY <2>3, <2>4
<1>3. CASE ExecWaits(t)
  <2> DEFINE l == IF status[tok[t].reply] = "fail" THEN "fail" ELSE "free"
  <2>1. /\ pc' = [pc EXCEPT ![t] = l] /\ pc[t] = "wait"
        /\ UNCHANGED <<table, tok, back, held, queues, conn, life, dying, serv>>
    BY <1>3 DEF ExecWaits, Goto
  <2>2. ConnTyped' /\ ServiceTyped'
    BY <1>1, <2>1 DEF ConnTyped, ServiceTyped, serv
  <2>3. l \in (ThreadPCs \cup LinkPCs) \ {"issue", "send", "signal", "release", "closing", "turn"}
        /\ l \in ThreadPCs
    BY DEF ThreadPCs
  <2>4. /\ parked' \in BOOLEAN /\ held' \in BOOLEAN
        /\ back' \in [Hosts -> {"free", "wait", "gone"}] /\ back'[Link] = "free"
    BY <1>1, <2>1 DEF TableTyped, HostTyped
  <2> HIDE DEF l
  <2> QED
    BY <1>1, <2>1, <2>2, <2>3, <2>4, MoveKeeps
<1>4. CASE DropTask(t)
  <2> DEFINE l == IF LastGone(pending, link_q) THEN "drain" ELSE "free"
  <2>1. /\ pc' = [pc EXCEPT ![t] = l] /\ pc[t] = "free" /\ held' = FALSE
        /\ back' = [back EXCEPT ![t] = "gone"]
        /\ UNCHANGED <<table, tok, queues, conn, life, dying, serv>>
    BY <1>4 DEF DropTask, Goto
  <2>2. ConnTyped' /\ ServiceTyped'
    BY <1>1, <2>1 DEF ConnTyped, ServiceTyped, serv
  <2>3. l \in (ThreadPCs \cup LinkPCs) \ {"issue", "send", "signal", "release", "closing", "turn"}
        /\ l \in ThreadPCs
    BY DEF ThreadPCs, Dropping
  <2>4. /\ parked' \in BOOLEAN
        /\ back' \in [Hosts -> {"free", "wait", "gone"}] /\ back'[Link] = "free"
    BY <1>1, <2>1 DEF TableTyped, HostTyped
  <2>5. held' \in BOOLEAN
    BY <2>1
  <2> HIDE DEF l
  <2> QED
    BY <1>1, <2>1, <2>2, <2>3, <2>4, <2>5, MoveKeeps
<1> QED
  BY <1>2, <1>3, <1>4

\* The task's drop, on a FIFO thread or on the link's queue.
LEMMA DropKeeps ==
  ASSUME IInv, NEW a \in Hosts, Dropped(a)
  PROVE  IInv'
<1> USE Constants
<1> USE DEF table, queues, conn
<1> DEFINE Labels == (ThreadPCs \cup LinkPCs) \ {"issue", "send", "signal", "release", "closing", "turn"}
           Fits(l) == l \in Labels /\ IF a = Link THEN l \in LinkPCs ELSE l \in ThreadPCs
<1>1. TableTyped /\ HostTyped /\ ConnTyped /\ ServiceTyped
  BY DEF IInv, Typed
<1>2. \A l \in {"drain", "invalidate", "exit", "wakes", "later", "free"} : Fits(l)
  BY DEF ThreadPCs, LinkPCs, Dropping
<1>3. Fits(back[a])
  <2>1. back[a] \in {"free", "wait", "gone"} /\ (a = Link => back[a] = "free")
    BY <1>1 DEF HostTyped
  <2> QED
    BY <2>1 DEF ThreadPCs, LinkPCs, Dropping
<1>4. CASE drain(a)
  <2>1. UNCHANGED <<tokens, next_id, crashed, status, dead, tok, back, held, queues, conn, life, dying, serv>>
    BY <1>4 DEF drain
  <2>2. ConnTyped' /\ ServiceTyped'
    BY <1>1, <2>1 DEF ConnTyped, ServiceTyped, serv
  <2>3. /\ held' \in BOOLEAN
        /\ back' \in [Hosts -> {"free", "wait", "gone"}] /\ back'[Link] = "free"
    BY <1>1, <2>1 DEF HostTyped
  <2>4. parked' \in BOOLEAN
    BY <1>1, <1>4 DEF drain, TableTyped
  <2>5. CASE tokens = {}
    <3>1. pc' = [pc EXCEPT ![a] = "invalidate"] /\ pc[a] = "drain"
      BY <1>4, <2>5 DEF drain, Goto
    <3>2. Fits("invalidate")
      BY <1>2
    <3> QED
      BY <2>1, <2>2, <2>3, <2>4, <3>1, <3>2, MoveKeeps
  <2>6. CASE tokens # {}
    <3>1. pc' = [pc EXCEPT ![a] = "drain"] /\ pc[a] = "drain"
      BY <1>1, <1>4, <2>6 DEF drain, HostTyped
    <3>2. Fits("drain")
      BY <1>2
    <3> QED
      BY <2>1, <2>2, <2>3, <2>4, <3>1, <3>2, MoveKeeps
  <2> QED
    BY <2>5, <2>6
<1>5. CASE invalidate(a)
  <2> DEFINE l == IF invalidated THEN back[a] ELSE "exit"
  <2>1. /\ pc' = [pc EXCEPT ![a] = l] /\ pc[a] = "invalidate" /\ invalidated' = TRUE /\ ended' = TRUE
        /\ UNCHANGED <<table, tok, back, held, queues, service, pending, closed, ending, life, dying, serv>>
    BY <1>5 DEF invalidate, Goto
  <2>2. ConnTyped' /\ ServiceTyped'
    BY <1>1, <2>1 DEF ConnTyped, ServiceTyped, serv
  <2>3. Fits(l)
    BY <1>2, <1>3
  <2>4. /\ parked' \in BOOLEAN /\ held' \in BOOLEAN
        /\ back' \in [Hosts -> {"free", "wait", "gone"}] /\ back'[Link] = "free"
    BY <1>1, <2>1 DEF TableTyped, HostTyped
  <2> HIDE DEF l
  <2> QED
    BY <2>1, <2>2, <2>3, <2>4, MoveKeeps
<1>6. CASE exit(a)
  <2> DEFINE l == IF life = "Running" THEN "wakes" ELSE "later"
  <2>1. /\ pc' = [pc EXCEPT ![a] = l] /\ pc[a] = "exit"
        /\ UNCHANGED <<table, tok, back, held, queues, conn, dying, serv>>
    BY <1>6 DEF exit, Goto
  <2>2. ConnTyped' /\ ServiceTyped'
    BY <1>1, <1>6, <2>1 DEF ConnTyped, ServiceTyped, serv, exit
  <2>3. Fits(l)
    BY <1>2
  <2>4. /\ parked' \in BOOLEAN /\ held' \in BOOLEAN
        /\ back' \in [Hosts -> {"free", "wait", "gone"}] /\ back'[Link] = "free"
    BY <1>1, <2>1 DEF TableTyped, HostTyped
  <2> HIDE DEF l
  <2> QED
    BY <2>1, <2>2, <2>3, <2>4, MoveKeeps
<1>7. CASE wake_waiters(a)
  <2>1. /\ pc' = [pc EXCEPT ![a] = "later"] /\ pc[a] = "wakes"
        /\ UNCHANGED <<table, tok, back, held, queues, conn, life, dying, gpu, filled, completion>>
    BY <1>7 DEF wake_waiters, Goto
  <2>2. work' \in [Ids -> Works]
    BY <1>1, <1>7 DEF ServiceTyped, wake_waiters, WakeAll, Works
  <2>3. ConnTyped' /\ ServiceTyped'
    BY <1>1, <1>7, <2>1, <2>2 DEF ConnTyped, ServiceTyped, wake_waiters
  <2>4. Fits("later")
    BY <1>2
  <2>5. /\ parked' \in BOOLEAN /\ held' \in BOOLEAN
        /\ back' \in [Hosts -> {"free", "wait", "gone"}] /\ back'[Link] = "free"
    BY <1>1, <2>1 DEF TableTyped, HostTyped
  <2> QED
    BY <2>1, <2>3, <2>4, <2>5, MoveKeeps
<1>8. CASE end_later(a)
  <2> DEFINE l == IF a = Link THEN back[a] ELSE "sync"
             x == [kind |-> "end", of |-> "Invalidated"]
  <2>1. /\ pc' = [pc EXCEPT ![a] = l] /\ pc[a] = "later" /\ conn_q' = Append(conn_q, x)
        /\ UNCHANGED <<table, tok, back, held, link_q, conn, life, dying, serv>>
    BY <1>8 DEF end_later, Goto
  <2>2. x \in ConnItems /\ x.kind # "sync"
    BY DEF ConnItems
  <2>3. ConnTyped' /\ ServiceTyped'
    BY <1>1, <2>1 DEF ConnTyped, ServiceTyped, serv
  <2>4. Fits(l)
    <3>1. "sync" \in Labels /\ "sync" \in ThreadPCs
      BY DEF ThreadPCs, Dropping
    <3> QED
      BY <1>3, <3>1
  <2>5. /\ parked' \in BOOLEAN /\ held' \in BOOLEAN
        /\ back' \in [Hosts -> {"free", "wait", "gone"}] /\ back'[Link] = "free"
    BY <1>1, <2>1 DEF TableTyped, HostTyped
  <2> HIDE DEF l, x
  <2> QED
    BY <2>1, <2>2, <2>3, <2>4, <2>5, MoveKeeps
<1> QED
  BY <1>4, <1>5, <1>6, <1>7, <1>8 DEF Dropped

\* The sync that follows the end: the thread has none on the queue yet.
LEMMA SyncKeeps ==
  ASSUME IInv, NEW t \in Threads, SyncAfterEnd(t)
  PROVE  IInv'
<1> USE Constants
<1> USE DEF table, queues, conn
<1> DEFINE x == [kind |-> "sync", of |-> t]
<1>1. TableTyped /\ HostTyped /\ ConnTyped /\ ServiceTyped /\ t \in Hosts /\ t # Link
  BY DEF IInv, Typed
<1>2. /\ pc[t] = "sync" /\ pc' = [pc EXCEPT ![t] = "turn"] /\ conn_q' = Append(conn_q, x)
      /\ UNCHANGED <<table, tok, back, held, link_q, conn, life, dying, serv>>
  BY DEF SyncAfterEnd, Goto
<1>3. x \in ConnItems /\ x.kind = "sync" /\ x.of = t
  BY DEF ConnItems
<1> HIDE DEF x
<1>4. link_q \in Seq(LinkEvents) /\ conn_q \in Seq(ConnItems)
  BY DEF IInv, Typed, QueuesTyped
<1>5. \A b \in Hosts : pc'[b] = IF b = t THEN "turn" ELSE pc[b]
  BY <1>1, <1>2 DEF HostTyped
<1>6. /\ conn_q' \in Seq(ConnItems) /\ conn_q' # <<>>
      /\ conn_q # <<>> => Head(conn_q') = Head(conn_q)
      /\ \A i \in DOMAIN conn_q' : \/ i \in DOMAIN conn_q /\ conn_q'[i] = conn_q[i]
                                   \/ i = Len(conn_q) + 1 /\ conn_q'[i] = x
  BY <1>2, <1>3, <1>4, AppendFacts
<1>7. \A i \in DOMAIN conn_q : conn_q[i].kind = "sync" =>
        conn_q[i].of \in Threads /\ pc[conn_q[i].of] = "turn" /\ conn_q[i].of # t
  <2> SUFFICES ASSUME NEW i \in DOMAIN conn_q, conn_q[i].kind = "sync"
               PROVE  conn_q[i].of \in Threads /\ pc[conn_q[i].of] = "turn" /\ conn_q[i].of # t
    OBVIOUS
  <2>1. conn_q[i] \in ConnItems
    BY <1>4, ElementOfSeq, LenProperties
  <2>2. conn_q[i].of \in Threads
    BY <2>1 DEF ConnItems
  <2> QED
    BY <1>2, <2>2 DEF IInv, Flow
<1>8. ConnTyped' /\ ServiceTyped' /\ TableTyped'
  BY <1>1, <1>2 DEF ConnTyped, ServiceTyped, TableTyped, serv
<1>9. HostTyped'
  BY <1>1, <1>2, <1>5 DEF HostTyped, ThreadPCs, Dropping
<1>10. Flow'
  <2>1. Room' = Room
    BY <1>2, <1>5, RoomKept
  <2>2. \A i \in DOMAIN conn_q' : conn_q'[i].kind = "sync" => pc'[conn_q'[i].of] = "turn"
    BY <1>3, <1>5, <1>6, <1>7
  <2>3. \A i, j \in DOMAIN conn_q' :
          conn_q'[i].kind = "sync" /\ conn_q'[j].kind = "sync" /\ conn_q'[i].of = conn_q'[j].of => i = j
    BY <1>3, <1>6, <1>7 DEF IInv, Flow
  <2>4. \A u \in Threads : pc'[u] \in {"issue", "send"} => tok'[u].reply \in Ids
    BY <1>2, <1>5 DEF IInv, Flow
  <2>5. /\ pc'[Link] \in {"signal", "release", "closing"} => link_q' # <<>>
        /\ pc'[Link] = "signal" => Event' \in Completions
    BY <1>1, <1>2, <1>5 DEF IInv, Flow, Event
  <2>6. ending' # "no" => conn_q' # <<>> /\ Head(conn_q').kind = "end"
    BY <1>2, <1>6 DEF IInv, Flow
  <2> QED
    BY <2>1, <2>2, <2>3, <2>4, <2>5, <2>6 DEF IInv, Flow
<1>11. TokenInv'
  <2>1. \A b \in Hosts : pc'[b] = "signal" <=> pc[b] = "signal"
    BY <1>2, <1>5
  <2> QED
    BY <1>2, <2>1, TokensKept DEF IInv
<1>12. EndInv'
  BY <1>2, EndKept DEF IInv
<1> QED
  BY <1>2, <1>4, <1>6, <1>8, <1>9, <1>10, <1>11, <1>12 DEF IInv, Typed, QueuesTyped

-----------------------------------------------------------------------------
(* Issuing tokens *)

\* A new token: in the table, or answered at once after a crash.
LEMMA IssueKeeps ==
  ASSUME IInv, NEW t \in Threads, NEW r \in [reply : Ids, done : 0..MaxTokens],
         NEW l \in {"issue", "send"}, next_id \in Ids, issue_token(next_id),
         tok' = [tok EXCEPT ![t] = r], pc' = [pc EXCEPT ![t] = l], pc[t] \in {"free", "issue"},
         Room' >= 0, UNCHANGED <<back, held, queues, conn, life, dying, serv>>
  PROVE  IInv'
<1> USE Constants
<1>1. TableTyped /\ HostTyped /\ QueuesTyped /\ ConnTyped /\ ServiceTyped /\ Flow /\ TokenInv /\ t # Link
  BY DEF IInv, Typed
<1>2. /\ next_id' = next_id + 1 /\ crashed' = crashed /\ parked' = parked /\ dead' = dead
      /\ \/ ~crashed /\ tokens' = tokens \cup {next_id} /\ status' = status
         \/ crashed /\ status' = [status EXCEPT ![next_id] = "crashed"] /\ tokens' = tokens
  BY DEF issue_token
<1>3. \A b \in Hosts : pc'[b] = IF b = t THEN l ELSE pc[b]
  BY <1>1 DEF HostTyped
<1>4. \A u \in Threads : tok'[u] = IF u = t THEN r ELSE tok[u]
  BY <1>1 DEF HostTyped
<1>5. TableTyped'
  <2>1. tokens' \subseteq Ids /\ next_id' \in 1..(MaxTokens + 1)
    <3>1. tokens' \subseteq Ids
      BY <1>1, <1>2 DEF TableTyped
    <3>2. next_id' \in 1..(MaxTokens + 1)
      <4>1. next_id' = next_id + 1 /\ next_id \in 1..MaxTokens
        BY <1>2 DEF Ids
      <4> QED
        BY <4>1
    <3> QED
      BY <3>1, <3>2
  <2>2. status' \in [Ids -> Statuses]
    BY <1>1, <1>2 DEF TableTyped, Statuses
  <2> QED
    BY <1>1, <1>2, <2>1, <2>2 DEF TableTyped
<1>6. HostTyped'
  BY <1>1, <1>3 DEF HostTyped, ThreadPCs
<1>7. QueuesTyped' /\ ConnTyped' /\ ServiceTyped'
  BY <1>1 DEF QueuesTyped, ConnTyped, ServiceTyped, queues, conn, serv
<1>8. Flow'
  <2>1. \A u \in Threads : pc'[u] \in {"issue", "send"} => tok'[u].reply \in Ids
    BY <1>1, <1>3, <1>4 DEF Flow
  <2>2. /\ pc'[Link] \in {"signal", "release", "closing"} => link_q' # <<>>
        /\ pc'[Link] = "signal" => Event' \in Completions
    BY <1>1, <1>3 DEF Flow, Event, queues
  <2>3. ending' # "no" => conn_q' # <<>> /\ Head(conn_q').kind = "end"
    BY <1>1 DEF Flow, queues, conn
  <2>4. \A i \in DOMAIN conn_q' : conn_q'[i].kind = "sync" => pc'[conn_q'[i].of] = "turn"
    <3> SUFFICES ASSUME NEW i \in DOMAIN conn_q, conn_q[i].kind = "sync"
                 PROVE  pc'[conn_q[i].of] = "turn"
      BY DEF queues
    <3>1. conn_q[i] \in ConnItems
      BY <1>1, ElementOfSeq, LenProperties DEF QueuesTyped
    <3>2. conn_q[i].of \in Threads /\ pc[conn_q[i].of] = "turn"
      BY <1>1, <3>1 DEF ConnItems, Flow
    <3> QED
      BY <1>3, <3>2
  <2>5. \A i, j \in DOMAIN conn_q' :
          conn_q'[i].kind = "sync" /\ conn_q'[j].kind = "sync" /\ conn_q'[i].of = conn_q'[j].of => i = j
    BY <1>1 DEF Flow, queues
  <2> QED
    BY <2>1, <2>2, <2>3, <2>4, <2>5 DEF Flow
<1>9. TokenInv'
  <2>1. \A u \in Threads : \A i : ThreadSignals(u, i)' <=> ThreadSignals(u, i)
    BY <1>3, <1>4 DEF ThreadSignals
  <2>2. \A i : LinkSignalling(i)' <=> LinkSignalling(i)
    BY <1>1, <1>3 DEF LinkSignalling, Event, queues
  <2>3. next_id \in Int /\ next_id \notin tokens /\ Issued' = Issued \cup {next_id}
    BY <1>1, <1>2 DEF TokenInv, Issued, TableTyped, Ids
  <2>4. \A i \in Ids : i < next_id => i < next_id' /\ i # next_id
    BY <1>2, <2>3 DEF Ids
  <2>5. \A i \in Ids : i >= next_id' => i >= next_id /\ i # next_id
    BY <1>2, <2>3 DEF Ids
  <2>6. \A i \in Ids : i # next_id => (i \in tokens' <=> i \in tokens) /\ status'[i] = status[i]
    BY <1>1, <1>2 DEF TableTyped
  <2>7. next_id \in tokens' => status'[next_id] = "none" /\ next_id < next_id'
    BY <1>1, <1>2, <2>3 DEF TokenInv, TableTyped
  <2>8. next_id \in tokens' \/ status'[next_id] # "none"
    BY <1>1, <1>2 DEF TableTyped
  <2>9. dead' = "no" /\ (crashed' => tokens' = {} /\ pc'[Link] # "signal")
    BY <1>1, <1>2, <1>3 DEF TokenInv
  <2>10. \A i \in Ids : i \in tokens' => i < next_id' /\ status'[i] = "none"
    BY <1>1, <2>4, <2>6, <2>7 DEF TokenInv
  <2>11. \A i \in Ids : i >= next_id' => status'[i] = "none"
    BY <1>1, <2>5, <2>6 DEF TokenInv
  <2>12. \A u \in Threads, i \in Nat : ThreadSignals(u, i)' =>
           i \in Ids /\ i < next_id' /\ i \notin tokens' /\ status'[i] = "none"
    BY <1>1, <2>1, <2>4, <2>6 DEF TokenInv
  <2>13. \A u, v \in Threads, i \in Nat : ThreadSignals(u, i)' /\ ThreadSignals(v, i)' => u = v
    BY <1>1, <2>1, Zenon DEF TokenInv
  <2>14. \A i \in Ids : LinkSignalling(i)' =>
           /\ i < next_id' /\ i \notin tokens' /\ status'[i] = "none"
           /\ \A u \in Threads : ~ThreadSignals(u, i)'
    BY <1>1, <2>1, <2>2, <2>4, <2>6 DEF TokenInv
  <2>15. \A i \in Issued' : \/ i \in tokens' \/ status'[i] # "none"
                            \/ LinkSignalling(i)' \/ \E u \in Threads : ThreadSignals(u, i)'
    <3>1. \A i \in Issued : i \in Ids /\ i # next_id
      BY <1>1 DEF Issued, TableTyped, Ids
    <3>2. \A i \in Issued : \/ i \in tokens \/ status[i] # "none"
                            \/ LinkSignalling(i) \/ \E u \in Threads : ThreadSignals(u, i)
      BY <1>1 DEF TokenInv
    <3> QED
      BY <2>1, <2>2, <2>3, <2>6, <2>8, <3>1, <3>2
  <2> QED
    BY <2>9, <2>10, <2>11, <2>12, <2>13, <2>14, <2>15, Zenon DEF TokenInv
<1>10. EndInv'
  BY EndKept DEF IInv, queues, conn
<1> QED
  BY <1>5, <1>6, <1>7, <1>8, <1>9, <1>10 DEF IInv, Typed

\* Issuing tokens keeps the invariant: a token is fresh, and is crashed at once if the table is.
LEMMA IssuesKeep ==
  ASSUME IInv, NEW t \in Threads, Forward(t) \/ Exec(t) \/ ExecIssues(t)
  PROVE  IInv'
<1> USE Constants
<1> DEFINE S == {u \in Threads : pc[u] = "issue"}
           T == {u \in Threads : pc'[u] = "issue"}
<1>1. TableTyped /\ HostTyped /\ Flow
  BY DEF IInv, Typed
<1>2. next_id \in 1..(MaxTokens + 1) /\ MaxTokens \in Nat /\ Room >= 0
  BY <1>1 DEF TableTyped, Flow
<1>3. IsFiniteSet(S) /\ IsFiniteSet(T)
  BY FS_Subset
<1>4. Cardinality(S) \in Nat /\ Cardinality(T) \in Nat
  BY <1>3, FS_CardinalityType
<1>5. Room = MaxTokens + 1 - next_id - Cardinality(S) /\ Room' = MaxTokens + 1 - next_id' - Cardinality(T)
  BY DEF Room
<1>6. ASSUME NEW l, pc' = [pc EXCEPT ![t] = l] PROVE \A u \in Threads : pc'[u] = IF u = t THEN l ELSE pc[u]
  BY <1>1, <1>6 DEF HostTyped, Hosts
<1>7. tok[t] \in [reply : 0..MaxTokens, done : 0..MaxTokens]
  BY <1>1 DEF HostTyped
<1> DEFINE r == [reply |-> next_id, done |-> NoToken]
<1>8. CASE Forward(t)
  <2>1. /\ pc[t] = "free" /\ Room >= 1 /\ issue_token(next_id) /\ tok' = [tok EXCEPT ![t] = r]
        /\ pc' = [pc EXCEPT ![t] = "send"] /\ next_id' = next_id + 1
        /\ UNCHANGED <<back, held, queues, conn, life, dying, serv>>
    BY <1>8 DEF Forward, Goto, issue_token
  <2>2. next_id \in Ids /\ r \in [reply : Ids, done : 0..MaxTokens]
    <3> HIDE DEF S, T
    <3> QED
      BY <1>2, <1>4, <1>5, <2>1 DEF Ids, NoToken
  <2>3. T = S
    BY <1>6, <2>1
  <2>4. Room' >= 0
    <3> HIDE DEF S, T
    <3> QED
      BY <1>2, <1>4, <1>5, <2>1, <2>3
  <2> HIDE DEF r
  <2> QED
    BY <2>1, <2>2, <2>4, IssueKeeps
<1>9. CASE Exec(t)
  <2>1. /\ pc[t] = "free" /\ Room >= 2 /\ issue_token(next_id) /\ tok' = [tok EXCEPT ![t] = r]
        /\ pc' = [pc EXCEPT ![t] = "issue"] /\ next_id' = next_id + 1
        /\ UNCHANGED <<back, held, queues, conn, life, dying, serv>>
    BY <1>9 DEF Exec, Goto, issue_token
  <2>2. next_id \in Ids /\ r \in [reply : Ids, done : 0..MaxTokens]
    <3> HIDE DEF S, T
    <3> QED
      BY <1>2, <1>4, <1>5, <2>1 DEF Ids, NoToken
  <2>3. T = S \cup {t} /\ t \notin S
    BY <1>6, <2>1
  <2>4. Cardinality(T) = Cardinality(S) + 1
    <3> HIDE DEF S, T
    <3> QED
      BY <1>3, <2>3, FS_AddElement
  <2>5. Room' >= 0
    <3> HIDE DEF S, T
    <3> QED
      BY <1>2, <1>4, <1>5, <2>1, <2>4
  <2> HIDE DEF r
  <2> QED
    BY <2>1, <2>2, <2>5, IssueKeeps
<1>10. CASE ExecIssues(t)
  <2> DEFINE d == [tok[t] EXCEPT !.done = next_id]
  <2>1. /\ pc[t] = "issue" /\ issue_token(next_id) /\ tok' = [tok EXCEPT ![t].done = next_id]
        /\ pc' = [pc EXCEPT ![t] = "send"] /\ next_id' = next_id + 1
        /\ UNCHANGED <<back, held, queues, conn, life, dying, serv>>
    BY <1>10 DEF ExecIssues, Goto, issue_token
  <2>2. S = T \cup {t} /\ t \notin T
    <3>1. \A u \in Threads : pc'[u] = IF u = t THEN "send" ELSE pc[u]
      BY <1>6, <2>1
    <3> QED
      BY <2>1, <3>1
  <2>3. Cardinality(S) = Cardinality(T) + 1
    <3> HIDE DEF S, T
    <3> QED
      BY <1>3, <2>2, FS_AddElement
  <2>4. next_id \in Ids /\ Room' >= 0
    <3> HIDE DEF S, T
    <3> QED
      BY <1>2, <1>4, <1>5, <2>1, <2>3 DEF Ids
  <2>5. tok' = [tok EXCEPT ![t] = d]
    BY <1>1, <2>1 DEF HostTyped
  <2>6. d \in [reply : Ids, done : 0..MaxTokens]
    <3>1. tok[t].reply \in Ids
      BY <1>1, <2>1 DEF Flow
    <3> QED
      BY <1>7, <2>4, <3>1
  <2> HIDE DEF d
  <2> QED
    BY <2>1, <2>4, <2>5, <2>6, IssueKeeps
<1> QED
  BY <1>8, <1>9, <1>10

-----------------------------------------------------------------------------
(* Completing tokens: the exec's failure and the link's queue *)

\* A thread that moves with the connection's queue and every token's number left alone.
LEMMA TurnKeepsFlow ==
  ASSUME Typed, Flow, NEW a \in Hosts, NEW l \in ThreadPCs \cup LinkPCs,
         l \notin {"issue", "send", "turn"}, pc[a] \notin {"issue", "turn"},
         pc' = [pc EXCEPT ![a] = l], UNCHANGED <<next_id, tok, ending, conn_q>>,
         a # Link => link_q' = link_q,
         a = Link /\ l \in {"signal", "release", "closing"} => link_q' # <<>>,
         a = Link /\ l = "signal" => Event' \in Completions
  PROVE  Flow'
<1> USE Constants
<1>1. \A b \in Hosts : pc'[b] = IF b = a THEN l ELSE pc[b]
  BY DEF Typed, HostTyped
<1>2. Room' = Room
  BY <1>1, RoomKept
<1>3. \A t \in Threads : pc'[t] \in {"issue", "send"} => tok'[t].reply \in Ids
  BY <1>1 DEF Flow
<1>4. /\ pc'[Link] \in {"signal", "release", "closing"} => link_q' # <<>>
      /\ pc'[Link] = "signal" => Event' \in Completions
  <2>1. CASE a = Link
    BY <1>1, <2>1
  <2>2. CASE a # Link
    BY <1>1, <2>2 DEF Flow, Event
  <2> QED
    BY <2>1, <2>2
<1>5. \A i \in DOMAIN conn_q : conn_q[i].kind = "sync" => pc'[conn_q[i].of] = "turn"
  <2> SUFFICES ASSUME NEW i \in DOMAIN conn_q, conn_q[i].kind = "sync"
               PROVE  pc'[conn_q[i].of] = "turn"
    OBVIOUS
  <2>1. conn_q[i] \in ConnItems
    BY ElementOfSeq, LenProperties DEF Typed, QueuesTyped
  <2>2. conn_q[i].of \in Threads /\ pc[conn_q[i].of] = "turn"
    BY <2>1 DEF ConnItems, Flow
  <2> QED
    BY <1>1, <2>2
<1> QED
  BY <1>2, <1>3, <1>4, <1>5 DEF Flow

\* The exec's failure takes its completion token out of the table.
LEMMA TokensKeptByTaking ==
  ASSUME IInv, NEW t \in Threads, pc[t] = "fail", tok[t].done \in tokens,
         tokens' = tokens \ {tok[t].done}, pc' = [pc EXCEPT ![t] = "signal"],
         UNCHANGED <<next_id, crashed, status, dead, tok, link_q>>
  PROVE  TokenInv'
<1> USE Constants
<1> DEFINE d == tok[t].done
<1>1. TableTyped /\ HostTyped /\ TokenInv /\ d \in Ids /\ d \in Nat /\ t # Link
  BY DEF IInv, Typed, TableTyped
<1>2. d < next_id /\ status[d] = "none" /\ ~crashed /\ tokens # {}
  BY <1>1 DEF TokenInv
<1>3. \A u \in Threads : ~ThreadSignals(u, d)
  BY <1>1 DEF TokenInv
<1>4. ~LinkSignalling(d)
  BY <1>1 DEF TokenInv
<1> HIDE DEF d
<1>5. \A b \in Hosts : pc'[b] = IF b = t THEN "signal" ELSE pc[b]
  BY <1>1 DEF HostTyped
<1>6. \A u \in Threads : \A i : ThreadSignals(u, i)' <=> (ThreadSignals(u, i) \/ (u = t /\ i = d))
  BY <1>5 DEF ThreadSignals, d
<1>7. \A i : LinkSignalling(i)' <=> LinkSignalling(i)
  BY <1>1, <1>5 DEF LinkSignalling, Event
<1>8. Issued' = Issued /\ (\A i : i \in tokens' <=> i \in tokens /\ i # d)
  BY DEF Issued, d
<1>9. dead' = "no" /\ ~crashed'
  BY <1>1, <1>2 DEF TokenInv
<1>10. \A i \in Ids : i \in tokens' => i < next_id' /\ status'[i] = "none"
  BY <1>1, <1>8 DEF TokenInv
<1>11. \A i \in Ids : i >= next_id' => status'[i] = "none"
  BY <1>1 DEF TokenInv
<1>12. \A u \in Threads, i \in Nat : ThreadSignals(u, i)' =>
         i \in Ids /\ i < next_id' /\ i \notin tokens' /\ status'[i] = "none"
  BY <1>1, <1>2, <1>6, <1>8 DEF TokenInv
<1>13. \A u, v \in Threads, i \in Nat : ThreadSignals(u, i)' /\ ThreadSignals(v, i)' => u = v
  <2>1. \A u, v \in Threads, i \in Nat : ThreadSignals(u, i) /\ ThreadSignals(v, i) => u = v
    BY <1>1 DEF TokenInv
  <2> QED
    BY <1>3, <1>6, <2>1
<1>14. \A i \in Ids : LinkSignalling(i)' =>
         /\ i < next_id' /\ i \notin tokens' /\ status'[i] = "none"
         /\ \A u \in Threads : ~ThreadSignals(u, i)'
  BY <1>1, <1>4, <1>6, <1>7, <1>8 DEF TokenInv
<1>15. \A i \in Issued' : i \in tokens' \/ status'[i] # "none" \/ LinkSignalling(i)'
                          \/ \E u \in Threads : ThreadSignals(u, i)'
  BY <1>1, <1>6, <1>7, <1>8 DEF TokenInv
<1> QED
  BY <1>9, <1>10, <1>11, <1>12, <1>13, <1>14, <1>15, Zenon DEF TokenInv

\* The link takes the token of its event out of the table.
LEMMA TokensKeptByLinkTaking ==
  ASSUME IInv, pc[Link] = "free", NEW d \in tokens, Event.of = d,
         tokens' = tokens \ {d}, pc' = [pc EXCEPT ![Link] = "signal"],
         UNCHANGED <<next_id, crashed, status, dead, tok, link_q>>
  PROVE  TokenInv'
<1> USE Constants
<1>1. TableTyped /\ HostTyped /\ TokenInv /\ d \in Ids /\ d \in Nat
  BY DEF IInv, Typed, TableTyped
<1>2. d < next_id /\ status[d] = "none" /\ ~crashed
  BY <1>1 DEF TokenInv
<1>3. \A u \in Threads : ~ThreadSignals(u, d)
  BY <1>1 DEF TokenInv
<1>5. \A b \in Hosts : pc'[b] = IF b = Link THEN "signal" ELSE pc[b]
  BY <1>1 DEF HostTyped
<1>6. \A u \in Threads : \A i : ThreadSignals(u, i)' <=> ThreadSignals(u, i)
  BY <1>5 DEF ThreadSignals
<1>7. \A i : LinkSignalling(i)' <=> i = d
  BY <1>5 DEF LinkSignalling, Event
<1>8. Issued' = Issued /\ (\A i : i \in tokens' <=> i \in tokens /\ i # d)
  BY DEF Issued
<1>9. dead' = "no" /\ ~crashed'
  BY <1>1, <1>2 DEF TokenInv
<1>10. \A i \in Ids : i \in tokens' => i < next_id' /\ status'[i] = "none"
  BY <1>1, <1>8 DEF TokenInv
<1>11. \A i \in Ids : i >= next_id' => status'[i] = "none"
  BY <1>1 DEF TokenInv
<1>12. \A u \in Threads, i \in Nat : ThreadSignals(u, i)' =>
         i \in Ids /\ i < next_id' /\ i \notin tokens' /\ status'[i] = "none"
  BY <1>1, <1>2, <1>6, <1>8 DEF TokenInv
<1>13. \A u, v \in Threads, i \in Nat : ThreadSignals(u, i)' /\ ThreadSignals(v, i)' => u = v
  BY <1>1, <1>6, Zenon DEF TokenInv
<1>14. \A i \in Ids : LinkSignalling(i)' =>
         /\ i < next_id' /\ i \notin tokens' /\ status'[i] = "none"
         /\ \A u \in Threads : ~ThreadSignals(u, i)'
  BY <1>2, <1>3, <1>6, <1>7, <1>8
<1>15. \A i \in Issued' : i \in tokens' \/ status'[i] # "none" \/ LinkSignalling(i)'
                          \/ \E u \in Threads : ThreadSignals(u, i)'
  <2>1. \A i : ~LinkSignalling(i)
    BY DEF LinkSignalling
  <2> QED
    BY <1>1, <1>6, <1>7, <1>8, <2>1 DEF TokenInv
<1> QED
  BY <1>9, <1>10, <1>11, <1>12, <1>13, <1>14, <1>15, Zenon DEF TokenInv

\* Whoever has a token in hand signals it, once, and has it no more.
LEMMA TokensKeptBySignal ==
  ASSUME IInv, NEW a \in Hosts, pc[a] = "signal", NEW d \in Ids, NEW st \in {"ok", "fail"},
         IF a = Link THEN LinkSignalling(d) ELSE ThreadSignals(a, d), signal(d, st),
         NEW l, l # "signal", pc' = [pc EXCEPT ![a] = l], tok' = tok,
         a # Link => link_q' = link_q
  PROVE  TokenInv' /\ TableTyped'
<1> USE Constants
<1>1. TableTyped /\ HostTyped /\ TokenInv /\ d \in Nat /\ (a # Link => a \in Threads)
  BY DEF IInv, Typed, Hosts
<1>2. status[d] = "none" /\ d < next_id /\ d \notin tokens
  BY <1>1 DEF TokenInv
<1>3. status' = [status EXCEPT ![d] = st] /\ UNCHANGED <<dead, tokens, next_id, crashed, parked>>
  BY <1>2 DEF signal
<1>4. \A i \in Ids : status'[i] = IF i = d THEN st ELSE status[i]
  BY <1>1, <1>3 DEF TableTyped
<1>5. \A b \in Hosts : pc'[b] = IF b = a THEN l ELSE pc[b]
  BY <1>1 DEF HostTyped
<1>6. \A u \in Threads : \A i : ThreadSignals(u, i)' <=> ThreadSignals(u, i) /\ u # a
  BY <1>5 DEF ThreadSignals
<1>7. \A i : LinkSignalling(i)' <=> LinkSignalling(i) /\ a # Link
  BY <1>5 DEF LinkSignalling, Event
<1>8. Issued' = Issued
  BY <1>3 DEF Issued
<1>9. \A u \in Threads : u # a => ~ThreadSignals(u, d)
  BY <1>1, Zenon DEF TokenInv
<1>10. a # Link => ~LinkSignalling(d)
  BY <1>1 DEF TokenInv
<1>11. a # Link => \A i : ThreadSignals(a, i) => i = d
  BY DEF ThreadSignals
<1>12. a = Link => \A i : LinkSignalling(i) => i = d
  BY DEF LinkSignalling
<1>13. TableTyped'
  BY <1>1, <1>3 DEF TableTyped, Statuses
<1>14. dead' = "no" /\ (crashed' => tokens' = {} /\ pc'[Link] # "signal")
  BY <1>1, <1>3, <1>5 DEF TokenInv
<1>15. \A i \in Ids : i \in tokens' => i < next_id' /\ status'[i] = "none"
  BY <1>1, <1>2, <1>3, <1>4 DEF TokenInv
<1>16. \A i \in Ids : i >= next_id' => status'[i] = "none"
  <2>1. ~(d >= next_id)
    BY <1>1, <1>2 DEF TableTyped
  <2> QED
    BY <1>1, <1>3, <1>4, <2>1 DEF TokenInv
<1>17. \A u \in Threads, i \in Nat : ThreadSignals(u, i)' =>
         i \in Ids /\ i < next_id' /\ i \notin tokens' /\ status'[i] = "none"
  BY <1>1, <1>3, <1>4, <1>6, <1>9 DEF TokenInv
<1>18. \A u, v \in Threads, i \in Nat : ThreadSignals(u, i)' /\ ThreadSignals(v, i)' => u = v
  BY <1>1, <1>6, Zenon DEF TokenInv
<1>19. \A i \in Ids : LinkSignalling(i)' =>
         /\ i < next_id' /\ i \notin tokens' /\ status'[i] = "none"
         /\ \A u \in Threads : ~ThreadSignals(u, i)'
  BY <1>1, <1>3, <1>4, <1>6, <1>7, <1>10 DEF TokenInv
<1>20. \A i \in Issued' : i \in tokens' \/ status'[i] # "none" \/ LinkSignalling(i)'
                          \/ \E u \in Threads : ThreadSignals(u, i)'
  <2> SUFFICES ASSUME NEW i \in Issued, i \notin tokens, status'[i] = "none"
               PROVE  LinkSignalling(i)' \/ \E u \in Threads : ThreadSignals(u, i)'
    BY <1>3, <1>8
  <2>1. i \in Ids
    BY <1>1 DEF Issued, TableTyped, Ids
  <2>2. i # d /\ status[i] = "none"
    BY <1>4, <2>1
  <2>3. LinkSignalling(i) \/ \E u \in Threads : ThreadSignals(u, i)
    BY <1>1, <2>2 DEF TokenInv
  <2> QED
    BY <1>1, <1>6, <1>7, <1>11, <1>12, <2>2, <2>3
<1>21. TokenInv'
  BY <1>14, <1>15, <1>16, <1>17, <1>18, <1>19, <1>20, Zenon DEF TokenInv
<1> QED
  BY <1>13, <1>21

\* The exec's failure.
LEMMA FailKeeps ==
  ASSUME IInv, NEW t \in Threads, ExecFails(t)
  PROVE  IInv'
<1> USE Constants
<1>1. /\ TableTyped /\ HostTyped /\ QueuesTyped /\ ConnTyped /\ ServiceTyped
      /\ Flow /\ TokenInv /\ t \in Hosts /\ t # Link
  BY DEF IInv, Typed
<1>2. UNCHANGED <<tok, back, held, queues, conn, life, dying, serv>>
  BY DEF ExecFails
<1>3. QueuesTyped' /\ ConnTyped' /\ ServiceTyped'
  BY <1>1, <1>2 DEF QueuesTyped, ConnTyped, ServiceTyped, queues, conn, serv
<1>4. EndInv'
  BY <1>2, EndKept DEF IInv, queues, conn
<1>5. ASSUME NEW l \in {"free", "signal"}, pc' = [pc EXCEPT ![t] = l], pc[t] \in {"fail", "signal"},
             next_id' = next_id
      PROVE  HostTyped' /\ Flow'
  <2>1. l \in ThreadPCs
    BY DEF ThreadPCs
  <2>2. HostTyped'
    BY <1>1, <1>2, <1>5, <2>1 DEF HostTyped
  <2>3. Flow'
    BY <1>1, <1>2, <1>5, <2>1, TurnKeepsFlow DEF IInv, queues, conn
  <2> QED
    BY <2>2, <2>3
<1>6. CASE pc[t] = "fail" /\ tok[t].done \in tokens /\ erase(tok[t].done) /\ Goto(t, "signal")
  <2>1. /\ pc' = [pc EXCEPT ![t] = "signal"] /\ tokens' = tokens \ {tok[t].done}
        /\ UNCHANGED <<next_id, crashed, status, dead>> /\ parked' \in BOOLEAN
    BY <1>6 DEF erase, Goto
  <2>2. TokenInv'
    BY <1>2, <1>6, <2>1, TokensKeptByTaking DEF queues
  <2>3. TableTyped'
    BY <1>1, <2>1 DEF TableTyped
  <2> QED
    BY <1>3, <1>4, <1>5, <1>6, <2>1, <2>2, <2>3 DEF IInv, Typed
<1>7. CASE pc[t] = "fail" /\ tok[t].done \notin tokens /\ Goto(t, "free") /\ UNCHANGED table
  <2>1. pc' = [pc EXCEPT ![t] = "free"]
    BY <1>7 DEF Goto
  <2>2. \A b \in Hosts : pc'[b] = "signal" <=> pc[b] = "signal"
    BY <1>1, <1>7, <2>1 DEF HostTyped
  <2>3. TokenInv'
    BY <1>1, <1>2, <1>7, <2>2, TokensKept DEF table, queues
  <2>4. TableTyped' /\ next_id' = next_id
    BY <1>1, <1>7 DEF TableTyped, table
  <2> QED
    BY <1>3, <1>4, <1>5, <1>7, <2>1, <2>3, <2>4 DEF IInv, Typed
<1>8. CASE pc[t] = "signal" /\ signal(tok[t].done, "fail") /\ Goto(t, "free")
  <2> DEFINE d == tok[t].done
  <2>1. d \in 0..MaxTokens /\ d \in Nat /\ ThreadSignals(t, d)
    BY <1>1, <1>8 DEF HostTyped, ThreadSignals
  <2>2. d \in Ids
    BY <1>1, <2>1 DEF TokenInv
  <2>3. pc' = [pc EXCEPT ![t] = "free"] /\ next_id' = next_id /\ signal(d, "fail")
    BY <1>8 DEF Goto, signal
  <2> HIDE DEF d
  <2>4. TokenInv' /\ TableTyped'
    BY <1>1, <1>2, <1>8, <2>1, <2>2, <2>3, TokensKeptBySignal DEF queues
  <2> QED
    BY <1>3, <1>4, <1>5, <1>8, <2>3, <2>4 DEF IInv, Typed
<1> QED
  BY <1>6, <1>7, <1>8 DEF ExecFails

-----------------------------------------------------------------------------
(* The link's queue *)

\* What every step of the link's queue keeps: the rest of the host, and the connection.
LEMMA LinkMoves ==
  ASSUME IInv, NEW l \in {"free", "signal", "release", "closing", "drain"},
         pc' = [pc EXCEPT ![Link] = l], UNCHANGED <<next_id, tok, back, held, conn_q, ending>>,
         link_q # <<>>, link_q' = link_q \/ (link_q' = Tail(link_q) /\ l \in {"free", "drain"}),
         l = "signal" => Event \in Completions, ended' = ended
  PROVE  HostTyped' /\ QueuesTyped' /\ Flow' /\ EndInv'
<1> USE Constants
<1>1. HostTyped /\ QueuesTyped /\ Typed /\ Flow /\ EndInv
  BY DEF IInv, Typed
<1>2. l \in LinkPCs /\ pc[Link] \in LinkPCs
  BY <1>1 DEF LinkPCs, HostTyped
<1>3. HostTyped'
  BY <1>1, <1>2 DEF HostTyped
<1>4. QueuesTyped'
  BY <1>1, TailFacts DEF QueuesTyped
<1>5. Flow'
  <2>1. pc[Link] \notin {"issue", "turn"}
    BY <1>2 DEF LinkPCs
  <2>2. l \in {"signal", "release", "closing"} => link_q' # <<>>
    OBVIOUS
  <2>3. l = "signal" => Event' \in Completions
    BY DEF Event
  <2> QED
    BY <1>1, <1>2, <2>1, <2>2, <2>3, TurnKeepsFlow
<1>6. EndInv'
  BY <1>1, EndKept, EndKeptByTail
<1> QED
  BY <1>3, <1>4, <1>5, <1>6

\* Taking a completion or a reply off the link's queue keeps the invariant.
LEMMA LinkTakes ==
  ASSUME IInv, OnComplete \/ OnReply
  PROVE  IInv'
<1> USE Constants
<1>1. TableTyped /\ HostTyped /\ QueuesTyped /\ ConnTyped /\ ServiceTyped /\ TokenInv
  BY DEF IInv, Typed
<1>2. /\ pc[Link] = "free" /\ link_q # <<>> /\ Event.kind \in {"complete", "reply"}
      /\ UNCHANGED <<tok, back, held, conn_q, conn, life, dying, serv>>
  BY DEF OnComplete, OnReply, LinkRuns, queues
<1>3. Event \in Completions
  <2>1. Event \in LinkEvents
    BY <1>1, <1>2, TailFacts DEF Event, QueuesTyped
  <2> QED
    BY <1>2, <2>1 DEF LinkEvents
<1>4. ConnTyped' /\ ServiceTyped' /\ ended' = ended /\ ending' = ending
  BY <1>1, <1>2 DEF ConnTyped, ServiceTyped, conn, serv
<1>5. CASE Event.of \in tokens
  <2>1. /\ tokens' = tokens \ {Event.of} /\ pc' = [pc EXCEPT ![Link] = "signal"] /\ link_q' = link_q
        /\ UNCHANGED <<next_id, crashed, status, dead>> /\ parked' \in BOOLEAN
    BY <1>5 DEF OnComplete, OnReply, erase, Goto, queues
  <2>2. TokenInv'
    BY <1>2, <1>5, <2>1, TokensKeptByLinkTaking
  <2>3. TableTyped'
    BY <1>1, <2>1 DEF TableTyped
  <2>4. HostTyped' /\ QueuesTyped' /\ Flow' /\ EndInv'
    BY <1>2, <1>3, <1>4, <2>1, LinkMoves
  <2> QED
    BY <1>4, <2>2, <2>3, <2>4 DEF IInv, Typed
<1>6. CASE Event.of \notin tokens
  <2>1. PICK l \in {"free", "release"} :
          /\ pc' = [pc EXCEPT ![Link] = l]
          /\ link_q' = link_q \/ (link_q' = Tail(link_q) /\ l = "free")
    <3>1. CASE OnComplete
      <4>1. pc' = [pc EXCEPT ![Link] = "free"] /\ link_q' = Tail(link_q)
        BY <1>1, <1>2, <1>6, <3>1 DEF OnComplete, HostTyped
      <4> QED
        BY <4>1
    <3>2. CASE OnReply
      <4>1. pc' = [pc EXCEPT ![Link] = "release"] /\ link_q' = link_q
        BY <1>6, <3>2 DEF OnReply, Goto, queues
      <4> QED
        BY <4>1
    <3> QED
      BY <3>1, <3>2
  <2>2. UNCHANGED <<tokens, next_id, crashed, status, dead>> /\ parked' \in BOOLEAN
    BY <1>1, <1>6 DEF OnComplete, OnReply, erase, table, TableTyped
  <2>3. \A b \in Hosts : pc'[b] = "signal" <=> pc[b] = "signal"
    BY <1>1, <1>2, <2>1 DEF HostTyped
  <2>4. TokenInv'
    BY <1>1, <1>2, <2>2, <2>3, TokensKept
  <2>5. TableTyped'
    BY <1>1, <2>2 DEF TableTyped
  <2>6. HostTyped' /\ QueuesTyped' /\ Flow' /\ EndInv'
    BY <1>2, <1>4, <2>1, <2>2, LinkMoves
  <2> QED
    BY <1>4, <2>4, <2>5, <2>6 DEF IInv, Typed
<1> QED
  BY <1>5, <1>6

\* The link's completion of a token keeps the invariant: nobody else still may complete it.
LEMMA LinkSignals_Keeps ==
  ASSUME IInv, LinkSignals
  PROVE  IInv'
<1> USE Constants
<1>1. TableTyped /\ HostTyped /\ QueuesTyped /\ ConnTyped /\ ServiceTyped /\ TokenInv
  BY DEF IInv, Typed
<1>2. /\ pc[Link] = "signal" /\ signal(Event.of, Event.status) /\ next_id' = next_id
      /\ UNCHANGED <<tok, back, held, conn_q, conn, life, dying, serv>>
  BY DEF LinkSignals, signal
<1>3. Event \in Completions /\ link_q # <<>>
  BY <1>2 DEF IInv, Flow
<1>4. Event.of \in Ids /\ Event.status \in {"ok", "fail"} /\ LinkSignalling(Event.of)
  BY <1>2, <1>3 DEF Completions, LinkSignalling
<1>5. ConnTyped' /\ ServiceTyped' /\ ended' = ended /\ ending' = ending
  BY <1>1, <1>2 DEF ConnTyped, ServiceTyped, conn, serv
<1>6. PICK l \in {"free", "release"} :
        /\ pc' = [pc EXCEPT ![Link] = l]
        /\ link_q' = link_q \/ (link_q' = Tail(link_q) /\ l = "free")
  BY DEF LinkSignals, Goto
<1>7. TokenInv' /\ TableTyped'
  <2> DEFINE d == Event.of
             st == Event.status
  <2>1. d \in Ids /\ st \in {"ok", "fail"} /\ LinkSignalling(d) /\ signal(d, st)
    BY <1>2, <1>4
  <2> HIDE DEF d, st
  <2> QED
    BY <1>2, <1>6, <2>1, TokensKeptBySignal
<1>8. HostTyped' /\ QueuesTyped' /\ Flow' /\ EndInv'
  BY <1>2, <1>3, <1>5, <1>6, LinkMoves
<1> QED
  BY <1>5, <1>7, <1>8 DEF IInv, Typed

\* The link lets go of an event, or of what the end released.
LEMMA LinkReleases ==
  ASSUME IInv, ReplyReleased \/ OnTrip \/ release_pending
  PROVE  IInv'
<1> USE Constants
<1> USE DEF table
<1>1. TableTyped /\ HostTyped /\ QueuesTyped /\ ConnTyped /\ ServiceTyped /\ TokenInv
  BY DEF IInv, Typed
<1>2. /\ pc[Link] \in {"free", "release", "closing"} /\ link_q # <<>> /\ link_q' = Tail(link_q)
      /\ UNCHANGED <<table, tok, back, held, conn_q, ended, ending>>
  BY DEF ReplyReleased, OnTrip, release_pending, Release, LinkRuns, conn, host, IInv, Flow
<1>3. PICK l \in {"free", "drain"} : pc' = [pc EXCEPT ![Link] = l]
  <2>1. CASE ReplyReleased \/ release_pending
    BY <2>1 DEF ReplyReleased, release_pending, Release, Goto
  <2>2. CASE OnTrip
    <3>1. pc' = [pc EXCEPT ![Link] = "free"]
      BY <1>1, <2>2 DEF OnTrip, LinkRuns, host, HostTyped
    <3> QED
      BY <3>1
  <2> QED
    BY <2>1, <2>2
<1>4. ConnTyped' /\ ServiceTyped'
  <2>1. CASE ReplyReleased
    BY <1>1, <2>1 DEF ReplyReleased, ConnTyped, ServiceTyped, conn, serv
  <2>2. CASE release_pending
    <3>1. closed' \in BOOLEAN /\ pending' = {}
      BY <2>2, Zenon DEF release_pending
    <3> QED
      BY <1>1, <2>2, <3>1 DEF release_pending, ConnTyped, ServiceTyped, serv
  <2>3. CASE OnTrip
    <3>1. Event \in LinkEvents /\ Event.kind = "trip"
      BY <1>1, <1>2, <2>3, TailFacts DEF Event, QueuesTyped, OnTrip, LinkRuns
    <3>2. Event.of \in Ids
      BY <3>1 DEF LinkEvents, Completions
    <3>3. work' \in [Ids -> Works] /\ filled' \subseteq Ids
      BY <1>1, <2>3, <3>2 DEF OnTrip, ServiceTyped, Works
    <3> QED
      BY <1>1, <2>3, <3>3 DEF OnTrip, ConnTyped, ServiceTyped, conn
  <2> QED
    BY <2>1, <2>2, <2>3
<1>5. \A b \in Hosts : pc'[b] = "signal" <=> pc[b] = "signal"
  BY <1>1, <1>2, <1>3 DEF HostTyped
<1>6. TokenInv'
  BY <1>1, <1>2, <1>5, TokensKept
<1>7. TableTyped'
  BY <1>1, <1>2 DEF TableTyped
<1>8. HostTyped' /\ QueuesTyped' /\ Flow' /\ EndInv'
  BY <1>2, <1>3, LinkMoves
<1> QED
  BY <1>4, <1>6, <1>7, <1>8 DEF IInv, Typed

\* The crash answers every token in the table, and the link has none in hand.
LEMMA EndCrashes ==
  ASSUME IInv, OnEnd
  PROVE  IInv'
<1> USE Constants
<1>1. TableTyped /\ HostTyped /\ QueuesTyped /\ ConnTyped /\ ServiceTyped /\ TokenInv
  BY DEF IInv, Typed
<1>2. /\ pc[Link] = "free" /\ link_q # <<>> /\ pc' = [pc EXCEPT ![Link] = "closing"] /\ link_q' = link_q
      /\ UNCHANGED <<tok, back, held, conn_q, conn, life, dying, serv>>
      /\ crashed' = TRUE /\ tokens' = {} /\ parked' = FALSE /\ UNCHANGED <<next_id, dead>>
      /\ status' = [i \in Ids |-> IF i \in tokens THEN "crashed" ELSE status[i]]
  BY DEF OnEnd, LinkRuns, Goto, crash, queues
<1>3. ConnTyped' /\ ServiceTyped' /\ ended' = ended /\ ending' = ending
  BY <1>1, <1>2 DEF ConnTyped, ServiceTyped, conn, serv
<1>4. HostTyped' /\ QueuesTyped' /\ Flow' /\ EndInv'
  BY <1>2, <1>3, LinkMoves
<1>5. TableTyped'
  <2>1. status' \in [Ids -> Statuses]
    BY <1>1, <1>2 DEF TableTyped, Statuses
  <2> QED
    BY <1>1, <1>2, <2>1 DEF TableTyped
<1>6. TokenInv'
  <2>1. \A b \in Hosts : pc'[b] = "signal" <=> pc[b] = "signal"
    BY <1>1, <1>2 DEF HostTyped
  <2>2. \A u \in Threads : \A i : ThreadSignals(u, i)' <=> ThreadSignals(u, i)
    BY <1>2, <2>1 DEF ThreadSignals
  <2>3. (\A i : ~LinkSignalling(i)' /\ ~LinkSignalling(i)) /\ pc'[Link] # "signal"
    BY <1>2, <2>1 DEF LinkSignalling
  <2>4. \A i \in Ids : status'[i] = IF i \in tokens THEN "crashed" ELSE status[i]
    BY <1>2
  <2>5. Issued' = Issued /\ Issued \subseteq Ids
    BY <1>1, <1>2 DEF Issued, TableTyped, Ids
  <2>6. \A i \in Ids : i >= next_id' => status'[i] = "none"
    <3>1. \A i \in Ids : i >= next_id => ~(i < next_id)
      BY <1>1 DEF TableTyped
    <3> QED
      BY <1>1, <1>2, <2>4, <3>1 DEF TokenInv
  <2>7. \A u \in Threads, i \in Nat : ThreadSignals(u, i)' =>
           i \in Ids /\ i < next_id' /\ i \notin tokens' /\ status'[i] = "none"
    BY <1>1, <1>2, <2>2, <2>4 DEF TokenInv
  <2>8. \A u, v \in Threads, i \in Nat : ThreadSignals(u, i)' /\ ThreadSignals(v, i)' => u = v
    BY <1>1, <2>2, Zenon DEF TokenInv
  <2>9. \A i \in Issued' : i \in tokens' \/ status'[i] # "none" \/ LinkSignalling(i)'
                          \/ \E u \in Threads : ThreadSignals(u, i)'
    BY <1>1, <2>2, <2>3, <2>4, <2>5 DEF TokenInv
  <2>10. dead' = "no" /\ tokens' = {}
    BY <1>1, <1>2 DEF TokenInv
  <2> QED
    BY <2>3, <2>6, <2>7, <2>8, <2>9, <2>10 DEF TokenInv
<1> QED
  BY <1>3, <1>4, <1>5, <1>6 DEF IInv, Typed

-----------------------------------------------------------------------------
(* The theorems *)

\* A stuttering step keeps the invariant.
LEMMA StutterKeeps ==
  ASSUME IInv, UNCHANGED vars
  PROVE  IInv'
<1>1. /\ UNCHANGED <<tokens, next_id, crashed, status, parked, dead, host, conn_q, link_q>>
      /\ UNCHANGED <<ended, ending>>
  BY DEF vars, table, queues, conn
<1>2. ConnTyped' /\ ServiceTyped'
  BY DEF IInv, Typed, ConnTyped, ServiceTyped, vars, conn, serv
<1> QED
  BY <1>1, <1>2, ServiceKeeps

\* Every step keeps the invariant.
LEMMA NextInv == IInv /\ [Next]_vars => IInv'
<1> SUFFICES ASSUME IInv, [Next]_vars PROVE IInv'
  OBVIOUS
<1>1. ASSUME NEW t \in Threads, Forward(t) \/ Exec(t) \/ DropTask(t) \/ ThreadSteps(t) PROVE IInv'
  <2>1. t \in Hosts
    BY Constants
  <2> QED
    BY <1>1, <2>1, IssuesKeep, HostMovesKeep, FailKeeps, DropKeeps, SyncKeeps DEF ThreadSteps
<1>2. CASE LinkSteps
  BY <1>2, Constants, LinkTakes, LinkSignals_Keeps, LinkReleases, EndCrashes, DropKeeps
     DEF LinkSteps, LinkQueue
<1>3. CASE ConnectionQueue
  BY <1>3, ConnectionKeeps
<1>4. ASSUME NEW i \in Ids, ServiceSteps(i) \/ Commit(i) \/ RoundTrip(i) \/ GpuCompletes(i) \/ die(i)
      PROVE  IInv'
  BY <1>4, ServiceSteps_Keep
<1>5. CASE DeathWakes \/ report_death
  BY <1>5, DeathKeeps
<1>6. CASE UNCHANGED vars
  BY <1>6, StutterKeeps
<1> QED
  BY <1>1, <1>2, <1>3, <1>4, <1>5, <1>6 DEF Next

\* The invariant holds in every reachable state.
LEMMA InvAlways == Spec => []IInv
  BY InitInv, NextInv, PTL DEF Spec

(* Every variable keeps its type. *)
THEOREM RemoteTypes == Spec => []TypeOK
<1>1. IInv => TypeOK
  BY DEF IInv, Typed, TableTyped, HostTyped, ConnTyped, ServiceTyped, TypeOK, ThreadPCs, LinkPCs
<1> QED
  BY <1>1, InvAlways, PTL

(* No token is signalled twice, whichever of a reply, a GPU completion, the exec's own *)
(* failure and the crash gets to it first, for any number of threads and tokens.       *)
THEOREM TokensAreSignalledOnce == Spec => []SignalledOnce
<1>1. IInv => SignalledOnce
  BY DEF IInv, TokenInv, SignalledOnce
<1> QED
  BY <1>1, InvAlways, PTL

(* After the crash every token is answered or in the hands of an exec about to answer it. *)
THEOREM CrashLeavesNobody == Spec => []CrashAnswersAll
<1>1. IInv => CrashAnswersAll
  <2> SUFFICES ASSUME IInv, crashed PROVE
        /\ tokens = {}
        /\ \A i \in Issued : status[i] # "none" \/ \E t \in Threads : ThreadSignals(t, i)
    BY DEF CrashAnswersAll, ThreadSignals
  <2>1. tokens = {} /\ \A i : ~LinkSignalling(i)
    BY DEF IInv, TokenInv, LinkSignalling
  <2> QED
    BY <2>1 DEF IInv, TokenInv
<1> QED
  BY <1>1, InvAlways, PTL

(* What the service hands over while the task runs comes before the end on the link's queue. *)
THEOREM NothingBehindTheEnd == Spec => []EndComesLast
<1>1. IInv => EndComesLast
  BY DEF IInv, EndInv
<1> QED
  BY <1>1, InvAlways, PTL

=============================================================================
