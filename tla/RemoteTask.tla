----------------------------- MODULE RemoteTask -----------------------------
(***************************************************************************)
(* One isolated task: the host's side of it (tasks/remote.rs), its table   *)
(* of outstanding completions (tasks/remote/completions.rs), the           *)
(* connection to its service (tasks/isolation/link.rs) and the task's life *)
(* (tasks/isolation/life.rs), all of crates/reims-vgpu-core/src.           *)
(*                                                                         *)
(* FIFO threads forward commands and run execs; the service answers, dies  *)
(* or is invalidated at any moment; the last reference to the task drops   *)
(* on whichever thread lets it go.  The connection's two queues are serial *)
(* executors (SerialQueue), so each is a sequence of what it still has to  *)
(* run.  The service is external: it takes a message, may make one round   *)
(* trip to the host, and answers; an exec's GPU work completes later.      *)
(* The handshake that launches the task is over, with status 1.            *)
(* The definitions named ..._bug are plausible mistakes in the one they    *)
(* precede, kept to show which property catches each.                      *)
(***************************************************************************)
EXTENDS Integers, Sequences, FiniteSets

CONSTANTS
  Threads,    \* the FIFO threads
  Link,       \* the thread of the link's queue
  MaxTokens,  \* bound: tokens issued
  Trips       \* may the service make round trips to the host?

ASSUME RemoteTaskAssumption ==
  /\ IsFiniteSet(Threads) /\ Link \notin Threads
  /\ MaxTokens \in Nat /\ Trips \in BOOLEAN

Ids == 1..MaxTokens     \* a reply is named by the token it completes
NoToken == 0
Hosts == Threads \cup {Link}

VARIABLES
  tokens, next_id, crashed,   \* Completions
  status,                     \* each token's status, "none" for NOT_COMPLETE
  parked,                     \* a drain waits on the table's condition variable
  dead,                       \* the fatal check that ended the process, or "no"
  pc, tok, back,              \* each host thread: where, its tokens, where it returns to
  held,                       \* the device holds the task
  ended, invalidated, service,  \* the connection's State
  pending, closed,            \* the table of replies not yet answered, and is it closed?
  conn_q, ending,             \* the connection's queue, and the end it is running
  link_q,                     \* the link's queue: its head is what the link runs
  life, dying,                \* the task's life, and how far the dying thread is
  work, gpu, wakers, filled,  \* the service: its work, GPU work, waiters, trips answered
  unbuffered,                 \* the completions of execs that got no command buffer
  completion                  \* the completion token each exec's message names

table == <<tokens, next_id, crashed, status, parked, dead>>
host  == <<pc, tok, back, held>>
queues == <<conn_q, link_q>>
conn  == <<ended, invalidated, service, pending, closed, ending>>
serv  == <<work, gpu, wakers, filled, unbuffered, completion>>
vars  == <<table, host, queues, conn, life, dying, serv>>

Statuses == {"none", "ok", "fail", "crashed"}
Works    == {"no", "run", "tripped", "committed", "register", "check", "wait"}
Dropping == {"drain", "invalidate", "exit", "wakes", "later", "sync", "turn", "gone"}

TypeOK ==
  /\ tokens \subseteq Ids /\ next_id \in 1..(MaxTokens + 1) /\ crashed \in BOOLEAN
  /\ status \in [Ids -> Statuses] /\ parked \in BOOLEAN
  /\ dead \in {"no", "TokenSignalledTwice"}
  /\ \A t \in Threads : pc[t] \in {"free", "issue", "send", "wait", "fail", "signal"} \cup Dropping
  /\ pc[Link] \in {"free", "signal", "release", "closing", "drain", "invalidate", "exit", "wakes", "later"}
  /\ tok \in [Threads -> [reply : 0..MaxTokens, done : 0..MaxTokens]]
  /\ back \in [Hosts -> {"free", "wait", "gone"}]
  /\ held \in BOOLEAN
  /\ ended \in BOOLEAN /\ invalidated \in BOOLEAN /\ service \in BOOLEAN /\ closed \in BOOLEAN
  /\ pending \subseteq Ids /\ ending \in {"no", "Died", "Invalidated"}
  /\ life \in {"Running", "Died", "Exited"} /\ dying \in {"no", "wake", "hook", "told"}
  /\ work \in [Ids -> Works] /\ completion \in [Ids -> 0..MaxTokens]
  /\ gpu \subseteq Ids /\ wakers \subseteq Ids /\ filled \subseteq Ids /\ unbuffered \subseteq Ids

Init ==
  /\ tokens = {} /\ next_id = 1 /\ crashed = FALSE
  /\ status = [i \in Ids |-> "none"] /\ parked = FALSE /\ dead = "no"
  /\ pc = [a \in Hosts |-> "free"] /\ back = [a \in Hosts |-> "free"]
  /\ tok = [t \in Threads |-> [reply |-> NoToken, done |-> NoToken]]
  /\ held = TRUE
  /\ ended = FALSE /\ invalidated = FALSE /\ service = TRUE
  /\ pending = {} /\ closed = FALSE
  /\ conn_q = <<>> /\ ending = "no" /\ link_q = <<>>
  /\ life = "Running" /\ dying = "no"
  /\ work = [i \in Ids |-> "no"] /\ completion = [i \in Ids |-> NoToken]
  /\ gpu = {} /\ wakers = {} /\ filled = {} /\ unbuffered = {}

Goto(a, label) == pc' = [pc EXCEPT ![a] = label]
has_ended == life # "Running"

-----------------------------------------------------------------------------
(* Completions *)

\* A new token, in the table, or signalled here after a crash.
issue_token_bug(id) ==
  /\ id = next_id /\ next_id' = id + 1
  /\ tokens' = tokens \cup {id}
  /\ UNCHANGED <<status, crashed, parked, dead>>
issue_token(id) ==
  /\ id = next_id /\ next_id' = id + 1
  /\ \/ ~crashed /\ tokens' = tokens \cup {id} /\ UNCHANGED status
     \/ crashed /\ status' = [status EXCEPT ![id] = "crashed"] /\ UNCHANGED tokens
  /\ UNCHANGED <<crashed, parked, dead>>

\* complete_id and complete, under the table's lock: the token leaves the table, and the
\* drain is woken when none is left.  complete_id wakes it for an unknown id too.
erase(id) ==
  /\ tokens' = tokens \ {id}
  /\ parked' = (parked /\ tokens' # {})
  /\ UNCHANGED <<next_id, crashed, status, dead>>

\* Token::signal, once the table is unlocked; a second one ends the process.
signal(id, st) ==
  /\ IF status[id] = "none"
     THEN status' = [status EXCEPT ![id] = st] /\ UNCHANGED dead
     ELSE dead' = "TokenSignalledTwice" /\ UNCHANGED status
  /\ UNCHANGED <<tokens, next_id, crashed, parked>>

\* crash, under the table's lock throughout: nobody sees a part of it.
crash_bug ==
  /\ status' = [i \in Ids |-> IF i \in tokens THEN "crashed" ELSE status[i]]
  /\ tokens' = {} /\ parked' = FALSE
  /\ UNCHANGED <<crashed, next_id, dead>>
crash ==
  /\ crashed' = TRUE
  /\ status' = [i \in Ids |-> IF i \in tokens THEN "crashed" ELSE status[i]]
  /\ tokens' = {} /\ parked' = FALSE
  /\ UNCHANGED <<next_id, dead>>

-----------------------------------------------------------------------------
(* The FIFO threads *)

\* The bound on tokens never stops an exec between its two.
Room == MaxTokens + 1 - next_id - Cardinality({t \in Threads : pc[t] = "issue"})

\* forward: one token, and a message whose reply completes it.
Forward(t) ==
  /\ pc[t] = "free" /\ held /\ Room >= 1
  /\ issue_token(next_id)
  /\ tok' = [tok EXCEPT ![t] = [reply |-> next_id, done |-> NoToken]]
  /\ Goto(t, "send")
  /\ UNCHANGED <<back, held, queues, conn, life, dying, serv>>

\* exec: the token the thread waits on, then the completion token the message names.
Exec(t) ==
  /\ pc[t] = "free" /\ held /\ Room >= 2
  /\ issue_token(next_id)
  /\ tok' = [tok EXCEPT ![t] = [reply |-> next_id, done |-> NoToken]]
  /\ Goto(t, "issue")
  /\ UNCHANGED <<back, held, queues, conn, life, dying, serv>>

ExecIssues(t) ==
  /\ pc[t] = "issue"
  /\ issue_token(next_id)
  /\ tok' = [tok EXCEPT ![t].done = next_id]
  /\ Goto(t, "send")
  /\ UNCHANGED <<back, held, queues, conn, life, dying, serv>>

AfterSend(t) == IF tok[t].done = NoToken THEN "free" ELSE "wait"

\* Link::send, under the connection's lock: relayed and queued, or, once the connection has
\* ended, dropped with its reply; the first one dropped after a death invalidates.
send(t) ==
  LET r == tok[t].reply IN
  /\ pc[t] = "send"
  /\ \/ /\ ~ended
        /\ pending' = IF closed THEN pending ELSE pending \cup {r}
        /\ completion' = [completion EXCEPT ![r] = tok[t].done]
        /\ conn_q' = Append(conn_q, [kind |-> "message", of |-> r])
        /\ Goto(t, AfterSend(t)) /\ UNCHANGED back
     \/ /\ ended
        /\ Goto(t, IF invalidated THEN AfterSend(t) ELSE "invalidate")
        /\ back' = [back EXCEPT ![t] = AfterSend(t)]
        /\ UNCHANGED <<pending, completion, conn_q>>
  /\ UNCHANGED <<table, tok, held, link_q, ended, invalidated, service, closed, ending, life, dying,
                 work, gpu, wakers, filled, unbuffered>>

\* The exec's wait: only a failure is completed here.
ExecWaits(t) ==
  /\ pc[t] = "wait" /\ status[tok[t].reply] # "none"
  /\ Goto(t, IF status[tok[t].reply] = "fail" THEN "fail" ELSE "free")
  /\ UNCHANGED <<table, tok, back, held, queues, conn, life, dying, serv>>

ExecFails_bug(t) ==
  /\ \/ pc[t] = "fail" /\ erase(tok[t].done) /\ Goto(t, "signal")
     \/ pc[t] = "signal" /\ signal(tok[t].done, "fail") /\ Goto(t, "free")
  /\ UNCHANGED <<tok, back, held, queues, conn, life, dying, serv>>
ExecFails(t) ==
  /\ \/ /\ pc[t] = "fail" /\ tok[t].done \in tokens /\ erase(tok[t].done) /\ Goto(t, "signal")
     \/ /\ pc[t] = "fail" /\ tok[t].done \notin tokens /\ Goto(t, "free") /\ UNCHANGED table
     \/ /\ pc[t] = "signal" /\ signal(tok[t].done, "fail") /\ Goto(t, "free")
  /\ UNCHANGED <<tok, back, held, queues, conn, life, dying, serv>>

-----------------------------------------------------------------------------
(* The task's drop, on the thread that lets its last reference go *)

\* Every reply keeps the task: in the table, or on the link's queue until it has run.
Replies(q) == {i \in DOMAIN q : q[i].kind = "reply"}
LastGone(p, q) == p = {} /\ Replies(q) = {}

\* The device lets the task go; no FIFO thread is in a command of it.
DropTask(t) ==
  /\ held /\ \A u \in Threads : pc[u] = "free"
  /\ held' = FALSE
  /\ Goto(t, IF LastGone(pending, link_q) THEN "drain" ELSE "free")
  /\ back' = [back EXCEPT ![t] = "gone"]
  /\ UNCHANGED <<table, tok, queues, conn, life, dying, serv>>

drain(a) ==
  /\ pc[a] = "drain" /\ ~parked
  /\ \/ tokens = {} /\ Goto(a, "invalidate") /\ UNCHANGED parked
     \/ tokens # {} /\ parked' = TRUE /\ UNCHANGED pc
  /\ UNCHANGED <<tokens, next_id, crashed, status, dead, tok, back, held, queues, conn, life, dying, serv>>

\* Link::invalidate.  It is made once: from here a send is dropped.
invalidate(a) ==
  /\ pc[a] = "invalidate"
  /\ invalidated' = TRUE /\ ended' = TRUE
  /\ Goto(a, IF invalidated THEN back[a] ELSE "exit")
  /\ UNCHANGED <<table, tok, back, held, queues, service, pending, closed, ending, life, dying, serv>>

\* TaskLife::exit; a task that has ended already stays as it is.
exit(a) ==
  /\ pc[a] = "exit"
  /\ life' = IF life = "Running" THEN "Exited" ELSE life
  /\ Goto(a, IF life = "Running" THEN "wakes" ELSE "later")
  /\ UNCHANGED <<table, tok, back, held, queues, conn, dying, serv>>

\* wake_waiters: each waiter registered is woken once.
WakeAll == work' = [i \in Ids |-> IF i \in wakers /\ work[i] = "wait" THEN "check" ELSE work[i]]

wake_waiters(a) ==
  /\ pc[a] = "wakes" /\ Goto(a, "later")
  /\ WakeAll /\ wakers' = {}
  /\ UNCHANGED <<table, tok, back, held, queues, conn, life, dying, gpu, filled, unbuffered, completion>>

\* end_later, then on any thread but the queues' own a sync onto the connection's queue.
end_later(a) ==
  /\ pc[a] = "later"
  /\ conn_q' = Append(conn_q, [kind |-> "end", of |-> "Invalidated"])
  /\ Goto(a, IF a = Link THEN back[a] ELSE "sync")
  /\ UNCHANGED <<table, tok, back, held, link_q, conn, life, dying, serv>>

SyncAfterEnd(t) ==
  /\ pc[t] = "sync" /\ Goto(t, "turn")
  /\ conn_q' = Append(conn_q, [kind |-> "sync", of |-> t])
  /\ UNCHANGED <<table, tok, back, held, link_q, conn, life, dying, serv>>

Dropped(a) == drain(a) \/ invalidate(a) \/ exit(a) \/ wake_waiters(a) \/ end_later(a)

-----------------------------------------------------------------------------
(* The connection's queue *)

\* deliver: to a service that is still there and running, else dropped.
deliver ==
  /\ conn_q # <<>> /\ Head(conn_q).kind = "message" /\ conn_q' = Tail(conn_q)
  /\ work' = IF service /\ ~has_ended THEN [work EXCEPT ![Head(conn_q).of] = "run"] ELSE work
  /\ UNCHANGED <<table, host, link_q, conn, life, dying, gpu, wakers, filled, unbuffered, completion>>

SyncRuns ==
  /\ conn_q # <<>> /\ Head(conn_q).kind = "sync" /\ conn_q' = Tail(conn_q)
  /\ Goto(Head(conn_q).of, back[Head(conn_q).of])
  /\ UNCHANGED <<table, tok, back, held, link_q, conn, life, dying, serv>>

\* end: the service releases its state, which waits for the task's threads to stop ...
EndBegins ==
  /\ conn_q # <<>> /\ Head(conn_q).kind = "end" /\ ending = "no"
  /\ ending' = Head(conn_q).of /\ service' = FALSE
  /\ UNCHANGED <<table, host, queues, ended, invalidated, pending, closed, life, dying, serv>>

\* ... then the host is told, but not of a death after the invalidation.
EndTold_bug ==
  /\ ending # "no" /\ \A i \in Ids : work[i] = "no"
  /\ conn_q' = Tail(conn_q) /\ ending' = "no"
  /\ ended' = TRUE
  /\ link_q' = IF ended THEN link_q ELSE Append(link_q, [kind |-> "end", of |-> ending])
  /\ UNCHANGED <<table, host, invalidated, service, pending, closed, life, dying, serv>>
EndTold ==
  /\ ending # "no" /\ \A i \in Ids : work[i] = "no"
  /\ conn_q' = Tail(conn_q) /\ ending' = "no"
  /\ ended' = TRUE
  /\ link_q' = IF ending = "Died" /\ ended THEN link_q
               ELSE Append(link_q, [kind |-> "end", of |-> ending])
  /\ UNCHANGED <<table, host, invalidated, service, pending, closed, life, dying, serv>>

ConnectionQueue == deliver \/ SyncRuns \/ EndBegins \/ EndTold

-----------------------------------------------------------------------------
(* The link's queue: on_link_queue, one event at a time *)

Event == Head(link_q)
LinkRuns(kind) == pc[Link] = "free" /\ link_q # <<>> /\ Event.kind = kind

\* CompleteAsyncToken: complete_id, which ignores an unknown id.
OnComplete ==
  /\ LinkRuns("complete") /\ erase(Event.of)
  /\ \/ Event.of \in tokens /\ Goto(Link, "signal") /\ UNCHANGED link_q
     \/ Event.of \notin tokens /\ link_q' = Tail(link_q) /\ UNCHANGED pc
  /\ UNCHANGED <<tok, back, held, conn_q, conn, life, dying, serv>>

\* A reply: complete, ignored once the token has left the table; then the reply goes.
OnReply ==
  /\ LinkRuns("reply")
  /\ IF Event.of \in tokens THEN erase(Event.of) /\ Goto(Link, "signal")
                            ELSE Goto(Link, "release") /\ UNCHANGED table
  /\ UNCHANGED <<tok, back, held, queues, conn, life, dying, serv>>

LinkSignals ==
  /\ pc[Link] = "signal" /\ signal(Event.of, Event.status)
  /\ \/ Event.kind = "reply" /\ Goto(Link, "release") /\ UNCHANGED link_q
     \/ Event.kind = "complete" /\ Goto(Link, "free") /\ link_q' = Tail(link_q)
  /\ UNCHANGED <<tok, back, held, conn_q, conn, life, dying, serv>>

\* The link lets go of the event; the task drops here when that released its last reference.
Release(released, left) ==
  /\ link_q' = Tail(link_q)
  /\ Goto(Link, IF released /\ ~held /\ LastGone(left, Tail(link_q)) THEN "drain" ELSE "free")

ReplyReleased ==
  /\ pc[Link] = "release" /\ Release(TRUE, pending)
  /\ UNCHANGED <<table, tok, back, held, conn_q, conn, life, dying, serv>>

\* RetainIoSurface or NewSharedTextureHandle: the host's reply fills the waiter's slot.
OnTrip ==
  /\ LinkRuns("trip") /\ link_q' = Tail(link_q)
  /\ filled' = filled \cup {Event.of}
  /\ work' = [work EXCEPT ![Event.of] = IF @ = "wait" THEN "check" ELSE @]
  /\ UNCHANGED <<table, host, conn_q, conn, life, dying, gpu, wakers, unbuffered, completion>>

\* on_interrupted and on_invalidated: the task's tokens crash, ...
OnEnd ==
  /\ LinkRuns("end") /\ crash /\ Goto(Link, "closing")
  /\ UNCHANGED <<tok, back, held, queues, conn, life, dying, serv>>

\* ... then release_pending: the replies go unrun and the table closes.
release_pending ==
  /\ pc[Link] = "closing" /\ closed' = TRUE /\ pending' = {} /\ Release(pending # {}, {})
  /\ UNCHANGED <<table, tok, back, held, conn_q, ended, invalidated, service, ending, life, dying, serv>>

LinkQueue == \/ OnComplete \/ OnReply \/ LinkSignals \/ ReplyReleased \/ OnTrip \/ OnEnd
             \/ release_pending

-----------------------------------------------------------------------------
(* The service (external), and what it reaches of the connection and of the task's life *)

\* to_host, under the connection's lock: a task that has ended sends nothing.
to_host_bug(event) == link_q' = Append(link_q, event)
to_host(event) == link_q' = IF ended \/ has_ended THEN link_q ELSE Append(link_q, event)

Working(i) == work[i] \in {"run", "tripped", "committed"}

\* An exec's command buffer is committed; its completion comes in its own time.  A platform
\* that gives no buffer is not noticed: no handler is added, and the exec goes on.
Commit(i) ==
  /\ work[i] \in {"run", "tripped"} /\ completion[i] # NoToken
  /\ work' = [work EXCEPT ![i] = "committed"]
  /\ \/ gpu' = gpu \cup {completion[i]} /\ UNCHANGED unbuffered
     \/ unbuffered' = unbuffered \cup {completion[i]} /\ UNCHANGED gpu
  /\ UNCHANGED <<table, host, queues, conn, life, dying, wakers, filled, completion>>

\* The relay: its first call while the task runs hands the host's reply to the link.
relay(i, st) ==
  LET goes == ~ended /\ ~has_ended /\ i \in pending IN
  /\ pending' = IF goes THEN pending \ {i} ELSE pending
  /\ link_q' = IF goes THEN Append(link_q, [kind |-> "reply", of |-> i, status |-> st]) ELSE link_q

\* An exec is refused at any point before its commit; 1 answers it only once that is behind.
MayAnswer(i, st) == st = "ok" => completion[i] = NoToken \/ work[i] = "committed"

\* The service answers.  A raise in the paging-out behind the commit answers with a failure all
\* the same: the GPU's completion then comes late, or not at all.
Answer(i) ==
  /\ Working(i) /\ work' = [work EXCEPT ![i] = "no"]
  /\ \E st \in {"ok", "fail"} :
       /\ MayAnswer(i, st) /\ relay(i, st)
       /\ gpu' = gpu \/ (st = "fail" /\ gpu' = gpu \ {completion[i]})
  /\ UNCHANGED <<table, host, conn_q, ended, invalidated, service, closed, ending, life, dying,
                 wakers, filled, unbuffered, completion>>

\* CompleteAsyncToken, from a GPU completion handler (carried as the task's code).
GpuCompletes(id) ==
  /\ id \in gpu /\ gpu' = gpu \ {id}
  /\ \E st \in {"ok", "fail"} : to_host([kind |-> "complete", of |-> id, status |-> st])
  /\ UNCHANGED <<table, host, conn_q, conn, life, dying, work, wakers, filled, unbuffered, completion>>

\* A round trip: the request, then ReplySlot::wait, which registers a waker, and looks for
\* the reply and for the task's end before each wait.
RoundTrip(i) ==
  /\ Trips /\ work[i] = "run" /\ ~has_ended
  /\ to_host([kind |-> "trip", of |-> i])
  /\ work' = [work EXCEPT ![i] = "register"]
  /\ UNCHANGED <<table, host, conn_q, conn, life, dying, gpu, wakers, filled, unbuffered, completion>>

waiting(i) ==
  /\ work[i] = "register" /\ wakers' = wakers \cup {i}
  /\ work' = [work EXCEPT ![i] = "check"]
  /\ UNCHANGED <<table, host, queues, conn, life, dying, gpu, filled, unbuffered, completion>>

SlotWait(i) ==
  /\ work[i] = "check"
  /\ \/ i \in filled /\ work' = [work EXCEPT ![i] = "tripped"] /\ wakers' = wakers \ {i}
     \/ i \notin filled /\ has_ended /\ work' = [work EXCEPT ![i] = "no"] /\ wakers' = wakers \ {i}
     \/ i \notin filled /\ ~has_ended /\ work' = [work EXCEPT ![i] = "wait"] /\ UNCHANGED wakers
  /\ UNCHANGED <<table, host, queues, conn, life, dying, gpu, filled, unbuffered, completion>>

\* stop_if_ended: a thread of an ended task stops at its next step.
stop_if_ended(i) ==
  /\ has_ended /\ Working(i) /\ work' = [work EXCEPT ![i] = "no"]
  /\ UNCHANGED <<table, host, queues, conn, life, dying, gpu, wakers, filled, unbuffered, completion>>

\* A death in the task's code, a GPU completion handler's included: the first one ends the task.
die(i) ==
  /\ life = "Running" /\ life' = "Died" /\ dying' = "wake"
  /\ \/ Working(i) /\ work' = [work EXCEPT ![i] = "no"] /\ UNCHANGED gpu
     \/ i \in gpu /\ gpu' = gpu \ {i} /\ UNCHANGED work
  /\ UNCHANGED <<table, host, queues, conn, wakers, filled, unbuffered, completion>>

DeathWakes ==
  /\ dying = "wake" /\ dying' = "hook" /\ WakeAll /\ wakers' = {}
  /\ UNCHANGED <<table, host, queues, conn, life, gpu, filled, unbuffered, completion>>

\* report_death, once the dying thread has unwound: the hook ends the connection, which
\* stays open until its queue gets there.
report_death_bug ==
  /\ dying = "hook" /\ dying' = "told" /\ ended' = TRUE
  /\ conn_q' = Append(conn_q, [kind |-> "end", of |-> "Died"])
  /\ UNCHANGED <<table, host, link_q, invalidated, service, pending, closed, ending, life, serv>>
report_death ==
  /\ dying = "hook" /\ dying' = "told"
  /\ conn_q' = Append(conn_q, [kind |-> "end", of |-> "Died"])
  /\ UNCHANGED <<table, host, link_q, conn, life, serv>>

-----------------------------------------------------------------------------
ThreadSteps(t) == ExecIssues(t) \/ send(t) \/ ExecWaits(t) \/ ExecFails(t) \/ Dropped(t) \/ SyncAfterEnd(t)
LinkSteps == LinkQueue \/ Dropped(Link)
ServiceSteps(i) == Answer(i) \/ waiting(i) \/ SlotWait(i) \/ stop_if_ended(i)

Next ==
  \/ \E t \in Threads : Forward(t) \/ Exec(t) \/ DropTask(t) \/ ThreadSteps(t)
  \/ LinkSteps \/ ConnectionQueue
  \/ \E i \in Ids : ServiceSteps(i) \/ Commit(i) \/ RoundTrip(i) \/ GpuCompletes(i) \/ die(i)
  \/ DeathWakes \/ report_death

Spec == Init /\ [][Next]_vars

(* Threads and queues run, and the service answers what it is given: whether it makes a *)
(* round trip, commits or dies on the way is its own affair.                             *)
Fairness ==
  /\ \A t \in Threads : WF_vars(ThreadSteps(t))
  /\ WF_vars(LinkSteps) /\ WF_vars(ConnectionQueue)
  /\ \A i \in Ids : WF_vars(ServiceSteps(i)) /\ WF_vars(GpuCompletes(i))
  /\ WF_vars(DeathWakes \/ report_death)

FairSpec == Spec /\ Fairness

-----------------------------------------------------------------------------
Issued == 1..(next_id - 1)

(* No token is ever signalled twice, which would end the process, though a reply, a GPU   *)
(* completion, the exec's own failure and the crash may all race to complete it.           *)
SignalledOnce == dead = "no"

(* The crash leaves nobody behind: from then on a token is answered, or the thread that    *)
(* took it out of the table before the crash is about to signal it.                         *)
CrashAnswersAll ==
  crashed => /\ tokens = {}
             /\ \A i \in Issued : \/ status[i] # "none"
                                  \/ \E t \in Threads : pc[t] = "signal" /\ tok[t].done = i

(* What the service hands over while the task runs reaches the host before the end does:    *)
(* behind an end on the link's queue comes at most the invalidation.                         *)
EndComesLast ==
  \A i, j \in DOMAIN link_q :
    i < j /\ link_q[i].kind = "end" => link_q[j] = [kind |-> "end", of |-> "Invalidated"]

\* The task dropping on the link's own queue, which then completes no token: it waits for good.
LinkStuck == pc[Link] = "drain" /\ tokens # {}

(* Every token is answered, by the service or by its end, unless the link's queue waits in   *)
(* the task's own drop for a completion only it could make (remote.rs, the test               *)
(* `the_completion_goes_before_the_drop_blocks_in_drain'), or it is the completion of an exec *)
(* that got no command buffer and was answered with 1 all the same (exec.rs:217).             *)
EveryTokenAnswered ==
  \A i \in Ids : (i < next_id) ~> (status[i] # "none" \/ LinkStuck \/ i \in unbuffered)

(* A task that the device lets go ends: its last reference goes, its drop drains, the        *)
(* connection is invalidated and the service released, with nobody waiting for anybody but    *)
(* for the same two: a drop on the link's own queue, and a drain of a completion that never    *)
(* comes.                                                                                      *)
TaskGoes == ~held ~> ((invalidated /\ ~service /\ closed /\ \A a \in Hosts : pc[a] \in {"free", "gone"})
                      \/ LinkStuck \/ unbuffered \cap tokens # {})

(* The host learns of a death: every command is faulted with 4 from then on.                 *)
DeathIsTold == (life = "Died") ~> (crashed \/ LinkStuck)
=============================================================================
