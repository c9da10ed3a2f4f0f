----------------------------- MODULE Scheduler -----------------------------
(***************************************************************************)
(* The connection scheduler of the server: the main thread accepts sockets *)
(* and gives each one to the worker with the lowest load (mk_server.c,     *)
(* mk_scheduler.c); every worker thread runs an epoll loop over its own    *)
(* sockets, registers them, serves them, closes them and times them out    *)
(* (mk_epoll.c, mk_connection.c, mk_scheduler.c).                          *)
(*                                                                         *)
(* Threads share the two load counters of every worker and the kernel: the *)
(* table of file descriptors, whose numbers are reused, and the epoll      *)
(* sets.  An action is one access to that shared state together with the   *)
(* thread-local work around it.                                            *)
(*                                                                         *)
(* What a client sends and what the HTTP layer makes of it is abstracted   *)
(* to its outcome for the connection.  A point in time is kept as the      *)
(* number of clock ticks that are left until it.                           *)
(***************************************************************************)
EXTENDS Integers, FiniteSets, Sequences

CONSTANTS
  NWorkers,    \* config->workers
  Fds,         \* the file descriptor numbers sockets can get
  Capacity,    \* config->worker_capacity
  Timeout,     \* config->timeout, in clock ticks
  KATimeout,   \* config->keep_alive_timeout, in clock ticks
  MaxConns,    \* bound: how many connections are ever accepted
  ULLModulus   \* 2^64 in the code: the width of the load counters

ASSUME SchedulerAssumption ==
  /\ NWorkers \in Nat \ {0}
  /\ Fds \subseteq Nat
  /\ IsFiniteSet(Fds)
  /\ Capacity \in Nat \ {0}
  /\ Timeout \in Nat \ {0}
  /\ KATimeout \in Nat \ {0}
  /\ MaxConns \in Nat
  /\ ULLModulus \in Nat

Workers == 0 .. NWorkers - 1

Closed == 0                          \* no connection behind a descriptor

Modes  == {"none", "READ", "WRITE"}         \* epoll interest in a socket
Events == {"none", "IN", "OUT", "ERR"}      \* what epoll_wait() reports
ConnStatus == {"none", "PENDING", "PROCESS"}
SessionStatus == {"none", "INCOMPLETE", "COMPLETED"}

(* A client_session.  `left' is the time until init_time + Timeout, or     *)
(* + KATimeout once counter_connections > 0.  `id' is the connection it    *)
(* was created for; the code does not keep it and no action reads it.      *)
Sessions == [status : SessionStatus, left : Nat, id : 0 .. MaxConns]
NoSession == [status |-> "none", left |-> 0, id |-> Closed]

VARIABLES
  \* main thread
  mpc,          \* where the accept loop stands
  remote_fd,    \* the socket just accepted
  idx,          \* _next_target(): next worker to look at
  cur,          \* _next_target(): lowest load found so far
  target,       \* _next_target(): the worker that has it
  served,       \* how many connections have been accepted
  \* the scheduler nodes, shared by all threads
  accepted,     \* accepted_connections
  closed,       \* closed_connections
  \* the kernel
  file,         \* which connection is behind a descriptor
  interest,     \* what each worker's epoll set asks for
  \* worker threads
  step,         \* where the epoll loop stands
  ret,          \* where it goes on after closing sockets
  batch,        \* events returned by epoll_wait() and not handled yet
  todo,         \* sockets mk_sched_remove_client() is still called for
  conn,         \* status of the busy_queue entry of a socket
  arrive,       \* ticks until its arrive_time + Timeout
  avail,        \* length of the av_queue
  cs,           \* client sessions, by socket
  fds_timeout   \* ticks until the next timeout sweep

mainVars   == <<mpc, remote_fd, idx, cur, target, served>>
kernelVars == <<file, interest>>
loopVars   == <<step, ret, batch, todo>>
queueVars  == <<conn, arrive, avail, cs, fds_timeout>>
vars == <<mainVars, accepted, closed, kernelVars, loopVars, queueVars>>

Init ==
  /\ mpc = "accept" /\ remote_fd = 0 /\ idx = 0 /\ cur = 0 /\ target = 0
  /\ served = 0
  /\ accepted = [w \in Workers |-> 0]
  /\ closed = [w \in Workers |-> 0]
  /\ file = [fd \in Fds |-> Closed]
  /\ interest = [w \in Workers |-> [fd \in Fds |-> "none"]]
  /\ step = [w \in Workers |-> "wait"]
  /\ ret = [w \in Workers |-> "events"]
  /\ batch = [w \in Workers |-> [fd \in Fds |-> "none"]]
  /\ todo = [w \in Workers |-> <<>>]
  /\ conn = [w \in Workers |-> [fd \in Fds |-> "none"]]
  /\ arrive = [w \in Workers |-> [fd \in Fds |-> 0]]
  /\ avail = [w \in Workers |-> Capacity]
  /\ cs = [w \in Workers |-> [fd \in Fds |-> NoSession]]
  /\ fds_timeout = [w \in Workers |-> Timeout]

-----------------------------------------------------------------------------
(* The kernel: close() frees the number and takes the socket out of every  *)
(* epoll set; closing a number that is not open does nothing.              *)
KernelClose(fd) ==
  /\ file' = [file EXCEPT ![fd] = Closed]
  /\ interest' = [w \in Workers |-> [interest[w] EXCEPT ![fd] = "none"]]

(* epoll_ctl(EPOLL_CTL_MOD) fails when the set does not hold the socket.   *)
ChangeMode(w, fd, mode) ==
  interest' = IF interest[w][fd] = "none" THEN interest
              ELSE [interest EXCEPT ![w][fd] = mode]

(* What epoll_wait() may report of a socket.                               *)
Ready(mode) ==
  CASE mode = "READ"  -> {"none", "IN", "ERR"}
    [] mode = "WRITE" -> {"none", "OUT", "ERR"}
    [] OTHER          -> {"none"}

-----------------------------------------------------------------------------
(* The main thread: mk_server_loop() and mk_sched_add_client().            *)

(* accept() hands out the lowest free number.                              *)
Accept ==
  /\ mpc = "accept"
  /\ served < MaxConns
  /\ \E fd \in Fds :
       /\ file[fd] = Closed
       /\ \A lower \in Fds : lower < fd => file[lower] # Closed
       /\ file' = [file EXCEPT ![fd] = served + 1]
       /\ remote_fd' = fd
  /\ served' = served + 1
  /\ mpc' = "scan"
  /\ idx' = 0 /\ cur' = 0 /\ target' = 0
  /\ UNCHANGED <<accepted, closed, interest, loopVars, queueVars>>

(* The difference of the counters, in unsigned arithmetic.                 *)
Load(w) ==
  IF accepted[w] >= closed[w] THEN accepted[w] - closed[w]
  ELSE accepted[w] - closed[w] + ULLModulus

(* Mutant: a full worker is taken for one with room.                       *)
VerdictOffByOne(load) == IF load > Capacity THEN "drop" ELSE "add"

(* _next_target() after its loop: the lowest load decides.                 *)
Verdict(load) == IF load >= Capacity THEN "drop" ELSE "add"

(* One worker's counters are looked at per step; worker 0 is taken at once *)
(* when it is idle, the search ends at the first other idle worker.  The   *)
(* locals of _next_target() are forgotten when it returns.                 *)
ScanWorker ==
  /\ mpc = "scan"
  /\ LET load == Load(idx)
         lowest == idx = 0 \/ load < cur
         best == IF lowest THEN load ELSE cur
         last == idx = NWorkers - 1 \/ (lowest /\ load = 0)
     IN /\ target' = IF lowest THEN idx ELSE target
        /\ idx' = IF last THEN 0 ELSE idx + 1
        /\ cur' = IF last THEN 0 ELSE best
        /\ mpc' = IF idx = 0 /\ load = 0 THEN "add"
                  ELSE IF last THEN Verdict(best)
                  ELSE "scan"
  /\ UNCHANGED <<remote_fd, served, accepted, closed, kernelVars, loopVars,
                 queueVars>>

(* Mutant: the socket is added to the epoll set of every worker.           *)
EpollAddEverywhere ==
  /\ mpc = "add"
  /\ file[remote_fd] # Closed
  /\ interest' = [w \in Workers |-> [interest[w] EXCEPT ![remote_fd] = "READ"]]
  /\ mpc' = "count"
  /\ UNCHANGED <<remote_fd, idx, cur, target, served, accepted, closed, file,
                 loopVars, queueVars>>

(* mk_epoll_add() on the worker's set; from here on the worker sees it.    *)
EpollAdd ==
  /\ mpc = "add"
  /\ file[remote_fd] # Closed
  /\ interest' = [interest EXCEPT ![target][remote_fd] = "READ"]
  /\ mpc' = "count"
  /\ UNCHANGED <<remote_fd, idx, cur, target, served, accepted, closed, file,
                 loopVars, queueVars>>

(* epoll_ctl() fails: ENOSPC, ENOMEM, or the socket is not open any more.  *)
EpollAddFails ==
  /\ mpc = "add"
  /\ mpc' = "drop"
  /\ UNCHANGED <<remote_fd, idx, cur, target, served, accepted, closed,
                 kernelVars, loopVars, queueVars>>

(* Back to accept() in mk_server_loop().                                   *)
NextClient ==
  /\ mpc' = "accept" /\ remote_fd' = 0 /\ target' = 0
  /\ UNCHANGED <<idx, cur, served>>

(* Mutant: the counter is left as it is.                                   *)
CountAcceptedNot ==
  /\ mpc = "count"
  /\ NextClient
  /\ UNCHANGED <<accepted, closed, kernelVars, loopVars, queueVars>>

(* accepted_connections++, after the worker can already see the socket.    *)
CountAccepted ==
  /\ mpc = "count"
  /\ accepted' = [accepted EXCEPT ![target] = @ + 1]
  /\ NextClient
  /\ UNCHANGED <<closed, kernelVars, loopVars, queueVars>>

(* mk_sched_add_client() returned -1: mk_server_loop() closes the socket.  *)
Drop ==
  /\ mpc = "drop"
  /\ KernelClose(remote_fd)
  /\ NextClient
  /\ UNCHANGED <<accepted, closed, loopVars, queueVars>>

Main == Accept \/ ScanWorker \/ EpollAdd \/ EpollAddFails \/ CountAccepted \/ Drop

-----------------------------------------------------------------------------
(* A worker thread: mk_epoll_init() and the handlers it calls.             *)

EpollWait(w) ==
  /\ step[w] = "wait"
  /\ \E b \in [Fds -> Events] :
       /\ \A fd \in Fds : b[fd] \in Ready(interest[w][fd])
       /\ batch' = [batch EXCEPT ![w] = b]
  /\ step' = [step EXCEPT ![w] = "events"]
  /\ UNCHANGED <<mainVars, accepted, closed, kernelVars, ret, todo, queueVars>>

(* The handler of an event on fd starts: it is taken out of the batch.     *)
TakeEvent(w, fd, event) ==
  /\ step[w] = "events"
  /\ batch[w][fd] = event
  /\ batch' = [batch EXCEPT ![w][fd] = "none"]

(* Call mk_sched_remove_client() for the sockets of a sequence, then go on *)
(* at `back'.                                                              *)
Remove(w, fds, back) ==
  /\ todo' = [todo EXCEPT ![w] = fds]
  /\ step' = [step EXCEPT ![w] = IF fds = <<>> THEN back ELSE "del"]
  /\ ret' = [ret EXCEPT ![w] = IF fds = <<>> THEN @ ELSE back]

Continue == UNCHANGED <<step, ret, todo>>

DropSession(w, fd) == cs' = [cs EXCEPT ![w][fd] = NoSession]

(* mk_conn_read() on a socket that is new to the worker: stage 10 lets it  *)
(* pass and it gets the first entry of the av_queue.                       *)
RegisterClient(w, fd) ==
  /\ TakeEvent(w, fd, "IN")
  /\ cs[w][fd].status = "none" /\ conn[w][fd] = "none"
  /\ conn' = [conn EXCEPT ![w][fd] = "PENDING"]
  /\ arrive' = [arrive EXCEPT ![w][fd] = Timeout]
  /\ avail' = [avail EXCEPT ![w] = @ - 1]
  /\ Continue
  /\ UNCHANGED <<mainVars, accepted, closed, kernelVars, cs, fds_timeout>>

(* A stage 10 plugin closes the connection: mk_sched_register_client()     *)
(* calls mk_conn_close(), mk_conn_read() returns -1 and the epoll loop     *)
(* calls mk_conn_close() again.                                            *)
RejectClient(w, fd) ==
  /\ TakeEvent(w, fd, "IN")
  /\ cs[w][fd].status = "none" /\ conn[w][fd] = "none"
  /\ Remove(w, <<fd, fd>>, "events")
  /\ UNCHANGED <<mainVars, accepted, closed, kernelVars, queueVars>>

(* The session mk_conn_read() works on: the one of the socket number, or a *)
(* new one that takes its init_time from the scheduler's entry.            *)
CurrentSession(w, fd) ==
  IF cs[w][fd].status # "none" THEN cs[w][fd]
  ELSE [status |-> "INCOMPLETE", left |-> arrive[w][fd], id |-> file[fd]]

KnownClient(w, fd) == cs[w][fd].status # "none" \/ conn[w][fd] # "none"

(* Data arrived, the request is not complete yet.                          *)
ReadMore(w, fd) ==
  /\ TakeEvent(w, fd, "IN")
  /\ KnownClient(w, fd)
  /\ cs' = [cs EXCEPT ![w][fd] = CurrentSession(w, fd)]
  /\ Continue
  /\ UNCHANGED <<mainVars, accepted, closed, kernelVars, conn, arrive, avail,
                 fds_timeout>>

(* mk_http_pending_request() returned 0: wait until the socket is          *)
(* writable.  A body that is announced as too large leaves the session     *)
(* INCOMPLETE.                                                             *)
ReadComplete(w, fd) ==
  /\ TakeEvent(w, fd, "IN")
  /\ KnownClient(w, fd)
  /\ \E status \in {"COMPLETED", CurrentSession(w, fd).status} :
       cs' = [cs EXCEPT ![w][fd] = [CurrentSession(w, fd)
                                    EXCEPT !.status = status]]
  /\ ChangeMode(w, fd, "WRITE")
  /\ Continue
  /\ UNCHANGED <<mainVars, accepted, closed, file, conn, arrive, avail,
                 fds_timeout>>

(* End of file, a read error, a request that is too large: the session is  *)
(* removed, mk_conn_read() returns -1 and the loop closes the socket.      *)
ReadClose(w, fd) ==
  /\ TakeEvent(w, fd, "IN")
  /\ KnownClient(w, fd)
  /\ DropSession(w, fd)
  /\ Remove(w, <<fd>>, "events")
  /\ UNCHANGED <<mainVars, accepted, closed, kernelVars, conn, arrive, avail,
                 fds_timeout>>

(* mk_conn_write(): first of all the entry becomes PROCESS.                *)
StartWrite(w, fd) ==
  /\ TakeEvent(w, fd, "OUT")
  /\ conn' = [conn EXCEPT ![w][fd] = IF @ = "none" THEN @ ELSE "PROCESS"]

(* No session, or more data is left to send.                               *)
WriteMore(w, fd) ==
  /\ StartWrite(w, fd)
  /\ Continue
  /\ UNCHANGED <<mainVars, accepted, closed, kernelVars, arrive, avail, cs,
                 fds_timeout>>

(* All was sent and the connection is kept alive: mk_request_ka_next().    *)
WriteKeepAlive(w, fd) ==
  /\ StartWrite(w, fd)
  /\ cs[w][fd].status # "none"
  /\ cs' = [cs EXCEPT ![w][fd] = [status |-> "INCOMPLETE", left |-> KATimeout,
                                  id |-> @.id]]
  /\ ChangeMode(w, fd, "READ")
  /\ Continue
  /\ UNCHANGED <<mainVars, accepted, closed, file, arrive, avail, fds_timeout>>

(* An error, or all was sent and the connection is not kept alive.         *)
WriteClose(w, fd) ==
  /\ StartWrite(w, fd)
  /\ cs[w][fd].status # "none"
  /\ DropSession(w, fd)
  /\ Remove(w, <<fd>>, "events")
  /\ UNCHANGED <<mainVars, accepted, closed, kernelVars, arrive, avail,
                 fds_timeout>>

(* mk_conn_error(): EPOLLHUP, EPOLLERR or EPOLLRDHUP.                      *)
ConnError(w, fd) ==
  /\ TakeEvent(w, fd, "ERR")
  /\ DropSession(w, fd)
  /\ Remove(w, <<fd>>, "events")
  /\ UNCHANGED <<mainVars, accepted, closed, kernelVars, conn, arrive, avail,
                 fds_timeout>>

-----------------------------------------------------------------------------
(* mk_sched_remove_client(): epoll_ctl(DEL), close(), then the entry of    *)
(* the busy_queue, if there is one, goes back to the av_queue.             *)

RemoveEpollDel(w) ==
  /\ step[w] = "del"
  /\ interest' = [interest EXCEPT ![w][Head(todo[w])] = "none"]
  /\ step' = [step EXCEPT ![w] = "close"]
  /\ UNCHANGED <<mainVars, accepted, closed, file, ret, batch, todo, queueVars>>

RemoveClose(w) ==
  /\ step[w] = "close"
  /\ KernelClose(Head(todo[w]))
  /\ step' = [step EXCEPT ![w] = "unlink"]
  /\ UNCHANGED <<mainVars, accepted, closed, ret, batch, todo, queueVars>>

(* Mutant: a socket that is not in the busy_queue is counted as well.      *)
ReleaseEntryUnchecked(w, fd) ==
  /\ closed' = [closed EXCEPT ![w] = @ + 1]
  /\ conn' = [conn EXCEPT ![w][fd] = "none"]
  /\ arrive' = [arrive EXCEPT ![w][fd] = 0]
  /\ avail' = [avail EXCEPT ![w] = IF conn[w][fd] = "none" THEN @ ELSE @ + 1]

(* Mutant: the entry is marked as free and left in the busy_queue.         *)
ReleaseEntryStays(w, fd) ==
  IF conn[w][fd] # "none"
  THEN /\ closed' = [closed EXCEPT ![w] = @ + 1]
       /\ conn' = [conn EXCEPT ![w][fd] = "AVAILABLE"]
       /\ UNCHANGED <<arrive, avail>>
  ELSE UNCHANGED <<closed, conn, arrive, avail>>

(* Mutant: the entry is not put back into the av_queue.                    *)
ReleaseEntryLost(w, fd) ==
  IF conn[w][fd] # "none"
  THEN /\ closed' = [closed EXCEPT ![w] = @ + 1]
       /\ conn' = [conn EXCEPT ![w][fd] = "none"]
       /\ arrive' = [arrive EXCEPT ![w][fd] = 0]
       /\ avail' = avail
  ELSE UNCHANGED <<closed, conn, arrive, avail>>

(* closed_connections++ happens only for a socket that was registered.     *)
ReleaseEntry(w, fd) ==
  IF conn[w][fd] # "none"
  THEN /\ closed' = [closed EXCEPT ![w] = @ + 1]
       /\ conn' = [conn EXCEPT ![w][fd] = "none"]
       /\ arrive' = [arrive EXCEPT ![w][fd] = 0]
       /\ avail' = [avail EXCEPT ![w] = @ + 1]
  ELSE UNCHANGED <<closed, conn, arrive, avail>>

RemoveUnlink(w) ==
  /\ step[w] = "unlink"
  /\ ReleaseEntry(w, Head(todo[w]))
  /\ todo' = [todo EXCEPT ![w] = Tail(@)]
  /\ step' = [step EXCEPT ![w] = IF Len(todo[w]) = 1 THEN ret[w] ELSE "del"]
  /\ ret' = [ret EXCEPT ![w] = IF Len(todo[w]) = 1 THEN "events" ELSE @]
  /\ UNCHANGED <<mainVars, accepted, kernelVars, batch, cs, fds_timeout>>

-----------------------------------------------------------------------------
(* mk_sched_check_timeouts(): first the entries that are PENDING for too   *)
(* long, then the sessions that are INCOMPLETE for too long.  A socket can *)
(* be in both lists.  The mutants look at less.                            *)
PendingExpiredSilent(w) ==
  {fd \in Fds : /\ conn[w][fd] = "PENDING" /\ arrive[w][fd] = 0
                /\ cs[w][fd].status = "none"}
PendingExpired(w) ==
  {fd \in Fds : conn[w][fd] = "PENDING" /\ arrive[w][fd] = 0}

IncompleteExpiredOnlyPending(w) ==
  {fd \in Fds : /\ conn[w][fd] = "PENDING"
                /\ cs[w][fd].status = "INCOMPLETE" /\ cs[w][fd].left = 0}
IncompleteExpired(w) ==
  {fd \in Fds : cs[w][fd].status = "INCOMPLETE" /\ cs[w][fd].left = 0}

(* An order in which a list is walked through.                             *)
Orders(S) ==
  {s \in [1 .. Cardinality(S) -> S] : \A i, j \in DOMAIN s : s[i] = s[j] => i = j}

CheckPending(w) ==
  /\ step[w] = "events"
  /\ \A fd \in Fds : batch[w][fd] = "none"
  /\ fds_timeout[w] = 0
  /\ \E fds \in Orders(PendingExpired(w)) : Remove(w, fds, "sessions")
  /\ UNCHANGED <<mainVars, accepted, closed, kernelVars, batch, queueVars>>

CheckIncomplete(w) ==
  /\ step[w] = "sessions"
  /\ \E fds \in Orders(IncompleteExpired(w)) : Remove(w, fds, "rearm")
  /\ cs' = [cs EXCEPT ![w] = [fd \in Fds |-> IF fd \in IncompleteExpired(w)
                                             THEN NoSession ELSE @[fd]]]
  /\ UNCHANGED <<mainVars, accepted, closed, kernelVars, batch, conn, arrive,
                 avail, fds_timeout>>

(* fds_timeout = log_current_utime + config->timeout, after the sweep.     *)
Rearm(w) ==
  /\ step[w] = "rearm"
  /\ fds_timeout' = [fds_timeout EXCEPT ![w] = Timeout]
  /\ step' = [step EXCEPT ![w] = "wait"]
  /\ UNCHANGED <<mainVars, accepted, closed, kernelVars, ret, batch, todo, conn,
                 arrive, avail, cs>>

(* The batch is done and it is not time for a sweep.                       *)
NoSweep(w) ==
  /\ step[w] = "events"
  /\ \A fd \in Fds : batch[w][fd] = "none"
  /\ fds_timeout[w] > 0
  /\ step' = [step EXCEPT ![w] = "wait"]
  /\ UNCHANGED <<mainVars, accepted, closed, kernelVars, ret, batch, todo,
                 queueVars>>

(* The clock thread: log_current_utime moves on.                           *)
Minus1(n) == IF n = 0 THEN 0 ELSE n - 1

Tick ==
  /\ arrive' = [w \in Workers |-> [fd \in Fds |-> Minus1(arrive[w][fd])]]
  /\ cs' = [w \in Workers |-> [fd \in Fds |->
             [cs[w][fd] EXCEPT !.left = Minus1(@)]]]
  /\ fds_timeout' = [w \in Workers |-> Minus1(fds_timeout[w])]
  /\ UNCHANGED <<mainVars, accepted, closed, kernelVars, loopVars, conn, avail>>

-----------------------------------------------------------------------------
HandleEvent(w, fd) ==
  \/ RegisterClient(w, fd) \/ RejectClient(w, fd)
  \/ ReadMore(w, fd) \/ ReadComplete(w, fd) \/ ReadClose(w, fd)
  \/ WriteMore(w, fd) \/ WriteKeepAlive(w, fd) \/ WriteClose(w, fd)
  \/ ConnError(w, fd)

Worker(w) ==
  \/ EpollWait(w)
  \/ \E fd \in Fds : HandleEvent(w, fd)
  \/ RemoveEpollDel(w) \/ RemoveClose(w) \/ RemoveUnlink(w)
  \/ CheckPending(w) \/ CheckIncomplete(w) \/ Rearm(w) \/ NoSweep(w)

Next == Main \/ Tick \/ \E w \in Workers : Worker(w)

Spec == Init /\ [][Next]_vars

(* Every thread keeps running: the workers and the clock are never blocked *)
(* for good, epoll_wait() returns after 3 seconds at the latest.           *)
FairSpec == Spec /\ WF_vars(Tick) /\ \A w \in Workers : WF_vars(Worker(w))

-----------------------------------------------------------------------------
(* Safety.                                                                 *)

MainType ==
  /\ mpc \in {"accept", "scan", "add", "count", "drop"}
  /\ remote_fd \in Fds \cup {0}
  /\ idx \in 0 .. NWorkers
  /\ cur \in Int
  /\ target \in Workers
  /\ served \in 0 .. MaxConns

CounterType ==
  /\ accepted \in [Workers -> Nat]
  /\ closed \in [Workers -> Nat]

KernelType ==
  /\ file \in [Fds -> 0 .. MaxConns]
  /\ interest \in [Workers -> [Fds -> Modes]]

LoopType ==
  /\ step \in [Workers -> {"wait", "events", "del", "close", "unlink",
                          "sessions", "rearm"}]
  /\ ret \in [Workers -> {"events", "sessions", "rearm"}]
  /\ batch \in [Workers -> [Fds -> Events]]
  /\ todo \in [Workers -> Seq(Fds)]

QueueType ==
  /\ conn \in [Workers -> [Fds -> ConnStatus]]
  /\ arrive \in [Workers -> [Fds -> Nat]]
  /\ avail \in [Workers -> Int]
  /\ cs \in [Workers -> [Fds -> Sessions]]
  /\ fds_timeout \in [Workers -> Nat]

TypeOK == MainType /\ CounterType /\ KernelType /\ LoopType /\ QueueType

Busy(w)    == {fd \in Fds : conn[w][fd] # "none"}
Watched(w) == {fd \in Fds : interest[w][fd] # "none"}
Queued(w)  == {fd \in Fds : batch[w][fd] # "none"}

(* The socket mk_sched_remove_client() has taken out of the epoll set and  *)
(* not out of the busy_queue yet: its number may belong to a new           *)
(* connection of the same worker by now.                                   *)
Closing(w) == IF step[w] \in {"close", "unlink"} THEN {Head(todo[w])} ELSE {}

(* Connections given to a worker and not counted as closed, the one that   *)
(* is in its epoll set and not counted as accepted yet included.           *)
Admitted(w) ==
  accepted[w] - closed[w] + (IF mpc = "count" /\ target = w THEN 1 ELSE 0)

(* Sockets a worker still has work to do for.                              *)
Clients(w) ==
  Cardinality((Busy(w) \ Closing(w)) \cup Watched(w) \cup Queued(w))
    + Cardinality(Busy(w) \cap Closing(w))

(* The load mk_sched_add_client() balances by never undercounts: every     *)
(* socket a worker watches, has an event for or has a busy_queue entry for *)
(* is covered by accepted_connections - closed_connections, although the   *)
(* worker may see a socket before the main thread counts it and its number *)
(* may be reused while it is being closed.                                 *)
LoadCoversClients == \A w \in Workers : Clients(w) <= Admitted(w)

(* mk_sched_register_client() takes the first entry of the av_queue        *)
(* without looking whether there is one: there always is.                  *)
AvailableEntry ==
  \A w \in Workers :
    /\ avail[w] = Capacity - Cardinality(Busy(w))
    /\ \A fd \in Fds : (batch[w][fd] = "IN" /\ conn[w][fd] = "none")
                        => avail[w] > 0

(* _next_target() subtracts unsigned counters that the workers change at   *)
(* the same time: while it does, no worker has counted more connections as *)
(* closed than the main thread has counted as accepted.                    *)
LoadNeverWraps == mpc = "scan" => \A w \in Workers : closed[w] <= accepted[w]

(* A socket is never in the epoll sets of two workers, and the one that is *)
(* being assigned by mk_sched_add_client() is in none, whatever worker     *)
(* closed its number before.                                               *)
SingleOwner ==
  /\ \A v, w \in Workers, fd \in Fds :
       interest[v][fd] # "none" /\ interest[w][fd] # "none" => v = w
  /\ mpc \in {"scan", "add", "drop"} =>
       \A w \in Workers : interest[w][remote_fd] = "none"

(* What the scheduler promises: no worker is ever given more connections   *)
(* than worker_capacity, and none is given back that was not given.        *)
Promise == INSTANCE Admission
             WITH admitted <- [w \in Workers |-> Admitted(w)]
AdmissionControl == Promise!Spec

-----------------------------------------------------------------------------
(* Liveness, under FairSpec.                                               *)

(* mk_sched_check_timeouts(): an entry that is PENDING leaves the          *)
(* busy_queue or its request gets processed.                               *)
PendingReclaimed ==
  \A w \in Workers, fd \in Fds :
    conn[w][fd] = "PENDING" ~> conn[w][fd] # "PENDING"

(* mk_sched_check_timeouts(): a session that waits for its request to      *)
(* become complete is removed, or the request gets answered.               *)
IncompleteReclaimed ==
  \A w \in Workers, fd \in Fds :
    (cs[w][fd].status = "INCOMPLETE" /\ interest[w][fd] = "READ")
      ~> ~(cs[w][fd].status = "INCOMPLETE" /\ interest[w][fd] = "READ")

-----------------------------------------------------------------------------
(* What documents and comments say and the code does not do.               *)

(* "The active_connections member has the number of currently ongoing      *)
(* connections to this worker" (mklib_scheduler_worker_info.txt): here     *)
(* only for a worker that has nothing at all to do.                        *)
ActiveConnectionsIsOngoing ==
  \A w \in Workers :
    (mpc = "accept" /\ step[w] = "wait" /\ Watched(w) = {} /\ Busy(w) = {})
      => Load(w) = 0

(* mk_conn_write(): the session found by the socket number holds "the      *)
(* information regarding to the current client/socket".                    *)
SessionOfCurrentClient ==
  \A w \in Workers, fd \in Fds :
    (cs[w][fd].status # "none" /\ interest[w][fd] # "none")
      => cs[w][fd].id = file[fd]

(* mk_sched_remove_client() calls mk_epoll_del() so that there are no      *)
(* "false events": an event that is still to be handled is one of a socket *)
(* the worker watches.                                                     *)
NoFalseEvents == \A w \in Workers : Queued(w) \subseteq Watched(w)

(* Timeout is "the largest span of time ... during which you should wait   *)
(* to receive the information": a worker that waits to read from a socket  *)
(* does not do so for ever.                                                *)
WaitToReceiveEnds ==
  \A w \in Workers, fd \in Fds :
    interest[w][fd] = "READ" ~> interest[w][fd] # "READ"
=============================================================================
