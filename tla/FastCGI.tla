------------------------------ MODULE FastCGI ------------------------------
(***************************************************************************)
(* The FastCGI plugin in one worker thread (plugins/fastcgi), with the     *)
(* parts of the core it runs on: the plugin event list (src/mk_plugin.c),  *)
(* the epoll states with SLEEP and WAKEUP (src/mk_epoll.c) and the         *)
(* connection handlers that call it (src/mk_connection.c).                 *)
(*                                                                         *)
(* A client whose request matches a location is put to sleep while one of  *)
(* the request structs travels: it is assigned, sent over a connection to  *)
(* the application, answered, and the client woken up to be written to.    *)
(* Both kinds of sockets get their numbers from the same kernel table, and *)
(* both kinds of handlers find their struct by that number.                *)
(*                                                                         *)
(* The content of a request and of its answer is abstracted to the serial  *)
(* number of the HTTP request it belongs to.  The application writes whole *)
(* packages (FastCGIWire checks how they are put together again), answers  *)
(* only what it was asked, may refuse a request before it has all of it,   *)
(* and may go away at any time.                                            *)
(***************************************************************************)
EXTENDS Integers, Sequences, FiniteSets, FiniteSetsExt

CONSTANTS
  Fds,          \* socket numbers
  NReqs,        \* request_list size, a power of two
  NSlots,       \* fcgi_fd_list n
  NLocs,        \* location_count
  SlotLoc,      \* location_id of every fcgi_fd
  KeepAlive,    \* keep_alive of every location
  MaxSerial,    \* bound: HTTP requests the clients send
  MaxLeaves     \* bound: connections an application closes by itself

Reqs  == 0 .. NReqs - 1
Slots == 1 .. NSlots
Locs  == 1 .. NLocs

ASSUME FastCGIAssumption ==
  /\ Fds \subseteq Nat \ {0} /\ IsFiniteSet(Fds)
  /\ NReqs \in Nat \ {0} /\ NSlots \in Nat /\ NLocs \in Nat \ {0}
  /\ MaxSerial \in Nat /\ MaxLeaves \in Nat
  /\ SlotLoc \in [Slots -> Locs]
  /\ KeepAlive \in [Locs -> BOOLEAN]

NoFd  == 0           \* -1 in the code
NoReq == -1          \* NULL
NoLoc == 0           \* the URI matches no location

ReqStates == {"AVAILABLE", "ASSIGNED", "SENT", "STREAM_CLOSED", "ENDED",
              "FINISHED", "FAILED"}
FdStates  == {"AVAILABLE", "READY", "SENDING", "RECEIVING", "CLOSING", "SLEEPING"}

(* struct chunk_iov of a request: what it holds, and of which HTTP request.*)
Iovs == [holds : {"nothing", "request", "answer"}, of : 0 .. MaxSerial]
NoIov == [holds |-> "nothing", of |-> 0]

(* struct request; sleeping and headers_sent are its flags, sr tells the   *)
(* HTTP request it was assigned for.                                       *)
Requests == [state : ReqStates, sleeping : BOOLEAN, headers_sent : BOOLEAN,
             fd : Fds \cup {NoFd}, fcgi_fd : Fds \cup {NoFd},
             loc : Locs \cup {NoLoc}, sr : 0 .. MaxSerial, iov : Iovs]

(* struct fcgi_fd.                                                         *)
FcgiFds == [state : FdStates, fd : Fds \cup {NoFd}, begin_req : Reqs \cup {NoReq}]

(* struct epoll_state: whether the last mode asked for was SLEEP, and the  *)
(* events to restore.                                                      *)
EpollStates == [asleep : BOOLEAN, events : SUBSET {"IN", "OUT"}]
NoState == [asleep |-> FALSE, events |-> {}]

VARIABLES
  net,      \* sockets: kernel table, epoll states, plugin events, fcgi_fd
            \* list; exited: exit() was called; lost: see Lose
  rs,       \* the requests of the request_list
  hand,     \* clock_hands
  conn,     \* what the core does with a client socket
  gone,     \* the application has closed its end of a socket
  inbox,    \* packages from the application that were not read yet
  app,      \* the request an application works on, by its socket
  serial,   \* HTTP requests sent so far
  left      \* connections applications have closed so far

vars == <<net, rs, hand, conn, gone, inbox, app, serial, left>>

Idle == [id |-> NoReq, of |-> 0, wrote |-> FALSE]
NoConn == [st |-> "none", loc |-> NoLoc, sr |-> 0]

(* request_init(): the state of a request nobody uses.                     *)
FreeRequest == [state |-> "AVAILABLE", sleeping |-> FALSE, headers_sent |-> FALSE,
                fd |-> NoFd, fcgi_fd |-> NoFd, loc |-> NoLoc, sr |-> 0, iov |-> NoIov]

(* fcgi_fd_init()                                                          *)
FreeFcgiFd == [state |-> "AVAILABLE", fd |-> NoFd, begin_req |-> NoReq]

Init ==
  /\ net = [file |-> [fd \in Fds |-> "free"], ep |-> [fd \in Fds |-> NoState],
            event |-> {}, slot |-> [s \in Slots |-> FreeFcgiFd],
            exited |-> FALSE, lost |-> FALSE]
  /\ rs = [r \in Reqs |-> FreeRequest]
  /\ hand = [l \in Locs |-> 0]
  /\ conn = [fd \in Fds |-> NoConn]
  /\ gone = [fd \in Fds |-> FALSE]
  /\ inbox = [fd \in Fds |-> <<>>]
  /\ app = [fd \in Fds |-> Idle]
  /\ serial = 0
  /\ left = 0

-----------------------------------------------------------------------------
(* Epoll and plugin events.  These operators map a value of net to the     *)
(* value after the call.                                                   *)

Asked(mode) == CASE mode = "READ"  -> {"IN"}
                 [] mode = "WRITE" -> {"OUT"}
                 [] mode = "RW"    -> {"IN", "OUT"}

(* What the kernel watches: nothing but hangups while the socket sleeps.   *)
Interest(fd) == IF net.ep[fd].asleep THEN {} ELSE net.ep[fd].events

(* SLEEP keeps the events for WAKEUP; WAKEUP of a socket that does not     *)
(* sleep, or that has no state, ends the process.                          *)
ChangeMode(n, fd, mode) ==
  CASE mode = "SLEEP"  -> [n EXCEPT !.ep[fd].asleep = TRUE]
    [] mode = "WAKEUP" -> IF fd # NoFd /\ n.ep[fd].asleep
                          THEN [n EXCEPT !.ep[fd].asleep = FALSE]
                          ELSE [n EXCEPT !.exited = TRUE]
    [] OTHER -> [n EXCEPT !.ep[fd] = [asleep |-> FALSE, events |-> Asked(mode)]]

EpollDel(n, fd) == [n EXCEPT !.ep[fd] = NoState]

EventAdd(n, fd, mode) ==
  [n EXCEPT !.event = @ \cup {fd}, !.ep[fd] = [asleep |-> FALSE, events |-> Asked(mode)]]

EventDel(n, fd) ==
  IF fd \in n.event THEN EpollDel([n EXCEPT !.event = @ \ {fd}], fd) ELSE n

(* socket(2) and accept(2) return the lowest free number.                  *)
FreeFds(n)    == {fd \in Fds : n.file[fd] = "free"}
Open(n, kind) == [n EXCEPT !.file[Min(FreeFds(n))] = kind]
Close(n, fd)  == [n EXCEPT !.file[fd] = "free"]

(* From here on clients may wait for a connection nobody makes any more.   *)
Lose(n) == [n EXCEPT !.lost = TRUE]

-----------------------------------------------------------------------------
(* The list of connections to the application: fcgi_fd.c.                  *)

FdMayBecome == [AVAILABLE |-> {"CLOSING", "SLEEPING"},
                READY     |-> {"AVAILABLE", "RECEIVING", "SLEEPING"},
                SENDING   |-> {"READY"},
                RECEIVING |-> {"SENDING"},
                CLOSING   |-> {"READY", "RECEIVING"},
                SLEEPING  |-> {"READY"}]

(* fcgi_fd_set_state(): refused transitions leave the state as it is.      *)
FdAllowed(n, s, state)  == n.slot[s].state \in FdMayBecome[state]
FdSetState(n, s, state) ==
  [n EXCEPT !.slot[s].state = IF @ \in FdMayBecome[state] THEN state ELSE @]

(* fcgi_fd_list_get(): the slots of a location in one of the states; the   *)
(* first one is taken.                                                     *)
FdList(n, states, l) ==
  {s \in Slots : n.slot[s].state \in states /\ SlotLoc[s] = l}

(* fcgi_wake_connection()                                                  *)
Awake(n, l) == FdList(n, {"SLEEPING", "READY"}, l)
WakeConnection(n, l) ==
  LET s == Min(Awake(n, l)) IN
  IF n.slot[s].state = "SLEEPING"
  THEN FdSetState(ChangeMode(n, n.slot[s].fd, "WAKEUP"), s, "READY")
  ELSE n

(* fcgi_new_connection() with fcgi_server_connect(), which succeeds or not.*)
(* Without a slot to use it reports success.                               *)
ConnectFails(n, l, ok) == FdList(n, {"AVAILABLE"}, l) # {} /\ (~ ok \/ FreeFds(n) = {})
NewConnection(n, l, ok) ==
  IF FdList(n, {"AVAILABLE"}, l) = {} \/ ConnectFails(n, l, ok) THEN n
  ELSE LET s  == Min(FdList(n, {"AVAILABLE"}, l))
           fd == Min(FreeFds(n))
       IN  FdSetState(EventAdd([Open(n, "app") EXCEPT !.slot[s].fd = fd], fd, "RW"),
                      s, "READY")

(* Mutant: the socket is closed and its event left in the list.            *)
HangupFdKeepsEvent(n, s, ok) ==
  LET fd == n.slot[s].fd
  IN  [Close(n, fd) EXCEPT !.slot[s].fd = NoFd, !.slot[s].state = "AVAILABLE"]

(* hangup() of a connection: the slot is free again, whatever its state    *)
(* was; one that was CLOSING is replaced.  Its request is not told.        *)
HangupFd(n, s, ok) ==
  LET fd    == n.slot[s].fd
      state == n.slot[s].state
      freed == [Close(EventDel(n, fd), fd) EXCEPT
                  !.slot[s].fd = NoFd, !.slot[s].state = "AVAILABLE"]
  IN  IF state = "CLOSING"
      THEN IF ConnectFails(freed, SlotLoc[s], ok) THEN Lose(freed)
           ELSE NewConnection(freed, SlotLoc[s], ok)
      ELSE IF state \in {"SENDING", "RECEIVING"} THEN Lose(freed) ELSE freed

(* The connection ends while a request is on its way over it.              *)
Interrupts(s) == net.slot[s].state \in {"SENDING", "RECEIVING"}

-----------------------------------------------------------------------------
(* The list of requests: request.c.                                        *)

ReqMayBecome == [AVAILABLE     |-> {"FINISHED"},
                 ASSIGNED      |-> {"AVAILABLE", "FINISHED"},
                 SENT          |-> {"ASSIGNED"},
                 STREAM_CLOSED |-> {"SENT"},
                 ENDED         |-> {"STREAM_CLOSED", "FAILED", "SENT"},
                 FINISHED      |-> {"ENDED"},
                 FAILED        |-> ReqStates]

(* request_set_state()                                                     *)
ReqAllowed(q, state)  == q.state \in ReqMayBecome[state]
ReqSetState(q, state) ==
  [q EXCEPT !.state = IF @ \in ReqMayBecome[state] THEN state ELSE @]

(* request_recycle(): request_reset() forgets everything except the        *)
(* session pointers; request_assign() sets those before they are read.     *)
Recycle(q) == FreeRequest

(* The clock: the first index after the hand, round the list.              *)
ClockFirst(h, S) == CHOOSE i \in S : \A j \in S : (i - h - 1) % NReqs <= (j - h - 1) % NReqs

Available   == {r \in Reqs : rs[r].state = "AVAILABLE"}
Assigned(l) == {r \in Reqs : rs[r].state = "ASSIGNED" /\ rs[r].loc = l}

(* request_list_get_by_fd(): looks at the socket number only.              *)
ByFd(fd) == {r \in Reqs : rs[r].fd = fd}
GetByFd(fd) == IF ByFd(fd) = {} THEN NoReq ELSE ClockFirst(hand[1], ByFd(fd))

(* Mutant: a request whose client left is reused at once.                  *)
HangupReqRecycles(q) == Recycle(q)

(* hangup() of a client: the request is given up; as long as the           *)
(* application may still answer it, it is kept without its client.         *)
HangupReq(q) ==
  IF q.fcgi_fd = NoFd THEN Recycle(q)
  ELSE [ReqSetState(q, "FAILED") EXCEPT !.fd = NoFd, !.sr = 0]

(* Failing a request wakes its client, so that it is told.                 *)
FailedReq(q) == [ReqSetState(q, "FAILED") EXCEPT !.sleeping = FALSE]

(* Mutant: the flag is not looked at.                                      *)
FailNetAlways(n, q) == ChangeMode(n, q.fd, "WAKEUP")

FailNet(n, q) == IF q.sleeping THEN ChangeMode(n, q.fd, "WAKEUP") ELSE n

-----------------------------------------------------------------------------
(* Clients and the core's handlers of their sockets.                       *)

Running == ~ net.exited

Forget(fd) == conn' = [conn EXCEPT ![fd] = NoConn]

(* mk_sched_remove_client()                                                *)
RemoveClient(n, fd) == Close(EpollDel(n, fd), fd)

(* mk_plugin_event_close(), mk_plugin_event_error(): the plugin sees the   *)
(* socket before the core closes it.                                       *)
PluginHangup(q, fd) == [r \in Reqs |-> IF q[r].fd = fd THEN HangupReq(q[r]) ELSE q[r]]

(* A whole request arrived and mk_conn_read() asks for write events.  The  *)
(* first one of a connection is read in the step that accepts it: before   *)
(* that the plugin does not see the socket.                                *)
ReadRequest(fd) ==
  /\ Running /\ serial < MaxSerial
  /\ \/ net.file[fd] = "free" /\ fd = Min(FreeFds(net))
     \/ conn[fd].st = "read"
  /\ serial' = serial + 1
  /\ \E l \in Locs \cup {NoLoc} :
       conn' = [conn EXCEPT ![fd] = [st |-> "write", loc |-> l, sr |-> serial + 1]]
  /\ net' = ChangeMode([net EXCEPT !.file[fd] = "client"], fd, "WRITE")
  /\ UNCHANGED <<rs, hand, gone, inbox, app, left>>

(* The client hung up between requests, or stayed silent for too long; the *)
(* timeout sweep does not call the plugin.                                 *)
IdleClose(fd) ==
  /\ Running /\ conn[fd].st = "read"
  /\ rs' \in {rs, PluginHangup(rs, fd)}
  /\ net' = RemoveClient(net, fd)
  /\ Forget(fd)
  /\ UNCHANGED <<hand, gone, inbox, app, serial, left>>

(* mk_conn_error(): EPOLLHUP is reported of a sleeping socket as well.     *)
ClientHangup(fd) ==
  /\ Running /\ conn[fd].st = "write" /\ Interest(fd) = {}
  /\ rs' = PluginHangup(rs, fd)
  /\ net' = RemoveClient(net, fd)
  /\ Forget(fd)
  /\ UNCHANGED <<hand, gone, inbox, app, serial, left>>

(* mk_plugin_http_request_end(): the connection waits for its next         *)
(* request, or is closed.                                                  *)
EndRequest(n, q, fd) ==
  \/ /\ net' = ChangeMode(n, fd, "READ")
     /\ conn' = [conn EXCEPT ![fd] = [NoConn EXCEPT !.st = "read"]]
     /\ rs' = q
  \/ /\ net' = RemoveClient(n, fd)
     /\ rs' = PluginHangup(q, fd)
     /\ Forget(fd)

(* mk_conn_write() and what it leads to.                                   *)
WriteEvent(fd) ==
  /\ Running /\ conn[fd].st = "write" /\ "OUT" \in Interest(fd)
  /\ UNCHANGED <<gone, inbox, app, serial, left>>

(* No request has the socket: _mkp_stage_30().  Without a request struct   *)
(* nothing changes and the event comes again.                              *)
Stage30(fd) ==
  /\ WriteEvent(fd) /\ GetByFd(fd) = NoReq /\ conn[fd].loc # NoLoc
  /\ Available # {}
  /\ LET l   == conn[fd].loc
         r   == ClockFirst(hand[l], Available)
         q   == [ReqSetState(rs[r], "ASSIGNED") EXCEPT
                   !.fd = fd, !.loc = l, !.sr = conn[fd].sr]
         set == [q EXCEPT !.iov = [holds |-> "request", of |-> conn[fd].sr]]
     IN \/ \* fcgi_prepare_request() fails
           /\ rs' = [rs EXCEPT ![r] = FailedReq(q)]
           /\ UNCHANGED net
        \/ \E ok \in BOOLEAN :
             IF Awake(net, l) = {} /\ ConnectFails(net, l, ok)
             THEN /\ rs' = [rs EXCEPT ![r] = FailedReq(set)]
                  /\ UNCHANGED net
             ELSE /\ rs' = [rs EXCEPT ![r] = [set EXCEPT !.sleeping = TRUE]]
                  /\ net' = ChangeMode(IF Awake(net, l) # {} THEN WakeConnection(net, l)
                                       ELSE NewConnection(net, l, ok), fd, "SLEEP")
  /\ UNCHANGED <<hand, conn>>

(* No location matches: the plugin says it is not its request and the core *)
(* answers it.                                                             *)
NotMe(fd) ==
  /\ WriteEvent(fd) /\ GetByFd(fd) = NoReq /\ conn[fd].loc = NoLoc
  /\ EndRequest(net, rs, fd)
  /\ UNCHANGED hand

(* REQ_ENDED: fcgi_send_response_headers() once, then fcgi_send_response().*)
(* Headers cannot be taken from an answer without any output.              *)
SendAnswer(fd) ==
  LET r == GetByFd(fd) IN
  /\ WriteEvent(fd) /\ r # NoReq /\ rs[r].state = "ENDED"
  /\ \/ \* everything was sent
        /\ rs[r].headers_sent \/ rs[r].iov.holds = "answer"
        /\ EndRequest(net, [rs EXCEPT ![r] = Recycle(@)], fd)
     \/ \* a part was sent
        /\ rs[r].headers_sent \/ rs[r].iov.holds = "answer"
        /\ rs' = [rs EXCEPT ![r].headers_sent = TRUE]
        /\ UNCHANGED <<net, conn>>
     \/ \* an error: MK_PLUGIN_RET_EVENT_CLOSE
        /\ rs' = PluginHangup([rs EXCEPT ![r] = FailedReq(@)], fd)
        /\ net' = RemoveClient(FailNet(net, rs[r]), fd)
        /\ Forget(fd)
  /\ UNCHANGED hand

(* REQ_FAILED: the client is told with status 500.                         *)
SendFailure(fd) ==
  LET r == GetByFd(fd) IN
  /\ WriteEvent(fd) /\ r # NoReq /\ rs[r].state = "FAILED"
  /\ EndRequest(net, IF rs[r].fcgi_fd = NoFd THEN [rs EXCEPT ![r] = Recycle(@)] ELSE rs, fd)
  /\ UNCHANGED hand

-----------------------------------------------------------------------------
(* Connections to the application.                                         *)

(* What closing the socket does to the other side.                         *)
Disconnect(fd) ==
  /\ inbox' = [inbox EXCEPT ![fd] = <<>>]
  /\ app' = [app EXCEPT ![fd] = Idle]
  /\ gone' = [gone EXCEPT ![fd] = FALSE]

(* _mkp_event_write() for a slot; an event that can be read comes first.   *)
SlotWrites(s) ==
  LET fd == net.slot[s].fd IN
  /\ Running /\ fd # NoFd /\ "OUT" \in Interest(fd)
  /\ inbox[fd] = <<>> /\ ~ gone[fd]
  /\ UNCHANGED <<conn, serial, left>>

(* chunk_iov_sendv() of the request over slot s, of request struct r.      *)
Send(n, q, s, r) ==
  LET fd == n.slot[s].fd IN
  \/ \* all of it
     /\ net' = [FdSetState(n, s, "RECEIVING") EXCEPT !.slot[s].begin_req = NoReq]
     /\ rs' = [q EXCEPT ![r].iov = NoIov]
     /\ app' = [app EXCEPT ![fd] = [Idle EXCEPT !.id = r, !.of = q[r].iov.of]]
     /\ UNCHANGED <<inbox, gone>>
  \/ \* a part, or EAGAIN
     /\ net' = n /\ rs' = q
     /\ UNCHANGED <<app, inbox, gone>>
  \/ \* an error; the request is not failed, the recursive call lost it
     /\ net' = HangupFd(n, s, FALSE) /\ rs' = q
     /\ Disconnect(fd)

(* Mutant: the hand is moved past the request, and not masked.             *)
TakeRequestHandPast(s) ==
  LET l == SlotLoc[s] IN
  /\ SlotWrites(s) /\ net.slot[s].state = "READY" /\ Assigned(l) # {}
  /\ LET r == ClockFirst(hand[l], Assigned(l))
         q == [rs EXCEPT ![r] = [ReqSetState(@, "SENT") EXCEPT !.fcgi_fd = net.slot[s].fd]]
         n == [FdSetState(net, s, "SENDING") EXCEPT !.slot[s].begin_req = r]
     IN  /\ hand' = [hand EXCEPT ![l] = r + 1]
         /\ Send(n, q, s, r)

(* FCGI_FD_READY with work: request_list_next_assigned(), then on to the   *)
(* sending.                                                                *)
TakeRequest(s) ==
  LET l == SlotLoc[s] IN
  /\ SlotWrites(s) /\ net.slot[s].state = "READY" /\ Assigned(l) # {}
  /\ LET r == ClockFirst(hand[l], Assigned(l))
         q == [rs EXCEPT ![r] = [ReqSetState(@, "SENT") EXCEPT !.fcgi_fd = net.slot[s].fd]]
         n == [FdSetState(net, s, "SENDING") EXCEPT !.slot[s].begin_req = r]
     IN  /\ hand' = [hand EXCEPT ![l] = r]
         /\ Send(n, q, s, r)

(* FCGI_FD_READY without work: sleep, or close the connection.             *)
NoWork(s) ==
  /\ SlotWrites(s) /\ net.slot[s].state = "READY" /\ Assigned(SlotLoc[s]) = {}
  /\ IF KeepAlive[SlotLoc[s]]
     THEN /\ net' = FdSetState(ChangeMode(net, net.slot[s].fd, "SLEEP"), s, "SLEEPING")
          /\ UNCHANGED <<inbox, app, gone>>
     ELSE /\ net' = HangupFd(net, s, FALSE)
          /\ Disconnect(net.slot[s].fd)
  /\ UNCHANGED <<rs, hand>>

(* FCGI_FD_SENDING                                                         *)
SendOn(s) ==
  /\ SlotWrites(s) /\ net.slot[s].state = "SENDING"
  /\ Send(net, rs, s, net.slot[s].begin_req)
  /\ UNCHANGED hand

(* The application has closed a connection that sleeps: mk_conn_error().   *)
SlotHangup(s) ==
  /\ Running /\ net.slot[s].state = "SLEEPING" /\ gone[net.slot[s].fd]
  /\ net' = HangupFd(net, s, FALSE)
  /\ Disconnect(net.slot[s].fd)
  /\ UNCHANGED <<rs, hand, conn, serial, left>>

(* _mkp_event_read(): fcgi_recv_response() handles packages until there is *)
(* nothing more to read.  Packages may arrive with any delay between them, *)
(* so that each may come with an event of its own.                         *)
Readable(s) == Running /\ net.slot[s].fd # NoFd /\ "IN" \in Interest(net.slot[s].fd)

(* The end of the stream, or an error: MK_PLUGIN_RET_EVENT_CLOSE.  The     *)
(* state becomes CLOSING where the transition is allowed.                  *)
CloseSlot(n, s) ==
  /\ \E ok \in BOOLEAN :
       net' = LET closed == HangupFd(FdSetState(n, s, "CLOSING"), s, ok)
              IN  IF Interrupts(s) THEN Lose(closed) ELSE closed
  /\ Disconnect(n.slot[s].fd)

EndOfStream(s) ==
  /\ Readable(s) /\ inbox[net.slot[s].fd] = <<>> /\ gone[net.slot[s].fd]
  /\ CloseSlot(net, s)
  /\ UNCHANGED <<rs, hand, conn, serial, left>>

(* fcgi_handle_pkg() of the next package p for request q: whether it       *)
(* fails, and the request after it.                                        *)
PkgFails(p, q, s) ==
  CASE p.type = "STDOUT" -> q.state \notin {"FAILED", "SENT"}
    [] p.type = "STDOUT_END" -> q.state # "FAILED" /\ ~ ReqAllowed(q, "STREAM_CLOSED")
    [] p.type = "END_REQUEST" ->
         \/ ~ FdAllowed(net, s, "READY")
         \/ q.fd # NoFd /\ q.state # "FAILED" /\ ~ ReqAllowed(q, "ENDED")

PkgRequest(p, q) ==
  CASE p.type = "STDOUT" ->
         IF q.state = "FAILED" THEN q
         ELSE [q EXCEPT !.iov = [holds |-> "answer", of |-> p.of]]
    [] p.type = "STDOUT_END" ->
         IF q.state = "FAILED" THEN q ELSE ReqSetState(q, "STREAM_CLOSED")
    [] p.type = "END_REQUEST" ->
         IF q.fd = NoFd THEN Recycle(q)
         ELSE IF q.state = "FAILED" THEN [q EXCEPT !.fcgi_fd = NoFd]
         ELSE [ReqSetState(q, "ENDED") EXCEPT !.fcgi_fd = NoFd, !.sleeping = FALSE]

(* Mutant: the connection is left as it is when the request has ended.     *)
PkgNetNotReady(p, q, s) ==
  IF p.type = "END_REQUEST" /\ q.fd # NoFd /\ q.state # "FAILED" THEN FailNet(net, q) ELSE net

PkgNet(p, q, s) ==
  IF p.type # "END_REQUEST" THEN net
  ELSE LET n == FdSetState(net, s, "READY")
       IN  IF q.fd # NoFd /\ q.state # "FAILED" THEN FailNet(n, q) ELSE n

HandlePkg(s) ==
  LET fd == net.slot[s].fd
      p  == Head(inbox[fd])
      q  == rs[p.id]
  IN
  /\ Readable(s) /\ inbox[fd] # <<>>
  /\ IF PkgFails(p, q, s)
     THEN /\ rs' = [rs EXCEPT ![p.id] =
                      [FailedReq(@) EXCEPT
                         !.fcgi_fd = IF p.type = "END_REQUEST" THEN NoFd ELSE @]]
          /\ CloseSlot(FailNet(net, q), s)
     ELSE /\ rs' = [rs EXCEPT ![p.id] = PkgRequest(p, @)]
          /\ net' = PkgNet(p, q, s)
          /\ inbox' = [inbox EXCEPT ![fd] = Tail(@)]
          /\ UNCHANGED <<app, gone>>
  /\ UNCHANGED <<hand, conn, serial, left>>

-----------------------------------------------------------------------------
(* The application behind socket fd.                                       *)

Package(type, a) == [type |-> type, id |-> a.id, of |-> a.of]

AppWrites(fd) ==
  /\ Running /\ app[fd].id # NoReq /\ ~ app[fd].wrote /\ ~ gone[fd]
  /\ inbox' = [inbox EXCEPT ![fd] = Append(@, Package("STDOUT", app[fd]))]
  /\ app' = [app EXCEPT ![fd].wrote = TRUE]
  /\ UNCHANGED <<net, rs, hand, conn, gone, serial, left>>

(* The end of the request, with or without an end of its output first.     *)
AppEnds(fd) ==
  /\ Running /\ app[fd].id # NoReq /\ ~ gone[fd]
  /\ \E pre \in {<<>>, <<Package("STDOUT_END", app[fd])>>} :
       inbox' = [inbox EXCEPT ![fd] = @ \o pre \o <<Package("END_REQUEST", app[fd])>>]
  /\ app' = [app EXCEPT ![fd] = Idle]
  /\ UNCHANGED <<net, rs, hand, conn, gone, serial, left>>

(* It ends a request it has read only a part of, FCGI_OVERLOADED say.      *)
AppRefuses(s) ==
  LET fd == net.slot[s].fd IN
  /\ Running /\ net.slot[s].state = "SENDING" /\ ~ gone[fd] /\ inbox[fd] = <<>>
  /\ inbox' = [inbox EXCEPT ![fd] =
                 <<[type |-> "END_REQUEST", id |-> net.slot[s].begin_req, of |-> 0]>>]
  /\ UNCHANGED <<net, rs, hand, conn, gone, app, serial, left>>

AppLeaves(fd) ==
  /\ Running /\ net.file[fd] = "app" /\ ~ gone[fd]
  /\ left < MaxLeaves
  /\ left' = left + 1
  /\ gone' = [gone EXCEPT ![fd] = TRUE]
  /\ app' = [app EXCEPT ![fd] = Idle]
  /\ UNCHANGED <<net, rs, hand, conn, inbox, serial>>

-----------------------------------------------------------------------------
ClientEvent(fd) == Stage30(fd) \/ NotMe(fd) \/ SendAnswer(fd) \/ SendFailure(fd)

SlotEvent(s) ==
  TakeRequest(s) \/ NoWork(s) \/ SendOn(s) \/ HandlePkg(s) \/ EndOfStream(s)

Next ==
  \/ \E fd \in Fds :
       \/ ReadRequest(fd) \/ IdleClose(fd) \/ ClientHangup(fd) \/ ClientEvent(fd)
       \/ AppWrites(fd) \/ AppEnds(fd) \/ AppLeaves(fd)
  \/ \E s \in Slots : SlotEvent(s) \/ AppRefuses(s) \/ SlotHangup(s)

(* The epoll loop goes on while there are events of clients, and while     *)
(* there are events of connections; a socket that can be written to takes  *)
(* data; and an application answers or goes away.                          *)
Fairness ==
  /\ WF_vars(\E fd \in Fds : ClientEvent(fd))
  /\ WF_vars(\E s \in Slots : SlotEvent(s))
  /\ WF_vars(\E fd \in Fds : AppEnds(fd))

Spec == Init /\ [][Next]_vars /\ Fairness

-----------------------------------------------------------------------------
TypeOK ==
  /\ net \in [file : [Fds -> {"free", "client", "app"}], ep : [Fds -> EpollStates],
              event : SUBSET Fds, slot : [Slots -> FcgiFds],
              exited : BOOLEAN, lost : BOOLEAN]
  /\ rs \in [Reqs -> Requests]
  /\ hand \in [Locs -> Reqs]
  /\ conn \in [Fds -> [st : {"none", "read", "write"}, loc : Locs \cup {NoLoc},
                       sr : 0 .. MaxSerial]]
  /\ gone \in [Fds -> BOOLEAN]
  /\ \A fd \in Fds : \A i \in DOMAIN inbox[fd] :
       inbox[fd][i] \in [type : {"STDOUT", "STDOUT_END", "END_REQUEST"},
                         id : Reqs, of : 0 .. MaxSerial]
  /\ app \in [Fds -> [id : Reqs \cup {NoReq}, of : 0 .. MaxSerial, wrote : BOOLEAN]]
  /\ serial \in 0 .. MaxSerial
  /\ left \in 0 .. MaxLeaves

(* A client gets the answer to its own request: a request that has a       *)
(* client has the one that is waiting for it, the output it collects was   *)
(* made for it, and as long as an application works on a request struct,   *)
(* that struct is not given to anybody else (hangup() keeps a request      *)
(* whose client left until FCGI_END_REQUEST).                              *)
OwnAnswer ==
  /\ \A r \in Reqs : rs[r].fd # NoFd =>
       /\ net.file[rs[r].fd] = "client"
       /\ conn[rs[r].fd].sr = rs[r].sr
       /\ rs[r].iov.holds # "nothing" => rs[r].iov.of = rs[r].sr
       /\ \A q \in Reqs \ {r} : rs[q].fd # rs[r].fd
  /\ \A fd \in Fds : app[fd].id # NoReq =>
       /\ rs[app[fd].id].fcgi_fd = fd
       /\ rs[app[fd].id].fd # NoFd => app[fd].of = rs[app[fd].id].sr

(* The four tables that know a connection to the application agree: its    *)
(* slot, the plugin event list, the epoll states and the kernel.  A slot   *)
(* sleeps exactly when its socket does, so fcgi_wake_connection() never    *)
(* wakes a socket that is awake.                                           *)
ConnectionTables ==
  /\ net.event = {net.slot[s].fd : s \in Slots} \ {NoFd}
  /\ net.event = {fd \in Fds : net.file[fd] = "app"}
  /\ \A s \in Slots :
       /\ (net.slot[s].fd = NoFd) = (net.slot[s].state = "AVAILABLE")
       /\ net.slot[s].fd # NoFd =>
            (net.slot[s].state = "SLEEPING") = (net.ep[net.slot[s].fd].asleep)
       /\ \A t \in Slots \ {s} : net.slot[s].fd = net.slot[t].fd => net.slot[s].fd = NoFd

(* mk_epoll_change_mode() calls exit() for a WAKEUP it does not expect.    *)
(* One sequence gets there and no other: the client of a request hung up,  *)
(* so that hangup() left it without a socket and with REQ_SLEEPING set,    *)
(* and the application then ended it before it had all of it.              *)
OnlyOrphansExit ==
  [][net'.exited /\ ~ net.exited =>
       \E s \in Slots : /\ net.slot[s].state = "SENDING"
                        /\ net.slot[s].begin_req # NoReq
                        /\ LET q == rs[net.slot[s].begin_req] IN
                             q.fd = NoFd /\ q.sleeping /\ q.state = "FAILED"]_vars

(* A client that was put to sleep is woken up again, unless a connection   *)
(* was lost with a request on it, or could not be replaced: then the code  *)
(* tells nobody.                                                           *)
Asleep(fd) == net.file[fd] = "client" /\ net.ep[fd].asleep
SleepersWake ==
  \A fd \in Fds : Asleep(fd) ~> (~ Asleep(fd) \/ net.lost \/ net.exited)

=============================================================================
