---------------------------- MODULE FastCGISteps ----------------------------
(***************************************************************************)
(* The inductive invariant of the FastCGI plugin, for any number of        *)
(* sockets, request structs, connections and locations, and why the steps  *)
(* of the clients and the start of a request keep it.  FastCGIProofs goes  *)
(* on with the connections and the application.                            *)
(*                                                                         *)
(* The inductive invariant has four parts.  Tables says of net alone that  *)
(* the slots, the event list, the epoll states and the kernel agree.       *)
(* ClientInv ties a request struct to the client that waits for it.        *)
(* Flight follows a request over a connection: which struct the packages   *)
(* that are under way belong to, and what state that struct is in; and     *)
(* SlotInv says what the state of a slot tells of its connection.          *)
(*                                                                         *)
(* They are operators of the values they speak of (n of net, q of rs, c of *)
(* conn, g of gone, b of inbox, a of app), because most handlers go        *)
(* through several values of net.                                          *)
(***************************************************************************)
EXTENDS FastCGI, WellFoundedInduction, TLAPS

Nets == [file : [Fds -> {"free", "client", "app"}], ep : [Fds -> EpollStates],
         event : SUBSET Fds, slot : [Slots -> FcgiFds],
         exited : BOOLEAN, lost : BOOLEAN]

Packages == [type : {"STDOUT", "STDOUT_END", "END_REQUEST"}, id : Reqs, of : 0 .. MaxSerial]

Conns == [st : {"none", "read", "write"}, loc : Locs \cup {NoLoc}, sr : 0 .. MaxSerial]

Apps == [id : Reqs \cup {NoReq}, of : 0 .. MaxSerial, wrote : BOOLEAN]

(* The types of those values: an inbox is a sequence of packages.          *)
World(n, q, c, g, b, a) ==
  /\ n \in Nets
  /\ q \in [Reqs -> Requests]
  /\ c \in [Fds -> Conns]
  /\ g \in [Fds -> BOOLEAN]
  /\ b \in [Fds -> Seq(Packages)]
  /\ a \in [Fds -> Apps]

(* ConnectionTables of a value of net, without set equalities.             *)
SlotTable(n, s) ==
  /\ n.slot[s].fd = NoFd <=> n.slot[s].state = "AVAILABLE"
  /\ n.slot[s].fd # NoFd =>
       /\ n.file[n.slot[s].fd] = "app"
       /\ n.slot[s].state = "SLEEPING" <=> n.ep[n.slot[s].fd].asleep
  /\ \A t \in Slots : n.slot[s].fd = n.slot[t].fd /\ s # t => n.slot[s].fd = NoFd

Tables(n) ==
  /\ \A fd \in Fds : fd \in n.event <=> n.file[fd] = "app"
  /\ \A fd \in Fds : n.file[fd] = "app" => \E s \in Slots : n.slot[s].fd = fd
  /\ \A s \in Slots : SlotTable(n, s)

(* What a request struct x and the client's connection know of each other. *)
Owned(n, c, x) ==
  x.fd # NoFd =>
    /\ c[x.fd].st = "write"
    /\ c[x.fd].sr = x.sr
    /\ x.iov.holds # "nothing" => x.iov.of = x.sr
    /\ x.sleeping => n.ep[x.fd].asleep
    /\ x.state = "FAILED" => x.fcgi_fd = NoFd

(* What a request struct says of itself.                                   *)
Sound(x) ==
  /\ x.state = "AVAILABLE" => x = FreeRequest
  /\ x.fd = NoFd => x.state \in {"AVAILABLE", "FAILED"}
  /\ x.state = "ASSIGNED" => x.fcgi_fd = NoFd /\ x.iov.holds = "request"
  /\ x.state = "ENDED" => ~ x.sleeping

ClientInv(n, q, c) ==
  /\ \A fd \in Fds : c[fd].st = "none" <=> n.file[fd] # "client"
  /\ \A r \in Reqs : Owned(n, c, q[r]) /\ Sound(q[r])
  /\ \A r, p \in Reqs : q[r].fd = q[p].fd /\ r # p => q[r].fd = NoFd

(* A request struct is under way over the connection on socket fd.         *)
UnderWay(x, fd) == x.fcgi_fd = fd /\ x.state \in {"SENT", "STREAM_CLOSED", "FAILED"}

(* The order of the packages of a request.                                 *)
Rank == [STDOUT |-> 1, STDOUT_END |-> 2, END_REQUEST |-> 3]

(* A package that waits on socket fd is of the request under way, and the  *)
(* output in it was made for it.                                           *)
PackageInv(q, k, fd, p) ==
  /\ UnderWay(q[p.id], fd)
  /\ p.type # "END_REQUEST" => q[p.id].state # "STREAM_CLOSED"
  /\ p.type = "STDOUT" /\ q[p.id].fd # NoFd => p.of = q[p.id].sr
  /\ k.id # NoReq => p.id = k.id /\ p.type = "STDOUT" /\ k.wrote

(* The packages z of one connection are of one request, and in order.      *)
InOrder(z) ==
  \A i, j \in 1 .. Len(z) :
    z[i].id = z[j].id /\ (i < j => Rank[z[i].type] < Rank[z[j].type])

(* What the application k behind socket fd works on is under way.          *)
AppInv(q, k, fd) ==
  k.id # NoReq =>
    /\ UnderWay(q[k.id], fd)
    /\ q[k.id].state # "STREAM_CLOSED"
    /\ q[k.id].fd # NoFd => k.of = q[k.id].sr

(* The connection on socket fd, and the application behind it.             *)
Flight(n, q, g, b, a, fd) ==
  /\ \A i \in 1 .. Len(b[fd]) : PackageInv(q, a[fd], fd, b[fd][i])
  /\ InOrder(b[fd])
  /\ AppInv(q, a[fd], fd)
  /\ n.file[fd] # "app" => b[fd] = <<>> /\ a[fd].id = NoReq /\ ~ g[fd]

(* A slot that is sending request r over socket fd, with packages z and   *)
(* application k: the request is under way and not sent yet.               *)
Sending(q, z, k, fd, r) ==
  /\ r # NoReq /\ UnderWay(q[r], fd) /\ q[r].state # "STREAM_CLOSED"
  /\ q[r].fd # NoFd => q[r].iov.holds # "nothing"
  /\ k.id = NoReq
  /\ \A i \in 1 .. Len(z) : z[i].type = "END_REQUEST" /\ z[i].id = r

(* What the state of slot s says of its connection.                        *)
SlotInv(n, q, b, a, s) ==
  LET fd == n.slot[s].fd IN
  /\ n.slot[s].state \in {"READY", "SLEEPING"} => b[fd] = <<>> /\ a[fd].id = NoReq
  /\ n.slot[s].state = "SENDING" => Sending(q, b[fd], a[fd], fd, n.slot[s].begin_req)
  /\ n.slot[s].state # "CLOSING"

Good(n, q, c, g, b, a) ==
  /\ World(n, q, c, g, b, a)
  /\ Tables(n)
  /\ ClientInv(n, q, c)
  /\ \A fd \in Fds : Flight(n, q, g, b, a, fd)
  /\ \A s \in Slots : SlotInv(n, q, b, a, s)

(* The inductive invariant.                                                *)
IInv ==
  /\ Good(net, rs, conn, gone, inbox, app)
  /\ hand \in [Locs -> Reqs]
  /\ serial \in 0 .. MaxSerial
  /\ left \in 0 .. MaxLeaves

-----------------------------------------------------------------------------
(* Constants.                                                              *)

(* A leaf goes to Zenon first; one that needs arithmetic names SMT.        *)
USE ZenonT(10), SMTT(20)

(* What the assumption on the constants says of the index sets.            *)
LEMMA Numbers ==
  /\ NoFd \notin Fds /\ Fds \in SUBSET Nat
  /\ NoReq \notin Reqs /\ Reqs \in SUBSET Nat
  /\ Slots \in SUBSET Nat
  /\ 0 \in Reqs /\ 0 \in 0 .. MaxSerial
  BY FastCGIAssumption, SMTT(20) DEF NoFd, NoReq, Reqs, Slots

(* The initial values have their types.                                    *)
LEMMA Values ==
  /\ NoIov \in Iovs /\ NoState \in EpollStates /\ NoConn \in Conns /\ Idle \in Apps
  /\ FreeRequest \in Requests /\ FreeFcgiFd \in FcgiFds
<1>1. NoIov \in Iovs
  BY Numbers DEF NoIov, Iovs
<1>2. NoState \in EpollStates /\ FreeFcgiFd \in FcgiFds
  BY DEF NoState, EpollStates, FreeFcgiFd, FcgiFds, FdStates
<1>3. NoConn \in Conns /\ Idle \in Apps
  BY Numbers DEF NoConn, Conns, Idle, Apps
<1>4. FreeRequest \in Requests
  BY <1>1, Numbers DEF FreeRequest, Requests, ReqStates
<1> QED BY <1>1, <1>2, <1>3, <1>4

(* Queues of packages.                                                     *)
LEMMA QueueFacts ==
  ASSUME NEW P, NEW z \in Seq(P)
  PROVE  /\ z \o <<>> = z
         /\ \A o \in P : z \o <<o>> = Append(z, o)
         /\ z # <<>> => /\ Tail(z) \in Seq(P) /\ Len(Tail(z)) = Len(z) - 1 /\ Head(z) = z[1]
                        /\ \A i \in 1 .. Len(Tail(z)) : Tail(z)[i] = z[i + 1]
<1>1. z \o <<>> = z
  BY SMTT(20)
<1>2. ASSUME NEW o \in P PROVE z \o <<o>> = Append(z, o)
  BY SMTT(20)
<1>3. ASSUME z # <<>>
      PROVE  /\ Tail(z) \in Seq(P) /\ Len(Tail(z)) = Len(z) - 1 /\ Head(z) = z[1]
             /\ \A i \in 1 .. Len(Tail(z)) : Tail(z)[i] = z[i + 1]
  BY <1>3, SMTT(20)
<1> QED BY <1>1, <1>2, <1>3

(* The first struct a search finds is one of those searched.               *)
LEMMA MinIn ==
  ASSUME NEW S \in SUBSET Nat, S # {}
  PROVE  Min(S) \in S
<1> DEFINE R == OpToRel(<, Nat)
<1>1. R = {x \in Nat \X Nat : x[1] < x[2]}
  BY DEF OpToRel
<1>2. IsWellFoundedOn(R, Nat)
  BY NatLessThanWellFounded
<1> HIDE DEF R
<1>3. PICK x \in S : \A y \in S : ~ (<<y, x>> \in R)
  BY <1>2, WFMin
<1>4. \A y \in S : x <= y
  <2> SUFFICES ASSUME NEW y \in S, y < x PROVE FALSE
    BY SMTT(20)
  <2>1. <<y, x>> \in Nat \X Nat /\ <<y, x>>[1] < <<y, x>>[2]
    OBVIOUS
  <2>2. <<y, x>> \in R
    BY <1>1, <2>1
  <2> QED BY <1>3, <2>2
<1> QED BY <1>4 DEF Min

(* The clock finds a request whenever there is one.                        *)
LEMMA ClockFirstIn ==
  ASSUME NEW S \in SUBSET Reqs, S # {}, NEW h \in Reqs
  PROVE  ClockFirst(h, S) \in S
<1> DEFINE D(i) == (i - h - 1) % NReqs
<1> DEFINE T == {D(i) : i \in S}
<1>1. \A i \in S : D(i) \in Nat
  BY FastCGIAssumption, Numbers, SMTT(20)
<1>2. T \in SUBSET Nat /\ T # {}
  BY <1>1
<1>3. PICK m \in T : \A y \in T : ~ (y < m)
  <2> DEFINE R == OpToRel(<, Nat)
  <2>1. R = {x \in Nat \X Nat : x[1] < x[2]}
    BY DEF OpToRel
  <2>2. IsWellFoundedOn(R, Nat)
    BY NatLessThanWellFounded
  <2> HIDE DEF R, T
  <2>3. PICK x \in T : \A y \in T : ~ (<<y, x>> \in R)
    BY <1>2, <2>2, WFMin
  <2>4. ASSUME NEW y \in T, y < x PROVE FALSE
    <3>1. <<y, x>> \in Nat \X Nat /\ <<y, x>>[1] < <<y, x>>[2]
      BY <1>2, <2>4
    <3> QED BY <2>1, <2>3, <3>1
  <2> QED BY <2>3, <2>4
<1>4. PICK i \in S : m = D(i)
  BY <1>3
<1>5. ASSUME NEW j \in S PROVE D(i) <= D(j)
  <2>1. D(j) \in T
    OBVIOUS
  <2> HIDE DEF D, T
  <2>2. ~ (D(j) < D(i))
    BY <1>3, <1>4, <2>1
  <2> QED BY <1>1, <2>2, SMTT(20)
<1> QED BY <1>5 DEF ClockFirst

-----------------------------------------------------------------------------
(* What the operators on net do, field by field.                           *)

(* m differs from n at most in the epoll state of socket fd.               *)
EpOnly(n, m, fd) ==
  /\ m \in Nets
  /\ m.file = n.file /\ m.event = n.event /\ m.slot = n.slot
  /\ \A x \in Fds : x # fd => m.ep[x] = n.ep[x]

(* m differs from n at most in the state and the request of slot s.        *)
SlotOnly(n, m, s) ==
  /\ m \in Nets
  /\ m.file = n.file /\ m.event = n.event /\ m.ep = n.ep /\ m.exited = n.exited
  /\ m.slot[s].fd = n.slot[s].fd
  /\ \A t \in Slots : t # s => m.slot[t] = n.slot[t]

(* Updates of one epoll state and of one slot.                             *)
PutEp(n, fd, e)  == [n EXCEPT !.ep[fd] = e]
PutSlot(n, s, v) == [n EXCEPT !.slot[s] = v]

(* Writing one epoll state changes nothing else.                           *)
LEMMA EpUpdate ==
  ASSUME NEW n \in Nets, NEW fd \in Fds, NEW e \in EpollStates,
         NEW m, m = PutEp(n, fd, e)
  PROVE  EpOnly(n, m, fd) /\ m.ep[fd] = e /\ m.exited = n.exited
  BY DEF EpOnly, Nets, PutEp

(* Writing one struct fcgi_fd changes nothing else.                        *)
LEMMA SlotUpdate ==
  ASSUME NEW n \in Nets, NEW s \in Slots, NEW v \in FcgiFds,
         NEW m, m = PutSlot(n, s, v)
  PROVE  /\ m \in Nets /\ m.file = n.file /\ m.event = n.event /\ m.ep = n.ep
         /\ m.exited = n.exited /\ m.lost = n.lost /\ m.slot[s] = v
         /\ \A t \in Slots : t # s => m.slot[t] = n.slot[t]
  BY DEF Nets, PutSlot

(* mk_epoll_change_mode() to sleep marks the socket asleep.                *)
LEMMA ModeSleep ==
  ASSUME NEW n \in Nets, NEW fd \in Fds, NEW m, m = ChangeMode(n, fd, "SLEEP")
  PROVE  EpOnly(n, m, fd) /\ m.ep[fd].asleep /\ m.exited = n.exited
<1>1. m = [n EXCEPT !.ep[fd].asleep = TRUE]
  BY DEF ChangeMode
<1> DEFINE e == [n.ep[fd] EXCEPT !.asleep = TRUE]
<1>0. n.ep[fd] \in EpollStates
  BY DEF Nets
<1>2. e \in EpollStates /\ e.asleep = TRUE
  BY <1>0 DEF EpollStates
<1>3. m = PutEp(n, fd, e)
  BY <1>1 DEF PutEp
<1> HIDE DEF e
<1> QED BY <1>2, <1>3, EpUpdate, SMTT(20)

(* mk_epoll_change_mode() to wake up clears the mark of a sleeper.         *)
LEMMA ModeWakeup ==
  ASSUME NEW n \in Nets, NEW fd \in Fds, n.ep[fd].asleep,
         NEW m, m = ChangeMode(n, fd, "WAKEUP")
  PROVE  EpOnly(n, m, fd) /\ ~ m.ep[fd].asleep /\ m.exited = n.exited
<1>1. m = [n EXCEPT !.ep[fd].asleep = FALSE]
  BY Numbers DEF ChangeMode
<1> DEFINE e == [n.ep[fd] EXCEPT !.asleep = FALSE]
<1>0. n.ep[fd] \in EpollStates
  BY DEF Nets
<1>2. e \in EpollStates /\ e.asleep = FALSE
  BY <1>0 DEF EpollStates
<1>3. m = PutEp(n, fd, e)
  BY <1>1 DEF PutEp
<1> HIDE DEF e
<1> QED BY <1>2, <1>3, EpUpdate, SMTT(20)

(* A wake-up of no socket touches no table.                                *)
LEMMA ModeExit ==
  ASSUME NEW n \in Nets, NEW m, m = ChangeMode(n, NoFd, "WAKEUP")
  PROVE  /\ m \in Nets /\ m.file = n.file /\ m.event = n.event /\ m.slot = n.slot
         /\ m.ep = n.ep
<1>1. m = [n EXCEPT !.exited = TRUE]
  BY DEF ChangeMode
<1> QED BY <1>1 DEF Nets

Modes == {"READ", "WRITE", "RW"}

(* mk_epoll_change_mode() to another mode leaves the socket awake.         *)
LEMMA ModeOther ==
  ASSUME NEW n \in Nets, NEW fd \in Fds, NEW mode \in Modes,
         NEW m, m = ChangeMode(n, fd, mode)
  PROVE  EpOnly(n, m, fd) /\ ~ m.ep[fd].asleep /\ m.exited = n.exited
<1> DEFINE e == [asleep |-> FALSE, events |-> Asked(mode)]
<1>1. m = PutEp(n, fd, e)
  BY DEF ChangeMode, PutEp, Modes
<1>2. Asked(mode) \in SUBSET {"IN", "OUT"}
  BY DEF Asked, Modes
<1>3. e \in EpollStates /\ e.asleep = FALSE
  BY <1>2 DEF EpollStates
<1> HIDE DEF e
<1> QED BY <1>1, <1>3, EpUpdate, SMTT(20)

(* mk_sched_remove_client() closes the socket of the client.               *)
LEMMA RemoveFields ==
  ASSUME NEW n \in Nets, NEW fd \in Fds, NEW m, m = RemoveClient(n, fd)
  PROVE  /\ m \in Nets /\ m.event = n.event /\ m.slot = n.slot /\ m.exited = n.exited
         /\ m.file = [n.file EXCEPT ![fd] = "free"]
         /\ \A x \in Fds : x # fd => m.ep[x] = n.ep[x]
<1>1. PICK k : k = EpollDel(n, fd)
  OBVIOUS
<1>2. /\ k \in Nets /\ k.event = n.event /\ k.slot = n.slot /\ k.exited = n.exited
      /\ k.file = n.file /\ \A x \in Fds : x # fd => k.ep[x] = n.ep[x]
  BY <1>1, Values DEF EpollDel, Nets
<1>3. m = [k EXCEPT !.file[fd] = "free"]
  BY <1>1 DEF RemoveClient, Close
<1> QED BY <1>2, <1>3, SMTT(20) DEF Nets

(* fcgi_fd_set_state() writes the state when the change is allowed.        *)
LEMMA SetStateFields ==
  ASSUME NEW n \in Nets, NEW s \in Slots, NEW st \in FdStates,
         NEW m, m = FdSetState(n, s, st)
  PROVE  /\ SlotOnly(n, m, s) /\ m.slot[s].begin_req = n.slot[s].begin_req
         /\ m.lost = n.lost
         /\ n.slot[s].state \in FdMayBecome[st] => m.slot[s].state = st
         /\ n.slot[s].state \notin FdMayBecome[st] => m.slot[s].state = n.slot[s].state
<1> DEFINE st2 == IF n.slot[s].state \in FdMayBecome[st] THEN st ELSE n.slot[s].state
           v == [n.slot[s] EXCEPT !.state = st2]
<1>1. n.slot[s] \in FcgiFds
  BY DEF Nets
<1>2. st2 \in FdStates
  BY <1>1 DEF FcgiFds
<1>3. v \in FcgiFds /\ v.state = st2 /\ v.fd = n.slot[s].fd /\ v.begin_req = n.slot[s].begin_req
  <2> HIDE DEF st2
  <2> QED BY <1>1, <1>2 DEF FcgiFds
<1>4. m = PutSlot(n, s, v)
  BY DEF FdSetState, PutSlot
<1> HIDE DEF v
<1>5. m.slot[s] = v /\ m.lost = n.lost /\ SlotOnly(n, m, s)
  BY <1>3, <1>4, SlotUpdate, SMTT(20) DEF SlotOnly
<1> QED BY <1>3, <1>5

(* A connection was made for slot s on the free socket fd.                 *)
Connected(n, m, s, fd) ==
  /\ m \in Nets
  /\ n.slot[s].state = "AVAILABLE" /\ n.file[fd] = "free"
  /\ m.file = [n.file EXCEPT ![fd] = "app"]
  /\ m.event = n.event \cup {fd}
  /\ ~ m.ep[fd].asleep
  /\ \A x \in Fds : x # fd => m.ep[x] = n.ep[x]
  /\ m.slot[s].fd = fd /\ m.slot[s].state = "READY"
  /\ \A t \in Slots : t # s => m.slot[t] = n.slot[t]
  /\ m.exited = n.exited

(* fcgi_new_connection() connects a slot to a fresh socket, or does        *)
(* nothing.                                                                *)
LEMMA NewConnectionFields ==
  ASSUME NEW n \in Nets, NEW l \in Locs, NEW ok \in BOOLEAN,
         NEW m, m = NewConnection(n, l, ok)
  PROVE  m = n \/ \E s \in Slots, fd \in Fds : Connected(n, m, s, fd)
<1>1. CASE FdList(n, {"AVAILABLE"}, l) = {} \/ ConnectFails(n, l, ok)
  BY <1>1 DEF NewConnection
<1>2. CASE ~ (FdList(n, {"AVAILABLE"}, l) = {} \/ ConnectFails(n, l, ok))
  <2> DEFINE s == Min(FdList(n, {"AVAILABLE"}, l))
             fd == Min(FreeFds(n))
             e == [asleep |-> FALSE, events |-> Asked("RW")]
             k1 == Open(n, "app")
             k2 == [k1 EXCEPT !.slot[s].fd = fd]
             k3 == EventAdd(k2, fd, "RW")
  <2>1. s \in Slots /\ n.slot[s].state = "AVAILABLE"
    <3>1. s \in FdList(n, {"AVAILABLE"}, l)
      BY <1>2, MinIn, Numbers DEF FdList
    <3> QED BY <3>1 DEF FdList
  <2>2. fd \in Fds /\ n.file[fd] = "free"
    <3>1. fd \in FreeFds(n)
      BY <1>2, MinIn, Numbers DEF FreeFds, ConnectFails
    <3> QED BY <3>1 DEF FreeFds
  <2>3. k1 = [n EXCEPT !.file[fd] = "app"]
    BY DEF Open
  <2>4. k3 = [k2 EXCEPT !.event = @ \cup {fd}, !.ep[fd] = e]
    BY DEF EventAdd
  <2>5. m = FdSetState(k3, s, "READY")
    BY <1>2 DEF NewConnection
  <2>6. e \in EpollStates /\ ~ e.asleep
    BY DEF EpollStates, Asked
  <2> HIDE DEF s, fd, e, k1
  <2>7. /\ k1 \in Nets /\ k1.file = [n.file EXCEPT ![fd] = "app"] /\ k1.event = n.event
        /\ k1.ep = n.ep /\ k1.slot = n.slot /\ k1.exited = n.exited
    BY <2>2, <2>3 DEF Nets
  <2>8. k2 = [k1 EXCEPT !.slot[s].fd = fd]
    OBVIOUS
  <2> HIDE DEF k2
  <2>9. /\ k2 \in Nets /\ k2.file = k1.file /\ k2.event = n.event
        /\ k2.ep = n.ep /\ k2.exited = n.exited
        /\ k2.slot[s].fd = fd /\ k2.slot[s].state = "AVAILABLE"
        /\ \A t \in Slots : t # s => k2.slot[t] = n.slot[t]
    <3> DEFINE v == [k1.slot[s] EXCEPT !.fd = fd]
    <3>1. k1.slot[s] \in FcgiFds
      BY <2>1, <2>7 DEF Nets
    <3>2. v \in FcgiFds /\ v.fd = fd /\ v.state = "AVAILABLE"
      BY <2>1, <2>2, <2>7, <3>1 DEF FcgiFds
    <3>3. k2 = PutSlot(k1, s, v)
      BY <2>8 DEF PutSlot
    <3> HIDE DEF v
    <3> QED BY <2>1, <2>7, <3>2, <3>3, SlotUpdate, SMTT(20)
  <2> HIDE DEF k3
  <2>10. /\ k3 \in Nets /\ k3.file = k2.file /\ k3.slot = k2.slot /\ k3.exited = n.exited
         /\ k3.event = n.event \cup {fd} /\ k3.ep[fd] = e
         /\ \A x \in Fds : x # fd => k3.ep[x] = n.ep[x]
    BY <2>2, <2>4, <2>6, <2>9 DEF Nets
  <2>11. "AVAILABLE" \in FdMayBecome["READY"] /\ "READY" \in FdStates
    BY DEF FdMayBecome, FdStates
  <2>12. SlotOnly(k3, m, s) /\ m.slot[s].state = "READY"
    BY <2>1, <2>5, <2>9, <2>10, <2>11, SetStateFields, SMTT(20)
  <2>13. Connected(n, m, s, fd)
    BY <2>1, <2>2, <2>6, <2>7, <2>9, <2>10, <2>12, SMTT(20) DEF Connected, SlotOnly
  <2> QED BY <2>1, <2>2, <2>13
<1> QED BY <1>1, <1>2

(* The connection of slot s was closed.                                    *)
Freed(n, m, s) ==
  /\ m \in Nets
  /\ m.file = [n.file EXCEPT ![n.slot[s].fd] = "free"]
  /\ m.event = n.event \ {n.slot[s].fd}
  /\ \A x \in Fds : x # n.slot[s].fd => m.ep[x] = n.ep[x]
  /\ m.slot[s].fd = NoFd /\ m.slot[s].state = "AVAILABLE"
  /\ \A t \in Slots : t # s => m.slot[t] = n.slot[t]
  /\ m.exited = n.exited

(* It was closed and, possibly, another one made.                          *)
Replaced(n, m, s) ==
  \/ Freed(n, m, s)
  \/ \E f \in Nets, t \in Slots, x \in Fds : Freed(n, f, s) /\ Connected(f, m, t, x)

(* mk_api->event_del() takes the socket out of the event list.             *)
LEMMA EventDelFields ==
  ASSUME NEW n \in Nets, NEW fd \in Fds, NEW m, m = EventDel(n, fd)
  PROVE  /\ m \in Nets /\ m.file = n.file /\ m.event = n.event \ {fd} /\ m.slot = n.slot
         /\ m.exited = n.exited
         /\ \A x \in Fds : x # fd => m.ep[x] = n.ep[x]
<1>1. CASE fd \in n.event
  <2>1. PICK k : k = [n EXCEPT !.event = @ \ {fd}]
    OBVIOUS
  <2>2. m = PutEp(k, fd, NoState)
    BY <1>1, <2>1 DEF EventDel, EpollDel, PutEp
  <2>3. /\ k \in Nets /\ k.file = n.file /\ k.event = n.event \ {fd}
        /\ k.slot = n.slot /\ k.exited = n.exited /\ k.ep = n.ep
    BY <2>1 DEF Nets
  <2>4. EpOnly(k, m, fd) /\ m.exited = k.exited
    BY <2>2, <2>3, Values, EpUpdate, SMTT(20)
  <2> QED BY <2>3, <2>4 DEF EpOnly
<1>2. CASE fd \notin n.event
  <2>1. m = n
    BY <1>2 DEF EventDel
  <2> QED BY <1>2, <2>1 DEF Nets
<1> QED BY <1>1, <1>2

(* close() frees the descriptor and no table.                              *)
LEMMA CloseFileFields ==
  ASSUME NEW n \in Nets, NEW fd \in Fds, NEW m, m = Close(n, fd)
  PROVE  /\ m \in Nets /\ m.file = [n.file EXCEPT ![fd] = "free"] /\ m.event = n.event
         /\ m.slot = n.slot /\ m.exited = n.exited /\ m.ep = n.ep
  BY DEF Close, Nets

(* The first half of HangupFd().                                           *)
FreedNet(n, s, fd) ==
  [Close(EventDel(n, fd), fd) EXCEPT !.slot[s].fd = NoFd, !.slot[s].state = "AVAILABLE"]

(* After event_del(), close() and the reset, the slot is free.             *)
LEMMA FreedFields ==
  ASSUME NEW n \in Nets, NEW s \in Slots, NEW fd \in Fds, n.slot[s].fd = fd, NEW m,
         m = FreedNet(n, s, fd)
  PROVE  Freed(n, m, s)
<1>1. PICK k1 : k1 = EventDel(n, fd)
  OBVIOUS
<1>2. PICK k2 : k2 = Close(k1, fd)
  OBVIOUS
<1>3. PICK v1, v, k3 :
        /\ v1 = [k2.slot[s] EXCEPT !.fd = NoFd]
        /\ k3 = PutSlot(k2, s, v1)
        /\ v = [k3.slot[s] EXCEPT !.state = "AVAILABLE"]
  OBVIOUS
<1>4. m = PutSlot(k3, s, v)
  BY <1>1, <1>2, <1>3 DEF PutSlot, FreedNet
<1>5. /\ k1 \in Nets /\ k1.file = n.file /\ k1.event = n.event \ {fd} /\ k1.slot = n.slot
      /\ k1.exited = n.exited
      /\ \A x \in Fds : x # fd => k1.ep[x] = n.ep[x]
  BY <1>1, EventDelFields, SMTT(20)
<1>6. /\ k2 \in Nets /\ k2.file = [k1.file EXCEPT ![fd] = "free"] /\ k2.event = k1.event
      /\ k2.slot = k1.slot /\ k2.exited = k1.exited /\ k2.ep = k1.ep
  BY <1>2, <1>5, CloseFileFields, SMTT(20)
<1>7. v1 \in FcgiFds /\ v1.fd = NoFd
  <2>1. k2.slot[s] \in FcgiFds
    BY <1>6 DEF Nets
  <2> QED BY <1>3, <2>1 DEF FcgiFds
<1>8. /\ k3 \in Nets /\ k3.file = k2.file /\ k3.event = k2.event /\ k3.ep = k2.ep
      /\ k3.exited = k2.exited /\ k3.slot[s] = v1
      /\ \A t \in Slots : t # s => k3.slot[t] = k2.slot[t]
  BY <1>3, <1>6, <1>7, SlotUpdate, SMTT(20)
<1>9. v \in FcgiFds /\ v.fd = NoFd /\ v.state = "AVAILABLE"
  BY <1>3, <1>7, <1>8 DEF FcgiFds, FdStates
<1>10. /\ m \in Nets /\ m.file = k3.file /\ m.event = k3.event /\ m.ep = k3.ep
       /\ m.exited = k3.exited /\ m.slot[s] = v
       /\ \A t \in Slots : t # s => m.slot[t] = k3.slot[t]
  BY <1>4, <1>8, <1>9, SlotUpdate, SMTT(20)
<1> QED BY <1>5, <1>6, <1>8, <1>9, <1>10, SMTT(20) DEF Freed

(* That clients may wait in vain from here on is recorded, nothing else.   *)
LEMMA LoseFields ==
  ASSUME NEW n \in Nets, NEW m, m = Lose(n)
  PROVE  /\ m \in Nets /\ m.file = n.file /\ m.event = n.event /\ m.ep = n.ep
         /\ m.slot = n.slot /\ m.exited = n.exited
  BY DEF Lose, Nets

(* Recording it does not matter to what became of a slot.                  *)
LEMMA LoseReplaced ==
  ASSUME NEW n, NEW k \in Nets, NEW s \in Slots, NEW m, m = Lose(k)
  PROVE  /\ Freed(n, k, s) => Freed(n, m, s)
         /\ Replaced(n, k, s) => Replaced(n, m, s)
<1>1. Freed(n, k, s) => Freed(n, m, s)
  BY LoseFields, SMTT(20) DEF Freed
<1>2. ASSUME NEW f, NEW t, NEW x, Connected(f, k, t, x) PROVE Connected(f, m, t, x)
  BY <1>2, LoseFields, SMTT(20) DEF Connected
<1> QED BY <1>1, <1>2 DEF Replaced

(* hangup() frees the slot; one that was closing may be connected anew.    *)
LEMMA HangupFields ==
  ASSUME NEW n \in Nets, NEW s \in Slots, n.slot[s].fd \in Fds, NEW ok \in BOOLEAN,
         NEW m, m = HangupFd(n, s, ok)
  PROVE  /\ m \in Nets /\ Replaced(n, m, s)
         /\ n.slot[s].state # "CLOSING" => Freed(n, m, s)
<1> DEFINE freed == FreedNet(n, s, n.slot[s].fd)
<1>1. Freed(n, freed, s)
  BY FreedFields
<1>2. m = IF n.slot[s].state = "CLOSING"
          THEN IF ConnectFails(freed, SlotLoc[s], ok) THEN Lose(freed)
               ELSE NewConnection(freed, SlotLoc[s], ok)
          ELSE IF n.slot[s].state \in {"SENDING", "RECEIVING"} THEN Lose(freed) ELSE freed
  BY DEF HangupFd, FreedNet
<1> HIDE DEF freed
<1>3. freed \in Nets
  BY <1>1 DEF Freed
<1>4. Freed(n, Lose(freed), s) /\ Lose(freed) \in Nets
  BY <1>1, <1>3, LoseReplaced, LoseFields
<1>5. CASE n.slot[s].state = "CLOSING" /\ ~ ConnectFails(freed, SlotLoc[s], ok)
  <2>1. SlotLoc[s] \in Locs
    BY FastCGIAssumption
  <2>2. m = NewConnection(freed, SlotLoc[s], ok)
    BY <1>2, <1>5
  <2>3. m = freed \/ \E t \in Slots, x \in Fds : Connected(freed, m, t, x)
    BY <1>3, <2>1, <2>2, NewConnectionFields
  <2>4. CASE m = freed
    BY <1>1, <1>3, <1>5, <2>4 DEF Replaced
  <2>5. ASSUME NEW t \in Slots, NEW x \in Fds, Connected(freed, m, t, x)
        PROVE  m \in Nets /\ Replaced(n, m, s)
    <3>1. m \in Nets
      BY <2>5 DEF Connected
    <3> QED BY <1>1, <1>3, <2>5, <3>1 DEF Replaced
  <2> QED BY <1>5, <2>3, <2>4, <2>5
<1>6. CASE ~ (n.slot[s].state = "CLOSING" /\ ~ ConnectFails(freed, SlotLoc[s], ok))
  <2>1. m = freed \/ m = Lose(freed)
    BY <1>2, <1>6
  <2> QED BY <1>1, <1>3, <1>4, <2>1 DEF Replaced
<1> QED BY <1>5, <1>6

(* CloseSlot(): the state becomes CLOSING where it may, and hangup().      *)
LEMMA CloseFields ==
  ASSUME NEW n \in Nets, NEW s \in Slots, n.slot[s].fd \in Fds, NEW ok \in BOOLEAN,
         NEW k, k = HangupFd(FdSetState(n, s, "CLOSING"), s, ok),
         NEW m, m = k \/ m = Lose(k)
  PROVE  /\ Replaced(n, m, s)
         /\ n.slot[s].state = "SENDING" => Freed(n, m, s)
<1>1. PICK j : j = FdSetState(n, s, "CLOSING")
  OBVIOUS
<1>2. SlotOnly(n, j, s) /\ (n.slot[s].state = "SENDING" => j.slot[s].state = "SENDING")
  <2>1. "CLOSING" \in FdStates /\ "SENDING" \notin FdMayBecome["CLOSING"]
    BY DEF FdStates, FdMayBecome
  <2> QED BY <1>1, <2>1, SetStateFields, SMTT(20)
<1>3. \A f : Freed(j, f, s) => Freed(n, f, s)
  BY <1>2, SMTT(20) DEF Freed, SlotOnly
<1>4. /\ k \in Nets /\ Replaced(j, k, s) /\ (j.slot[s].state # "CLOSING" => Freed(j, k, s))
  <2>1. j \in Nets /\ j.slot[s].fd \in Fds
    BY <1>2 DEF SlotOnly
  <2> QED BY <1>1, <2>1, HangupFields
<1>5. Replaced(n, k, s) /\ (n.slot[s].state = "SENDING" => Freed(n, k, s))
  BY <1>2, <1>3, <1>4 DEF Replaced
<1> QED BY <1>4, <1>5, LoseReplaced

-----------------------------------------------------------------------------
(* Elementary changes that keep the invariant.                             *)

(* A flag of net.                                                          *)
LEMMA FlagKeeps ==
  ASSUME NEW n, NEW q, NEW c, NEW g, NEW b, NEW a, Good(n, q, c, g, b, a),
         NEW m \in Nets, m.file = n.file, m.event = n.event, m.slot = n.slot, m.ep = n.ep
  PROVE  Good(m, q, c, g, b, a)
<1>1. World(m, q, c, g, b, a)
  BY DEF Good, World
<1>2. Tables(m)
  BY SMTT(20) DEF Good, Tables, SlotTable
<1>3. ClientInv(m, q, c)
  BY SMTT(20) DEF Good, ClientInv, Owned
<1>4. \A fd \in Fds : Flight(m, q, g, b, a, fd)
  BY DEF Good, Flight
<1>5. \A s \in Slots : SlotInv(m, q, b, a, s)
  BY DEF Good, SlotInv
<1> QED BY <1>1, <1>2, <1>3, <1>4, <1>5 DEF Good

(* What the core does with a client's socket: its epoll state, opening and *)
(* closing it, and the connection, which c had and d has.                  *)
ClientOnly(n, m, c, d, fd) ==
  /\ m \in Nets /\ m.event = n.event /\ m.slot = n.slot
  /\ n.file[fd] # "app" /\ m.file[fd] # "app"
  /\ \A x \in Fds : x # fd => m.file[x] = n.file[x] /\ m.ep[x] = n.ep[x]
  /\ d \in [Fds -> Conns] /\ (d[fd].st = "none" <=> m.file[fd] # "client")
  /\ \A x \in Fds : x # fd => d[x] = c[x]

(* No request struct has the client on socket fd, or the one that has it   *)
(* agrees with its connection.                                             *)
Unowned(q, fd)       == \A r \in Reqs : q[r].fd # fd
OwnedAt(m, d, q, fd) == \A r \in Reqs : q[r].fd = fd => Owned(m, d, q[r])

(* The invariant when one client socket changes.                           *)
LEMMA ClientKeeps ==
  ASSUME NEW n, NEW q, NEW c, NEW g, NEW b, NEW a, Good(n, q, c, g, b, a),
         NEW fd \in Fds, NEW m, NEW d, ClientOnly(n, m, c, d, fd),
         Unowned(q, fd) \/ OwnedAt(m, d, q, fd)
  PROVE  Good(m, q, d, g, b, a)
<1>0. /\ m \in Nets /\ m.event = n.event /\ m.slot = n.slot
      /\ n.file[fd] # "app" /\ m.file[fd] # "app"
      /\ \A x \in Fds : x # fd => m.file[x] = n.file[x] /\ m.ep[x] = n.ep[x]
  BY DEF ClientOnly
<1>1. World(m, q, d, g, b, a)
  BY DEF Good, World, ClientOnly
<1>2. Tables(m)
  <2>1. \A x \in Fds : m.file[x] = "app" <=> n.file[x] = "app"
    BY <1>0
  <2>2. \A s \in Slots : n.slot[s].fd \in Fds \cup {NoFd}
    BY DEF Good, World, Nets, FcgiFds
  <2>3. \A s \in Slots : n.slot[s].fd # NoFd => n.slot[s].fd # fd
    BY <1>0 DEF Good, Tables, SlotTable
  <2>4. ASSUME NEW s \in Slots PROVE SlotTable(m, s)
    <3>1. SlotTable(n, s)
      BY DEF Good, Tables
    <3>2. n.slot[s].fd # NoFd => /\ m.file[n.slot[s].fd] = n.file[n.slot[s].fd]
                                 /\ m.ep[n.slot[s].fd] = n.ep[n.slot[s].fd]
      BY <1>0, <2>2, <2>3
    <3> QED BY <1>0, <3>1, <3>2 DEF SlotTable
  <2>5. \A x \in Fds : x \in m.event <=> m.file[x] = "app"
    BY <1>0, <2>1 DEF Good, Tables
  <2>6. \A x \in Fds : m.file[x] = "app" => \E s \in Slots : m.slot[s].fd = x
    BY <1>0, <2>1, SMTT(20) DEF Good, Tables
  <2> QED BY <2>4, <2>5, <2>6 DEF Tables
<1>3. ClientInv(m, q, d)
  <2>1. ASSUME NEW r \in Reqs PROVE Owned(m, d, q[r]) /\ Sound(q[r])
    <3>1. q[r].fd \in Fds \cup {NoFd}
      BY DEF Good, World, Requests
    <3>2. Owned(n, c, q[r]) /\ Sound(q[r])
      BY DEF Good, ClientInv
    <3>3. CASE q[r].fd # fd
      BY <3>1, <3>2, <3>3 DEF Owned, ClientOnly
    <3> QED BY <3>2, <3>3 DEF Unowned, OwnedAt
  <2>2. \A x \in Fds : d[x].st = "none" <=> m.file[x] # "client"
    BY DEF Good, ClientInv, ClientOnly
  <2>3. \A r, p \in Reqs : q[r].fd = q[p].fd /\ r # p => q[r].fd = NoFd
    BY DEF Good, ClientInv
  <2> QED BY <2>1, <2>2, <2>3 DEF ClientInv
<1>4. \A x \in Fds : Flight(m, q, g, b, a, x)
  BY <1>0 DEF Good, Flight
<1>5. \A s \in Slots : SlotInv(m, q, b, a, s)
  BY <1>0 DEF Good, SlotInv
<1> QED BY <1>1, <1>2, <1>3, <1>4, <1>5 DEF Good

(* What the plugin does with a connection that stays open.                 *)
ConnectionOnly(n, m, s, fd) ==
  /\ m \in Nets /\ m.file = n.file /\ m.event = n.event
  /\ \A x \in Fds : x # fd => m.ep[x] = n.ep[x]
  /\ \A t \in Slots : t # s => m.slot[t] = n.slot[t]
  /\ n.slot[s].fd = fd /\ m.slot[s].fd = fd /\ m.slot[s].state # "AVAILABLE"
  /\ m.slot[s].state = "SLEEPING" <=> m.ep[fd].asleep

(* The invariant when one slot and its socket change.                      *)
LEMMA SlotKeeps ==
  ASSUME NEW n, NEW q, NEW c, NEW g, NEW b, NEW a, Good(n, q, c, g, b, a),
         NEW s \in Slots, NEW fd \in Fds, NEW m, ConnectionOnly(n, m, s, fd),
         SlotInv(m, q, b, a, s)
  PROVE  Good(m, q, c, g, b, a)
<1>a. n.slot[s].fd = fd /\ m.slot[s].fd = fd /\ m \in Nets /\ m.file = n.file /\ m.event = n.event
  BY DEF ConnectionOnly
<1>b. \A x \in Fds : x # fd => m.ep[x] = n.ep[x]
  BY DEF ConnectionOnly
<1>c. \A t \in Slots : t # s => m.slot[t] = n.slot[t]
  BY DEF ConnectionOnly
<1>0. fd # NoFd /\ n.file[fd] = "app" /\ \A t \in Slots : t # s => n.slot[t].fd # fd
  <2>1. SlotTable(n, s) /\ fd # NoFd
    BY Numbers DEF Good, Tables
  <2> QED BY <1>a, <2>1 DEF SlotTable
<1>1. World(m, q, c, g, b, a)
  BY <1>a DEF Good, World
<1>2. Tables(m)
  <2>1. \A t \in Slots : m.slot[t].fd = n.slot[t].fd
    BY <1>a, <1>c
  <2>2. \A t \in Slots : n.slot[t].fd \in Fds \cup {NoFd}
    BY DEF Good, World, Nets, FcgiFds
  <2>3. ASSUME NEW t \in Slots PROVE SlotTable(m, t)
    <3>1. SlotTable(n, t)
      BY DEF Good, Tables
    <3>2. CASE t # s
      <4>1. m.slot[t] = n.slot[t] /\ n.slot[t].fd # fd
        BY <1>0, <1>c, <3>2
      <4>2. n.slot[t].fd # NoFd => m.ep[n.slot[t].fd] = n.ep[n.slot[t].fd]
        BY <1>b, <2>2, <4>1
      <4> QED BY <1>a, <2>1, <3>1, <4>1, <4>2 DEF SlotTable
    <3>3. CASE t = s
      BY <1>0, <1>a, <2>1, <3>1, <3>3 DEF SlotTable, ConnectionOnly
    <3> QED BY <3>2, <3>3
  <2>4. \A x \in Fds : x \in m.event <=> m.file[x] = "app"
    BY <1>a DEF Good, Tables
  <2>5. \A x \in Fds : m.file[x] = "app" => \E t \in Slots : m.slot[t].fd = x
    BY <1>a, <2>1 DEF Good, Tables
  <2> QED BY <2>3, <2>4, <2>5 DEF Tables
<1>3. ClientInv(m, q, c)
  <2>1. ASSUME NEW r \in Reqs PROVE Owned(m, c, q[r])
    <3>1. Owned(n, c, q[r]) /\ q[r].fd \in Fds \cup {NoFd}
      BY DEF Good, World, ClientInv, Requests
    <3>2. q[r].fd # fd
      BY <1>0, <3>1 DEF Good, ClientInv, Owned
    <3> QED BY <1>b, <3>1, <3>2 DEF Owned
  <2> QED BY <1>a, <2>1 DEF Good, ClientInv
<1>4. \A x \in Fds : Flight(m, q, g, b, a, x)
  BY <1>a DEF Good, Flight
<1>5. ASSUME NEW t \in Slots PROVE SlotInv(m, q, b, a, t)
  <2>1. CASE t # s
    <3>1. SlotInv(n, q, b, a, t) /\ m.slot[t] = n.slot[t]
      BY <1>c, <2>1 DEF Good
    <3> QED BY <3>1 DEF SlotInv
  <2> QED BY <2>1
<1> QED BY <1>1, <1>2, <1>3, <1>4, <1>5 DEF Good

(* h, i and e are values of gone, inbox and app that differ from g, b and  *)
(* a at most for socket fd.                                                *)
WireOnly(fd, g, b, a, h, i, e) ==
  /\ h \in [Fds -> BOOLEAN] /\ i \in [Fds -> Seq(Packages)] /\ e \in [Fds -> Apps]
  /\ \A x \in Fds : x # fd => h[x] = g[x] /\ i[x] = b[x] /\ e[x] = a[x]

(* What happens on the wire of socket fd and behind it.                    *)
LEMMA WireKeeps ==
  ASSUME NEW n, NEW q, NEW c, NEW g, NEW b, NEW a, Good(n, q, c, g, b, a),
         NEW fd \in Fds, n.file[fd] = "app",
         NEW h, NEW i, NEW e, WireOnly(fd, g, b, a, h, i, e),
         Flight(n, q, h, i, e, fd),
         \A s \in Slots : n.slot[s].fd = fd => SlotInv(n, q, i, e, s)
  PROVE  Good(n, q, c, h, i, e)
<1>1. World(n, q, c, h, i, e)
  BY DEF Good, World, WireOnly
<1>2. ASSUME NEW x \in Fds PROVE Flight(n, q, h, i, e, x)
  <2>1. CASE x # fd
    <3>1. h[x] = g[x] /\ i[x] = b[x] /\ e[x] = a[x]
      BY <2>1 DEF WireOnly
    <3>2. Flight(n, q, g, b, a, x)
      BY DEF Good
    <3> QED BY <3>1, <3>2 DEF Flight
  <2> QED BY <2>1
<1>3. ASSUME NEW s \in Slots PROVE SlotInv(n, q, i, e, s)
  <2>1. CASE n.slot[s].fd # fd
    <3>1. SlotInv(n, q, b, a, s) /\ SlotTable(n, s)
      BY DEF Good, Tables
    <3>2. n.slot[s].fd = NoFd \/ n.slot[s].fd \in Fds
      BY DEF Good, World, Nets, FcgiFds
    <3>3. CASE n.slot[s].fd = NoFd
      BY <3>1, <3>3 DEF SlotInv, SlotTable
    <3>4. CASE n.slot[s].fd \in Fds
      <4>1. i[n.slot[s].fd] = b[n.slot[s].fd] /\ e[n.slot[s].fd] = a[n.slot[s].fd]
        BY <2>1, <3>4 DEF WireOnly
      <4> QED BY <3>1, <4>1 DEF SlotInv
    <3> QED BY <3>2, <3>3, <3>4
  <2> QED BY <2>1
<1> QED BY <1>1, <1>2, <1>3 DEF Good

(* An update of one request struct.                                        *)
PutReq(q, r, y) == [q EXCEPT ![r] = y]

(* Writing one request struct changes no other.                            *)
LEMMA ReqUpdate ==
  ASSUME NEW q \in [Reqs -> Requests], NEW r \in Reqs, NEW y \in Requests,
         NEW w, w = PutReq(q, r, y)
  PROVE  /\ w \in [Reqs -> Requests] /\ w[r] = y
         /\ \A p \in Reqs : p # r => w[p] = q[p]
  BY DEF PutReq

(* A change of request struct r, which gets the value y.  What is under    *)
(* way of it has to be right for y.                                        *)
LEMMA ReqKeeps ==
  ASSUME NEW n, NEW q, NEW c, NEW g, NEW b, NEW a, Good(n, q, c, g, b, a),
         NEW r \in Reqs, NEW y \in Requests, NEW w, w = PutReq(q, r, y),
         Owned(n, c, y), Sound(y),
         y.fd = NoFd \/ \A p \in Reqs : p # r => q[p].fd # y.fd,
         \A fd \in Fds : \A i \in 1 .. Len(b[fd]) :
           b[fd][i].id = r => PackageInv(w, a[fd], fd, b[fd][i]),
         \A fd \in Fds : a[fd].id = r => AppInv(w, a[fd], fd),
         \A s \in Slots : n.slot[s].state = "SENDING" /\ n.slot[s].begin_req = r =>
           Sending(w, b[n.slot[s].fd], a[n.slot[s].fd], n.slot[s].fd, r)
  PROVE  Good(n, w, c, g, b, a)
<1>0. /\ w \in [Reqs -> Requests] /\ w[r] = y
      /\ \A p \in Reqs : p # r => w[p] = q[p]
  BY ReqUpdate, SMTT(20) DEF Good, World
<1>1. World(n, w, c, g, b, a)
  BY <1>0 DEF Good, World
<1>2. ClientInv(n, w, c)
  <2>1. \A p \in Reqs : Owned(n, c, w[p]) /\ Sound(w[p])
    BY <1>0 DEF Good, ClientInv
  <2>2. ASSUME NEW p \in Reqs, NEW t \in Reqs, w[p].fd = w[t].fd, p # t
        PROVE  w[p].fd = NoFd
    <3>1. CASE p # r /\ t # r
      BY <1>0, <2>2, <3>1, SMTT(20) DEF Good, ClientInv
    <3>2. CASE p = r \/ t = r
      BY <1>0, <2>2, <3>2
    <3> QED BY <3>1, <3>2
  <2>3. \A fd \in Fds : c[fd].st = "none" <=> n.file[fd] # "client"
    BY DEF Good, ClientInv
  <2> QED BY <2>1, <2>2, <2>3 DEF ClientInv
<1>3. ASSUME NEW fd \in Fds PROVE Flight(n, w, g, b, a, fd)
  <2>0. Flight(n, q, g, b, a, fd)
    BY DEF Good
  <2>1. ASSUME NEW i \in 1 .. Len(b[fd]) PROVE PackageInv(w, a[fd], fd, b[fd][i])
    <3>1. b[fd][i].id \in Reqs
      <4>1. b[fd] \in Seq(Packages)
        BY DEF Good, World
      <4>2. b[fd][i] \in Packages
        BY <4>1, SMTT(20)
      <4> QED BY <4>2 DEF Packages
    <3>2. PackageInv(q, a[fd], fd, b[fd][i])
      BY <2>0 DEF Flight
    <3>3. CASE b[fd][i].id # r
      <4>1. w[b[fd][i].id] = q[b[fd][i].id]
        BY <1>0, <3>1, <3>3
      <4> QED BY <3>2, <4>1 DEF PackageInv
    <3> QED BY <3>3
  <2>2. AppInv(w, a[fd], fd)
    <3>1. a[fd].id \in Reqs \cup {NoReq}
      BY DEF Good, World, Apps
    <3>2. CASE a[fd].id # r
      BY <1>0, <2>0, <3>1, <3>2 DEF Flight, AppInv
    <3> QED BY <3>2
  <2> QED BY <2>0, <2>1, <2>2 DEF Flight
<1>4. ASSUME NEW s \in Slots PROVE SlotInv(n, w, b, a, s)
  <2>0. SlotInv(n, q, b, a, s) /\ n.slot[s].begin_req \in Reqs \cup {NoReq}
    BY DEF Good, World, Nets, FcgiFds
  <2>1. CASE n.slot[s].state = "SENDING"
    <3>1. CASE n.slot[s].begin_req = r
      BY <2>1, <3>1 DEF SlotInv
    <3>2. CASE n.slot[s].begin_req # r
      <4>1. Sending(q, b[n.slot[s].fd], a[n.slot[s].fd], n.slot[s].fd, n.slot[s].begin_req)
        BY <2>0, <2>1 DEF SlotInv
      <4>2. w[n.slot[s].begin_req] = q[n.slot[s].begin_req]
        BY <1>0, <2>0, <3>2, <4>1 DEF Sending
      <4>3. Sending(w, b[n.slot[s].fd], a[n.slot[s].fd], n.slot[s].fd, n.slot[s].begin_req)
        BY <4>1, <4>2 DEF Sending
      <4> QED BY <2>1, <4>3 DEF SlotInv
    <3> QED BY <3>1, <3>2
  <2>2. CASE n.slot[s].state # "SENDING"
    BY <2>0, <2>2 DEF SlotInv
  <2> QED BY <2>1, <2>2
<1>5. Tables(n)
  BY DEF Good
<1> QED BY <1>1, <1>2, <1>3, <1>4, <1>5 DEF Good

(* What is under way of request x is right for y as well.                  *)
Continues(x, y) ==
  \A fd \in Fds : UnderWay(x, fd) =>
    /\ UnderWay(y, fd)
    /\ y.state = "STREAM_CLOSED" => x.state = "STREAM_CLOSED"
    /\ y.fd # NoFd => x.fd = y.fd /\ x.sr = y.sr
    /\ y.fd # NoFd /\ x.iov.holds # "nothing" => y.iov.holds # "nothing"

(* The invariant when one struct goes on with the same request.            *)
LEMMA ReqContinues ==
  ASSUME NEW n, NEW q, NEW c, NEW g, NEW b, NEW a, Good(n, q, c, g, b, a),
         NEW r \in Reqs, NEW y \in Requests, NEW w, w = PutReq(q, r, y),
         Owned(n, c, y), Sound(y),
         y.fd = NoFd \/ \A p \in Reqs : p # r => q[p].fd # y.fd,
         Continues(q[r], y)
  PROVE  Good(n, w, c, g, b, a)
<1>0. w[r] = y
  BY ReqUpdate, SMTT(20) DEF Good, World
<1>1. ASSUME NEW fd \in Fds, NEW i \in 1 .. Len(b[fd]), b[fd][i].id = r
      PROVE  PackageInv(w, a[fd], fd, b[fd][i])
  <2>1. PackageInv(q, a[fd], fd, b[fd][i])
    BY DEF Good, Flight
  <2> QED BY <1>0, <1>1, <2>1 DEF PackageInv, Continues
<1>2. ASSUME NEW fd \in Fds, a[fd].id = r PROVE AppInv(w, a[fd], fd)
  <2>1. AppInv(q, a[fd], fd)
    BY DEF Good, Flight
  <2>2. r # NoReq
    BY Numbers
  <2> QED BY <1>0, <1>2, <2>1, <2>2 DEF AppInv, Continues
<1>3. ASSUME NEW s \in Slots, n.slot[s].state = "SENDING", n.slot[s].begin_req = r
      PROVE  Sending(w, b[n.slot[s].fd], a[n.slot[s].fd], n.slot[s].fd, r)
  <2>1. Sending(q, b[n.slot[s].fd], a[n.slot[s].fd], n.slot[s].fd, r)
    BY <1>3 DEF Good, SlotInv
  <2>2. n.slot[s].fd \in Fds
    <3>1. n.slot[s].fd \in Fds \cup {NoFd} /\ SlotTable(n, s)
      BY DEF Good, World, Nets, FcgiFds, Tables
    <3> QED BY <1>3, <3>1 DEF SlotTable
  <2> QED BY <1>0, <2>1, <2>2 DEF Sending, Continues
<1> QED BY <1>1, <1>2, <1>3, ReqKeeps

(* Nothing is under way of request r.                                      *)
Detached(n, b, a, r) ==
  /\ \A fd \in Fds : \A i \in 1 .. Len(b[fd]) : b[fd][i].id # r
  /\ \A fd \in Fds : a[fd].id # r
  /\ \A s \in Slots : n.slot[s].state = "SENDING" => n.slot[s].begin_req # r

(* The invariant when a struct no connection knows is written.             *)
LEMMA ReqDetached ==
  ASSUME NEW n, NEW q, NEW c, NEW g, NEW b, NEW a, Good(n, q, c, g, b, a),
         NEW r \in Reqs, NEW y \in Requests, NEW w, w = PutReq(q, r, y),
         Owned(n, c, y), Sound(y),
         y.fd = NoFd \/ \A p \in Reqs : p # r => q[p].fd # y.fd,
         Detached(n, b, a, r)
  PROVE  Good(n, w, c, g, b, a)
  BY ReqKeeps DEF Detached

(* Nothing is left on the wire of socket fd.                               *)
Cut(fd, g, b, a, h, i, e) ==
  WireOnly(fd, g, b, a, h, i, e) /\ ~ h[fd] /\ i[fd] = <<>> /\ e[fd].id = NoReq

(* The connection of slot s is closed at both ends.                        *)
LEMMA FreedKeeps ==
  ASSUME NEW n, NEW q, NEW c, NEW g, NEW b, NEW a, Good(n, q, c, g, b, a),
         NEW s \in Slots, NEW fd \in Fds, n.slot[s].fd = fd, NEW m, Freed(n, m, s),
         NEW h, NEW i, NEW e, Cut(fd, g, b, a, h, i, e)
  PROVE  Good(m, q, c, h, i, e)
<1>0. /\ fd # NoFd /\ n.file[fd] = "app" /\ \A t \in Slots : t # s => n.slot[t].fd # fd
      /\ \A t \in Slots : n.slot[t].fd \in Fds \cup {NoFd}
  <2>1. fd # NoFd /\ SlotTable(n, s) /\ \A t \in Slots : n.slot[t].fd \in Fds \cup {NoFd}
    BY Numbers DEF Good, World, Nets, FcgiFds, Tables
  <2> QED BY <2>1 DEF SlotTable
<1>1. /\ m \in Nets /\ m.event = n.event \ {fd} /\ m.file[fd] = "free"
      /\ \A x \in Fds : x # fd => m.ep[x] = n.ep[x] /\ m.file[x] = n.file[x]
      /\ m.slot[s].fd = NoFd /\ m.slot[s].state = "AVAILABLE"
      /\ \A t \in Slots : t # s => m.slot[t] = n.slot[t]
  <2>1. n.file \in [Fds -> {"free", "client", "app"}]
    BY DEF Good, World, Nets
  <2> QED BY <2>1 DEF Freed
<1>2. World(m, q, c, h, i, e)
  BY <1>1 DEF Good, World, Cut, WireOnly
<1>3. Tables(m)
  <2>1. ASSUME NEW x \in Fds PROVE x \in m.event <=> m.file[x] = "app"
    <3>1. x \in n.event <=> n.file[x] = "app"
      BY DEF Good, Tables
    <3>2. CASE x # fd
      BY <1>1, <3>1, <3>2
    <3>3. CASE x = fd
      BY <1>1, <3>3
    <3> QED BY <3>2, <3>3
  <2>2. ASSUME NEW x \in Fds, m.file[x] = "app" PROVE \E t \in Slots : m.slot[t].fd = x
    <3>1. x # fd /\ n.file[x] = "app"
      BY <1>1, <2>2
    <3>2. PICK t \in Slots : n.slot[t].fd = x
      BY <3>1 DEF Good, Tables
    <3> QED BY <1>1, <3>1, <3>2
  <2>3. ASSUME NEW t \in Slots PROVE SlotTable(m, t)
    <3>1. CASE t = s
      BY <1>1, <3>1 DEF SlotTable
    <3>2. CASE t # s
      <4>1. SlotTable(n, t)
        BY DEF Good, Tables
      <4>2. m.slot[t] = n.slot[t] /\ n.slot[t].fd # fd
        BY <1>0, <1>1, <3>2
      <4>3. n.slot[t].fd # NoFd => /\ m.ep[n.slot[t].fd] = n.ep[n.slot[t].fd]
                                   /\ m.file[n.slot[t].fd] = n.file[n.slot[t].fd]
        BY <1>0, <1>1, <4>2
      <4>4. ASSUME NEW u \in Slots, m.slot[t].fd = m.slot[u].fd, t # u PROVE m.slot[t].fd = NoFd
        <5>1. CASE u = s
          BY <1>1, <4>4, <5>1
        <5>2. CASE u # s
          <6>1. m.slot[u].fd = n.slot[u].fd /\ m.slot[t].fd = n.slot[t].fd
            BY <1>1, <4>2, <5>2
          <6> QED BY <4>1, <4>4, <6>1 DEF SlotTable
        <5> QED BY <5>1, <5>2
      <4> QED BY <4>1, <4>2, <4>3, <4>4 DEF SlotTable
    <3> QED BY <3>1, <3>2
  <2> QED BY <2>1, <2>2, <2>3 DEF Tables
<1>4. ClientInv(m, q, c)
  <2>1. ASSUME NEW r \in Reqs PROVE Owned(m, c, q[r])
    <3>1. Owned(n, c, q[r]) /\ q[r].fd \in Fds \cup {NoFd}
      BY DEF Good, World, ClientInv, Requests
    <3>2. q[r].fd # fd
      BY <1>0, <3>1 DEF Good, ClientInv, Owned
    <3> QED BY <1>1, <3>1, <3>2 DEF Owned
  <2>2. \A x \in Fds : c[x].st = "none" <=> m.file[x] # "client"
    BY <1>0, <1>1 DEF Good, ClientInv
  <2> QED BY <2>1, <2>2 DEF Good, ClientInv
<1>5. ASSUME NEW x \in Fds PROVE Flight(m, q, h, i, e, x)
  <2>1. CASE x # fd
    <3>1. h[x] = g[x] /\ i[x] = b[x] /\ e[x] = a[x] /\ m.file[x] = n.file[x]
      BY <1>1, <2>1 DEF Cut, WireOnly
    <3>2. Flight(n, q, g, b, a, x)
      BY DEF Good
    <3> QED BY <3>1, <3>2 DEF Flight
  <2>2. CASE x = fd
    <3>1. i[x] = <<>> /\ 1 .. Len(i[x]) = {} /\ e[x].id = NoReq /\ ~ h[x]
      BY <2>2, SMTT(20) DEF Cut
    <3> QED BY <3>1 DEF Flight, InOrder, AppInv
  <2> QED BY <2>1, <2>2
<1>6. ASSUME NEW t \in Slots PROVE SlotInv(m, q, i, e, t)
  <2>1. CASE t = s
    BY <1>1, <2>1 DEF SlotInv
  <2>2. CASE t # s
    <3>1. SlotInv(n, q, b, a, t) /\ SlotTable(n, t)
      BY DEF Good, Tables
    <3>2. m.slot[t] = n.slot[t] /\ n.slot[t].fd # fd
      BY <1>0, <1>1, <2>2
    <3>3. CASE n.slot[t].fd = NoFd
      BY <3>1, <3>2, <3>3 DEF SlotInv, SlotTable
    <3>4. CASE n.slot[t].fd \in Fds
      <4>1. i[n.slot[t].fd] = b[n.slot[t].fd] /\ e[n.slot[t].fd] = a[n.slot[t].fd]
        BY <3>2, <3>4 DEF Cut, WireOnly
      <4> QED BY <3>1, <3>2, <4>1 DEF SlotInv
    <3> QED BY <1>0, <3>3, <3>4
  <2> QED BY <2>1, <2>2
<1> QED BY <1>2, <1>3, <1>4, <1>5, <1>6 DEF Good

(* A connection is made.                                                   *)
LEMMA ConnectedKeeps ==
  ASSUME NEW n, NEW q, NEW c, NEW g, NEW b, NEW a, Good(n, q, c, g, b, a),
         NEW s \in Slots, NEW fd \in Fds, NEW m, Connected(n, m, s, fd)
  PROVE  Good(m, q, c, g, b, a)
<1>0. /\ fd # NoFd /\ \A t \in Slots : n.slot[t].fd # fd
      /\ \A t \in Slots : n.slot[t].fd \in Fds \cup {NoFd}
      /\ b[fd] = <<>> /\ a[fd].id = NoReq
  <2>1. fd # NoFd /\ n.file[fd] # "app" /\ \A t \in Slots : n.slot[t].fd \in Fds \cup {NoFd}
    BY Numbers DEF Good, World, Nets, FcgiFds, Connected
  <2>2. \A t \in Slots : SlotTable(n, t)
    BY DEF Good, Tables
  <2>3. b[fd] = <<>> /\ a[fd].id = NoReq
    BY <2>1 DEF Good, Flight
  <2> QED BY <2>1, <2>2, <2>3 DEF SlotTable
<1>1. /\ m \in Nets /\ m.event = n.event \cup {fd} /\ m.file[fd] = "app" /\ n.file[fd] = "free"
      /\ ~ m.ep[fd].asleep
      /\ \A x \in Fds : x # fd => m.ep[x] = n.ep[x] /\ m.file[x] = n.file[x]
      /\ m.slot[s].fd = fd /\ m.slot[s].state = "READY" /\ n.slot[s].state = "AVAILABLE"
      /\ \A t \in Slots : t # s => m.slot[t] = n.slot[t]
  <2>1. n.file \in [Fds -> {"free", "client", "app"}]
    BY DEF Good, World, Nets
  <2> QED BY <2>1 DEF Connected
<1>2. World(m, q, c, g, b, a)
  BY <1>1 DEF Good, World
<1>3. Tables(m)
  <2>1. \A x \in Fds : x \in m.event <=> m.file[x] = "app"
    BY <1>1 DEF Good, Tables
  <2>2. ASSUME NEW x \in Fds, m.file[x] = "app" PROVE \E t \in Slots : m.slot[t].fd = x
    <3>1. CASE x = fd
      BY <1>1, <3>1
    <3>2. CASE x # fd
      <4>1. PICK t \in Slots : n.slot[t].fd = x
        BY <1>1, <2>2, <3>2 DEF Good, Tables
      <4>2. t # s
        <5>1. SlotTable(n, s) /\ x # NoFd
          BY Numbers DEF Good, Tables
        <5>2. n.slot[s].fd = NoFd
          BY <1>1, <5>1 DEF SlotTable
        <5> QED BY <4>1, <5>1, <5>2
      <4> QED BY <1>1, <4>1, <4>2
    <3> QED BY <3>1, <3>2
  <2>3. ASSUME NEW t \in Slots PROVE SlotTable(m, t)
    <3>1. CASE t = s
      BY <1>0, <1>1, <3>1 DEF SlotTable
    <3>2. CASE t # s
      <4>1. SlotTable(n, t)
        BY DEF Good, Tables
      <4>2. m.slot[t] = n.slot[t] /\ n.slot[t].fd # fd
        BY <1>0, <1>1, <3>2
      <4>3. n.slot[t].fd # NoFd => /\ m.ep[n.slot[t].fd] = n.ep[n.slot[t].fd]
                                   /\ m.file[n.slot[t].fd] = n.file[n.slot[t].fd]
        BY <1>0, <1>1, <4>2
      <4>4. ASSUME NEW u \in Slots, m.slot[t].fd = m.slot[u].fd, t # u PROVE m.slot[t].fd = NoFd
        <5>1. u # s
          BY <1>1, <4>2, <4>4
        <5> QED BY <1>1, <4>1, <4>2, <4>4, <5>1 DEF SlotTable
      <4> QED BY <4>1, <4>2, <4>3, <4>4 DEF SlotTable
    <3> QED BY <3>1, <3>2
  <2> QED BY <2>1, <2>2, <2>3 DEF Tables
<1>4. ClientInv(m, q, c)
  <2>1. ASSUME NEW r \in Reqs PROVE Owned(m, c, q[r])
    <3>1. Owned(n, c, q[r]) /\ q[r].fd \in Fds \cup {NoFd}
      BY DEF Good, World, ClientInv, Requests
    <3>2. q[r].fd # fd
      BY <1>0, <1>1, <3>1 DEF Good, ClientInv, Owned
    <3> QED BY <1>1, <3>1, <3>2 DEF Owned
  <2>2. \A x \in Fds : c[x].st = "none" <=> m.file[x] # "client"
    BY <1>0, <1>1 DEF Good, ClientInv
  <2> QED BY <2>1, <2>2 DEF Good, ClientInv
<1>5. ASSUME NEW x \in Fds PROVE Flight(m, q, g, b, a, x)
  <2>1. Flight(n, q, g, b, a, x)
    BY DEF Good
  <2> QED BY <1>1, <2>1 DEF Flight
<1>6. ASSUME NEW t \in Slots PROVE SlotInv(m, q, b, a, t)
  <2>1. CASE t = s
    BY <1>0, <1>1, <2>1 DEF SlotInv
  <2>2. CASE t # s
    <3>1. SlotInv(n, q, b, a, t) /\ m.slot[t] = n.slot[t]
      BY <1>1, <2>2 DEF Good
    <3> QED BY <3>1 DEF SlotInv
  <2> QED BY <2>1, <2>2
<1> QED BY <1>2, <1>3, <1>4, <1>5, <1>6 DEF Good

(* The connection of slot s is closed at both ends and may be made anew.   *)
LEMMA ReplacedKeeps ==
  ASSUME NEW n, NEW q, NEW c, NEW g, NEW b, NEW a, Good(n, q, c, g, b, a),
         NEW s \in Slots, NEW fd \in Fds, n.slot[s].fd = fd, NEW m, Replaced(n, m, s),
         NEW h, NEW i, NEW e, Cut(fd, g, b, a, h, i, e)
  PROVE  Good(m, q, c, h, i, e)
<1>1. CASE Freed(n, m, s)
  BY <1>1, FreedKeeps
<1>2. ASSUME NEW f \in Nets, NEW t \in Slots, NEW x \in Fds,
             Freed(n, f, s), Connected(f, m, t, x)
      PROVE  Good(m, q, c, h, i, e)
  <2>1. Good(f, q, c, h, i, e)
    BY <1>2, FreedKeeps
  <2> QED BY <1>2, <2>1, ConnectedKeeps
<1> QED BY <1>1, <1>2 DEF Replaced

(* The next package of socket fd is read.                                  *)
Read(b, fd) == [b EXCEPT ![fd] = Tail(@)]

(* Taking the first package out of an inbox.                               *)
LEMMA ConsumeKeeps ==
  ASSUME NEW n, NEW q, NEW c, NEW g, NEW b, NEW a, Good(n, q, c, g, b, a),
         NEW fd \in Fds, n.file[fd] = "app", b[fd] # <<>>,
         NEW i, i = Read(b, fd)
  PROVE  /\ Good(n, q, c, g, i, a)
         /\ i \in [Fds -> Seq(Packages)] /\ \A x \in Fds : x # fd => i[x] = b[x]
         /\ Len(i[fd]) = Len(b[fd]) - 1
         /\ \A k \in 1 .. Len(i[fd]) : i[fd][k] = b[fd][k + 1] /\ k + 1 \in 1 .. Len(b[fd])
<1>1. b \in [Fds -> Seq(Packages)] /\ g \in [Fds -> BOOLEAN] /\ a \in [Fds -> Apps]
  BY DEF Good, World
<1>2. i \in [Fds -> Seq(Packages)] /\ i[fd] = Tail(b[fd]) /\ \A x \in Fds : x # fd => i[x] = b[x]
  BY <1>1, QueueFacts DEF Read
<1>3. /\ Len(i[fd]) = Len(b[fd]) - 1 /\ Len(b[fd]) \in Nat /\ Len(i[fd]) \in Nat
      /\ \A k \in 1 .. Len(i[fd]) : i[fd][k] = b[fd][k + 1] /\ k + 1 \in 1 .. Len(b[fd])
  BY <1>1, <1>2, QueueFacts, SMTT(20)
<1>4. Flight(n, q, g, b, a, fd)
  BY DEF Good
<1>5. Flight(n, q, g, i, a, fd)
  <2>1. \A k \in 1 .. Len(i[fd]) : PackageInv(q, a[fd], fd, i[fd][k])
    BY <1>3, <1>4 DEF Flight
  <2>2. ASSUME NEW k \in 1 .. Len(i[fd]), NEW j \in 1 .. Len(i[fd])
        PROVE  /\ i[fd][k].id = i[fd][j].id
               /\ k < j => Rank[i[fd][k].type] < Rank[i[fd][j].type]
    <3>1. /\ k + 1 \in 1 .. Len(b[fd]) /\ j + 1 \in 1 .. Len(b[fd])
          /\ i[fd][k] = b[fd][k + 1] /\ i[fd][j] = b[fd][j + 1]
      BY <1>3
    <3>2. InOrder(b[fd])
      BY <1>4 DEF Flight
    <3>3. k \in Nat /\ j \in Nat
      BY <1>3, SMTT(20)
    <3>4. k < j => k + 1 < j + 1
      BY <3>3, SMTT(20)
    <3> QED BY <3>1, <3>2, <3>4 DEF InOrder
  <2> QED BY <1>4, <2>1, <2>2 DEF Flight, InOrder
<1>6. ASSUME NEW s \in Slots, n.slot[s].fd = fd PROVE SlotInv(n, q, i, a, s)
  <2>1. SlotInv(n, q, b, a, s)
    BY DEF Good
  <2>2. n.slot[s].state \notin {"READY", "SLEEPING"}
    BY <1>6, <2>1 DEF SlotInv
  <2>3. ASSUME n.slot[s].state = "SENDING" PROVE Sending(q, i[fd], a[fd], fd, n.slot[s].begin_req)
    <3>1. Sending(q, b[fd], a[fd], fd, n.slot[s].begin_req)
      BY <1>6, <2>1, <2>3 DEF SlotInv
    <3> QED BY <1>3, <3>1 DEF Sending
  <2> QED BY <1>6, <2>1, <2>2, <2>3 DEF SlotInv
<1>7. WireOnly(fd, g, b, a, g, i, a)
  BY <1>1, <1>2 DEF WireOnly
<1>8. Good(n, q, c, g, i, a)
  BY <1>5, <1>6, <1>7, WireKeeps
<1> QED BY <1>2, <1>3, <1>8

-----------------------------------------------------------------------------
(* Request structs.                                                        *)

(* A client that hangs up frees its struct, or fails it when it is in      *)
(* flight.                                                                 *)
LEMMA HangupReqFields ==
  ASSUME NEW x \in Requests, NEW y, y = HangupReq(x)
  PROVE  /\ y \in Requests /\ y.fd = NoFd
         /\ x.fcgi_fd = NoFd => y = FreeRequest
         /\ x.fcgi_fd # NoFd => y.state = "FAILED" /\ y.fcgi_fd = x.fcgi_fd
<1>1. CASE x.fcgi_fd = NoFd
  <2>1. y = FreeRequest
    BY <1>1 DEF HangupReq, Recycle
  <2> QED BY <1>1, <2>1, Values, SMTT(20) DEF FreeRequest
<1>2. CASE x.fcgi_fd # NoFd
  <2>1. PICK z : z = ReqSetState(x, "FAILED")
    OBVIOUS
  <2>2. z = [x EXCEPT !.state = "FAILED"]
    <3>1. x.state \in ReqMayBecome["FAILED"]
      BY DEF ReqMayBecome, Requests
    <3> QED BY <2>1, <3>1 DEF ReqSetState
  <2>3. z \in Requests /\ z.state = "FAILED" /\ z.fcgi_fd = x.fcgi_fd
    BY <2>2 DEF Requests, ReqStates
  <2>4. y = [z EXCEPT !.fd = NoFd, !.sr = 0]
    BY <1>2, <2>1 DEF HangupReq
  <2> QED BY <1>2, <2>3, <2>4, Numbers DEF Requests
<1> QED BY <1>1, <1>2

(* A failed struct keeps its client, its connection and its chunks.        *)
LEMMA FailedReqFields ==
  ASSUME NEW x \in Requests, NEW y, y = FailedReq(x)
  PROVE  /\ y \in Requests /\ y.state = "FAILED" /\ ~ y.sleeping
         /\ y.fd = x.fd /\ y.fcgi_fd = x.fcgi_fd /\ y.sr = x.sr /\ y.iov = x.iov
<1>1. PICK z : z = ReqSetState(x, "FAILED")
  OBVIOUS
<1>2. z = [x EXCEPT !.state = "FAILED"]
  <2>1. x.state \in ReqMayBecome["FAILED"]
    BY DEF ReqMayBecome, Requests
  <2> QED BY <1>1, <2>1 DEF ReqSetState
<1>3. /\ z \in Requests /\ z.state = "FAILED" /\ z.fcgi_fd = x.fcgi_fd
      /\ z.fd = x.fd /\ z.sr = x.sr /\ z.iov = x.iov
  BY <1>2 DEF Requests, ReqStates
<1>4. y = [z EXCEPT !.sleeping = FALSE]
  BY <1>1 DEF FailedReq
<1> QED BY <1>3, <1>4 DEF Requests

(* The plugin's hangup() of socket fd: nobody has it afterwards.           *)
LEMMA HangupKeeps ==
  ASSUME NEW n, NEW q, NEW c, NEW g, NEW b, NEW a, Good(n, q, c, g, b, a),
         NEW fd \in Fds, NEW w, w = PluginHangup(q, fd)
  PROVE  Good(n, w, c, g, b, a) /\ Unowned(w, fd)
<1>0. q \in [Reqs -> Requests] /\ fd # NoFd
  BY Numbers DEF Good, World
<1>1. CASE \A r \in Reqs : q[r].fd # fd
  <2>1. w = q
    BY <1>0, <1>1 DEF PluginHangup
  <2> QED BY <1>1, <2>1 DEF Unowned
<1>2. ASSUME NEW r \in Reqs, q[r].fd = fd
      PROVE  Good(n, w, c, g, b, a) /\ Unowned(w, fd)
  <2>1. \A p \in Reqs : p # r => q[p].fd # fd
    BY <1>0, <1>2 DEF Good, ClientInv
  <2>2. PICK y : y = HangupReq(q[r])
    OBVIOUS
  <2>3. w = PutReq(q, r, y)
    BY <1>0, <1>2, <2>1, <2>2 DEF PutReq, PluginHangup
  <2>4. /\ y \in Requests /\ y.fd = NoFd
        /\ q[r].fcgi_fd = NoFd => y = FreeRequest
        /\ q[r].fcgi_fd # NoFd => y.state = "FAILED" /\ y.fcgi_fd = q[r].fcgi_fd
    BY <1>0, <2>2, HangupReqFields
  <2>5. Owned(n, c, y)
    BY <2>4 DEF Owned
  <2>6. Sound(y)
    BY <2>4, SMTT(20) DEF Sound, FreeRequest
  <2>7. Continues(q[r], y)
    BY <2>4, Numbers DEF Continues, UnderWay
  <2>8. Good(n, w, c, g, b, a)
    BY <2>3, <2>4, <2>5, <2>6, <2>7, ReqContinues
  <2>9. w[r] = y /\ \A p \in Reqs : p # r => w[p] = q[p]
    BY <1>0, <2>3, <2>4, ReqUpdate, SMTT(20)
  <2> QED BY <1>0, <2>1, <2>4, <2>8, <2>9 DEF Unowned
<1> QED BY <1>1, <1>2

(* An update of one connection.                                            *)
PutConn(c, fd, v) == [c EXCEPT ![fd] = v]

(* Writing one connection of a client changes no other.                    *)
LEMMA ConnUpdate ==
  ASSUME NEW c \in [Fds -> Conns], NEW fd \in Fds, NEW v \in Conns,
         NEW d, d = PutConn(c, fd, v)
  PROVE  d \in [Fds -> Conns] /\ d[fd] = v /\ \A x \in Fds : x # fd => d[x] = c[x]
  BY DEF PutConn

(* The core closes the socket of a client.                                 *)
LEMMA CloseClientKeeps ==
  ASSUME NEW n, NEW q, NEW c, NEW g, NEW b, NEW a, Good(n, q, c, g, b, a),
         NEW fd \in Fds, c[fd].st # "none", Unowned(q, fd),
         NEW m, m = RemoveClient(n, fd), NEW d, d = PutConn(c, fd, NoConn)
  PROVE  Good(m, q, d, g, b, a) /\ m.exited = n.exited
<1>0. n \in Nets /\ c \in [Fds -> Conns] /\ NoConn.st = "none"
  BY DEF Good, World, NoConn
<1>1. /\ m \in Nets /\ m.event = n.event /\ m.slot = n.slot /\ m.exited = n.exited
      /\ m.file = [n.file EXCEPT ![fd] = "free"]
      /\ \A x \in Fds : x # fd => m.ep[x] = n.ep[x]
  BY <1>0, RemoveFields, SMTT(20)
<1>2. n.file[fd] # "app"
  BY DEF Good, ClientInv
<1>3. m.file[fd] = "free" /\ \A x \in Fds : x # fd => m.file[x] = n.file[x]
  <2>1. n.file \in [Fds -> {"free", "client", "app"}]
    BY <1>0 DEF Nets
  <2> QED BY <1>1, <2>1
<1>4. d \in [Fds -> Conns] /\ d[fd] = NoConn /\ \A x \in Fds : x # fd => d[x] = c[x]
  BY <1>0, ConnUpdate, Values, SMTT(20)
<1>5. ClientOnly(n, m, c, d, fd)
  BY <1>0, <1>1, <1>2, <1>3, <1>4 DEF ClientOnly
<1> QED BY <1>1, <1>5, ClientKeeps

(* The core sets the mode of a client's socket, whose connection becomes v.*)
LEMMA ModeKeeps ==
  ASSUME NEW n, NEW q, NEW c, NEW g, NEW b, NEW a, Good(n, q, c, g, b, a),
         NEW fd \in Fds, c[fd].st # "none", Unowned(q, fd),
         NEW mode \in Modes, NEW m, m = ChangeMode(n, fd, mode),
         NEW v \in Conns, v.st # "none", NEW d, d = PutConn(c, fd, v)
  PROVE  Good(m, q, d, g, b, a) /\ m.exited = n.exited
<1>0. n \in Nets /\ c \in [Fds -> Conns]
  BY DEF Good, World
<1>1. EpOnly(n, m, fd) /\ m.exited = n.exited
  BY <1>0, ModeOther, SMTT(20)
<1>2. n.file[fd] = "client"
  BY DEF Good, ClientInv
<1>3. d \in [Fds -> Conns] /\ d[fd] = v /\ \A x \in Fds : x # fd => d[x] = c[x]
  BY <1>0, ConnUpdate, SMTT(20)
<1>4. ClientOnly(n, m, c, d, fd)
  BY <1>1, <1>2, <1>3 DEF ClientOnly, EpOnly
<1> QED BY <1>1, <1>4, ClientKeeps

(* The end of a request, once no struct has the socket any more.           *)
LEMMA EndKeeps ==
  ASSUME NEW q, Good(net, q, conn, gone, inbox, app),
         NEW fd \in Fds, conn[fd].st # "none", Unowned(q, fd),
         EndRequest(net, q, fd)
  PROVE  Good(net', rs', conn', gone, inbox, app) /\ net'.exited = net.exited
<1>1. CASE /\ net' = ChangeMode(net, fd, "READ")
           /\ conn' = [conn EXCEPT ![fd] = [NoConn EXCEPT !.st = "read"]]
           /\ rs' = q
  <2>1. PICK v : v = [NoConn EXCEPT !.st = "read"]
    OBVIOUS
  <2>2. v \in Conns /\ v.st # "none"
    BY <2>1, Values DEF Conns
  <2>3. conn' = PutConn(conn, fd, v)
    BY <1>1, <2>1 DEF PutConn
  <2>4. Good(net', q, conn', gone, inbox, app) /\ net'.exited = net.exited
    <3>1. "READ" \in Modes
      BY DEF Modes
    <3>2. net' = ChangeMode(net, fd, "READ")
      BY <1>1
    <3> QED BY <2>2, <2>3, <3>1, <3>2, ModeKeeps, SMTT(20)
  <2> QED BY <1>1, <2>4
<1>2. CASE /\ net' = RemoveClient(net, fd)
           /\ rs' = PluginHangup(q, fd)
           /\ Forget(fd)
  <2>1. Good(net, rs', conn, gone, inbox, app) /\ Unowned(rs', fd)
    BY <1>2, HangupKeeps
  <2>2. conn' = PutConn(conn, fd, NoConn)
    BY <1>2 DEF Forget, PutConn
  <2> QED BY <1>2, <2>1, <2>2, CloseClientKeeps, SMTT(20)
<1> QED BY <1>1, <1>2 DEF EndRequest

-----------------------------------------------------------------------------
(* The steps of clients.                                                   *)

(* A client that is not being written to has no request struct.            *)
LEMMA OnlyWritersOwned ==
  ASSUME NEW n, NEW q, NEW c, NEW g, NEW b, NEW a, Good(n, q, c, g, b, a),
         NEW fd \in Fds, c[fd].st # "write"
  PROVE  Unowned(q, fd)
<1>1. \A r \in Reqs : Owned(n, c, q[r]) /\ fd # NoFd
  BY Numbers DEF Good, ClientInv
<1> QED BY <1>1 DEF Unowned, Owned

(* request_list_get_by_fd() finds the struct of the client, if there is    *)
(* one.                                                                    *)
LEMMA FoundByFd ==
  ASSUME IInv, NEW fd \in Fds
  PROVE  /\ GetByFd(fd) = NoReq => Unowned(rs, fd)
         /\ GetByFd(fd) # NoReq => GetByFd(fd) \in Reqs /\ rs[GetByFd(fd)].fd = fd
<1>1. CASE ByFd(fd) = {}
  BY <1>1 DEF GetByFd, ByFd, Unowned
<1>2. CASE ByFd(fd) # {}
  <2>1. ByFd(fd) \in SUBSET Reqs
    BY DEF ByFd
  <2>2. hand[1] \in Reqs
    <3>1. 1 \in Locs
      BY FastCGIAssumption, SMTT(20) DEF Locs
    <3> QED BY <3>1 DEF IInv
  <2>3. ClockFirst(hand[1], ByFd(fd)) \in ByFd(fd)
    BY <1>2, <2>1, <2>2, ClockFirstIn
  <2>4. GetByFd(fd) \in ByFd(fd)
    BY <1>2, <2>3 DEF GetByFd
  <2> QED BY <2>4, Numbers DEF ByFd
<1> QED BY <1>1, <1>2

(* The server reads a request.                                             *)
LEMMA ReadRequestKeeps ==
  ASSUME IInv, NEW fd \in Fds, ReadRequest(fd)
  PROVE  IInv' /\ net'.exited = net.exited
<1>1. Good(net, rs, conn, gone, inbox, app) /\ net \in Nets /\ conn \in [Fds -> Conns]
  BY DEF IInv, Good, World
<1>2. conn[fd].st # "write" /\ net.file[fd] # "app"
  <2>1. net.file[fd] = "free" \/ conn[fd].st = "read"
    BY DEF ReadRequest
  <2>2. conn[fd].st = "none" <=> net.file[fd] # "client"
    BY <1>1 DEF Good, ClientInv
  <2> QED BY <2>1, <2>2
<1>3. Unowned(rs, fd)
  BY <1>1, <1>2, OnlyWritersOwned
<1>4. serial' \in 0 .. MaxSerial /\ serial' = serial + 1
  BY FastCGIAssumption, SMTT(20) DEF IInv, ReadRequest
<1>5. PICK l \in Locs \cup {NoLoc} :
        conn' = [conn EXCEPT ![fd] = [st |-> "write", loc |-> l, sr |-> serial + 1]]
  BY DEF ReadRequest
<1>6. PICK v : v = [st |-> "write", loc |-> l, sr |-> serial + 1]
  OBVIOUS
<1>7. v \in Conns /\ v.st = "write"
  BY <1>4, <1>6 DEF Conns
<1>8. conn' = PutConn(conn, fd, v)
  BY <1>5, <1>6 DEF PutConn
<1>9. conn' \in [Fds -> Conns] /\ conn'[fd] = v /\ \A x \in Fds : x # fd => conn'[x] = conn[x]
  BY <1>1, <1>7, <1>8, ConnUpdate, SMTT(20)
<1>10. PICK k : k = [net EXCEPT !.file[fd] = "client"]
  OBVIOUS
<1>11. /\ k \in Nets /\ k.event = net.event /\ k.slot = net.slot /\ k.ep = net.ep
       /\ k.exited = net.exited /\ k.file[fd] = "client"
       /\ \A x \in Fds : x # fd => k.file[x] = net.file[x]
  BY <1>1, <1>10 DEF Nets
<1>12. net' = ChangeMode(k, fd, "WRITE") /\ "WRITE" \in Modes
  BY <1>10 DEF ReadRequest, Modes
<1>13. EpOnly(k, net', fd) /\ net'.exited = k.exited
  BY <1>11, <1>12, ModeOther
<1>14. ClientOnly(net, net', conn, conn', fd)
  BY <1>2, <1>7, <1>9, <1>11, <1>13 DEF ClientOnly, EpOnly
<1>15. Good(net', rs, conn', gone, inbox, app)
  BY <1>1, <1>3, <1>14, ClientKeeps
<1>16. UNCHANGED <<rs, hand, gone, inbox, app, left>>
  BY DEF ReadRequest
<1> QED BY <1>4, <1>11, <1>13, <1>15, <1>16 DEF IInv

(* A client without a request is closed.                                   *)
LEMMA IdleCloseKeeps ==
  ASSUME IInv, NEW fd \in Fds, IdleClose(fd)
  PROVE  IInv' /\ net'.exited = net.exited
<1>1. Good(net, rs, conn, gone, inbox, app) /\ conn[fd].st = "read"
  BY DEF IInv, IdleClose
<1>2. Unowned(rs, fd)
  BY <1>1, OnlyWritersOwned
<1>3. Good(net, rs', conn, gone, inbox, app) /\ Unowned(rs', fd)
  <2>1. rs' = rs \/ rs' = PluginHangup(rs, fd)
    BY DEF IdleClose
  <2> QED BY <1>1, <1>2, <2>1, HangupKeeps
<1>4. net' = RemoveClient(net, fd) /\ conn' = PutConn(conn, fd, NoConn)
  BY DEF IdleClose, Forget, PutConn
<1>5. Good(net', rs', conn', gone, inbox, app) /\ net'.exited = net.exited
  BY <1>1, <1>3, <1>4, CloseClientKeeps, SMTT(20)
<1>6. UNCHANGED <<hand, gone, inbox, app, serial, left>>
  BY DEF IdleClose
<1> QED BY <1>5, <1>6 DEF IInv

(* A client hangs up while the server waits for the application.           *)
LEMMA ClientHangupKeeps ==
  ASSUME IInv, NEW fd \in Fds, ClientHangup(fd)
  PROVE  IInv' /\ net'.exited = net.exited
<1>1. Good(net, rs, conn, gone, inbox, app) /\ conn[fd].st = "write"
  BY DEF IInv, ClientHangup
<1>2. rs' = PluginHangup(rs, fd)
  BY DEF ClientHangup
<1>3. Good(net, rs', conn, gone, inbox, app) /\ Unowned(rs', fd)
  BY <1>1, <1>2, HangupKeeps
<1>4. net' = RemoveClient(net, fd) /\ conn' = PutConn(conn, fd, NoConn)
  BY DEF ClientHangup, Forget, PutConn
<1>5. Good(net', rs', conn', gone, inbox, app) /\ net'.exited = net.exited
  BY <1>1, <1>3, <1>4, CloseClientKeeps, SMTT(20)
<1>6. UNCHANGED <<hand, gone, inbox, app, serial, left>>
  BY DEF ClientHangup
<1> QED BY <1>5, <1>6 DEF IInv

(* The request is not for this plugin.                                     *)
LEMMA NotMeKeeps ==
  ASSUME IInv, NEW fd \in Fds, NotMe(fd)
  PROVE  IInv' /\ net'.exited = net.exited
<1>1. /\ Good(net, rs, conn, gone, inbox, app) /\ conn[fd].st # "none" /\ GetByFd(fd) = NoReq
      /\ EndRequest(net, rs, fd)
  BY DEF IInv, NotMe, WriteEvent
<1>2. Unowned(rs, fd)
  BY <1>1, FoundByFd
<1>3. Good(net', rs', conn', gone, inbox, app) /\ net'.exited = net.exited
  BY <1>1, <1>2, EndKeeps
<1>4. UNCHANGED <<hand, gone, inbox, app, serial, left>>
  BY DEF NotMe, WriteEvent
<1> QED BY <1>3, <1>4 DEF IInv

(* Request struct r is taken back, together with its client's socket.      *)
LEMMA RecycleKeeps ==
  ASSUME NEW n, NEW q, NEW c, NEW g, NEW b, NEW a, Good(n, q, c, g, b, a),
         NEW r \in Reqs, NEW fd \in Fds, q[r].fd = fd,
         q[r].state = "ENDED" \/ q[r].fcgi_fd = NoFd,
         NEW w, w = PutReq(q, r, FreeRequest)
  PROVE  Good(n, w, c, g, b, a) /\ Unowned(w, fd)
<1>0. q \in [Reqs -> Requests] /\ fd # NoFd
  BY Numbers DEF Good, World
<1>1. FreeRequest \in Requests /\ FreeRequest.fd = NoFd
  BY Values DEF FreeRequest
<1>2. Owned(n, c, FreeRequest)
  BY <1>1 DEF Owned
<1>3. Sound(FreeRequest)
  BY DEF Sound, FreeRequest
<1>4. Continues(q[r], FreeRequest)
  BY Numbers DEF Continues, UnderWay
<1>5. Good(n, w, c, g, b, a)
  BY <1>1, <1>2, <1>3, <1>4, ReqContinues
<1>6. w[r] = FreeRequest /\ \A p \in Reqs : p # r => w[p] = q[p]
  BY <1>0, <1>1, ReqUpdate, SMTT(20)
<1>7. \A p \in Reqs : p # r => q[p].fd # fd
  BY <1>0 DEF Good, ClientInv
<1> QED BY <1>0, <1>1, <1>5, <1>6, <1>7 DEF Unowned

(* Stage 30 sends the error page of a failed request.                      *)
LEMMA SendFailureKeeps ==
  ASSUME IInv, NEW fd \in Fds, SendFailure(fd)
  PROVE  IInv' /\ net'.exited = net.exited
<1>0. Good(net, rs, conn, gone, inbox, app) /\ rs \in [Reqs -> Requests]
  BY DEF IInv, Good, World
<1>1. PICK r : r = GetByFd(fd)
  OBVIOUS
<1>2. r # NoReq /\ rs[r].state = "FAILED" /\ conn[fd].st # "none"
  BY <1>1 DEF SendFailure, WriteEvent
<1>3. r \in Reqs /\ rs[r].fd = fd
  BY <1>1, <1>2, FoundByFd
<1>4. rs[r].fcgi_fd = NoFd
  <2>1. Owned(net, conn, rs[r]) /\ fd # NoFd
    BY <1>0, <1>3, Numbers DEF Good, ClientInv
  <2> QED BY <1>2, <1>3, <2>1 DEF Owned
<1>5. PICK w : w = PutReq(rs, r, FreeRequest)
  OBVIOUS
<1>6. EndRequest(net, w, fd)
  <2>1. w = [rs EXCEPT ![r] = Recycle(@)]
    BY <1>5 DEF PutReq, Recycle
  <2> QED BY <1>1, <1>4, <2>1 DEF SendFailure
<1>7. Good(net, w, conn, gone, inbox, app) /\ Unowned(w, fd)
  BY <1>0, <1>3, <1>4, <1>5, RecycleKeeps
<1>8. Good(net', rs', conn', gone, inbox, app) /\ net'.exited = net.exited
  BY <1>2, <1>6, <1>7, EndKeeps
<1>9. UNCHANGED <<hand, gone, inbox, app, serial, left>>
  BY DEF SendFailure, WriteEvent
<1> QED BY <1>8, <1>9 DEF IInv

(* Stage 30 sends the answer that was received.                            *)
LEMMA SendAnswerKeeps ==
  ASSUME IInv, NEW fd \in Fds, SendAnswer(fd)
  PROVE  IInv' /\ net'.exited = net.exited
<1>0. Good(net, rs, conn, gone, inbox, app) /\ rs \in [Reqs -> Requests]
  BY DEF IInv, Good, World
<1>1. PICK r : r = GetByFd(fd)
  OBVIOUS
<1>2. r # NoReq /\ rs[r].state = "ENDED" /\ conn[fd].st # "none"
  BY <1>1 DEF SendAnswer, WriteEvent
<1>3. r \in Reqs /\ rs[r].fd = fd
  BY <1>1, <1>2, FoundByFd
<1>4. Owned(net, conn, rs[r]) /\ Sound(rs[r]) /\ fd # NoFd
      /\ \A p \in Reqs : p # r => rs[p].fd # fd
  BY <1>0, <1>3, Numbers DEF Good, ClientInv
<1>5. UNCHANGED <<hand, gone, inbox, app, serial, left>>
  BY DEF SendAnswer, WriteEvent
<1>6. CASE EndRequest(net, [rs EXCEPT ![r] = Recycle(@)], fd)
  <2>1. PICK w : w = PutReq(rs, r, FreeRequest)
    OBVIOUS
  <2>2. EndRequest(net, w, fd)
    <3>1. w = [rs EXCEPT ![r] = Recycle(@)]
      BY <2>1 DEF PutReq, Recycle
    <3> QED BY <1>6, <3>1
  <2>3. Good(net, w, conn, gone, inbox, app) /\ Unowned(w, fd)
    BY <1>0, <1>2, <1>3, <2>1, RecycleKeeps
  <2>4. Good(net', rs', conn', gone, inbox, app) /\ net'.exited = net.exited
    BY <1>2, <2>2, <2>3, EndKeeps
  <2> QED BY <1>5, <2>4 DEF IInv
<1>7. CASE rs' = [rs EXCEPT ![r].headers_sent = TRUE] /\ UNCHANGED <<net, conn>>
  <2>1. PICK y : y = [rs[r] EXCEPT !.headers_sent = TRUE]
    OBVIOUS
  <2>2. rs' = PutReq(rs, r, y)
    BY <1>7, <2>1 DEF PutReq
  <2>3. /\ y \in Requests /\ y.fd = rs[r].fd /\ y.fcgi_fd = rs[r].fcgi_fd /\ y.sr = rs[r].sr
        /\ y.iov = rs[r].iov /\ y.state = "ENDED" /\ (y.sleeping <=> rs[r].sleeping)
    <3>1. rs[r] \in Requests
      BY <1>0, <1>3
    <3> QED BY <1>2, <2>1, <3>1 DEF Requests
  <2>4. Owned(net, conn, y) /\ Sound(y) /\ Continues(rs[r], y)
    BY <1>2, <1>3, <1>4, <2>3 DEF Owned, Sound, Continues, UnderWay
  <2>5. Good(net, rs', conn, gone, inbox, app)
    BY <1>0, <1>3, <1>4, <2>2, <2>3, <2>4, ReqContinues
  <2> QED BY <1>5, <1>7, <2>5 DEF IInv
<1>8. CASE /\ rs' = PluginHangup([rs EXCEPT ![r] = FailedReq(@)], fd)
           /\ net' = RemoveClient(FailNet(net, rs[r]), fd)
           /\ Forget(fd)
  <2>1. PICK y : y = FailedReq(rs[r])
    OBVIOUS
  <2>2. PICK z : z = HangupReq(y)
    OBVIOUS
  <2>3. y \in Requests /\ y.fd = fd /\ y.fcgi_fd = rs[r].fcgi_fd
    BY <1>0, <1>3, <2>1, FailedReqFields
  <2>4. /\ z \in Requests /\ z.fd = NoFd
        /\ y.fcgi_fd = NoFd => z = FreeRequest
        /\ y.fcgi_fd # NoFd => z.state = "FAILED" /\ z.fcgi_fd = y.fcgi_fd
    BY <2>2, <2>3, HangupReqFields
  <2>5. rs' = PutReq(rs, r, z)
    <3>1. rs' = PluginHangup(PutReq(rs, r, y), fd)
      BY <1>8, <2>1 DEF PutReq
    <3>2. PICK u : u = PutReq(rs, r, y)
      OBVIOUS
    <3>3. u \in [Reqs -> Requests] /\ u[r] = y /\ \A p \in Reqs : p # r => u[p] = rs[p]
      BY <1>0, <1>3, <2>3, <3>2, ReqUpdate, SMTT(20)
    <3>4. PluginHangup(u, fd) = [p \in Reqs |-> IF p = r THEN z ELSE rs[p]]
      BY <1>4, <2>2, <2>3, <3>3 DEF PluginHangup
    <3>5. PutReq(rs, r, z) = [p \in Reqs |-> IF p = r THEN z ELSE rs[p]]
      BY <1>0, <1>3 DEF PutReq
    <3> QED BY <3>1, <3>2, <3>4, <3>5
  <2>6. Owned(net, conn, z) /\ Sound(z) /\ Continues(rs[r], z)
    <3>1. Owned(net, conn, z)
      BY <2>4 DEF Owned
    <3>2. Sound(z)
      BY <2>4, SMTT(20) DEF Sound, FreeRequest
    <3>3. Continues(rs[r], z)
      BY <1>2, Numbers DEF Continues, UnderWay
    <3> QED BY <3>1, <3>2, <3>3
  <2>7. Good(net, rs', conn, gone, inbox, app)
    BY <1>0, <1>3, <2>4, <2>5, <2>6, ReqContinues
  <2>8. Unowned(rs', fd)
    <3>1. rs'[r] = z /\ \A p \in Reqs : p # r => rs'[p] = rs[p]
      BY <1>0, <1>3, <2>4, <2>5, ReqUpdate, SMTT(20)
    <3> QED BY <1>3, <1>4, <2>4, <3>1 DEF Unowned
  <2>9. net' = RemoveClient(net, fd) /\ conn' = PutConn(conn, fd, NoConn)
    <3>1. ~ rs[r].sleeping
      BY <1>2, <1>4 DEF Sound
    <3>2. FailNet(net, rs[r]) = net
      BY <3>1 DEF FailNet
    <3> QED BY <1>8, <3>2 DEF Forget, PutConn
  <2>10. Good(net', rs', conn', gone, inbox, app) /\ net'.exited = net.exited
    BY <1>2, <2>7, <2>8, <2>9, CloseClientKeeps, SMTT(20)
  <2> QED BY <1>5, <2>10 DEF IInv
<1> QED BY <1>1, <1>6, <1>7, <1>8 DEF SendAnswer

-----------------------------------------------------------------------------
(* A request is assigned.                                                  *)

(* The fields request_assign(), the chunks and the flags set.              *)
Assign(x, fd, l, k) == [ReqSetState(x, "ASSIGNED") EXCEPT !.fd = fd, !.loc = l, !.sr = k]
PutIov(x, v)   == [x EXCEPT !.iov = v]
PutAsleep(x) == [x EXCEPT !.sleeping = TRUE]
PutAwake(x)  == [x EXCEPT !.sleeping = FALSE]

(* The fields request_assign() sets.                                       *)
LEMMA AssignFields ==
  ASSUME NEW x \in Requests, x = FreeRequest,
         NEW fd \in Fds, NEW l \in Locs, NEW k \in 0 .. MaxSerial,
         NEW y, y = Assign(x, fd, l, k)
  PROVE  /\ y \in Requests /\ y.state = "ASSIGNED" /\ ~ y.sleeping
         /\ y.fd = fd /\ y.fcgi_fd = NoFd /\ y.sr = k /\ y.iov.holds = "nothing"
<1>0. PICK z : z = ReqSetState(x, "ASSIGNED")
  OBVIOUS
<1>1. /\ x.state = "AVAILABLE" /\ ~ x.sleeping /\ x.fcgi_fd = NoFd /\ x.iov.holds = "nothing"
  BY DEF FreeRequest, NoIov
<1>2. z = [x EXCEPT !.state = "ASSIGNED"]
  <2>1. x.state \in ReqMayBecome["ASSIGNED"]
    BY <1>1 DEF ReqMayBecome
  <2> QED BY <1>0, <2>1 DEF ReqSetState
<1>3. /\ z \in Requests /\ z.state = "ASSIGNED" /\ (z.sleeping <=> x.sleeping)
      /\ z.fcgi_fd = x.fcgi_fd /\ z.iov = x.iov
  BY <1>2 DEF Requests, ReqStates
<1>4. y = [z EXCEPT !.fd = fd, !.loc = l, !.sr = k]
  BY <1>0 DEF Assign
<1>5. y \in Requests
  BY <1>3, <1>4 DEF Requests
<1>6. y.fd = fd /\ y.sr = k
  BY <1>3, <1>4 DEF Requests
<1>7. y.state = z.state /\ (y.sleeping <=> z.sleeping) /\ y.fcgi_fd = z.fcgi_fd /\ y.iov = z.iov
  BY <1>3, <1>4 DEF Requests
<1> QED BY <1>1, <1>3, <1>5, <1>6, <1>7

(* The chunks of a struct are replaced.                                    *)
LEMMA IovFields ==
  ASSUME NEW x \in Requests, NEW v \in Iovs, NEW y, y = PutIov(x, v)
  PROVE  /\ y \in Requests /\ y.state = x.state /\ (y.sleeping <=> x.sleeping)
         /\ y.fd = x.fd /\ y.fcgi_fd = x.fcgi_fd /\ y.sr = x.sr /\ y.iov = v
  BY DEF Requests, PutIov

(* The client of a struct is put to sleep.                                 *)
LEMMA SleepingFields ==
  ASSUME NEW x \in Requests, NEW y, y = PutAsleep(x)
  PROVE  /\ y \in Requests /\ y.state = x.state /\ y.sleeping
         /\ y.fd = x.fd /\ y.fcgi_fd = x.fcgi_fd /\ y.sr = x.sr /\ y.iov = x.iov
  BY DEF Requests, PutAsleep

(* The client of a struct is awake.                                        *)
LEMMA WokenFields ==
  ASSUME NEW x \in Requests, NEW y, y = PutAwake(x)
  PROVE  /\ y \in Requests /\ y.state = x.state /\ ~ y.sleeping
         /\ y.fd = x.fd /\ y.fcgi_fd = x.fcgi_fd /\ y.sr = x.sr /\ y.iov = x.iov
  BY DEF Requests, PutAwake

(* fcgi_wake_connection() finds the socket it wakes asleep.                *)
LEMMA WakeKeeps ==
  ASSUME NEW n, NEW q, NEW c, NEW g, NEW b, NEW a, Good(n, q, c, g, b, a),
         NEW l \in Locs, Awake(n, l) # {}, NEW m, m = WakeConnection(n, l)
  PROVE  Good(m, q, c, g, b, a) /\ m.exited = n.exited
<1>0. n \in Nets
  BY DEF Good, World
<1>1. PICK s : s = Min(Awake(n, l))
  OBVIOUS
<1>2. s \in Slots /\ n.slot[s].state \in {"SLEEPING", "READY"}
  <2>1. s \in Awake(n, l)
    BY <1>1, MinIn, Numbers DEF Awake, FdList
  <2> QED BY <2>1 DEF Awake, FdList
<1>3. CASE n.slot[s].state # "SLEEPING"
  <2>1. m = n
    BY <1>1, <1>3 DEF WakeConnection
  <2> QED BY <2>1
<1>4. CASE n.slot[s].state = "SLEEPING"
  <2>1. PICK fd : fd = n.slot[s].fd
    OBVIOUS
  <2>2. fd \in Fds /\ n.ep[fd].asleep
    <3>1. SlotTable(n, s) /\ fd \in Fds \cup {NoFd}
      BY <1>0, <1>2, <2>1 DEF Good, Tables, Nets, FcgiFds
    <3> QED BY <1>4, <2>1, <3>1 DEF SlotTable
  <2>3. PICK k : k = ChangeMode(n, fd, "WAKEUP")
    OBVIOUS
  <2>4. EpOnly(n, k, fd) /\ ~ k.ep[fd].asleep /\ k.exited = n.exited
    BY <1>0, <2>2, <2>3, ModeWakeup
  <2>5. m = FdSetState(k, s, "READY")
    BY <1>1, <1>4, <2>1, <2>3 DEF WakeConnection
  <2>6. "SLEEPING" \in FdMayBecome["READY"] /\ "READY" \in FdStates
    BY DEF FdMayBecome, FdStates
  <2>7. k \in Nets /\ k.slot = n.slot
    BY <2>4 DEF EpOnly
  <2>8. SlotOnly(k, m, s) /\ m.slot[s].state = "READY"
    BY <1>2, <1>4, <2>5, <2>6, <2>7, SetStateFields, SMTT(20)
  <2>9. ConnectionOnly(n, m, s, fd) /\ m.exited = n.exited
    <3>1. /\ m \in Nets /\ m.file = k.file /\ m.event = k.event /\ m.ep = k.ep /\ m.exited = k.exited
          /\ m.slot[s].fd = k.slot[s].fd /\ \A t \in Slots : t # s => m.slot[t] = k.slot[t]
      BY <2>8 DEF SlotOnly
    <3>2. /\ k.file = n.file /\ k.event = n.event
          /\ \A x \in Fds : x # fd => k.ep[x] = n.ep[x]
      BY <2>4 DEF EpOnly
    <3>3. m.slot[s].fd = fd /\ \A t \in Slots : t # s => m.slot[t] = n.slot[t]
      BY <2>1, <2>7, <3>1
    <3>4. m.file = n.file /\ m.event = n.event /\ m.exited = n.exited
          /\ \A x \in Fds : x # fd => m.ep[x] = n.ep[x]
      BY <2>4, <3>1, <3>2
    <3>5. m.slot[s].state # "SLEEPING" /\ m.slot[s].state # "AVAILABLE" /\ ~ m.ep[fd].asleep
      BY <2>4, <2>8, <3>1
    <3> QED BY <2>1, <3>1, <3>3, <3>4, <3>5 DEF ConnectionOnly
  <2>10. SlotInv(m, q, b, a, s)
    <3>1. b[fd] = <<>> /\ a[fd].id = NoReq
      BY <1>2, <1>4, <2>1 DEF Good, SlotInv
    <3>2. m.slot[s].fd = fd
      BY <2>9 DEF ConnectionOnly
    <3> QED BY <2>8, <3>1, <3>2 DEF SlotInv
  <2> QED BY <1>2, <2>2, <2>9, <2>10, SlotKeeps
<1> QED BY <1>3, <1>4

(* Connecting a slot keeps the invariant.                                  *)
LEMMA NewConnectionKeeps ==
  ASSUME NEW n, NEW q, NEW c, NEW g, NEW b, NEW a, Good(n, q, c, g, b, a),
         NEW l \in Locs, NEW ok \in BOOLEAN, NEW m, m = NewConnection(n, l, ok)
  PROVE  Good(m, q, c, g, b, a) /\ m.exited = n.exited
<1>0. n \in Nets
  BY DEF Good, World
<1>1. m = n \/ \E s \in Slots, fd \in Fds : Connected(n, m, s, fd)
  BY <1>0, NewConnectionFields
<1>2. ASSUME NEW s \in Slots, NEW fd \in Fds, Connected(n, m, s, fd)
      PROVE  Good(m, q, c, g, b, a) /\ m.exited = n.exited
  <2>1. m.exited = n.exited
    BY <1>2 DEF Connected
  <2> QED BY <1>2, <2>1, ConnectedKeeps
<1> QED BY <1>1, <1>2

(* y is a request of the client on socket fd, to be sent or failed.        *)
Assignment(n, c, fd, y) ==
  /\ y \in Requests /\ y.fd = fd /\ y.sr = c[fd].sr /\ y.fcgi_fd = NoFd
  /\ y.iov.holds # "nothing" => y.iov.of = y.sr
  /\ y.sleeping => n.ep[fd].asleep
  /\ y.state = "FAILED" \/ (y.state = "ASSIGNED" /\ y.iov.holds = "request")

(* The request struct r nobody uses becomes y, of the client on socket fd. *)
LEMMA AssignedKeeps ==
  ASSUME NEW n, NEW q, NEW c, NEW g, NEW b, NEW a, Good(n, q, c, g, b, a),
         NEW fd \in Fds, c[fd].st = "write", Unowned(q, fd),
         NEW r \in Reqs, q[r].state = "AVAILABLE",
         NEW y, Assignment(n, c, fd, y),
         NEW w, w = PutReq(q, r, y)
  PROVE  Good(n, w, c, g, b, a)
<1>0. y \in Requests
  BY DEF Assignment
<1>1. Owned(n, c, y)
  BY DEF Owned, Assignment
<1>2. Sound(y)
  BY Numbers DEF Sound, Assignment
<1>3. Continues(q[r], y)
  BY DEF Continues, UnderWay
<1>4. \A p \in Reqs : q[p].fd # y.fd
  BY DEF Unowned, Assignment
<1> QED BY <1>0, <1>1, <1>2, <1>3, <1>4, ReqContinues

(* A request that could not be prepared is failed at once.                 *)
LEMMA FailedKeeps ==
  ASSUME NEW n, NEW q, NEW c, NEW g, NEW b, NEW a, Good(n, q, c, g, b, a),
         NEW fd \in Fds, c[fd].st = "write", Unowned(q, fd),
         NEW r \in Reqs, q[r].state = "AVAILABLE",
         NEW x \in Requests, x.fd = fd, x.sr = c[fd].sr, x.fcgi_fd = NoFd,
         x.iov.holds # "nothing" => x.iov.of = x.sr,
         NEW w, w = PutReq(q, r, FailedReq(x))
  PROVE  Good(n, w, c, g, b, a)
<1>1. PICK y : y = FailedReq(x)
  OBVIOUS
<1>2. /\ y \in Requests /\ y.state = "FAILED" /\ ~ y.sleeping
      /\ y.fd = x.fd /\ y.fcgi_fd = x.fcgi_fd /\ y.sr = x.sr /\ y.iov = x.iov
  BY <1>1, FailedReqFields
<1>3. w = PutReq(q, r, y)
  BY <1>1
<1>4. Assignment(n, c, fd, y)
  <2>1. y.sr = c[fd].sr /\ y.fd = fd /\ y.fcgi_fd = NoFd
    BY <1>2
  <2>2. y.iov.holds # "nothing" => y.iov.of = y.sr
    BY <1>2
  <2>3. y.sleeping => n.ep[fd].asleep
    BY <1>2
  <2>4. y.state = "FAILED" /\ y \in Requests
    BY <1>2
  <2> QED BY <2>1, <2>2, <2>3, <2>4 DEF Assignment
<1> QED BY <1>3, <1>4, AssignedKeeps

(* _mkp_stage_30() keeps the invariant, whichever way it ends.             *)
LEMMA Stage30Keeps ==
  ASSUME IInv, NEW fd \in Fds, Stage30(fd)
  PROVE  IInv' /\ net'.exited = net.exited
<1>0. /\ Good(net, rs, conn, gone, inbox, app) /\ rs \in [Reqs -> Requests]
      /\ conn \in [Fds -> Conns] /\ net \in Nets
  BY DEF IInv, Good, World
<1>1. conn[fd].st = "write" /\ GetByFd(fd) = NoReq /\ conn[fd].loc # NoLoc /\ Available # {}
  BY DEF Stage30, WriteEvent
<1>2. Unowned(rs, fd)
  BY <1>1, FoundByFd
<1>3. PICK l, r, k : l = conn[fd].loc /\ r = ClockFirst(hand[l], Available) /\ k = conn[fd].sr
  OBVIOUS
<1>4. l \in Locs /\ k \in 0 .. MaxSerial
  BY <1>0, <1>1, <1>3 DEF Conns
<1>5. r \in Reqs /\ rs[r].state = "AVAILABLE"
  <2>1. hand[l] \in Reqs
    BY <1>4 DEF IInv
  <2>2. Available \in SUBSET Reqs
    BY DEF Available
  <2>3. r \in Available
    BY <1>1, <1>3, <2>1, <2>2, ClockFirstIn
  <2> QED BY <2>3 DEF Available
<1>6. rs[r] = FreeRequest /\ rs[r] \in Requests
  BY <1>0, <1>5 DEF Good, ClientInv, Sound
<1>7. PICK q, v, set : /\ q = Assign(rs[r], fd, l, k)
                       /\ v = [holds |-> "request", of |-> k]
                       /\ set = PutIov(q, v)
  OBVIOUS
<1>8. \/ rs' = PutReq(rs, r, FailedReq(q)) /\ net' = net
      \/ rs' = PutReq(rs, r, FailedReq(set)) /\ net' = net
      \/ \E ok \in BOOLEAN : \E m :
           /\ (m = WakeConnection(net, l) /\ Awake(net, l) # {}) \/ m = NewConnection(net, l, ok)
           /\ rs' = PutReq(rs, r, PutAsleep(set))
           /\ net' = ChangeMode(m, fd, "SLEEP")
  BY Zenon, <1>3, <1>7 DEF Stage30, PutReq, Assign, PutIov, PutAsleep
<1>9. UNCHANGED <<hand, conn, gone, inbox, app, serial, left>>
  BY DEF Stage30, WriteEvent
<1>10. /\ q \in Requests /\ q.state = "ASSIGNED" /\ ~ q.sleeping
       /\ q.fd = fd /\ q.fcgi_fd = NoFd /\ q.sr = k /\ q.iov.holds = "nothing"
  <2>1. q = Assign(rs[r], fd, l, k)
    BY <1>7
  <2> QED BY <1>4, <1>6, <2>1, AssignFields, SMTT(20)
<1>11. v \in Iovs /\ v.holds = "request" /\ v.of = k
  BY <1>4, <1>7 DEF Iovs
<1>12. /\ set \in Requests /\ set.state = "ASSIGNED" /\ ~ set.sleeping
       /\ set.fd = fd /\ set.fcgi_fd = NoFd /\ set.sr = k /\ set.iov = v
  <2>1. set = PutIov(q, v)
    BY <1>7
  <2>2. q \in Requests /\ v \in Iovs
    BY <1>10, <1>11
  <2> QED BY <1>10, <2>1, <2>2, IovFields, SMTT(20)
<1>13. ASSUME NEW x \in {q, set}, rs' = PutReq(rs, r, FailedReq(x)), net' = net
       PROVE  Good(net', rs', conn, gone, inbox, app) /\ net'.exited = net.exited
  <2>1. x \in Requests /\ x.fd = fd /\ x.fcgi_fd = NoFd /\ x.sr = conn[fd].sr
    BY <1>3, <1>10, <1>12
  <2>2. x.iov.holds # "nothing" => x.iov.of = x.sr
    BY <1>10, <1>11, <1>12
  <2>3. rs' = PutReq(rs, r, FailedReq(x))
    BY <1>13
  <2>4. Good(net, rs', conn, gone, inbox, app)
    BY <1>0, <1>1, <1>2, <1>5, <2>1, <2>2, <2>3, FailedKeeps
  <2> QED BY <1>13, <2>4
<1>14. ASSUME NEW ok \in BOOLEAN, NEW m,
              (m = WakeConnection(net, l) /\ Awake(net, l) # {}) \/ m = NewConnection(net, l, ok),
              rs' = PutReq(rs, r, PutAsleep(set)),
              net' = ChangeMode(m, fd, "SLEEP")
       PROVE  Good(net', rs', conn, gone, inbox, app) /\ net'.exited = net.exited
  <2>1. Good(m, rs, conn, gone, inbox, app) /\ m.exited = net.exited
    BY <1>0, <1>4, <1>14, WakeKeeps, NewConnectionKeeps, SMTT(20)
  <2>2. m \in Nets /\ m.file[fd] = "client"
    BY <1>1, <2>1 DEF Good, World, ClientInv
  <2>3. EpOnly(m, net', fd) /\ net'.ep[fd].asleep /\ net'.exited = m.exited
    BY <1>14, <2>2, ModeSleep
  <2>4. ClientOnly(m, net', conn, conn, fd)
    BY <1>0, <1>1, <2>2, <2>3 DEF ClientOnly, EpOnly
  <2>5. Good(net', rs, conn, gone, inbox, app)
    BY <1>2, <2>1, <2>4, ClientKeeps
  <2>6. PICK y : y = PutAsleep(set)
    OBVIOUS
  <2>7. /\ y \in Requests /\ y.state = "ASSIGNED" /\ y.sleeping
        /\ y.fd = fd /\ y.fcgi_fd = NoFd /\ y.sr = k /\ y.iov = v
    <3>1. set \in Requests
      BY <1>12
    <3> QED BY <1>12, <2>6, <3>1, SleepingFields
  <2>8. rs' = PutReq(rs, r, y)
    BY <1>14, <2>6
  <2>9. Good(net', rs', conn, gone, inbox, app)
    <3>1. Assignment(net', conn, fd, y)
      BY <1>3, <1>11, <2>3, <2>7 DEF Assignment
    <3> QED BY <1>1, <1>2, <1>5, <2>5, <2>8, <3>1, AssignedKeeps
  <2> QED BY <2>1, <2>3, <2>9
<1>15. Good(net', rs', conn, gone, inbox, app) /\ net'.exited = net.exited
  BY <1>8, <1>13, <1>14
<1> QED BY <1>9, <1>15 DEF IInv

-----------------------------------------------------------------------------
(* The connections to the application.                                     *)

(* Both ends of a closed connection forget it.                             *)
LEMMA Disconnected ==
  ASSUME gone \in [Fds -> BOOLEAN], inbox \in [Fds -> Seq(Packages)], app \in [Fds -> Apps],
         NEW fd \in Fds, Disconnect(fd)
  PROVE  Cut(fd, gone, inbox, app, gone', inbox', app')
<1>1. <<>> \in Seq(Packages) /\ Idle \in Apps /\ Idle.id = NoReq
  BY Values, SMTT(20) DEF Idle
<1>2. /\ inbox' \in [Fds -> Seq(Packages)] /\ inbox'[fd] = <<>>
      /\ \A x \in Fds : x # fd => inbox'[x] = inbox[x]
  BY <1>1 DEF Disconnect
<1>3. /\ app' \in [Fds -> Apps] /\ app'[fd] = Idle
      /\ \A x \in Fds : x # fd => app'[x] = app[x]
  BY <1>1 DEF Disconnect
<1>4. /\ gone' \in [Fds -> BOOLEAN] /\ ~ gone'[fd]
      /\ \A x \in Fds : x # fd => gone'[x] = gone[x]
  BY DEF Disconnect
<1> QED BY <1>1, <1>2, <1>3, <1>4 DEF Cut, WireOnly

(* A slot in use has a socket of its own.                                  *)
LEMMA SlotSocket ==
  ASSUME NEW n, NEW q, NEW c, NEW g, NEW b, NEW a, Good(n, q, c, g, b, a),
         NEW s \in Slots, NEW fd, fd = n.slot[s].fd, fd # NoFd \/ n.slot[s].state # "AVAILABLE"
  PROVE  /\ fd \in Fds /\ n.file[fd] = "app" /\ n.slot[s] \in FcgiFds
         /\ n.slot[s].state # "AVAILABLE"
         /\ n.slot[s].state = "SLEEPING" <=> n.ep[fd].asleep
         /\ \A t \in Slots : n.slot[t].fd = fd => t = s
<1>1. n.slot[s] \in FcgiFds /\ SlotTable(n, s)
  BY DEF Good, World, Nets, Tables
<1>2. fd \in Fds \cup {NoFd}
  BY <1>1 DEF FcgiFds
<1>3. fd # NoFd /\ n.slot[s].state # "AVAILABLE"
  BY <1>1 DEF SlotTable
<1> QED BY <1>1, <1>2, <1>3 DEF SlotTable

BeginReq(n, s, v) == [n EXCEPT !.slot[s].begin_req = v]

(* The request a slot is sending is recorded in the slot.                  *)
LEMMA BeginReqFields ==
  ASSUME NEW n \in Nets, NEW s \in Slots, NEW v \in Reqs \cup {NoReq}, NEW m, m = BeginReq(n, s, v)
  PROVE  /\ SlotOnly(n, m, s) /\ m.slot[s].begin_req = v
         /\ m.slot[s].state = n.slot[s].state
<1>1. PICK k : k = [n.slot[s] EXCEPT !.begin_req = v]
  OBVIOUS
<1>2. n.slot[s] \in FcgiFds
  BY DEF Nets
<1>3. k \in FcgiFds /\ k.begin_req = v /\ k.fd = n.slot[s].fd /\ k.state = n.slot[s].state
  BY <1>1, <1>2 DEF FcgiFds
<1>4. m = PutSlot(n, s, k)
  BY <1>1 DEF BeginReq, PutSlot
<1> QED BY <1>3, <1>4, SlotUpdate, SMTT(20) DEF SlotOnly

(* Slot s, on socket fd, may take state st, in which it does not sleep.    *)
MayAdvance(n, s, fd, st) ==
  /\ n \in Nets /\ n.slot[s].fd = fd /\ fd \in Fds /\ ~ n.ep[fd].asleep
  /\ st \in FdStates /\ n.slot[s].state \in FdMayBecome[st]
  /\ st # "AVAILABLE" /\ st # "SLEEPING"

(* fcgi_fd_set_state() followed by a change of begin_req.                  *)
LEMMA AdvanceFields ==
  ASSUME NEW n, NEW s \in Slots, NEW fd, NEW st, MayAdvance(n, s, fd, st),
         NEW v \in Reqs \cup {NoReq},
         NEW m, m = BeginReq(FdSetState(n, s, st), s, v)
  PROVE  /\ ConnectionOnly(n, m, s, fd) /\ m.exited = n.exited
         /\ m.slot[s].state = st /\ m.slot[s].begin_req = v
<1>0. n \in Nets /\ st \in FdStates /\ n.slot[s].state \in FdMayBecome[st]
  BY DEF MayAdvance
<1>1. PICK k : k = FdSetState(n, s, st)
  OBVIOUS
<1>2. SlotOnly(n, k, s) /\ k.slot[s].state = st
  BY <1>0, <1>1, SetStateFields, SMTT(20)
<1>3. k \in Nets
  BY <1>2 DEF SlotOnly
<1>4. m = BeginReq(k, s, v)
  BY <1>1
<1>5. SlotOnly(k, m, s) /\ m.slot[s].begin_req = v /\ m.slot[s].state = st
  BY <1>2, <1>3, <1>4, BeginReqFields, SMTT(20)
<1>6. /\ fd \in Fds /\ ~ n.ep[fd].asleep /\ n.slot[s].fd = fd
      /\ st # "AVAILABLE" /\ st # "SLEEPING"
  BY DEF MayAdvance
<1>7. /\ m \in Nets /\ m.file = n.file /\ m.event = n.event /\ m.ep = n.ep
      /\ m.exited = n.exited /\ m.slot[s].fd = n.slot[s].fd
      /\ \A t \in Slots : t # s => m.slot[t] = n.slot[t]
  BY <1>2, <1>5 DEF SlotOnly
<1>8. ConnectionOnly(n, m, s, fd)
  BY <1>5, <1>6, <1>7 DEF ConnectionOnly
<1> QED BY <1>5, <1>7, <1>8

(* request_list_next_assigned() gives request struct x the socket fd.      *)
Begin(x, fd) == [ReqSetState(x, "SENT") EXCEPT !.fcgi_fd = fd]

(* A request that is sent names its connection.                            *)
LEMMA BeginFields ==
  ASSUME NEW x \in Requests, x.state = "ASSIGNED", NEW fd \in Fds, NEW y, y = Begin(x, fd)
  PROVE  /\ y \in Requests /\ y.state = "SENT" /\ (y.sleeping <=> x.sleeping)
         /\ y.fd = x.fd /\ y.fcgi_fd = fd /\ y.sr = x.sr /\ y.iov = x.iov
<1>0. PICK z : z = ReqSetState(x, "SENT")
  OBVIOUS
<1>1. z = [x EXCEPT !.state = "SENT"]
  <2>1. x.state \in ReqMayBecome["SENT"]
    BY DEF ReqMayBecome
  <2> QED BY <1>0, <2>1 DEF ReqSetState
<1>2. /\ z \in Requests /\ z.state = "SENT" /\ (z.sleeping <=> x.sleeping)
      /\ z.fd = x.fd /\ z.sr = x.sr /\ z.iov = x.iov
  BY <1>1 DEF Requests, ReqStates
<1>3. y = [z EXCEPT !.fcgi_fd = fd]
  BY <1>0 DEF Begin
<1>4. y \in Requests /\ y.fcgi_fd = fd
  BY <1>2, <1>3 DEF Requests
<1>5. y.state = z.state /\ (y.sleeping <=> z.sleeping) /\ y.fd = z.fd /\ y.sr = z.sr /\ y.iov = z.iov
  BY <1>2, <1>3 DEF Requests
<1> QED BY <1>2, <1>4, <1>5

(* A request that is not under way anywhere.                               *)
LEMMA NotUnderWay ==
  ASSUME NEW n, NEW q, NEW c, NEW g, NEW b, NEW a, Good(n, q, c, g, b, a),
         NEW r \in Reqs, \A fd \in Fds : ~ UnderWay(q[r], fd)
  PROVE  Detached(n, b, a, r)
<1>1. ASSUME NEW fd \in Fds, NEW i \in 1 .. Len(b[fd]), b[fd][i].id = r PROVE FALSE
  BY <1>1 DEF Good, Flight, PackageInv
<1>2. ASSUME NEW fd \in Fds, a[fd].id = r PROVE FALSE
  BY <1>2, Numbers DEF Good, Flight, AppInv
<1>3. ASSUME NEW s \in Slots, n.slot[s].state = "SENDING", n.slot[s].begin_req = r PROVE FALSE
  <2>1. n.slot[s].fd \in Fds
    BY <1>3, SlotSocket, SMTT(20)
  <2>2. SlotInv(n, q, b, a, s)
    BY DEF Good
  <2> QED BY <1>3, <2>1, <2>2 DEF SlotInv, Sending
<1> QED BY <1>1, <1>2, <1>3 DEF Detached

(* Slot s begins to send request r over socket fd.                         *)
Begins(n, q, s, fd, r, m, w) ==
  /\ n.slot[s].state = "READY" /\ n.slot[s].fd = fd /\ q[r].state = "ASSIGNED"
  /\ w = PutReq(q, r, Begin(q[r], fd))
  /\ m = BeginReq(FdSetState(n, s, "SENDING"), s, r)

(* A free slot takes a request.                                            *)
LEMMA BeginKeeps ==
  ASSUME NEW n, NEW q, NEW c, NEW g, NEW b, NEW a, Good(n, q, c, g, b, a),
         NEW s \in Slots, NEW fd, NEW r \in Reqs,
         NEW w, NEW m, Begins(n, q, s, fd, r, m, w)
  PROVE  /\ Good(m, w, c, g, b, a) /\ m.exited = n.exited
         /\ m.slot[s].state = "SENDING" /\ m.slot[s].begin_req = r /\ m.slot[s].fd = fd
<1>a. n.slot[s].state = "READY" /\ n.slot[s].fd = fd /\ q[r].state = "ASSIGNED"
  BY DEF Begins
<1>0. fd \in Fds
  <2>1. n.slot[s].state # "AVAILABLE"
    BY <1>a
  <2> QED BY <1>a, <2>1, SlotSocket, SMTT(20)
<1>1. q \in [Reqs -> Requests] /\ q[r] \in Requests /\ Owned(n, c, q[r]) /\ Sound(q[r])
  BY DEF Good, World, ClientInv
<1>2. PICK y : y = Begin(q[r], fd)
  OBVIOUS
<1>3. /\ y \in Requests /\ y.state = "SENT" /\ (y.sleeping <=> q[r].sleeping)
      /\ y.fd = q[r].fd /\ y.fcgi_fd = fd /\ y.sr = q[r].sr /\ y.iov = q[r].iov
  BY <1>a, <1>0, <1>1, <1>2, BeginFields, SMTT(20)
<1>4. w = PutReq(q, r, y)
  BY <1>2 DEF Begins
<1>5. Detached(n, b, a, r)
  <2>1. \A x \in Fds : ~ UnderWay(q[r], x)
    BY <1>a DEF UnderWay
  <2> QED BY <2>1, NotUnderWay
<1>6. Owned(n, c, y)
  BY <1>a, <1>1, <1>3 DEF Owned
<1>7. Sound(y)
  BY <1>a, <1>1, <1>3 DEF Sound
<1>8. y.fd = NoFd \/ \A p \in Reqs : p # r => q[p].fd # y.fd
  BY <1>3 DEF Good, ClientInv
<1>9. Good(n, w, c, g, b, a)
  BY <1>3, <1>4, <1>5, <1>6, <1>7, <1>8, ReqDetached
<1>10. w[r] = y
  BY <1>1, <1>3, <1>4, ReqUpdate, SMTT(20)
<1>11. "SENDING" \in FdStates /\ "READY" \in FdMayBecome["SENDING"]
  BY DEF FdStates, FdMayBecome
<1>12. /\ ConnectionOnly(n, m, s, fd) /\ m.exited = n.exited
       /\ m.slot[s].state = "SENDING" /\ m.slot[s].begin_req = r
  <2>1. n \in Nets /\ ~ n.ep[fd].asleep
    <3>1. n \in Nets
      BY DEF Good, World
    <3>2. n.slot[s].state # "AVAILABLE" /\ n.slot[s].state # "SLEEPING"
      BY <1>a
    <3>3. n.slot[s].state = "SLEEPING" <=> n.ep[fd].asleep
      BY <1>a, <3>2, SlotSocket, SMTT(20)
    <3> QED BY <3>1, <3>2, <3>3
  <2>2. MayAdvance(n, s, fd, "SENDING")
    BY <1>a, <1>0, <1>11, <2>1 DEF MayAdvance
  <2>3. r \in Reqs \cup {NoReq} /\ m = BeginReq(FdSetState(n, s, "SENDING"), s, r)
    BY DEF Begins
  <2> QED BY <2>2, <2>3, AdvanceFields, SMTT(20)
<1>13. m.slot[s].fd = fd
  BY <1>12 DEF ConnectionOnly
<1>14. b[fd] = <<>> /\ a[fd].id = NoReq
  BY <1>a DEF Good, SlotInv
<1>15. Sending(w, b[fd], a[fd], fd, r)
  <2>1. r # NoReq /\ UnderWay(w[r], fd) /\ w[r].state # "STREAM_CLOSED"
    BY <1>3, <1>10, Numbers DEF UnderWay
  <2>2. w[r].iov.holds = "request"
    BY <1>a, <1>1, <1>3, <1>10 DEF Sound
  <2>3. \A i \in 1 .. Len(b[fd]) : b[fd][i].type = "END_REQUEST" /\ b[fd][i].id = r
    BY <1>14, SMTT(20)
  <2> QED BY <1>14, <2>1, <2>2, <2>3 DEF Sending
<1>16. SlotInv(m, w, b, a, s)
  BY <1>12, <1>13, <1>15 DEF SlotInv
<1>17. Good(m, w, c, g, b, a)
  BY <1>0, <1>9, <1>12, <1>16, SlotKeeps
<1> QED BY <1>12, <1>13, <1>17

-----------------------------------------------------------------------------
(* Sending a request.                                                      *)

PutApp(a, fd, v) == [a EXCEPT ![fd] = v]
Works(r, k)      == [Idle EXCEPT !.id = r, !.of = k]

(* Writing one application process changes no other.                       *)
LEMMA AppUpdate ==
  ASSUME NEW a \in [Fds -> Apps], NEW fd \in Fds, NEW v \in Apps, NEW e, e = PutApp(a, fd, v)
  PROVE  e \in [Fds -> Apps] /\ e[fd] = v /\ \A x \in Fds : x # fd => e[x] = a[x]
  BY DEF PutApp

(* Slot s is sending request r over socket fd; what is known of r then.    *)
Sends(n, s, fd, r) ==
  /\ n.slot[s].state = "SENDING" /\ n.slot[s].fd = fd /\ n.slot[s].begin_req = r

Sendable(q, r, fd) ==
  /\ r \in Reqs /\ q[r] \in Requests /\ UnderWay(q[r], fd)
  /\ q[r].state # "STREAM_CLOSED"
  /\ q[r].fd # NoFd => q[r].iov.of = q[r].sr

(* What a slot sends is a request that waits on that socket.               *)
LEMMA SendingRequest ==
  ASSUME NEW n, NEW q, NEW c, NEW g, NEW b, NEW a, Good(n, q, c, g, b, a),
         NEW s \in Slots, NEW fd, NEW r, Sends(n, s, fd, r)
  PROVE  Sendable(q, r, fd)
<1>1. n.slot[s] \in FcgiFds
  BY DEF Good, World, Nets
<1>2. Sending(q, b[fd], a[fd], fd, r)
  BY DEF Good, SlotInv, Sends
<1>3. r \in Reqs
  BY <1>1, <1>2 DEF FcgiFds, Sending, Sends
<1>4. q[r] \in Requests /\ Owned(n, c, q[r])
  BY <1>3 DEF Good, World, ClientInv
<1>5. q[r].fd # NoFd => q[r].iov.of = q[r].sr
  BY <1>2, <1>4 DEF Owned, Sending
<1> QED BY <1>2, <1>3, <1>4, <1>5 DEF Sending, Sendable

(* The slot waits for the answer.                                          *)
LEMMA ReceivingKeeps ==
  ASSUME NEW n, NEW q, NEW c, NEW g, NEW b, NEW a, Good(n, q, c, g, b, a),
         NEW s \in Slots, n.slot[s].state = "SENDING", NEW fd, fd = n.slot[s].fd,
         NEW m, m = BeginReq(FdSetState(n, s, "RECEIVING"), s, NoReq)
  PROVE  /\ Good(m, q, c, g, b, a) /\ m.exited = n.exited
         /\ m.slot[s].state = "RECEIVING" /\ m.slot[s].fd = fd
<1>0. n \in Nets
  BY DEF Good, World
<1>1. n.slot[s].state # "AVAILABLE" /\ n.slot[s].state # "SLEEPING"
  OBVIOUS
<1>2. fd \in Fds /\ (n.slot[s].state = "SLEEPING" <=> n.ep[fd].asleep)
  BY <1>1, SlotSocket, SMTT(20)
<1>3. "RECEIVING" \in FdStates /\ "SENDING" \in FdMayBecome["RECEIVING"]
  BY DEF FdStates, FdMayBecome
<1>4. MayAdvance(n, s, fd, "RECEIVING")
  BY <1>0, <1>1, <1>2, <1>3 DEF MayAdvance
<1>5. NoReq \in Reqs \cup {NoReq}
  OBVIOUS
<1>6. ConnectionOnly(n, m, s, fd) /\ m.exited = n.exited /\ m.slot[s].state = "RECEIVING"
  BY <1>4, <1>5, AdvanceFields, SMTT(20)
<1>7. SlotInv(m, q, b, a, s)
  BY <1>6 DEF SlotInv
<1>8. m.slot[s].fd = fd
  BY <1>6 DEF ConnectionOnly
<1> QED BY <1>2, <1>6, <1>7, <1>8, SlotKeeps

(* The application has all of request r and works on it.                   *)
LEMMA WorksKeeps ==
  ASSUME NEW n, NEW q, NEW c, NEW g, NEW b, NEW a, Good(n, q, c, g, b, a),
         NEW s \in Slots, n.slot[s].state = "RECEIVING", NEW fd, fd = n.slot[s].fd,
         NEW r \in Reqs, b[fd] = <<>>, UnderWay(q[r], fd), q[r].state # "STREAM_CLOSED",
         q[r].fd # NoFd => q[r].iov.of = q[r].sr,
         NEW v \in Apps, v.id = r, v.of = q[r].iov.of,
         NEW e, e = PutApp(a, fd, v)
  PROVE  Good(n, q, c, g, b, e)
<1>0. /\ q \in [Reqs -> Requests] /\ a \in [Fds -> Apps]
      /\ g \in [Fds -> BOOLEAN] /\ b \in [Fds -> Seq(Packages)]
  BY DEF Good, World
<1>1. fd \in Fds /\ n.file[fd] = "app" /\ \A t \in Slots : n.slot[t].fd = fd => t = s
  <2>1. n.slot[s].state # "AVAILABLE"
    OBVIOUS
  <2> QED BY <2>1, SlotSocket, SMTT(20)
<1>5. e \in [Fds -> Apps] /\ e[fd] = v /\ \A x \in Fds : x # fd => e[x] = a[x]
  <2>1. a \in [Fds -> Apps]
    BY <1>0
  <2>2. fd \in Fds
    BY <1>1
  <2> QED BY <2>1, <2>2, AppUpdate, SMTT(20)
<1>6. WireOnly(fd, g, b, a, g, b, e)
  BY <1>0, <1>5 DEF WireOnly
<1>7. AppInv(q, e[fd], fd)
  BY <1>5 DEF AppInv
<1>8. 1 .. Len(b[fd]) = {}
  BY SMTT(20)
<1>9. Flight(n, q, g, b, e, fd)
  BY <1>1, <1>7, <1>8 DEF Flight, InOrder
<1>10. \A t \in Slots : n.slot[t].fd = fd => SlotInv(n, q, b, e, t)
  BY <1>1 DEF SlotInv
<1> QED BY <1>1, <1>6, <1>9, <1>10, WireKeeps

(* The struct collects the answer from now on.                             *)
LEMMA EmptiedKeeps ==
  ASSUME NEW n, NEW q, NEW c, NEW g, NEW b, NEW a, Good(n, q, c, g, b, a),
         NEW s \in Slots, n.slot[s].state = "RECEIVING", NEW fd, fd = n.slot[s].fd,
         NEW r \in Reqs, UnderWay(q[r], fd),
         NEW w, w = PutReq(q, r, PutIov(q[r], NoIov))
  PROVE  Good(n, w, c, g, b, a)
<1>0. q \in [Reqs -> Requests] /\ q[r] \in Requests
  BY DEF Good, World
<1>1. \A t \in Slots : n.slot[t].fd = fd => t = s
  <2>1. n.slot[s].state # "AVAILABLE"
    OBVIOUS
  <2> QED BY <2>1, SlotSocket, SMTT(20)
<1>2. PICK y : y = PutIov(q[r], NoIov)
  OBVIOUS
<1>3. NoIov \in Iovs
  BY Values
<1>4. /\ y \in Requests /\ y.state = q[r].state /\ (y.sleeping <=> q[r].sleeping)
      /\ y.fd = q[r].fd /\ y.fcgi_fd = q[r].fcgi_fd /\ y.sr = q[r].sr /\ y.iov = NoIov
  BY <1>0, <1>2, <1>3, IovFields, SMTT(20)
<1>5. w = PutReq(q, r, y)
  BY <1>2
<1>6. w[r] = y
  <2>1. y \in Requests
    BY <1>4
  <2> QED BY <1>0, <1>5, <2>1, ReqUpdate, SMTT(20)
<1>7. Owned(n, c, y)
  <2>1. Owned(n, c, q[r])
    BY DEF Good, ClientInv
  <2>2. y.iov.holds = "nothing"
    <3>1. y.iov = NoIov
      BY <1>4
    <3> QED BY <3>1, SMTT(20) DEF NoIov
  <2> QED BY <1>4, <2>1, <2>2 DEF Owned
<1>8. Sound(y)
  <2>1. Sound(q[r]) /\ q[r].state \in {"SENT", "STREAM_CLOSED", "FAILED"}
    BY DEF Good, ClientInv, UnderWay
  <2> QED BY <1>4, <2>1 DEF Sound
<1>9. y.fd = NoFd \/ \A p \in Reqs : p # r => q[p].fd # y.fd
  BY <1>4 DEF Good, ClientInv
<1>10. \A x \in Fds : \A i \in 1 .. Len(b[x]) : b[x][i].id = r => PackageInv(w, a[x], x, b[x][i])
  <2> SUFFICES ASSUME NEW x \in Fds, NEW i \in 1 .. Len(b[x]), b[x][i].id = r
               PROVE  PackageInv(w, a[x], x, b[x][i])
    OBVIOUS
  <2>1. PICK p : p = b[x][i]
    OBVIOUS
  <2>2. PackageInv(q, a[x], x, p) /\ p.id = r
    BY <2>1 DEF Good, Flight
  <2>3. PackageInv(w, a[x], x, p)
    BY <1>4, <1>6, <2>2, SMTT(20) DEF PackageInv, UnderWay
  <2> QED BY <2>1, <2>3
<1>11. \A x \in Fds : a[x].id = r => AppInv(w, a[x], x)
  <2> SUFFICES ASSUME NEW x \in Fds, a[x].id = r
               PROVE  AppInv(w, a[x], x)
    OBVIOUS
  <2>1. AppInv(q, a[x], x)
    BY DEF Good, Flight
  <2> QED BY <1>4, <1>6, <2>1 DEF AppInv, UnderWay
<1>12. ASSUME NEW t \in Slots, n.slot[t].state = "SENDING", n.slot[t].begin_req = r
       PROVE  FALSE
  <2>1. SlotInv(n, q, b, a, t)
    BY DEF Good
  <2>2. UnderWay(q[r], n.slot[t].fd)
    BY <1>12, <2>1 DEF SlotInv, Sending
  <2>3. n.slot[t].fd = fd
    BY <2>2 DEF UnderWay
  <2> QED BY <1>1, <1>12, <2>3
<1>13. y \in Requests
  BY <1>4
<1> QED BY <1>5, <1>7, <1>8, <1>9, <1>10, <1>11, <1>12, <1>13, ReqKeeps

(* All of request r was sent.                                              *)
Sent(n, q, a, s, fd, r, m, w, e) ==
  /\ m = BeginReq(FdSetState(n, s, "RECEIVING"), s, NoReq)
  /\ w = PutReq(q, r, PutIov(q[r], NoIov))
  /\ e = PutApp(a, fd, Works(r, q[r].iov.of))

(* The last byte of a request is written; the application has it.          *)
LEMMA SentKeeps ==
  ASSUME NEW n, NEW q, NEW c, NEW g, NEW b, NEW a, Good(n, q, c, g, b, a),
         NEW s \in Slots, NEW fd, NEW r, Sends(n, s, fd, r), b[fd] = <<>>,
         NEW m, NEW w, NEW e, Sent(n, q, a, s, fd, r, m, w, e)
  PROVE  Good(m, w, c, g, b, e) /\ m.exited = n.exited
<1>0. Sendable(q, r, fd)
  BY SendingRequest
<1>1. /\ r \in Reqs /\ q[r] \in Requests /\ UnderWay(q[r], fd) /\ q[r].state # "STREAM_CLOSED"
      /\ q[r].fd # NoFd => q[r].iov.of = q[r].sr
  BY <1>0 DEF Sendable
<1>2. /\ Good(m, q, c, g, b, a) /\ m.exited = n.exited
      /\ m.slot[s].state = "RECEIVING" /\ m.slot[s].fd = fd
  <2>1. m = BeginReq(FdSetState(n, s, "RECEIVING"), s, NoReq)
    BY DEF Sent
  <2>2. n.slot[s].state = "SENDING" /\ fd = n.slot[s].fd
    BY DEF Sends
  <2> QED BY <2>1, <2>2, ReceivingKeeps, SMTT(20)
<1>3. PICK v : v = Works(r, q[r].iov.of)
  OBVIOUS
<1>4. v \in Apps /\ v.id = r /\ v.of = q[r].iov.of
  <2>1. q[r].iov.of \in 0 .. MaxSerial
    BY <1>1 DEF Requests, Iovs
  <2>2. Idle \in Apps
    BY Values
  <2>3. v = [Idle EXCEPT !.id = r, !.of = q[r].iov.of]
    BY <1>3 DEF Works
  <2> QED BY <1>1, <2>1, <2>2, <2>3 DEF Apps
<1>5. e = PutApp(a, fd, v)
  BY <1>3 DEF Sent
<1>6. Good(m, q, c, g, b, e)
  BY <1>1, <1>2, <1>4, <1>5, WorksKeeps
<1>7. w = PutReq(q, r, PutIov(q[r], NoIov))
  BY DEF Sent
<1>8. Good(m, w, c, g, b, e)
  BY <1>1, <1>2, <1>6, <1>7, EmptiedKeeps
<1> QED BY <1>2, <1>8

(* chunk_iov_sendv() and what follows.                                     *)
LEMMA SendKeeps ==
  ASSUME NEW n, NEW q, Good(n, q, conn, gone, inbox, app),
         NEW s \in Slots, n.slot[s].state = "SENDING", NEW r, r = n.slot[s].begin_req,
         inbox[n.slot[s].fd] = <<>>, Send(n, q, s, r)
  PROVE  Good(net', rs', conn, gone', inbox', app') /\ net'.exited = n.exited
<1>1. PICK fd : fd = n.slot[s].fd
  OBVIOUS
<1>2. n \in Nets /\ fd \in Fds
  <2>1. n \in Nets
    BY DEF Good, World
  <2>2. n.slot[s].state # "AVAILABLE"
    OBVIOUS
  <2> QED BY <1>1, <2>1, <2>2, SlotSocket, SMTT(20)
<1>3. /\ gone \in [Fds -> BOOLEAN] /\ inbox \in [Fds -> Seq(Packages)] /\ app \in [Fds -> Apps]
      /\ q \in [Reqs -> Requests]
  BY DEF Good, World
<1>4. CASE /\ net' = [FdSetState(n, s, "RECEIVING") EXCEPT !.slot[s].begin_req = NoReq]
           /\ rs' = [q EXCEPT ![r].iov = NoIov]
           /\ app' = [app EXCEPT ![fd] = [Idle EXCEPT !.id = r, !.of = q[r].iov.of]]
           /\ UNCHANGED <<inbox, gone>>
  <2>1. net' = BeginReq(FdSetState(n, s, "RECEIVING"), s, NoReq)
    BY <1>4 DEF BeginReq
  <2>2. rs' = PutReq(q, r, PutIov(q[r], NoIov))
    BY <1>4 DEF PutReq, PutIov
  <2>3. app' = PutApp(app, fd, Works(r, q[r].iov.of))
    BY <1>4 DEF PutApp, Works
  <2>4. inbox' = inbox /\ gone' = gone /\ inbox[fd] = <<>>
    BY <1>1, <1>4
  <2>5. Good(net', rs', conn, gone, inbox, app') /\ net'.exited = n.exited
    <3>1. Sent(n, q, app, s, fd, r, net', rs', app')
      BY <2>1, <2>2, <2>3 DEF Sent
    <3>2. Sends(n, s, fd, r)
      BY <1>1 DEF Sends
    <3> QED BY <2>4, <3>1, <3>2, SentKeeps, SMTT(20)
  <2> QED BY <2>4, <2>5
<1>5. CASE net' = n /\ rs' = q /\ UNCHANGED <<app, inbox, gone>>
  BY <1>5
<1>6. CASE net' = HangupFd(n, s, FALSE) /\ rs' = q /\ Disconnect(fd)
  <2>1. Cut(fd, gone, inbox, app, gone', inbox', app')
    BY <1>2, <1>3, <1>6, Disconnected
  <2>2. net' = HangupFd(n, s, FALSE) /\ FALSE \in BOOLEAN /\ n.slot[s].fd \in Fds
    BY <1>1, <1>2, <1>6
  <2>3. n.slot[s].state # "CLOSING"
    OBVIOUS
  <2>4. Freed(n, net', s)
    BY <1>2, <2>2, <2>3, HangupFields
  <2>5. Good(net', q, conn, gone', inbox', app')
    BY <1>1, <1>2, <2>1, <2>4, FreedKeeps
  <2>6. net'.exited = n.exited
    BY <2>4 DEF Freed
  <2> QED BY <1>6, <2>5, <2>6
<1> QED BY <1>1, <1>4, <1>5, <1>6 DEF Send

=============================================================================
