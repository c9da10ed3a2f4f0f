---------------------------- MODULE FastCGIProofs ----------------------------
(***************************************************************************)
(* Proofs about the FastCGI plugin: the types, ConnectionTables, OwnAnswer *)
(* and OnlyOrphansExit, for any number of sockets, request structs,        *)
(* connections and locations. The inductive invariant IInv and the steps   *)
(* of the clients are in FastCGISteps; here are the handlers of the        *)
(* connections, the application, and the theorems.                         *)
(***************************************************************************)
EXTENDS FastCGISteps

(* A leaf goes to Zenon first; one that needs arithmetic names SMT.        *)
USE ZenonT(10), SMTT(20)

-----------------------------------------------------------------------------
(* The handlers of the connections.                                        *)

(* A write event finds a request for the slot.                             *)
LEMMA TakeRequestKeeps ==
  ASSUME IInv, NEW s \in Slots, TakeRequest(s)
  PROVE  IInv' /\ net'.exited = net.exited
<1>0. Good(net, rs, conn, gone, inbox, app)
  BY DEF IInv
<1>1. PICK l, fd, r : /\ l = SlotLoc[s] /\ fd = net.slot[s].fd
                      /\ r = ClockFirst(hand[l], Assigned(l))
  OBVIOUS
<1>2. net.slot[s].state = "READY" /\ inbox[fd] = <<>> /\ Assigned(l) # {}
  BY <1>1 DEF TakeRequest, SlotWrites
<1>3. l \in Locs
  BY <1>1, FastCGIAssumption
<1>4. r \in Reqs /\ rs[r].state = "ASSIGNED"
  <2>1. hand[l] \in Reqs
    BY <1>3 DEF IInv
  <2>2. Assigned(l) \in SUBSET Reqs
    BY DEF Assigned
  <2>3. r \in Assigned(l)
    BY <1>1, <1>2, <2>1, <2>2, ClockFirstIn
  <2> QED BY <2>3 DEF Assigned
<1>5. PICK q, n : /\ q = PutReq(rs, r, Begin(rs[r], fd))
                  /\ n = BeginReq(FdSetState(net, s, "SENDING"), s, r)
  OBVIOUS
<1>6. Send(n, q, s, r) /\ hand' = [hand EXCEPT ![l] = r]
  BY Zenon, <1>1, <1>5 DEF TakeRequest, PutReq, Begin, BeginReq
<1>7. UNCHANGED <<conn, serial, left>>
  BY DEF TakeRequest, SlotWrites
<1>8. /\ Good(n, q, conn, gone, inbox, app) /\ n.exited = net.exited
      /\ n.slot[s].state = "SENDING" /\ n.slot[s].begin_req = r /\ n.slot[s].fd = fd
  <2>1. Begins(net, rs, s, fd, r, n, q)
    BY <1>1, <1>2, <1>4, <1>5 DEF Begins
  <2>2. r \in Reqs
    BY <1>4
  <2> QED BY <1>0, <2>1, <2>2, BeginKeeps, SMTT(20)
<1>9. Good(net', rs', conn, gone', inbox', app') /\ net'.exited = n.exited
  BY <1>2, <1>6, <1>8, SendKeeps
<1>10. hand' \in [Locs -> Reqs]
  BY <1>3, <1>4, <1>6 DEF IInv
<1> QED BY <1>7, <1>8, <1>9, <1>10 DEF IInv

(* A write event goes on with the request of the slot.                     *)
LEMMA SendOnKeeps ==
  ASSUME IInv, NEW s \in Slots, SendOn(s)
  PROVE  IInv' /\ net'.exited = net.exited
<1>0. Good(net, rs, conn, gone, inbox, app)
  BY DEF IInv
<1>1. PICK r : r = net.slot[s].begin_req
  OBVIOUS
<1>2. /\ net.slot[s].state = "SENDING" /\ inbox[net.slot[s].fd] = <<>> /\ Send(net, rs, s, r)
      /\ UNCHANGED <<hand, conn, serial, left>>
  BY <1>1 DEF SendOn, SlotWrites
<1>3. Good(net', rs', conn, gone', inbox', app') /\ net'.exited = net.exited
  BY <1>0, <1>1, <1>2, SendKeeps
<1> QED BY <1>2, <1>3 DEF IInv

(* A connection nothing is under way on is closed.                         *)
LEMMA HangupSlotKeeps ==
  ASSUME IInv, NEW s \in Slots, net.slot[s].state \in {"READY", "SLEEPING"},
         net' = HangupFd(net, s, FALSE), Disconnect(net.slot[s].fd)
  PROVE  Good(net', rs, conn, gone', inbox', app') /\ net'.exited = net.exited
<1>0. Good(net, rs, conn, gone, inbox, app)
  BY DEF IInv
<1>1. PICK fd : fd = net.slot[s].fd
  OBVIOUS
<1>2. /\ net \in Nets /\ gone \in [Fds -> BOOLEAN] /\ inbox \in [Fds -> Seq(Packages)]
      /\ app \in [Fds -> Apps]
  BY <1>0 DEF Good, World
<1>3. fd \in Fds
  <2>1. net.slot[s].state # "AVAILABLE"
    OBVIOUS
  <2> QED BY <1>0, <1>1, <2>1, SlotSocket, SMTT(20)
<1>4. Cut(fd, gone, inbox, app, gone', inbox', app')
  BY <1>1, <1>2, <1>3, Disconnected
<1>5. Freed(net, net', s)
  <2>1. FALSE \in BOOLEAN /\ net.slot[s].fd \in Fds /\ net.slot[s].state # "CLOSING"
    BY <1>1, <1>3
  <2> QED BY <1>2, <2>1, HangupFields
<1>6. net'.exited = net.exited
  BY <1>5 DEF Freed
<1> QED BY <1>0, <1>1, <1>3, <1>4, <1>5, <1>6, FreedKeeps

(* The slot goes to sleep with its socket.                                 *)
LEMMA SleepKeeps ==
  ASSUME NEW n, NEW q, NEW c, NEW g, NEW b, NEW a, Good(n, q, c, g, b, a),
         NEW s \in Slots, n.slot[s].state = "READY", NEW fd, fd = n.slot[s].fd,
         NEW m, m = FdSetState(ChangeMode(n, fd, "SLEEP"), s, "SLEEPING")
  PROVE  Good(m, q, c, g, b, a) /\ m.exited = n.exited
<1>0. n \in Nets
  BY DEF Good, World
<1>1. fd \in Fds
  <2>1. n.slot[s].state # "AVAILABLE"
    OBVIOUS
  <2> QED BY <2>1, SlotSocket, SMTT(20)
<1>2. PICK k : k = ChangeMode(n, fd, "SLEEP")
  OBVIOUS
<1>3. EpOnly(n, k, fd) /\ k.ep[fd].asleep /\ k.exited = n.exited
  BY <1>0, <1>1, <1>2, ModeSleep
<1>4. /\ k \in Nets /\ k.slot = n.slot /\ k.file = n.file /\ k.event = n.event
      /\ \A x \in Fds : x # fd => k.ep[x] = n.ep[x]
  BY <1>3 DEF EpOnly
<1>5. "READY" \in FdMayBecome["SLEEPING"] /\ "SLEEPING" \in FdStates
  BY DEF FdMayBecome, FdStates
<1>6. SlotOnly(k, m, s) /\ m.slot[s].state = "SLEEPING"
  <2>1. m = FdSetState(k, s, "SLEEPING")
    BY <1>2
  <2>2. k.slot[s].state \in FdMayBecome["SLEEPING"]
    BY <1>4, <1>5
  <2> QED BY <1>4, <1>5, <2>1, <2>2, SetStateFields, SMTT(20)
<1>7. /\ m \in Nets /\ m.file = k.file /\ m.event = k.event /\ m.ep = k.ep /\ m.exited = k.exited
      /\ m.slot[s].fd = k.slot[s].fd /\ \A t \in Slots : t # s => m.slot[t] = k.slot[t]
  BY <1>6 DEF SlotOnly
<1>8. m.slot[s].fd = fd /\ \A t \in Slots : t # s => m.slot[t] = n.slot[t]
  BY <1>4, <1>7
<1>9. /\ m.file = n.file /\ m.event = n.event /\ m.exited = n.exited /\ m.ep[fd].asleep
      /\ \A x \in Fds : x # fd => m.ep[x] = n.ep[x]
  BY <1>3, <1>4, <1>7
<1>10. ConnectionOnly(n, m, s, fd)
  BY <1>6, <1>7, <1>8, <1>9 DEF ConnectionOnly
<1>11. SlotInv(m, q, b, a, s)
  <2>1. b[fd] = <<>> /\ a[fd].id = NoReq
    BY DEF Good, SlotInv
  <2> QED BY <1>6, <1>8, <2>1 DEF SlotInv
<1> QED BY <1>1, <1>9, <1>10, <1>11, SlotKeeps

(* A write event finds nothing to send.                                    *)
LEMMA NoWorkKeeps ==
  ASSUME IInv, NEW s \in Slots, NoWork(s)
  PROVE  IInv' /\ net'.exited = net.exited
<1>0. Good(net, rs, conn, gone, inbox, app)
  BY DEF IInv
<1>1. net.slot[s].state = "READY" /\ UNCHANGED <<rs, hand, conn, serial, left>>
  BY DEF NoWork, SlotWrites
<1>2. Good(net', rs, conn, gone', inbox', app') /\ net'.exited = net.exited
  <2>1. CASE KeepAlive[SlotLoc[s]]
    <3>1. /\ net' = FdSetState(ChangeMode(net, net.slot[s].fd, "SLEEP"), s, "SLEEPING")
          /\ UNCHANGED <<inbox, app, gone>>
      BY <2>1 DEF NoWork
    <3> QED BY <1>0, <1>1, <3>1, SleepKeeps, SMTT(20)
  <2>2. CASE ~ KeepAlive[SlotLoc[s]]
    <3>1. net' = HangupFd(net, s, FALSE) /\ Disconnect(net.slot[s].fd)
      BY <2>2 DEF NoWork
    <3> QED BY <1>1, <3>1, HangupSlotKeeps
  <2> QED BY <2>1, <2>2
<1> QED BY <1>1, <1>2 DEF IInv

(* The connection of a slot is reported broken.                            *)
LEMMA SlotHangupKeeps ==
  ASSUME IInv, NEW s \in Slots, SlotHangup(s)
  PROVE  IInv' /\ net'.exited = net.exited
<1>1. /\ net.slot[s].state = "SLEEPING" /\ net' = HangupFd(net, s, FALSE)
      /\ Disconnect(net.slot[s].fd) /\ UNCHANGED <<rs, hand, conn, serial, left>>
  BY DEF SlotHangup
<1>2. Good(net', rs, conn, gone', inbox', app') /\ net'.exited = net.exited
  BY <1>1, HangupSlotKeeps
<1> QED BY <1>1, <1>2 DEF IInv

(* What became of a slot does not end the worker.                          *)
LEMMA ReplacedExited ==
  ASSUME NEW n, NEW m, NEW s, Replaced(n, m, s)
  PROVE  m.exited = n.exited
  BY DEF Replaced, Freed, Connected

(* What CloseSlot() comes to.                                              *)
LEMMA CloseSlotFields ==
  ASSUME NEW n \in Nets, NEW s \in Slots, n.slot[s].fd \in Fds, CloseSlot(n, s)
  PROVE  /\ Replaced(n, net', s) /\ (n.slot[s].state = "SENDING" => Freed(n, net', s))
         /\ Disconnect(n.slot[s].fd)
<1>1. PICK ok \in BOOLEAN :
        net' = LET closed == HangupFd(FdSetState(n, s, "CLOSING"), s, ok)
               IN  IF Interrupts(s) THEN Lose(closed) ELSE closed
  BY DEF CloseSlot
<1>2. PICK k : k = HangupFd(FdSetState(n, s, "CLOSING"), s, ok)
  OBVIOUS
<1>3. net' = k \/ net' = Lose(k)
  BY <1>1, <1>2
<1>4. Replaced(n, net', s) /\ (n.slot[s].state = "SENDING" => Freed(n, net', s))
  BY <1>2, <1>3, CloseFields
<1>5. Disconnect(n.slot[s].fd)
  BY DEF CloseSlot
<1> QED BY <1>4, <1>5

(* The application closed its end.                                         *)
LEMMA EndOfStreamKeeps ==
  ASSUME IInv, NEW s \in Slots, EndOfStream(s)
  PROVE  IInv' /\ net'.exited = net.exited
<1>0. Good(net, rs, conn, gone, inbox, app)
  BY DEF IInv
<1>1. /\ net.slot[s].fd # NoFd /\ CloseSlot(net, s) /\ UNCHANGED <<rs, hand, conn, serial, left>>
  BY DEF EndOfStream, Readable
<1>2. PICK fd : fd = net.slot[s].fd
  OBVIOUS
<1>3. /\ net \in Nets /\ gone \in [Fds -> BOOLEAN] /\ inbox \in [Fds -> Seq(Packages)]
      /\ app \in [Fds -> Apps]
  BY <1>0 DEF Good, World
<1>4. fd \in Fds
  BY <1>0, <1>1, <1>2, SlotSocket, SMTT(20)
<1>5. Replaced(net, net', s) /\ Disconnect(fd)
  BY <1>1, <1>2, <1>3, <1>4, CloseSlotFields
<1>6. Cut(fd, gone, inbox, app, gone', inbox', app')
  BY <1>3, <1>4, <1>5, Disconnected
<1>7. Good(net', rs, conn, gone', inbox', app')
  BY <1>0, <1>2, <1>4, <1>5, <1>6, ReplacedKeeps
<1>8. net'.exited = net.exited
  BY <1>5, ReplacedExited
<1> QED BY <1>1, <1>7, <1>8 DEF IInv

-----------------------------------------------------------------------------
(* The application.                                                        *)

PutBox(b, fd, y) == [b EXCEPT ![fd] = y]

Queues == Seq(Packages)

(* Writing one inbox changes no other.                                     *)
LEMMA BoxUpdate ==
  ASSUME NEW b \in [Fds -> Queues], NEW fd \in Fds, NEW y \in Queues,
         NEW i, i = PutBox(b, fd, y)
  PROVE  i \in [Fds -> Queues] /\ i[fd] = y /\ \A x \in Fds : x # fd => i[x] = b[x]
  BY DEF PutBox

(* The packages z on socket fd are in order and right for application k,   *)
(* belong to request r, and none comes after type.                         *)
Queued(q, k, fd, z, r, type) ==
  /\ z \in Seq(Packages)
  /\ \A i \in 1 .. Len(z) : PackageInv(q, k, fd, z[i])
  /\ InOrder(z)
  /\ \A i \in 1 .. Len(z) : z[i].id = r /\ Rank[z[i].type] <= Rank[type]

Types == {"STDOUT", "STDOUT_END", "END_REQUEST"}

(* The order of the packages of a request.                                 *)
LEMMA RankNat == \A t \in Types : Rank[t] \in Nat
  BY SMTT(20) DEF Rank, Types

(* One more package, which comes after all those.                          *)
LEMMA QueuedNext ==
  ASSUME NEW q, NEW k, NEW fd, NEW z, NEW r, NEW type \in Types, Queued(q, k, fd, z, r, type),
         NEW p \in Packages, p.id = r, Rank[type] < Rank[p.type], PackageInv(q, k, fd, p),
         NEW y, y = Append(z, p)
  PROVE  Queued(q, k, fd, y, r, p.type)
<1>1. /\ z \in Seq(Packages) /\ \A i \in 1 .. Len(z) : PackageInv(q, k, fd, z[i])
      /\ InOrder(z) /\ \A i \in 1 .. Len(z) : z[i].id = r /\ Rank[z[i].type] <= Rank[type]
  BY DEF Queued
<1>2. PICK n : n = Len(z)
  OBVIOUS
<1>3. /\ n \in Nat /\ y \in Seq(Packages) /\ Len(y) = n + 1 /\ y[n + 1] = p
      /\ \A i \in 1 .. n : y[i] = z[i]
  BY <1>1, <1>2, SMTT(20)
<1>4. \A i \in 1 .. n : z[i] \in Packages
  BY <1>1, <1>2, SMTT(20)
<1>5. p.type \in Types /\ \A i \in 1 .. n : z[i].type \in Types
  BY <1>4 DEF Packages, Types
<1>6. \A i \in 1 .. n : Rank[z[i].type] < Rank[p.type]
  <2> SUFFICES ASSUME NEW i \in 1 .. n PROVE Rank[z[i].type] < Rank[p.type]
    OBVIOUS
  <2>1. Rank[z[i].type] \in Nat /\ Rank[type] \in Nat /\ Rank[p.type] \in Nat
    BY <1>5, RankNat
  <2>2. Rank[z[i].type] <= Rank[type]
    BY <1>1, <1>2
  <2> QED BY <2>1, <2>2, SMTT(20)
<1>7. \A i \in 1 .. n + 1 : i \in 1 .. n \/ i = n + 1
  BY <1>3, SMTT(20)
<1>8. \A i \in 1 .. n + 1 : PackageInv(q, k, fd, y[i])
  BY <1>1, <1>2, <1>3, <1>7
<1>9. \A i \in 1 .. n + 1 : y[i].id = r
  BY <1>1, <1>2, <1>3, <1>7
<1>10. \A i \in 1 .. n + 1 : Rank[y[i].type] <= Rank[p.type]
  <2>1. \A i \in 1 .. n : Rank[y[i].type] <= Rank[p.type]
    BY <1>3, <1>5, <1>6, RankNat, SMTT(20)
  <2>2. Rank[y[n + 1].type] <= Rank[p.type]
    BY <1>3, <1>5, RankNat, SMTT(20)
  <2> QED BY <1>7, <2>1, <2>2
<1>11. InOrder(y)
  <2>1. ASSUME NEW i \in 1 .. n + 1, NEW j \in 1 .. n + 1, i < j
        PROVE  Rank[y[i].type] < Rank[y[j].type]
    <3>1. i \in 1 .. n
      BY <1>3, <2>1, SMTT(20)
    <3>2. CASE j = n + 1
      BY <1>3, <1>6, <3>1, <3>2
    <3>3. CASE j \in 1 .. n
      BY <1>1, <1>2, <1>3, <2>1, <3>1, <3>3 DEF InOrder
    <3> QED BY <1>7, <3>2, <3>3
  <2> QED BY <1>3, <1>9, <2>1 DEF InOrder
<1> QED BY <1>3, <1>8, <1>9, <1>10, <1>11 DEF Queued

(* The packages y and the application k of socket fd are right.            *)
OnWire(q, k, fd, y) ==
  /\ k \in Apps /\ y \in Queues /\ InOrder(y) /\ AppInv(q, k, fd)
  /\ \A j \in 1 .. Len(y) : PackageInv(q, k, fd, y[j])

Arrives(b, a, fd, y, k, i, e) == i = PutBox(b, fd, y) /\ e = PutApp(a, fd, k)

(* The wire of socket fd gets the packages y and the application k.        *)
LEMMA ArrivesKeeps ==
  ASSUME NEW n, NEW q, NEW c, NEW g, NEW b, NEW a, Good(n, q, c, g, b, a),
         NEW fd \in Fds, n.file[fd] = "app", NEW k, NEW y, OnWire(q, k, fd, y),
         NEW i, NEW e, Arrives(b, a, fd, y, k, i, e),
         \A s \in Slots : n.slot[s].fd = fd => SlotInv(n, q, i, e, s)
  PROVE  Good(n, q, c, g, i, e)
<1>0. b \in [Fds -> Queues] /\ a \in [Fds -> Apps] /\ g \in [Fds -> BOOLEAN]
  BY DEF Good, World, Queues
<1>1. /\ k \in Apps /\ y \in Queues /\ InOrder(y) /\ AppInv(q, k, fd)
      /\ \A j \in 1 .. Len(y) : PackageInv(q, k, fd, y[j])
  BY DEF OnWire
<1>2. i \in [Fds -> Queues] /\ i[fd] = y /\ \A x \in Fds : x # fd => i[x] = b[x]
  <2>1. i = PutBox(b, fd, y)
    BY DEF Arrives
  <2>2. y \in Queues
    BY <1>1
  <2>3. b \in [Fds -> Queues]
    BY <1>0
  <2> QED BY <2>1, <2>2, <2>3 DEF PutBox
<1>3. e \in [Fds -> Apps] /\ e[fd] = k /\ \A x \in Fds : x # fd => e[x] = a[x]
  <2>1. e = PutApp(a, fd, k)
    BY DEF Arrives
  <2>2. k \in Apps
    BY <1>1
  <2> QED BY <1>0, <2>1, <2>2, AppUpdate, SMTT(20)
<1>4. WireOnly(fd, g, b, a, g, i, e)
  BY <1>0, <1>2, <1>3 DEF WireOnly, Queues
<1>5. Flight(n, q, g, i, e, fd)
  BY <1>1, <1>2, <1>3 DEF Flight
<1> QED BY <1>4, <1>5, WireKeeps

(* The socket an application works on is open, and its slot waits for the  *)
(* answer.                                                                 *)
LEMMA WorkingSlot ==
  ASSUME NEW n, NEW q, NEW c, NEW g, NEW b, NEW a, Good(n, q, c, g, b, a),
         NEW fd \in Fds, a[fd].id # NoReq
  PROVE  /\ n.file[fd] = "app" /\ AppInv(q, a[fd], fd)
         /\ \A s \in Slots : n.slot[s].fd = fd =>
              n.slot[s].state \notin {"READY", "SLEEPING", "SENDING", "CLOSING"}
<1>1. n.file[fd] = "app" /\ AppInv(q, a[fd], fd)
  BY DEF Good, Flight
<1>2. ASSUME NEW s \in Slots, n.slot[s].fd = fd
      PROVE  n.slot[s].state \notin {"READY", "SLEEPING", "SENDING", "CLOSING"}
  BY <1>2 DEF Good, SlotInv, Sending
<1> QED BY <1>1, <1>2

(* What waits on a connection whose application is at work is the one      *)
(* package of output it may have written.                                  *)
LEMMA WorkingQueue ==
  ASSUME NEW n, NEW q, NEW c, NEW g, NEW b, NEW a, Good(n, q, c, g, b, a),
         NEW fd \in Fds, a[fd].id # NoReq
  PROVE  /\ Queued(q, a[fd], fd, b[fd], a[fd].id, "STDOUT")
         /\ ~ a[fd].wrote => b[fd] = <<>>
<1>1. PICK z, k : z = b[fd] /\ k = a[fd]
  OBVIOUS
<1>2. /\ z \in Seq(Packages) /\ \A i \in 1 .. Len(z) : PackageInv(q, k, fd, z[i])
      /\ InOrder(z) /\ k.id # NoReq
  BY <1>1 DEF Good, World, Flight
<1>3. \A i \in 1 .. Len(z) : z[i].id = k.id /\ z[i].type = "STDOUT" /\ k.wrote
  BY <1>2 DEF PackageInv
<1>4. \A i \in 1 .. Len(z) : z[i].id = k.id /\ Rank[z[i].type] <= Rank["STDOUT"]
  BY <1>3, SMTT(20) DEF Rank
<1>5. Queued(q, k, fd, z, k.id, "STDOUT")
  BY <1>2, <1>4 DEF Queued
<1>6. ~ k.wrote => z = <<>>
  <2>1. ASSUME ~ k.wrote PROVE z = <<>>
    <3>1. 1 .. Len(z) = {}
      BY <1>3, <2>1
    <3>2. Len(z) = 0
      BY <1>2, <3>1, SMTT(20)
    <3> QED BY <1>2, <3>2, SMTT(20)
  <2> QED BY <2>1
<1> QED BY <1>1, <1>5, <1>6

(* The packages stay right when the application has finished.              *)
LEMMA QueuedIdle ==
  ASSUME NEW q, NEW k, NEW fd, NEW z, NEW r, NEW type, Queued(q, k, fd, z, r, type),
         NEW v, v.id = NoReq
  PROVE  Queued(q, v, fd, z, r, type)
<1>1. \A i \in 1 .. Len(z) : PackageInv(q, v, fd, z[i])
  BY DEF Queued, PackageInv
<1> QED BY <1>1 DEF Queued

(* The application sends output.                                           *)
LEMMA AppWritesKeeps ==
  ASSUME IInv, NEW fd \in Fds, AppWrites(fd)
  PROVE  IInv' /\ net'.exited = net.exited
<1>0. Good(net, rs, conn, gone, inbox, app) /\ gone \in [Fds -> BOOLEAN] /\ app[fd] \in Apps
  BY DEF IInv, Good, World
<1>1. /\ app[fd].id # NoReq /\ ~ app[fd].wrote
      /\ UNCHANGED <<net, rs, hand, conn, gone, serial, left>>
  BY DEF AppWrites
<1>2. PICK z, k, p, v : /\ z = inbox[fd] /\ k = app[fd]
                        /\ p = Package("STDOUT", k) /\ v = [k EXCEPT !.wrote = TRUE]
  OBVIOUS
<1>3. k \in Apps /\ k.id # NoReq /\ k.id \in Reqs /\ k.of \in 0 .. MaxSerial
  BY <1>0, <1>1, <1>2 DEF Apps
<1>4. v \in Apps /\ v.id = k.id /\ v.of = k.of /\ v.wrote
  BY <1>2, <1>3 DEF Apps
<1>5. p \in Packages /\ p.id = k.id /\ p.of = k.of /\ p.type = "STDOUT"
  BY <1>2, <1>3 DEF Packages, Package
<1>6. inbox' = PutBox(inbox, fd, Append(z, p))
  BY <1>2 DEF AppWrites, PutBox
<1>7. app' = PutApp(app, fd, v)
  BY <1>2 DEF AppWrites, PutApp
<1>8. z = <<>>
  BY <1>0, <1>1, <1>2, WorkingQueue, SMTT(20)
<1>9. /\ net.file[fd] = "app" /\ AppInv(rs, k, fd)
      /\ \A s \in Slots : net.slot[s].fd = fd =>
           net.slot[s].state \notin {"READY", "SLEEPING", "SENDING", "CLOSING"}
  BY <1>0, <1>1, <1>2, WorkingSlot, SMTT(20)
<1>10. AppInv(rs, v, fd)
  BY <1>4, <1>9 DEF AppInv
<1>11. PackageInv(rs, v, fd, p)
  BY <1>3, <1>4, <1>5, <1>9 DEF AppInv, PackageInv
<1>12. PICK y : y = Append(z, p)
  OBVIOUS
<1>13. y \in Seq(Packages) /\ Len(y) = 1 /\ y[1] = p
  BY <1>5, <1>8, <1>12, SMTT(20)
<1>14. Queued(rs, v, fd, y, k.id, "STDOUT")
  <2>1. \A i \in 1 .. Len(y) : i = 1
    BY <1>13, SMTT(20)
  <2>2. InOrder(y)
    BY <2>1, SMTT(20) DEF InOrder
  <2>3. Rank["STDOUT"] <= Rank["STDOUT"]
    BY SMTT(20) DEF Rank
  <2> QED BY <1>5, <1>11, <1>13, <2>1, <2>2, <2>3 DEF Queued
<1>15. Arrives(inbox, app, fd, y, v, inbox', app')
  BY <1>6, <1>7, <1>12 DEF Arrives
<1>16. \A s \in Slots : net.slot[s].fd = fd => SlotInv(net, rs, inbox', app', s)
  BY <1>9 DEF SlotInv
<1>17. Good(net, rs, conn, gone, inbox', app')
  <2>1. OnWire(rs, v, fd, y)
    BY <1>4, <1>10, <1>14 DEF Queued, OnWire, Queues
  <2> QED BY <1>0, <1>9, <1>15, <1>16, <2>1, ArrivesKeeps
<1> QED BY <1>1, <1>17 DEF IInv

(* The application ends the request.                                       *)
LEMMA AppEndsKeeps ==
  ASSUME IInv, NEW fd \in Fds, AppEnds(fd)
  PROVE  IInv' /\ net'.exited = net.exited
<1>0. Good(net, rs, conn, gone, inbox, app) /\ gone \in [Fds -> BOOLEAN] /\ app[fd] \in Apps
  BY DEF IInv, Good, World
<1>1. /\ app[fd].id # NoReq /\ UNCHANGED <<net, rs, hand, conn, gone, serial, left>>
      /\ app' = PutApp(app, fd, Idle)
  BY DEF AppEnds, PutApp
<1>2. PICK z, k, o, p : /\ z = inbox[fd] /\ k = app[fd]
                        /\ o = Package("STDOUT_END", k) /\ p = Package("END_REQUEST", k)
  OBVIOUS
<1>3. k \in Apps /\ k.id # NoReq /\ k.id \in Reqs /\ k.of \in 0 .. MaxSerial
  BY <1>0, <1>1, <1>2 DEF Apps
<1>4. o \in Packages /\ o.id = k.id /\ o.type = "STDOUT_END"
  BY <1>2, <1>3 DEF Packages, Package
<1>5. p \in Packages /\ p.id = k.id /\ p.type = "END_REQUEST"
  BY <1>2, <1>3 DEF Packages, Package
<1>6. PICK pre \in {<<>>, <<o>>} : inbox' = PutBox(inbox, fd, z \o pre \o <<p>>)
  BY <1>2 DEF AppEnds, PutBox
<1>7. /\ net.file[fd] = "app" /\ AppInv(rs, k, fd)
      /\ \A s \in Slots : net.slot[s].fd = fd =>
           net.slot[s].state \notin {"READY", "SLEEPING", "SENDING", "CLOSING"}
  BY <1>0, <1>1, <1>2, WorkingSlot, SMTT(20)
<1>8. Idle \in Apps /\ Idle.id = NoReq
  BY Values DEF Idle
<1>9. PackageInv(rs, Idle, fd, o) /\ PackageInv(rs, Idle, fd, p)
  BY <1>3, <1>4, <1>5, <1>7, <1>8 DEF AppInv, PackageInv
<1>10. Queued(rs, Idle, fd, z, k.id, "STDOUT")
  <2>1. Queued(rs, k, fd, z, k.id, "STDOUT")
    BY <1>0, <1>1, <1>2, WorkingQueue
  <2> QED BY <1>8, <2>1, QueuedIdle
<1>11. /\ "STDOUT" \in Types /\ "STDOUT_END" \in Types
       /\ Rank["STDOUT"] < Rank["STDOUT_END"] /\ Rank["STDOUT_END"] < Rank["END_REQUEST"]
       /\ Rank["STDOUT"] < Rank["END_REQUEST"]
  BY SMTT(20) DEF Types, Rank
<1>12. PICK u : u = z \o pre
  OBVIOUS
<1>13. z \in Seq(Packages)
  BY <1>10 DEF Queued
<1>14. \E type \in Types : Queued(rs, Idle, fd, u, k.id, type) /\ Rank[type] < Rank["END_REQUEST"]
  <2>1. CASE pre = <<>>
    <3>1. u = z
      BY <1>12, <1>13, <2>1, QueueFacts
    <3> QED BY <1>10, <1>11, <3>1
  <2>2. CASE pre = <<o>>
    <3>1. u = Append(z, o)
      BY <1>4, <1>12, <1>13, <2>2, QueueFacts
    <3>2. Queued(rs, Idle, fd, u, k.id, o.type)
      BY <1>4, <1>9, <1>10, <1>11, <3>1, QueuedNext
    <3> QED BY <1>4, <1>11, <3>2
  <2> QED BY <1>6, <2>1, <2>2
<1>15. PICK type \in Types : Queued(rs, Idle, fd, u, k.id, type) /\ Rank[type] < Rank["END_REQUEST"]
  BY <1>14
<1>16. PICK y : y = Append(u, p)
  OBVIOUS
<1>17. Queued(rs, Idle, fd, y, k.id, p.type)
  BY <1>5, <1>9, <1>15, <1>16, QueuedNext
<1>18. inbox' = PutBox(inbox, fd, y)
  <2>1. u \in Seq(Packages)
    BY <1>15 DEF Queued
  <2>2. y = u \o <<p>>
    BY <1>5, <1>16, <2>1, QueueFacts
  <2> QED BY <1>6, <1>12, <2>2
<1>19. \A s \in Slots : net.slot[s].fd = fd => SlotInv(net, rs, inbox', app', s)
  BY <1>7 DEF SlotInv
<1>20. AppInv(rs, Idle, fd)
  BY <1>8 DEF AppInv
<1>21. Good(net, rs, conn, gone, inbox', app')
  <2>1. OnWire(rs, Idle, fd, y)
    BY <1>8, <1>17, <1>20 DEF Queued, OnWire, Queues
  <2>2. Arrives(inbox, app, fd, y, Idle, inbox', app')
    BY <1>1, <1>18 DEF Arrives
  <2> QED BY <1>0, <1>7, <1>19, <2>1, <2>2, ArrivesKeeps
<1> QED BY <1>1, <1>21 DEF IInv

(* The application closes the connection.                                  *)
LEMMA AppLeavesKeeps ==
  ASSUME IInv, NEW fd \in Fds, AppLeaves(fd)
  PROVE  IInv' /\ net'.exited = net.exited
<1>0. /\ Good(net, rs, conn, gone, inbox, app) /\ gone \in [Fds -> BOOLEAN]
      /\ app \in [Fds -> Apps] /\ inbox \in [Fds -> Seq(Packages)]
  BY DEF IInv, Good, World
<1>1. /\ net.file[fd] = "app" /\ UNCHANGED <<net, rs, hand, conn, inbox, serial>>
      /\ gone' = [gone EXCEPT ![fd] = TRUE] /\ app' = PutApp(app, fd, Idle)
  BY DEF AppLeaves, PutApp
<1>2. left' \in 0 .. MaxLeaves
  BY FastCGIAssumption, SMTT(20) DEF AppLeaves, IInv
<1>3. Idle \in Apps /\ Idle.id = NoReq
  BY Values DEF Idle
<1>4. app' \in [Fds -> Apps] /\ app'[fd] = Idle /\ \A x \in Fds : x # fd => app'[x] = app[x]
  BY <1>0, <1>1, <1>3, AppUpdate, SMTT(20)
<1>5. WireOnly(fd, gone, inbox, app, gone', inbox, app')
  <2>1. gone' \in [Fds -> BOOLEAN] /\ \A x \in Fds : x # fd => gone'[x] = gone[x]
    BY <1>0, <1>1
  <2> QED BY <1>0, <1>4, <2>1 DEF WireOnly
<1>6. Flight(net, rs, gone', inbox, app', fd)
  <2>1. Flight(net, rs, gone, inbox, app, fd)
    BY <1>0 DEF Good
  <2>2. \A i \in 1 .. Len(inbox[fd]) : PackageInv(rs, Idle, fd, inbox[fd][i])
    BY <1>3, <2>1 DEF Flight, PackageInv
  <2>3. AppInv(rs, Idle, fd)
    BY <1>3 DEF AppInv
  <2> QED BY <1>1, <1>4, <2>1, <2>2, <2>3 DEF Flight
<1>7. \A s \in Slots : net.slot[s].fd = fd => SlotInv(net, rs, inbox, app', s)
  <2> SUFFICES ASSUME NEW s \in Slots, net.slot[s].fd = fd
               PROVE  SlotInv(net, rs, inbox, app', s)
    OBVIOUS
  <2>1. SlotInv(net, rs, inbox, app, s)
    BY <1>0 DEF Good
  <2> QED BY <1>3, <1>4, <2>1 DEF SlotInv, Sending
<1>8. Good(net, rs, conn, gone', inbox, app')
  BY <1>0, <1>1, <1>5, <1>6, <1>7, WireKeeps
<1> QED BY <1>1, <1>2, <1>8 DEF IInv

(* The application refuses a request before it has read it.                *)
LEMMA AppRefusesKeeps ==
  ASSUME IInv, NEW s \in Slots, AppRefuses(s)
  PROVE  IInv' /\ net'.exited = net.exited
<1>0. /\ Good(net, rs, conn, gone, inbox, app) /\ gone \in [Fds -> BOOLEAN]
      /\ app \in [Fds -> Apps] /\ inbox \in [Fds -> Seq(Packages)]
  BY DEF IInv, Good, World
<1>1. PICK fd, r : fd = net.slot[s].fd /\ r = net.slot[s].begin_req
  OBVIOUS
<1>2. PICK p, y : p = [type |-> "END_REQUEST", id |-> r, of |-> 0] /\ y = <<p>>
  OBVIOUS
<1>3. /\ net.slot[s].state = "SENDING" /\ inbox' = PutBox(inbox, fd, y)
      /\ UNCHANGED <<net, rs, hand, conn, gone, app, serial, left>>
  BY <1>1, <1>2 DEF AppRefuses, PutBox
<1>4. fd \in Fds /\ net.file[fd] = "app" /\ \A t \in Slots : net.slot[t].fd = fd => t = s
  <2>1. net.slot[s].state # "AVAILABLE"
    BY <1>3
  <2> QED BY <1>0, <1>1, <2>1, SlotSocket, SMTT(20)
<1>5. Sending(rs, inbox[fd], app[fd], fd, r)
  BY <1>0, <1>1, <1>3 DEF Good, SlotInv
<1>6. r \in Reqs
  <2>1. net.slot[s] \in FcgiFds
    BY <1>0 DEF Good, World, Nets
  <2> QED BY <1>1, <1>5, <2>1 DEF FcgiFds, Sending
<1>7. p \in Packages /\ p.id = r /\ p.type = "END_REQUEST"
  BY <1>2, <1>6, Numbers DEF Packages
<1>8. y \in Seq(Packages) /\ Len(y) = 1 /\ y[1] = p
  BY <1>2, <1>7, SMTT(20)
<1>9. PackageInv(rs, app[fd], fd, p)
  BY <1>5, <1>7 DEF PackageInv, Sending
<1>10. \A i \in 1 .. Len(y) : i = 1
  BY <1>8, SMTT(20)
<1>11. Arrives(inbox, app, fd, y, app[fd], inbox', app)
  <2>1. app = PutApp(app, fd, app[fd])
    BY <1>0, <1>4 DEF PutApp
  <2> QED BY <1>3, <2>1 DEF Arrives
<1>12. OnWire(rs, app[fd], fd, y)
  <2>1. InOrder(y) /\ \A i \in 1 .. Len(y) : PackageInv(rs, app[fd], fd, y[i])
    BY <1>8, <1>9, <1>10, SMTT(20) DEF InOrder
  <2>2. AppInv(rs, app[fd], fd) /\ app[fd] \in Apps
    BY <1>0, <1>4 DEF Good, Flight
  <2> QED BY <1>8, <2>1, <2>2 DEF OnWire, Queues
<1>13. inbox'[fd] = y
  <2>1. inbox \in [Fds -> Queues] /\ y \in Queues
    BY <1>0, <1>8 DEF Queues
  <2>2. inbox' = PutBox(inbox, fd, y)
    BY <1>3
  <2> QED BY <1>4, <2>1, <2>2, BoxUpdate, SMTT(20)
<1>14. \A t \in Slots : net.slot[t].fd = fd => SlotInv(net, rs, inbox', app, t)
  <2>1. Sending(rs, y, app[fd], fd, r)
    BY <1>5, <1>7, <1>8, <1>10 DEF Sending
  <2>2. SlotInv(net, rs, inbox', app, s)
    BY <1>1, <1>3, <1>13, <2>1 DEF SlotInv
  <2> QED BY <1>4, <2>2
<1>15. Good(net, rs, conn, gone, inbox', app)
  BY <1>0, <1>4, <1>11, <1>12, <1>14, ArrivesKeeps
<1> QED BY <1>3, <1>15 DEF IInv

-----------------------------------------------------------------------------
(* A package arrives.                                                      *)

(* A request that is under way over socket fd only, with nothing left      *)
(* there.                                                                  *)
LEMMA DoneDetached ==
  ASSUME NEW n, NEW q, NEW c, NEW g, NEW b, NEW a, Good(n, q, c, g, b, a),
         NEW r \in Reqs, NEW fd \in Fds, q[r].fcgi_fd = fd,
         b[fd] = <<>>, a[fd].id = NoReq,
         \A t \in Slots : n.slot[t].fd = fd => n.slot[t].state # "SENDING"
  PROVE  Detached(n, b, a, r)
<1>1. ASSUME NEW x \in Fds, NEW i \in 1 .. Len(b[x]), b[x][i].id = r PROVE FALSE
  <2>1. UnderWay(q[r], x)
    BY <1>1 DEF Good, Flight, PackageInv
  <2>2. x = fd
    BY <2>1 DEF UnderWay
  <2>3. 1 .. Len(b[x]) = {}
    BY <2>2, SMTT(20)
  <2> QED BY <2>3
<1>2. ASSUME NEW x \in Fds, a[x].id = r PROVE FALSE
  <2>1. UnderWay(q[r], x)
    BY <1>2, Numbers DEF Good, Flight, AppInv
  <2>2. x = fd
    BY <2>1 DEF UnderWay
  <2> QED BY <1>2, <2>2, Numbers
<1>3. ASSUME NEW t \in Slots, n.slot[t].state = "SENDING", n.slot[t].begin_req = r PROVE FALSE
  <2>1. SlotInv(n, q, b, a, t)
    BY DEF Good
  <2>2. UnderWay(q[r], n.slot[t].fd)
    BY <1>3, <2>1 DEF SlotInv, Sending
  <2>3. n.slot[t].fd = fd
    BY <2>2 DEF UnderWay
  <2> QED BY <1>3, <2>3
<1> QED BY <1>1, <1>2, <1>3 DEF Detached

(* A struct keeps the client that is its own.                              *)
LEMMA OwnFd ==
  ASSUME NEW n, NEW q, NEW c, NEW g, NEW b, NEW a, Good(n, q, c, g, b, a),
         NEW r \in Reqs
  PROVE  /\ q \in [Reqs -> Requests] /\ q[r] \in Requests /\ Owned(n, c, q[r]) /\ Sound(q[r])
         /\ q[r].fd = NoFd \/ \A p \in Reqs : p # r => q[p].fd # q[r].fd
  BY DEF Good, World, ClientInv

(* Failing or ending a request wakes its client; the flag goes with it.    *)
LEMMA AwakeKeeps ==
  ASSUME NEW n, NEW q, NEW c, NEW g, NEW b, NEW a, Good(n, q, c, g, b, a),
         NEW r \in Reqs, q[r].state # "AVAILABLE", NEW w, w = PutReq(q, r, PutAwake(q[r]))
  PROVE  Good(n, w, c, g, b, a)
<1>0. /\ q[r] \in Requests /\ Owned(n, c, q[r]) /\ Sound(q[r])
      /\ q[r].fd = NoFd \/ \A p \in Reqs : p # r => q[p].fd # q[r].fd
  BY OwnFd
<1>1. PICK y : y = PutAwake(q[r])
  OBVIOUS
<1>2. /\ y \in Requests /\ y.state = q[r].state /\ ~ y.sleeping
      /\ y.fd = q[r].fd /\ y.fcgi_fd = q[r].fcgi_fd /\ y.sr = q[r].sr /\ y.iov = q[r].iov
  <2>1. q[r] \in Requests
    BY <1>0
  <2> QED BY <1>1, <2>1, WokenFields
<1>3. w = PutReq(q, r, y)
  BY <1>1
<1>4. Owned(n, c, y)
  BY <1>0, <1>2 DEF Owned
<1>5. Sound(y)
  BY <1>0, <1>2 DEF Sound
<1>6. Continues(q[r], y)
  BY <1>2 DEF Continues, UnderWay
<1>7. y \in Requests /\ (y.fd = NoFd \/ \A p \in Reqs : p # r => q[p].fd # y.fd)
  BY <1>0, <1>2
<1> QED BY <1>3, <1>4, <1>5, <1>6, <1>7, ReqContinues

(* Waking the client of a struct; only a sleeper without a socket can end  *)
(* the worker.                                                             *)
LEMMA WakeClientKeeps ==
  ASSUME NEW n, NEW q, NEW c, NEW g, NEW b, NEW a, Good(n, q, c, g, b, a),
         NEW r \in Reqs, q[r].state # "AVAILABLE",
         NEW w, w = PutReq(q, r, PutAwake(q[r])), NEW m, m = FailNet(n, q[r])
  PROVE  /\ Good(m, w, c, g, b, a) /\ m.slot = n.slot
         /\ m.exited = n.exited \/ (q[r].fd = NoFd /\ q[r].sleeping)
<1>0. /\ q \in [Reqs -> Requests] /\ q[r] \in Requests /\ Owned(n, c, q[r])
      /\ q[r].fd = NoFd \/ \A p \in Reqs : p # r => q[p].fd # q[r].fd
  BY OwnFd
<1>1. Good(n, w, c, g, b, a)
  BY AwakeKeeps
<1>2. n \in Nets /\ c \in [Fds -> Conns]
  BY DEF Good, World
<1>3. CASE ~ q[r].sleeping
  <2>1. m = n
    BY <1>3 DEF FailNet
  <2> QED BY <1>1, <2>1
<1>4. CASE q[r].sleeping /\ q[r].fd = NoFd
  <2>1. m = ChangeMode(n, NoFd, "WAKEUP")
    BY <1>4 DEF FailNet
  <2>2. /\ m \in Nets /\ m.file = n.file /\ m.event = n.event /\ m.slot = n.slot
        /\ m.ep = n.ep
    BY <1>2, <2>1, ModeExit
  <2>3. Good(m, w, c, g, b, a)
    BY <1>1, <2>2, FlagKeeps
  <2> QED BY <1>4, <2>2, <2>3
<1>5. CASE q[r].sleeping /\ q[r].fd # NoFd
  <2>1. PICK fd : fd = q[r].fd
    OBVIOUS
  <2>2. fd \in Fds
    BY <1>0, <1>5, <2>1 DEF Requests
  <2>3. c[fd].st = "write" /\ n.ep[fd].asleep
    BY <1>0, <1>5, <2>1 DEF Owned
  <2>4. n.file[fd] = "client"
    BY <2>2, <2>3 DEF Good, ClientInv
  <2>5. m = ChangeMode(n, fd, "WAKEUP")
    BY <1>5, <2>1 DEF FailNet
  <2>6. EpOnly(n, m, fd) /\ m.exited = n.exited
    BY <1>2, <2>2, <2>3, <2>5, ModeWakeup
  <2>7. ClientOnly(n, m, c, c, fd)
    BY <1>2, <2>3, <2>4, <2>6 DEF ClientOnly, EpOnly
  <2>8. PICK y : y = PutAwake(q[r])
    OBVIOUS
  <2>9. /\ y \in Requests /\ ~ y.sleeping /\ y.fd = fd
    <3>1. q[r] \in Requests
      BY <1>0
    <3>2. y \in Requests /\ ~ y.sleeping /\ y.fd = q[r].fd
      BY <2>8, <3>1, WokenFields
    <3> QED BY <2>1, <3>2
  <2>10. w = PutReq(q, r, y)
    BY <2>8
  <2>11. w[r] = y /\ \A p \in Reqs : p # r => w[p] = q[p]
    BY <1>0, <2>9, <2>10, ReqUpdate, SMTT(20)
  <2>12. OwnedAt(m, c, w, fd)
    <3> SUFFICES ASSUME NEW p \in Reqs, w[p].fd = fd PROVE Owned(m, c, w[p])
      BY DEF OwnedAt
    <3>1. p = r
      BY <1>0, <1>5, <2>1, <2>11
    <3>2. Owned(n, c, w[p])
      BY <1>1 DEF Good, ClientInv
    <3>3. ~ w[p].sleeping
      BY <2>9, <2>11, <3>1
    <3> QED BY <3>2, <3>3 DEF Owned
  <2>13. Good(m, w, c, g, b, a)
    BY <1>1, <2>2, <2>7, <2>12, ClientKeeps
  <2>14. m.slot = n.slot
    BY <2>6 DEF EpOnly
  <2> QED BY <2>6, <2>13, <2>14
<1> QED BY <1>3, <1>4, <1>5

(* A request struct nothing is under way of gets the value y.              *)
LEMMA DoneKeeps ==
  ASSUME NEW n, NEW q, NEW c, NEW g, NEW b, NEW a, Good(n, q, c, g, b, a),
         NEW r \in Reqs, Detached(n, b, a, r),
         NEW y \in Requests, y.fd = q[r].fd, y.sr = q[r].sr, y.iov = q[r].iov, ~ y.sleeping,
         y.state \in {"FAILED", "ENDED"}, y.fcgi_fd = NoFd, y.fd = NoFd => y.state = "FAILED",
         NEW w, w = PutReq(q, r, y)
  PROVE  Good(n, w, c, g, b, a)
<1>0. /\ Owned(n, c, q[r])
      /\ q[r].fd = NoFd \/ \A p \in Reqs : p # r => q[p].fd # q[r].fd
  BY OwnFd
<1>1. Owned(n, c, y)
  BY <1>0 DEF Owned
<1>2. Sound(y)
  BY DEF Sound
<1>3. y.fd = NoFd \/ \A p \in Reqs : p # r => q[p].fd # y.fd
  BY <1>0
<1> QED BY <1>1, <1>2, <1>3, ReqDetached

(* A struct no connection knows returns to the list.                       *)
LEMMA RecycledKeeps ==
  ASSUME NEW n, NEW q, NEW c, NEW g, NEW b, NEW a, Good(n, q, c, g, b, a),
         NEW r \in Reqs, Detached(n, b, a, r), NEW w, w = PutReq(q, r, FreeRequest)
  PROVE  Good(n, w, c, g, b, a)
<1>0. FreeRequest \in Requests /\ FreeRequest.fd = NoFd /\ FreeRequest.state = "AVAILABLE"
  BY Values DEF FreeRequest
<1>1. Owned(n, c, FreeRequest) /\ Sound(FreeRequest)
  BY <1>0 DEF Owned, Sound
<1> QED BY <1>0, <1>1, ReqDetached

(* Package p is the next one on the socket of slot s, for request r.       *)
Arrived(n, q, b, a, s, fd, p, r) ==
  /\ fd \in Fds /\ n.slot[s].fd = fd /\ n.file[fd] = "app" /\ b[fd] # <<>>
  /\ p = b[fd][1] /\ 1 \in 1 .. Len(b[fd])
  /\ p \in Packages /\ p.id = r /\ r \in Reqs
  /\ PackageInv(q, a[fd], fd, p)
  /\ n.slot[s].state \in {"SENDING", "RECEIVING"}
  /\ n.slot[s].state = "SENDING" => p.type = "END_REQUEST" /\ n.slot[s].begin_req = r

(* A package at the head of an inbox belongs to the struct it names.       *)
LEMMA HandledPackage ==
  ASSUME NEW n, NEW q, NEW c, NEW g, NEW b, NEW a, Good(n, q, c, g, b, a),
         NEW s \in Slots, NEW fd, fd = n.slot[s].fd, fd # NoFd, b[fd] # <<>>,
         NEW p, p = Head(b[fd]), NEW r, r = p.id
  PROVE  Arrived(n, q, b, a, s, fd, p, r)
<1>1. /\ fd \in Fds /\ n.file[fd] = "app" /\ n.slot[s] \in FcgiFds
      /\ n.slot[s].state # "AVAILABLE"
  BY SlotSocket, SMTT(20)
<1>2. b[fd] \in Seq(Packages)
  BY <1>1 DEF Good, World
<1>3. p = b[fd][1] /\ 1 \in 1 .. Len(b[fd]) /\ p \in Packages
  BY <1>2, SMTT(20)
<1>4. r \in Reqs
  BY <1>3 DEF Packages
<1>5. PackageInv(q, a[fd], fd, p)
  BY <1>1, <1>3 DEF Good, Flight
<1>6. SlotInv(n, q, b, a, s)
  BY DEF Good
<1>7. n.slot[s].state \in {"SENDING", "RECEIVING"}
  BY <1>1, <1>6 DEF SlotInv, FcgiFds, FdStates
<1>8. n.slot[s].state = "SENDING" => p.type = "END_REQUEST" /\ n.slot[s].begin_req = r
  BY <1>3, <1>6 DEF SlotInv, Sending
<1> QED BY <1>1, <1>3, <1>4, <1>5, <1>7, <1>8 DEF Arrived

(* fcgi_handle_pkg() fails only of the end of a request that was not all   *)
(* sent.                                                                   *)
LEMMA OnlyRefusalsFail ==
  ASSUME NEW s \in Slots, NEW fd, NEW p, NEW r, Arrived(net, rs, inbox, app, s, fd, p, r)
  PROVE  PkgFails(p, rs[r], s) <=> p.type = "END_REQUEST" /\ net.slot[s].state = "SENDING"
<1>1. /\ p.type \in {"STDOUT", "STDOUT_END", "END_REQUEST"}
      /\ net.slot[s].state \in {"SENDING", "RECEIVING"}
      /\ rs[r].state \in {"SENT", "STREAM_CLOSED", "FAILED"}
      /\ p.type # "END_REQUEST" => rs[r].state # "STREAM_CLOSED"
  BY DEF Arrived, Packages, PackageInv, UnderWay
<1>2. CASE p.type = "STDOUT"
  BY <1>1, <1>2 DEF PkgFails
<1>3. CASE p.type = "STDOUT_END"
  <2>1. rs[r].state # "FAILED" => rs[r].state \in ReqMayBecome["STREAM_CLOSED"]
    BY <1>1, <1>3 DEF ReqMayBecome
  <2> QED BY <1>3, <2>1 DEF PkgFails, ReqAllowed
<1>4. CASE p.type = "END_REQUEST"
  <2>1. rs[r].state # "FAILED" => rs[r].state \in ReqMayBecome["ENDED"]
    BY <1>1 DEF ReqMayBecome
  <2>2. net.slot[s].state \in FdMayBecome["READY"] <=> net.slot[s].state # "SENDING"
    BY <1>1 DEF FdMayBecome
  <2> QED BY <1>4, <2>1, <2>2 DEF PkgFails, ReqAllowed, FdAllowed
<1> QED BY <1>1, <1>2, <1>3, <1>4

(* The application ended a request it had not all of.                      *)
Refuse(x) == [FailedReq(x) EXCEPT !.fcgi_fd = NoFd]

(* A refused request fails and leaves its connection.                      *)
LEMMA RefuseFields ==
  ASSUME NEW x \in Requests, NEW y, y = Refuse(x)
  PROVE  /\ y \in Requests /\ y.state = "FAILED" /\ ~ y.sleeping
         /\ y.fd = x.fd /\ y.fcgi_fd = NoFd /\ y.sr = x.sr /\ y.iov = x.iov
<1>1. PICK z : z = FailedReq(x)
  OBVIOUS
<1>2. /\ z \in Requests /\ z.state = "FAILED" /\ ~ z.sleeping
      /\ z.fd = x.fd /\ z.sr = x.sr /\ z.iov = x.iov
  BY <1>1, FailedReqFields
<1>3. y = [z EXCEPT !.fcgi_fd = NoFd]
  BY <1>1 DEF Refuse
<1>4. y \in Requests /\ y.fcgi_fd = NoFd
  BY <1>2, <1>3 DEF Requests
<1>5. y.state = z.state /\ (y.sleeping <=> z.sleeping) /\ y.fd = z.fd /\ y.sr = z.sr /\ y.iov = z.iov
  BY <1>2, <1>3 DEF Requests
<1> QED BY <1>2, <1>4, <1>5

(* Two changes of one request struct.                                      *)
LEMMA PutTwice ==
  ASSUME NEW q \in [Reqs -> Requests], NEW r \in Reqs, NEW x \in Requests, NEW y \in Requests,
         NEW w, w = PutReq(q, r, x)
  PROVE  PutReq(w, r, y) = PutReq(q, r, y)
  BY DEF PutReq

(* fcgi_handle_pkg() on a slot that is still sending.                      *)
LEMMA RefusedKeeps ==
  ASSUME IInv, NEW s \in Slots, NEW fd, NEW p, NEW r, Arrived(net, rs, inbox, app, s, fd, p, r),
         net.slot[s].state = "SENDING",
         rs' = PutReq(rs, r, Refuse(rs[r])), CloseSlot(FailNet(net, rs[r]), s)
  PROVE  /\ Good(net', rs', conn, gone', inbox', app')
         /\ net'.exited = net.exited \/ (rs[r].fd = NoFd /\ rs[r].sleeping)
<1>0. Good(net, rs, conn, gone, inbox, app)
  BY DEF IInv
<1>1. /\ fd \in Fds /\ net.slot[s].fd = fd /\ r \in Reqs
      /\ rs[r].fcgi_fd = fd /\ rs[r].state # "AVAILABLE"
  BY DEF Arrived, PackageInv, UnderWay
<1>2. PICK m, w : m = FailNet(net, rs[r]) /\ w = PutReq(rs, r, PutAwake(rs[r]))
  OBVIOUS
<1>3. /\ Good(m, w, conn, gone, inbox, app) /\ m.slot = net.slot
      /\ m.exited = net.exited \/ (rs[r].fd = NoFd /\ rs[r].sleeping)
  BY <1>0, <1>1, <1>2, WakeClientKeeps, SMTT(20)
<1>4. /\ m \in Nets /\ gone \in [Fds -> BOOLEAN] /\ inbox \in [Fds -> Seq(Packages)]
      /\ app \in [Fds -> Apps] /\ m.slot[s].fd = fd /\ m.slot[s].state = "SENDING"
  BY <1>1, <1>3 DEF Good, World
<1>5. Freed(m, net', s) /\ Disconnect(fd)
  <2>1. CloseSlot(m, s)
    BY <1>2
  <2> QED BY <1>1, <1>4, <2>1, CloseSlotFields
<1>6. Cut(fd, gone, inbox, app, gone', inbox', app')
  BY <1>1, <1>4, <1>5, Disconnected
<1>7. Good(net', w, conn, gone', inbox', app')
  BY <1>1, <1>3, <1>4, <1>5, <1>6, FreedKeeps
<1>8. rs \in [Reqs -> Requests] /\ rs[r] \in Requests
  BY <1>0, <1>1, OwnFd
<1>9. PICK x : x = PutAwake(rs[r])
  OBVIOUS
<1>10. /\ x \in Requests /\ x.fd = rs[r].fd /\ x.fcgi_fd = fd /\ x.sr = rs[r].sr
       /\ x.iov = rs[r].iov
  BY <1>1, <1>8, <1>9, WokenFields
<1>11. w = PutReq(rs, r, x)
  BY <1>2, <1>9
<1>12. w[r] = x
  BY <1>1, <1>8, <1>10, <1>11, ReqUpdate, SMTT(20)
<1>13. inbox'[fd] = <<>> /\ app'[fd].id = NoReq
  BY <1>6 DEF Cut
<1>14. ASSUME NEW t \in Slots, net'.slot[t].fd = fd PROVE FALSE
  <2>1. net'.file[fd] = "free"
    BY <1>1, <1>4, <1>5 DEF Freed, Nets
  <2>2. SlotTable(net', t)
    BY <1>7 DEF Good, Tables
  <2> QED BY <1>1, <1>14, <2>1, <2>2, Numbers DEF SlotTable
<1>15. Detached(net', inbox', app', r)
  <2>1. w[r].fcgi_fd = fd
    BY <1>10, <1>12
  <2>2. \A t \in Slots : net'.slot[t].fd = fd => net'.slot[t].state # "SENDING"
    BY <1>14
  <2> QED BY <1>1, <1>7, <1>13, <2>1, <2>2, DoneDetached
<1>16. PICK y : y = Refuse(rs[r])
  OBVIOUS
<1>17. /\ y \in Requests /\ y.state = "FAILED" /\ ~ y.sleeping
       /\ y.fd = rs[r].fd /\ y.fcgi_fd = NoFd /\ y.sr = rs[r].sr /\ y.iov = rs[r].iov
  BY <1>8, <1>16, RefuseFields
<1>18. y.fd = w[r].fd /\ y.sr = w[r].sr /\ y.iov = w[r].iov
  BY <1>10, <1>12, <1>17
<1>19. rs' = PutReq(w, r, y)
  <2>1. rs' = PutReq(rs, r, y)
    BY <1>16
  <2>2. x \in Requests /\ y \in Requests
    BY <1>10, <1>17
  <2> QED BY <1>1, <1>8, <1>11, <2>1, <2>2, PutTwice, SMTT(20)
<1>20. Good(net', rs', conn, gone', inbox', app')
  BY <1>1, <1>7, <1>15, <1>17, <1>18, <1>19, DoneKeeps
<1>21. net'.exited = m.exited
  BY <1>5 DEF Freed
<1> QED BY <1>3, <1>20, <1>21

(* Output for a request: it is kept, unless the request has failed.        *)
LEMMA OutputKeeps ==
  ASSUME NEW n, NEW q, NEW c, NEW g, NEW b, NEW a, Good(n, q, c, g, b, a),
         NEW r \in Reqs, NEW fd \in Fds, UnderWay(q[r], fd), q[r].state = "SENT",
         NEW k \in 0 .. MaxSerial, q[r].fd # NoFd => k = q[r].sr,
         NEW w, w = PutReq(q, r, PutIov(q[r], [holds |-> "answer", of |-> k]))
  PROVE  Good(n, w, c, g, b, a)
<1>0. /\ q[r] \in Requests /\ Owned(n, c, q[r]) /\ Sound(q[r])
      /\ q[r].fd = NoFd \/ \A p \in Reqs : p # r => q[p].fd # q[r].fd
  BY OwnFd
<1>1. PICK v, y : v = [holds |-> "answer", of |-> k] /\ y = PutIov(q[r], v)
  OBVIOUS
<1>2. v \in Iovs /\ v.holds = "answer" /\ v.of = k
  BY <1>1 DEF Iovs
<1>3. /\ y \in Requests /\ y.state = q[r].state /\ (y.sleeping <=> q[r].sleeping)
      /\ y.fd = q[r].fd /\ y.fcgi_fd = q[r].fcgi_fd /\ y.sr = q[r].sr /\ y.iov = v
  <2>1. q[r] \in Requests /\ v \in Iovs /\ y = PutIov(q[r], v)
    BY <1>0, <1>1, <1>2
  <2> QED BY <2>1, IovFields, SMTT(20)
<1>4. w = PutReq(q, r, y)
  BY <1>1
<1>5. Owned(n, c, y)
  BY <1>0, <1>2, <1>3 DEF Owned
<1>6. Sound(y)
  BY <1>0, <1>3 DEF Sound
<1>7. Continues(q[r], y)
  BY <1>2, <1>3 DEF Continues, UnderWay
<1>8. y \in Requests /\ (y.fd = NoFd \/ \A p \in Reqs : p # r => q[p].fd # y.fd)
  BY <1>0, <1>3
<1> QED BY <1>4, <1>5, <1>6, <1>7, <1>8, ReqContinues

(* The end of the output: only the end of the request may follow.          *)
LEMMA StreamClosedKeeps ==
  ASSUME NEW n, NEW q, NEW c, NEW g, NEW b, NEW a, Good(n, q, c, g, b, a),
         NEW r \in Reqs, NEW fd \in Fds, UnderWay(q[r], fd), q[r].state = "SENT",
         \A i \in 1 .. Len(b[fd]) : b[fd][i].type = "END_REQUEST",
         a[fd].id = NoReq, \A t \in Slots : n.slot[t].fd = fd => n.slot[t].state # "SENDING",
         NEW w, w = PutReq(q, r, ReqSetState(q[r], "STREAM_CLOSED"))
  PROVE  Good(n, w, c, g, b, a)
<1>0. /\ q \in [Reqs -> Requests] /\ q[r] \in Requests /\ Owned(n, c, q[r]) /\ Sound(q[r])
      /\ q[r].fd = NoFd \/ \A p \in Reqs : p # r => q[p].fd # q[r].fd
  BY OwnFd
<1>1. PICK y : y = ReqSetState(q[r], "STREAM_CLOSED")
  OBVIOUS
<1>2. /\ y \in Requests /\ y.state = "STREAM_CLOSED" /\ (y.sleeping <=> q[r].sleeping)
      /\ y.fd = q[r].fd /\ y.fcgi_fd = q[r].fcgi_fd /\ y.sr = q[r].sr /\ y.iov = q[r].iov
  <2>1. q[r].state \in ReqMayBecome["STREAM_CLOSED"]
    BY DEF ReqMayBecome
  <2>2. y = [q[r] EXCEPT !.state = "STREAM_CLOSED"]
    BY <1>1, <2>1 DEF ReqSetState
  <2> QED BY <1>0, <2>2 DEF Requests, ReqStates
<1>3. w = PutReq(q, r, y)
  BY <1>1
<1>4. w[r] = y
  <2>1. y \in Requests /\ q \in [Reqs -> Requests]
    BY <1>0, <1>2
  <2> QED BY <1>3, <2>1, ReqUpdate, SMTT(20)
<1>5. Owned(n, c, y)
  BY <1>0, <1>2 DEF Owned
<1>6. Sound(y)
  BY <1>0, <1>2 DEF Sound
<1>7. y \in Requests /\ (y.fd = NoFd \/ \A p \in Reqs : p # r => q[p].fd # y.fd)
  BY <1>0, <1>2
<1>8. \A x \in Fds : \A i \in 1 .. Len(b[x]) : b[x][i].id = r => PackageInv(w, a[x], x, b[x][i])
  <2> SUFFICES ASSUME NEW x \in Fds, NEW i \in 1 .. Len(b[x]), b[x][i].id = r
               PROVE  PackageInv(w, a[x], x, b[x][i])
    OBVIOUS
  <2>1. PICK p : p = b[x][i]
    OBVIOUS
  <2>2. PackageInv(q, a[x], x, p) /\ p.id = r
    BY <2>1 DEF Good, Flight
  <2>3. UnderWay(q[r], x)
    BY <2>2 DEF PackageInv
  <2>4. x = fd
    BY <2>3 DEF UnderWay
  <2>5. p.type = "END_REQUEST"
    BY <2>1, <2>4
  <2>6. UnderWay(y, x)
    BY <1>2, <2>3 DEF UnderWay
  <2>7. PackageInv(w, a[x], x, p)
    BY <1>4, <2>2, <2>4, <2>5, <2>6 DEF PackageInv
  <2> QED BY <2>1, <2>7
<1>9. ASSUME NEW x \in Fds, a[x].id = r PROVE FALSE
  <2>1. UnderWay(q[r], x)
    BY <1>9, Numbers DEF Good, Flight, AppInv
  <2>2. x = fd
    BY <2>1 DEF UnderWay
  <2> QED BY <1>9, <2>2, Numbers
<1>10. ASSUME NEW t \in Slots, n.slot[t].state = "SENDING", n.slot[t].begin_req = r PROVE FALSE
  <2>1. SlotInv(n, q, b, a, t)
    BY DEF Good
  <2>2. UnderWay(q[r], n.slot[t].fd)
    BY <1>10, <2>1 DEF SlotInv, Sending
  <2>3. n.slot[t].fd = fd
    BY <2>2 DEF UnderWay
  <2> QED BY <1>10, <2>3
<1> QED BY <1>3, <1>5, <1>6, <1>7, <1>8, <1>9, <1>10, ReqKeeps

(* The next package i of the socket of slot s is taken: what is left.      *)
LEMMA Rest ==
  ASSUME NEW n, NEW q, NEW c, NEW g, NEW b, NEW a, Good(n, q, c, g, b, a),
         NEW s \in Slots, NEW fd, NEW p, NEW r, Arrived(n, q, b, a, s, fd, p, r),
         NEW i, i = Read(b, fd)
  PROVE  /\ Good(n, q, c, g, i, a)
         /\ p.type = "STDOUT_END" => \A k \in 1 .. Len(i[fd]) : i[fd][k].type = "END_REQUEST"
         /\ p.type = "END_REQUEST" => i[fd] = <<>>
<1>1. fd \in Fds /\ n.file[fd] = "app" /\ b[fd] # <<>> /\ p = b[fd][1] /\ 1 \in 1 .. Len(b[fd])
  BY DEF Arrived
<1>2. /\ Good(n, q, c, g, i, a) /\ i \in [Fds -> Seq(Packages)]
      /\ Len(i[fd]) = Len(b[fd]) - 1
      /\ \A k \in 1 .. Len(i[fd]) : i[fd][k] = b[fd][k + 1] /\ k + 1 \in 1 .. Len(b[fd])
  BY <1>1, ConsumeKeeps, SMTT(20)
<1>3. b[fd] \in Seq(Packages) /\ InOrder(b[fd])
  BY <1>1 DEF Good, World, Flight
<1>4. PICK z, o : z = b[fd] /\ o = i[fd]
  OBVIOUS
<1>5. \A k \in 1 .. Len(o) : o[k].type \in Types /\ Rank[p.type] < Rank[o[k].type]
  <2> SUFFICES ASSUME NEW k \in 1 .. Len(o)
               PROVE  o[k].type \in Types /\ Rank[p.type] < Rank[o[k].type]
    OBVIOUS
  <2>1. o[k] = z[k + 1] /\ k + 1 \in 1 .. Len(z) /\ 1 < k + 1 /\ p = z[1] /\ 1 \in 1 .. Len(z)
    BY <1>1, <1>2, <1>4, SMTT(20)
  <2>2. o[k] \in Packages
    BY <1>3, <1>4, <2>1, SMTT(20)
  <2>3. Rank[z[1].type] < Rank[z[k + 1].type]
    BY <1>3, <1>4, <2>1 DEF InOrder
  <2> QED BY <2>1, <2>2, <2>3 DEF Packages, Types
<1>6. p.type = "STDOUT_END" => \A k \in 1 .. Len(o) : o[k].type = "END_REQUEST"
  BY <1>5, SMTT(20) DEF Types, Rank
<1>7. p.type = "END_REQUEST" => o = <<>>
  <2>1. ASSUME p.type = "END_REQUEST" PROVE o = <<>>
    <3>1. 1 .. Len(o) = {}
      BY <1>5, <2>1, SMTT(20) DEF Types, Rank
    <3>2. o \in Seq(Packages)
      BY <1>1, <1>2, <1>4
    <3>3. Len(o) = 0
      <4>1. PICK m : m = Len(o)
        OBVIOUS
      <4>2. m \in Nat
        BY <3>2, <4>1, SMTT(20)
      <4>3. 1 .. m = {}
        BY <3>1, <4>1
      <4>4. m = 0
        BY <4>2, <4>3, SMTT(20)
      <4> QED BY <4>1, <4>4
    <3> QED BY <3>2, <3>3, SMTT(20)
  <2> QED BY <2>1
<1> QED BY <1>2, <1>4, <1>6, <1>7

(* The slot is ready for the next request.                                 *)
LEMMA ReadyKeeps ==
  ASSUME NEW n, NEW q, NEW c, NEW g, NEW b, NEW a, Good(n, q, c, g, b, a),
         NEW s \in Slots, n.slot[s].state = "RECEIVING", NEW fd, fd = n.slot[s].fd,
         b[fd] = <<>>, a[fd].id = NoReq, NEW m, m = FdSetState(n, s, "READY")
  PROVE  /\ Good(m, q, c, g, b, a) /\ m.exited = n.exited
         /\ m.slot[s].state = "READY" /\ m.slot[s].fd = fd
<1>0. n \in Nets
  BY DEF Good, World
<1>1. n.slot[s].state # "AVAILABLE" /\ n.slot[s].state # "SLEEPING"
  OBVIOUS
<1>2. fd \in Fds /\ (n.slot[s].state = "SLEEPING" <=> n.ep[fd].asleep)
  BY <1>1, SlotSocket
<1>3. "READY" \in FdStates /\ "RECEIVING" \in FdMayBecome["READY"]
  BY DEF FdStates, FdMayBecome
<1>4. SlotOnly(n, m, s) /\ m.slot[s].state = "READY"
  <2>1. n.slot[s].state \in FdMayBecome["READY"]
    BY <1>3
  <2> QED BY <1>0, <1>3, <2>1, SetStateFields, SMTT(20)
<1>5. /\ m \in Nets /\ m.file = n.file /\ m.event = n.event /\ m.ep = n.ep
      /\ m.exited = n.exited /\ m.slot[s].fd = n.slot[s].fd
      /\ \A t \in Slots : t # s => m.slot[t] = n.slot[t]
  BY <1>4 DEF SlotOnly
<1>6. ConnectionOnly(n, m, s, fd)
  BY <1>1, <1>2, <1>4, <1>5 DEF ConnectionOnly
<1>7. m.slot[s].fd = fd
  BY <1>5
<1>8. SlotInv(m, q, b, a, s)
  BY <1>4, <1>7 DEF SlotInv
<1> QED BY <1>2, <1>4, <1>5, <1>6, <1>7, <1>8, SlotKeeps

(* What FCGI_END_REQUEST makes of a request whose client waits.            *)
Ended(x)  == [ReqSetState(x, "ENDED") EXCEPT !.fcgi_fd = NoFd, !.sleeping = FALSE]
Parted(x) == [x EXCEPT !.fcgi_fd = NoFd]

(* A finished request leaves its connection and wakes its client.          *)
LEMMA EndedFields ==
  ASSUME NEW x \in Requests, x.state \in {"SENT", "STREAM_CLOSED"}, NEW y, y = Ended(x)
  PROVE  /\ y \in Requests /\ y.state = "ENDED" /\ ~ y.sleeping
         /\ y.fd = x.fd /\ y.fcgi_fd = NoFd /\ y.sr = x.sr /\ y.iov = x.iov
<1>0. PICK z : z = ReqSetState(x, "ENDED")
  OBVIOUS
<1>1. z = [x EXCEPT !.state = "ENDED"]
  <2>1. x.state \in ReqMayBecome["ENDED"]
    BY DEF ReqMayBecome
  <2> QED BY <1>0, <2>1 DEF ReqSetState
<1>2. z \in Requests /\ z.state = "ENDED" /\ z.fd = x.fd /\ z.sr = x.sr /\ z.iov = x.iov
  BY <1>1 DEF Requests, ReqStates
<1>3. y = [z EXCEPT !.fcgi_fd = NoFd, !.sleeping = FALSE]
  BY <1>0 DEF Ended
<1>4. y \in Requests /\ y.fcgi_fd = NoFd /\ ~ y.sleeping
  BY <1>2, <1>3 DEF Requests
<1>5. y.state = z.state /\ y.fd = z.fd /\ y.sr = z.sr /\ y.iov = z.iov
  BY <1>2, <1>3 DEF Requests
<1> QED BY <1>2, <1>4, <1>5

(* A package that does not end its request.                                *)
LEMMA MiddleKeeps ==
  ASSUME IInv, NEW s \in Slots, NEW fd, NEW p, NEW r, Arrived(net, rs, inbox, app, s, fd, p, r),
         p.type # "END_REQUEST", rs' = PutReq(rs, r, PkgRequest(p, rs[r])),
         inbox' = Read(inbox, fd)
  PROVE  Good(net, rs', conn, gone, inbox', app)
<1>0. Good(net, rs, conn, gone, inbox, app)
  BY DEF IInv
<1>1. /\ fd \in Fds /\ r \in Reqs /\ UnderWay(rs[r], fd) /\ net.slot[s].fd = fd
      /\ net.slot[s].state # "SENDING" /\ net.slot[s].state # "AVAILABLE"
      /\ p \in Packages /\ PackageInv(rs, app[fd], fd, p)
  BY DEF Arrived, PackageInv
<1>2. /\ rs[r].state \in {"SENT", "FAILED"} /\ p.type \in {"STDOUT", "STDOUT_END"}
      /\ p.of \in 0 .. MaxSerial
      /\ p.type = "STDOUT" /\ rs[r].fd # NoFd => p.of = rs[r].sr
      /\ p.type # "STDOUT" => app[fd].id = NoReq
  <2>1. p.id = r
    BY DEF Arrived
  <2> QED BY <1>1, <2>1 DEF PackageInv, UnderWay, Packages
<1>3. /\ Good(net, rs, conn, gone, inbox', app)
      /\ p.type = "STDOUT_END" => \A k \in 1 .. Len(inbox'[fd]) : inbox'[fd][k].type = "END_REQUEST"
  BY <1>0, Rest, SMTT(20)
<1>4. CASE rs[r].state = "FAILED"
  <2>1. PkgRequest(p, rs[r]) = rs[r]
    BY <1>2, <1>4 DEF PkgRequest
  <2>2. rs \in [Reqs -> Requests]
    BY <1>0 DEF Good, World
  <2>3. rs' = rs
    BY <1>1, <2>1, <2>2 DEF PutReq
  <2> QED BY <1>3, <2>3
<1>5. CASE rs[r].state = "SENT" /\ p.type = "STDOUT"
  <2>1. PkgRequest(p, rs[r]) = PutIov(rs[r], [holds |-> "answer", of |-> p.of])
    BY <1>5 DEF PkgRequest, PutIov
  <2>2. rs' = PutReq(rs, r, PutIov(rs[r], [holds |-> "answer", of |-> p.of]))
    BY <2>1
  <2>3. rs[r].state = "SENT" /\ (rs[r].fd # NoFd => p.of = rs[r].sr)
    BY <1>2, <1>5
  <2> QED BY <1>1, <1>2, <1>3, <2>2, <2>3, OutputKeeps
<1>6. CASE rs[r].state = "SENT" /\ p.type = "STDOUT_END"
  <2>1. PkgRequest(p, rs[r]) = ReqSetState(rs[r], "STREAM_CLOSED")
    BY <1>6 DEF PkgRequest
  <2>2. rs' = PutReq(rs, r, ReqSetState(rs[r], "STREAM_CLOSED"))
    BY <2>1
  <2>3. \A t \in Slots : net.slot[t].fd = fd => net.slot[t].state # "SENDING"
    <3>1. \A t \in Slots : net.slot[t].fd = fd => t = s
      BY <1>0, <1>1, SlotSocket, SMTT(20)
    <3> QED BY <1>1, <3>1
  <2>4. \A k \in 1 .. Len(inbox'[fd]) : inbox'[fd][k].type = "END_REQUEST"
    BY <1>3, <1>6
  <2>5. rs[r].state = "SENT" /\ app[fd].id = NoReq
    BY <1>2, <1>6
  <2> QED BY <1>1, <1>3, <2>2, <2>3, <2>4, <2>5, StreamClosedKeeps
<1> QED BY <1>2, <1>4, <1>5, <1>6

(* FCGI_END_REQUEST of a request whose client waits for it.                *)
LEMMA EndedKeeps ==
  ASSUME NEW n, NEW q, NEW c, NEW g, NEW b, NEW a, Good(n, q, c, g, b, a),
         NEW r \in Reqs, Detached(n, b, a, r), q[r].fd # NoFd,
         q[r].state \in {"SENT", "STREAM_CLOSED"},
         NEW m, m = FailNet(n, q[r]), NEW w, w = PutReq(q, r, Ended(q[r]))
  PROVE  Good(m, w, c, g, b, a) /\ m.exited = n.exited
<1>0. q \in [Reqs -> Requests] /\ q[r] \in Requests
  BY OwnFd
<1>1. PICK x, v, y : x = PutAwake(q[r]) /\ v = PutReq(q, r, x) /\ y = Ended(q[r])
  OBVIOUS
<1>2. Good(m, v, c, g, b, a) /\ m.slot = n.slot /\ m.exited = n.exited
  <2>1. v = PutReq(q, r, PutAwake(q[r])) /\ q[r].state # "AVAILABLE"
    BY <1>1
  <2> QED BY <2>1, WakeClientKeeps, SMTT(20)
<1>3. Detached(m, b, a, r)
  BY <1>2 DEF Detached
<1>4. x \in Requests /\ x.fd = q[r].fd /\ x.sr = q[r].sr /\ x.iov = q[r].iov
  <2>1. x = PutAwake(q[r])
    BY <1>1
  <2> QED BY <1>0, <2>1, WokenFields
<1>5. /\ y \in Requests /\ y.state = "ENDED" /\ ~ y.sleeping
      /\ y.fd = q[r].fd /\ y.fcgi_fd = NoFd /\ y.sr = q[r].sr /\ y.iov = q[r].iov
  <2>1. y = Ended(q[r])
    BY <1>1
  <2> QED BY <1>0, <2>1, EndedFields
<1>6. v[r] = x
  <2>1. v = PutReq(q, r, x)
    BY <1>1
  <2> QED BY <1>0, <1>4, <2>1, ReqUpdate, SMTT(20)
<1>7. w = PutReq(v, r, y)
  <2>1. v = PutReq(q, r, x) /\ w = PutReq(q, r, y)
    BY <1>1
  <2>2. x \in Requests /\ y \in Requests
    BY <1>4, <1>5
  <2> QED BY <1>0, <2>1, <2>2, PutTwice, SMTT(20)
<1>8. y.fd = v[r].fd /\ y.sr = v[r].sr /\ y.iov = v[r].iov /\ y.fd # NoFd
  BY <1>4, <1>5, <1>6
<1>9. y \in Requests /\ ~ y.sleeping /\ y.state \in {"FAILED", "ENDED"} /\ y.fcgi_fd = NoFd
  BY <1>5
<1>10. Good(m, w, c, g, b, a)
  BY <1>2, <1>3, <1>7, <1>8, <1>9, DoneKeeps
<1> QED BY <1>2, <1>10

(* FCGI_END_REQUEST on a slot that receives.                               *)
LEMMA FinishedKeeps ==
  ASSUME IInv, NEW s \in Slots, NEW fd, NEW p, NEW r, Arrived(net, rs, inbox, app, s, fd, p, r),
         p.type = "END_REQUEST", net.slot[s].state = "RECEIVING",
         rs' = PutReq(rs, r, PkgRequest(p, rs[r])), net' = PkgNet(p, rs[r], s),
         inbox' = Read(inbox, fd)
  PROVE  Good(net', rs', conn, gone, inbox', app) /\ net'.exited = net.exited
<1>0. Good(net, rs, conn, gone, inbox, app)
  BY DEF IInv
<1>1. /\ fd \in Fds /\ r \in Reqs /\ net.slot[s].fd = fd /\ rs[r].fcgi_fd = fd
      /\ rs[r].state \in {"SENT", "STREAM_CLOSED", "FAILED"}
      /\ app[fd].id = NoReq
  BY DEF Arrived, PackageInv, UnderWay
<1>2. Good(net, rs, conn, gone, inbox', app) /\ inbox'[fd] = <<>>
  BY <1>0, Rest, SMTT(20)
<1>3. PICK m : m = FdSetState(net, s, "READY")
  OBVIOUS
<1>4. /\ Good(m, rs, conn, gone, inbox', app) /\ m.exited = net.exited
      /\ m.slot[s].state = "READY" /\ m.slot[s].fd = fd
  BY <1>1, <1>2, <1>3, ReadyKeeps, SMTT(20)
<1>5. Detached(m, inbox', app, r)
  <2>1. \A t \in Slots : m.slot[t].fd = fd => t = s
    <3>1. m.slot[s].state # "AVAILABLE"
      BY <1>4
    <3> QED BY <1>4, <3>1, SlotSocket, SMTT(20)
  <2>2. \A t \in Slots : m.slot[t].fd = fd => m.slot[t].state # "SENDING"
    BY <1>4, <2>1
  <2> QED BY <1>1, <1>2, <1>4, <2>2, DoneDetached
<1>6. CASE rs[r].fd = NoFd
  <2>1. PkgRequest(p, rs[r]) = FreeRequest
    BY <1>6 DEF PkgRequest, Recycle
  <2>2. net' = m
    BY <1>3, <1>6 DEF PkgNet
  <2>3. rs' = PutReq(rs, r, FreeRequest)
    BY <2>1
  <2>4. Good(m, rs', conn, gone, inbox', app)
    BY <1>1, <1>4, <1>5, <2>3, RecycledKeeps
  <2> QED BY <1>4, <2>2, <2>4
<1>7. CASE rs[r].fd # NoFd /\ rs[r].state = "FAILED"
  \* A failed request that has its client has no connection any more.
  <2>1. Owned(net, conn, rs[r])
    BY <1>0, <1>1, OwnFd
  <2> QED BY <1>1, <1>7, <2>1, Numbers DEF Owned
<1>8. CASE rs[r].fd # NoFd /\ rs[r].state # "FAILED"
  <2>1. PkgRequest(p, rs[r]) = Ended(rs[r])
    BY <1>8 DEF PkgRequest, Ended
  <2>2. net' = FailNet(m, rs[r])
    BY <1>3, <1>8 DEF PkgNet
  <2>3. rs' = PutReq(rs, r, Ended(rs[r]))
    BY <2>1
  <2>4. rs[r].fd # NoFd /\ rs[r].state \in {"SENT", "STREAM_CLOSED"}
    BY <1>1, <1>8
  <2>5. Good(net', rs', conn, gone, inbox', app) /\ net'.exited = m.exited
    BY <1>1, <1>4, <1>5, <2>2, <2>3, <2>4, EndedKeeps, SMTT(20)
  <2> QED BY <1>4, <2>5
<1> QED BY <1>6, <1>7, <1>8

(* The request slot s is sending has lost its client, who was asleep.      *)
Orphan(s) ==
  /\ net.slot[s].state = "SENDING"
  /\ net.slot[s].begin_req # NoReq
  /\ LET q == rs[net.slot[s].begin_req] IN q.fd = NoFd /\ q.sleeping /\ q.state = "FAILED"

(* fcgi_handle_pkg() keeps the invariant and ends the worker for an orphan *)
(* only.                                                                   *)
LEMMA HandlePkgKeeps ==
  ASSUME IInv, NEW s \in Slots, HandlePkg(s)
  PROVE  IInv' /\ (net'.exited = net.exited \/ Orphan(s))
<1>0. Good(net, rs, conn, gone, inbox, app)
  BY DEF IInv
<1>1. PICK fd, p, r : fd = net.slot[s].fd /\ p = Head(inbox[fd]) /\ r = p.id
  OBVIOUS
<1>2. fd # NoFd /\ inbox[fd] # <<>> /\ UNCHANGED <<hand, conn, serial, left>>
  BY <1>1 DEF HandlePkg, Readable
<1>3. Arrived(net, rs, inbox, app, s, fd, p, r)
  BY <1>0, <1>1, <1>2, HandledPackage
<1>4. PkgFails(p, rs[r], s) <=> p.type = "END_REQUEST" /\ net.slot[s].state = "SENDING"
  BY <1>3, OnlyRefusalsFail
<1>5. net.slot[s].state \in {"SENDING", "RECEIVING"} /\ r \in Reqs
      /\ (net.slot[s].state = "SENDING" => p.type = "END_REQUEST" /\ net.slot[s].begin_req = r)
  BY <1>3 DEF Arrived
<1>6. CASE net.slot[s].state = "SENDING"
  <2>1. PkgFails(p, rs[r], s) /\ p.type = "END_REQUEST"
    BY <1>4, <1>5, <1>6
  <2>2. /\ rs' = [rs EXCEPT ![r] = [FailedReq(@) EXCEPT !.fcgi_fd = NoFd]]
        /\ CloseSlot(FailNet(net, rs[r]), s)
    BY <1>1, <2>1 DEF HandlePkg
  <2>3. rs' = PutReq(rs, r, Refuse(rs[r]))
    BY <2>2 DEF PutReq, Refuse
  <2>4. /\ Good(net', rs', conn, gone', inbox', app')
        /\ net'.exited = net.exited \/ (rs[r].fd = NoFd /\ rs[r].sleeping)
    BY <1>3, <1>6, <2>2, <2>3, RefusedKeeps
  <2>5. ASSUME rs[r].fd = NoFd, rs[r].sleeping PROVE Orphan(s)
    <3>1. Sound(rs[r])
      BY <1>0, <1>5, OwnFd
    <3>2. rs[r].state \in {"SENT", "STREAM_CLOSED", "FAILED"}
      BY <1>3 DEF Arrived, PackageInv, UnderWay
    <3>3. rs[r].state = "FAILED"
      BY <2>5, <3>1, <3>2 DEF Sound
    <3>4. net.slot[s].begin_req = r /\ r # NoReq
      BY <1>5, <1>6, Numbers
    <3> QED BY <1>6, <2>5, <3>3, <3>4 DEF Orphan
  <2>6. IInv'
    BY <1>2, <2>4 DEF IInv
  <2> QED BY <2>4, <2>5, <2>6
<1>7. CASE net.slot[s].state = "RECEIVING"
  <2>1. ~ PkgFails(p, rs[r], s)
    BY <1>4, <1>7
  <2>2. /\ rs' = PutReq(rs, r, PkgRequest(p, rs[r])) /\ net' = PkgNet(p, rs[r], s)
        /\ inbox' = Read(inbox, fd) /\ app' = app /\ gone' = gone
    BY <1>1, <2>1 DEF HandlePkg, PutReq, Read
  <2>3. Good(net', rs', conn, gone, inbox', app) /\ net'.exited = net.exited
    <3>1. CASE p.type = "END_REQUEST"
      BY <1>3, <1>7, <2>2, <3>1, FinishedKeeps
    <3>2. CASE p.type # "END_REQUEST"
      <4>1. net' = net
        BY <2>2, <3>2 DEF PkgNet
      <4>2. Good(net, rs', conn, gone, inbox', app)
        BY <1>3, <2>2, <3>2, MiddleKeeps
      <4> QED BY <4>1, <4>2
    <3> QED BY <3>1, <3>2
  <2>4. IInv'
    BY <1>2, <2>2, <2>3 DEF IInv
  <2> QED BY <2>3, <2>4
<1> QED BY <1>5, <1>6, <1>7

-----------------------------------------------------------------------------
(* The theorems.                                                           *)

(* The invariant holds when the worker has started.                        *)
LEMMA InitHolds == Init => IInv
<1> SUFFICES ASSUME Init PROVE IInv
  OBVIOUS
<1>1. /\ net.file = [fd \in Fds |-> "free"] /\ net.ep = [fd \in Fds |-> NoState]
      /\ net.event = {} /\ net.slot = [s \in Slots |-> FreeFcgiFd] /\ net \in Nets
  BY Values DEF Init, Nets
<1>2. /\ rs = [r \in Reqs |-> FreeRequest] /\ conn = [fd \in Fds |-> NoConn]
      /\ gone = [fd \in Fds |-> FALSE] /\ inbox = [fd \in Fds |-> <<>>]
      /\ app = [fd \in Fds |-> Idle]
  BY DEF Init
<1>3. /\ FreeRequest.state = "AVAILABLE" /\ FreeRequest.fd = NoFd
      /\ FreeFcgiFd.fd = NoFd /\ FreeFcgiFd.state = "AVAILABLE"
      /\ NoConn.st = "none" /\ Idle.id = NoReq
  BY DEF FreeRequest, FreeFcgiFd, NoConn, Idle
<1>4. World(net, rs, conn, gone, inbox, app)
  <2>1. rs \in [Reqs -> Requests] /\ conn \in [Fds -> Conns] /\ app \in [Fds -> Apps]
    BY <1>2, Values
  <2>2. gone \in [Fds -> BOOLEAN] /\ inbox \in [Fds -> Seq(Packages)]
    BY <1>2, SMTT(20)
  <2> QED BY <1>1, <2>1, <2>2 DEF World
<1>5. Tables(net)
  BY <1>1, <1>3 DEF Tables, SlotTable
<1>6. ClientInv(net, rs, conn)
  <2>1. \A fd \in Fds : conn[fd].st = "none" /\ net.file[fd] = "free"
    BY <1>1, <1>2, <1>3
  <2>2. \A r \in Reqs : rs[r] = FreeRequest
    BY <1>2
  <2>3. Owned(net, conn, FreeRequest) /\ Sound(FreeRequest)
    BY <1>3 DEF Owned, Sound
  <2> QED BY <1>3, <2>1, <2>2, <2>3 DEF ClientInv
<1>7. ASSUME NEW fd \in Fds PROVE Flight(net, rs, gone, inbox, app, fd)
  <2>1. inbox[fd] = <<>> /\ app[fd] = Idle /\ ~ gone[fd]
    BY <1>2
  <2>2. 1 .. Len(inbox[fd]) = {}
    BY <2>1, SMTT(20)
  <2> QED BY <1>3, <2>1, <2>2 DEF Flight, InOrder, AppInv
<1>8. ASSUME NEW s \in Slots PROVE SlotInv(net, rs, inbox, app, s)
  <2>1. net.slot[s].state = "AVAILABLE"
    BY <1>1, <1>3
  <2> QED BY <2>1 DEF SlotInv
<1>9. Good(net, rs, conn, gone, inbox, app)
  BY <1>4, <1>5, <1>6, <1>7, <1>8 DEF Good
<1>10. hand \in [Locs -> Reqs] /\ serial \in 0 .. MaxSerial /\ left \in 0 .. MaxLeaves
  BY Numbers, FastCGIAssumption, SMTT(20) DEF Init
<1> QED BY <1>9, <1>10 DEF IInv

(* Every step keeps the invariant, and ends the process only for an orphan.*)
LEMMA StepKeeps ==
  ASSUME IInv, [Next]_vars
  PROVE  IInv' /\ (net'.exited = net.exited \/ \E s \in Slots : Orphan(s))
<1>1. CASE UNCHANGED vars
  <2>1. /\ net' = net /\ rs' = rs /\ hand' = hand /\ conn' = conn /\ gone' = gone
        /\ inbox' = inbox /\ app' = app /\ serial' = serial /\ left' = left
    BY <1>1 DEF vars
  <2> QED BY <2>1 DEF IInv
<1>2. ASSUME NEW fd \in Fds,
             \/ ReadRequest(fd) \/ IdleClose(fd) \/ ClientHangup(fd) \/ ClientEvent(fd)
             \/ AppWrites(fd) \/ AppEnds(fd) \/ AppLeaves(fd)
      PROVE  IInv' /\ net'.exited = net.exited
  <2>1. CASE ReadRequest(fd) BY <2>1, ReadRequestKeeps
  <2>2. CASE IdleClose(fd) BY <2>2, IdleCloseKeeps
  <2>3. CASE ClientHangup(fd) BY <2>3, ClientHangupKeeps
  <2>4. CASE Stage30(fd) BY <2>4, Stage30Keeps
  <2>5. CASE NotMe(fd) BY <2>5, NotMeKeeps
  <2>6. CASE SendAnswer(fd) BY <2>6, SendAnswerKeeps
  <2>7. CASE SendFailure(fd) BY <2>7, SendFailureKeeps
  <2>8. CASE AppWrites(fd) BY <2>8, AppWritesKeeps
  <2>9. CASE AppEnds(fd) BY <2>9, AppEndsKeeps
  <2>10. CASE AppLeaves(fd) BY <2>10, AppLeavesKeeps
  <2> QED BY <1>2, <2>1, <2>2, <2>3, <2>4, <2>5, <2>6, <2>7, <2>8, <2>9, <2>10 DEF ClientEvent
<1>3. ASSUME NEW s \in Slots, SlotEvent(s) \/ AppRefuses(s) \/ SlotHangup(s)
      PROVE  IInv' /\ (net'.exited = net.exited \/ Orphan(s))
  <2>1. CASE TakeRequest(s) BY <2>1, TakeRequestKeeps
  <2>2. CASE NoWork(s) BY <2>2, NoWorkKeeps
  <2>3. CASE SendOn(s) BY <2>3, SendOnKeeps
  <2>4. CASE HandlePkg(s) BY <2>4, HandlePkgKeeps
  <2>5. CASE EndOfStream(s) BY <2>5, EndOfStreamKeeps
  <2>6. CASE AppRefuses(s) BY <2>6, AppRefusesKeeps
  <2>7. CASE SlotHangup(s) BY <2>7, SlotHangupKeeps
  <2> QED BY <1>3, <2>1, <2>2, <2>3, <2>4, <2>5, <2>6, <2>7 DEF SlotEvent
<1> QED BY <1>1, <1>2, <1>3 DEF Next

(* The inductive invariant holds in every state of the plugin, for every   *)
(* number of sockets, request structs, connections and locations.          *)
THEOREM InvariantHolds == Spec => []IInv
<1>1. IInv /\ [Next]_vars => IInv'
  BY StepKeeps
<1> QED BY InitHolds, <1>1, PTL DEF Spec

(* Every variable keeps its type: no handler of the plugin indexes a table *)
(* out of range, and every package that waits belongs to a struct.         *)
THEOREM TypeOKHolds == Spec => []TypeOK
<1>1. IInv => TypeOK
  <2> SUFFICES ASSUME IInv PROVE TypeOK
    OBVIOUS
  <2>1. World(net, rs, conn, gone, inbox, app)
    BY DEF IInv, Good
  <2>2. ASSUME NEW fd \in Fds, NEW i \in DOMAIN inbox[fd] PROVE inbox[fd][i] \in Packages
    <3>1. inbox[fd] \in Seq(Packages)
      BY <2>1 DEF World
    <3> QED BY <2>2, <3>1, SMTT(20)
  <2>3. net \in Nets /\ rs \in [Reqs -> Requests] /\ conn \in [Fds -> Conns]
        /\ gone \in [Fds -> BOOLEAN] /\ app \in [Fds -> Apps]
    BY <2>1 DEF World
  <2>4. hand \in [Locs -> Reqs] /\ serial \in 0 .. MaxSerial /\ left \in 0 .. MaxLeaves
    BY DEF IInv
  <2> QED BY <2>2, <2>3, <2>4 DEF TypeOK, Nets, Conns, Apps, Packages
<1> QED BY InvariantHolds, <1>1, PTL

(* The slots, the plugin event list, the epoll states and the kernel agree *)
(* on the connections to the application, so fcgi_wake_connection() never  *)
(* wakes a socket that is awake.                                           *)
THEOREM ConnectionTablesHold == Spec => []ConnectionTables
<1>1. IInv => ConnectionTables
  <2> SUFFICES ASSUME IInv PROVE ConnectionTables
    OBVIOUS
  <2>1. Tables(net) /\ net \in Nets
    BY DEF IInv, Good, World
  <2>2. /\ \A fd \in Fds : fd \in net.event <=> net.file[fd] = "app"
        /\ \A fd \in Fds : net.file[fd] = "app" => \E s \in Slots : net.slot[s].fd = fd
        /\ \A s \in Slots : SlotTable(net, s)
    BY <2>1 DEF Tables
  <2>3. net.event \in SUBSET Fds /\ \A s \in Slots : net.slot[s].fd \in Fds \cup {NoFd}
    BY <2>1 DEF Nets, FcgiFds
  <2>4. net.event = {fd \in Fds : net.file[fd] = "app"}
    BY <2>2, <2>3
  <2>5. \A s \in Slots : net.slot[s].fd # NoFd => net.slot[s].fd \in net.event
    BY <2>2, <2>3 DEF SlotTable
  <2>6. net.event = {net.slot[s].fd : s \in Slots} \ {NoFd}
    <3>1. ASSUME NEW fd \in net.event PROVE fd \in {net.slot[s].fd : s \in Slots} \ {NoFd}
      <4>1. fd \in Fds /\ fd # NoFd
        BY <2>3, Numbers
      <4>2. PICK s \in Slots : net.slot[s].fd = fd
        BY <2>2, <4>1
      <4> QED BY <4>1, <4>2
    <3>2. ASSUME NEW fd \in {net.slot[s].fd : s \in Slots} \ {NoFd} PROVE fd \in net.event
      BY <2>5
    <3> QED BY <3>1, <3>2
  <2>7. ASSUME NEW s \in Slots
        PROVE  /\ (net.slot[s].fd = NoFd) = (net.slot[s].state = "AVAILABLE")
               /\ net.slot[s].fd # NoFd =>
                    (net.slot[s].state = "SLEEPING") = (net.ep[net.slot[s].fd].asleep)
               /\ \A t \in Slots \ {s} : net.slot[s].fd = net.slot[t].fd => net.slot[s].fd = NoFd
    <3>1. SlotTable(net, s)
      BY <2>2
    <3>2. (net.slot[s].fd = NoFd) = (net.slot[s].state = "AVAILABLE")
      BY <3>1 DEF SlotTable
    <3>3. net.slot[s].fd # NoFd =>
            (net.slot[s].state = "SLEEPING") = (net.ep[net.slot[s].fd].asleep)
      <4>1. net.slot[s].fd # NoFd => net.ep[net.slot[s].fd].asleep \in BOOLEAN
        BY <2>1, <2>3 DEF Nets, EpollStates
      <4> QED BY <3>1, <4>1 DEF SlotTable
    <3>4. \A t \in Slots \ {s} : net.slot[s].fd = net.slot[t].fd => net.slot[s].fd = NoFd
      BY <3>1 DEF SlotTable
    <3> QED BY <3>2, <3>3, <3>4
  <2> QED BY <2>4, <2>6, <2>7 DEF ConnectionTables
<1> QED BY InvariantHolds, <1>1, PTL

(* A client gets the answer to its own request: the struct of its socket   *)
(* and the output in it belong to the request it waits for, and the struct *)
(* an application works on is nobody else's until FCGI_END_REQUEST.        *)
THEOREM OwnAnswerHolds == Spec => []OwnAnswer
<1>1. IInv => OwnAnswer
  <2> SUFFICES ASSUME IInv PROVE OwnAnswer
    OBVIOUS
  <2>1. Good(net, rs, conn, gone, inbox, app)
    BY DEF IInv
  <2>2. ASSUME NEW r \in Reqs, rs[r].fd # NoFd
        PROVE  /\ net.file[rs[r].fd] = "client"
               /\ conn[rs[r].fd].sr = rs[r].sr
               /\ rs[r].iov.holds # "nothing" => rs[r].iov.of = rs[r].sr
               /\ \A q \in Reqs \ {r} : rs[q].fd # rs[r].fd
    <3>1. /\ rs[r] \in Requests /\ Owned(net, conn, rs[r])
          /\ rs[r].fd = NoFd \/ \A p \in Reqs : p # r => rs[p].fd # rs[r].fd
      BY <2>1, OwnFd
    <3>2. rs[r].fd \in Fds
      BY <2>2, <3>1 DEF Requests
    <3>3. /\ conn[rs[r].fd].st = "write" /\ conn[rs[r].fd].sr = rs[r].sr
          /\ rs[r].iov.holds # "nothing" => rs[r].iov.of = rs[r].sr
      BY <2>2, <3>1 DEF Owned
    <3>4. net.file[rs[r].fd] = "client"
      BY <2>1, <3>2, <3>3 DEF Good, ClientInv
    <3> QED BY <2>2, <3>1, <3>3, <3>4
  <2>3. ASSUME NEW fd \in Fds, app[fd].id # NoReq
        PROVE  /\ rs[app[fd].id].fcgi_fd = fd
               /\ rs[app[fd].id].fd # NoFd => app[fd].of = rs[app[fd].id].sr
    <3>1. AppInv(rs, app[fd], fd)
      BY <2>1 DEF Good, Flight
    <3> QED BY <2>3, <3>1 DEF AppInv, UnderWay
  <2> QED BY <2>2, <2>3 DEF OwnAnswer
<1> QED BY InvariantHolds, <1>1, PTL

(* mk_epoll_change_mode() ends the process in one case only: the client of *)
(* a request hung up while it slept, and the application ended the request *)
(* before it had all of it.                                                *)
THEOREM OnlyOrphansExitHolds == Spec => OnlyOrphansExit
<1>1. IInv /\ [Next]_vars => [net'.exited /\ ~ net.exited =>
       \E s \in Slots : /\ net.slot[s].state = "SENDING"
                        /\ net.slot[s].begin_req # NoReq
                        /\ LET q == rs[net.slot[s].begin_req] IN
                             q.fd = NoFd /\ q.sleeping /\ q.state = "FAILED"]_vars
  <2> SUFFICES ASSUME IInv, [Next]_vars, net'.exited, ~ net.exited
               PROVE  \E s \in Slots : Orphan(s)
    BY DEF Orphan
  <2> QED BY StepKeeps
<1> QED BY InvariantHolds, <1>1, PTL DEF Spec, OnlyOrphansExit

=============================================================================
