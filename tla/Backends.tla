------------------------------ MODULE Backends ------------------------------
(***************************************************************************)
(* The plugins that let another program answer, CGI (plugins/cgi) and Palm *)
(* (plugins/palm), in one worker thread, while another thread accepts      *)
(* connections.  Either plugin is loaded; the other one's part is idle.    *)
(*                                                                         *)
(* CGI: a script writes into a pipe; the plugin reads it into a buffer of  *)
(* the request and writes that to the client.  The client's socket and the *)
(* pipe are put to sleep and woken up so that only one of them has events. *)
(* Palm: the same over a TCP connection to a Palm server, and the client's *)
(* socket keeps asking for write events all the time.                      *)
(*                                                                         *)
(* A connection carries one HTTP request after the other; its number (sr)  *)
(* stands for the client_session and session_request.  Output consists of  *)
(* pieces: "H" a part of the headers, "E" the one that ends them, "B" a    *)
(* part of the body.  Requests have no body: the thread that hands one to  *)
(* a script reads a struct of a stack frame that is gone.                  *)
(***************************************************************************)
EXTENDS Integers, Sequences, FiniteSets, FiniteSetsExt, SequencesExt

CONSTANTS
  Fds,        \* descriptors
  BufCap,     \* pieces that fit into in_buf (PATHLEN, MK_PALM_BUFFER_SIZE)
  PipeCap,    \* pieces the kernel keeps between a program and the server
  Outputs,    \* what programs may write
  MaxSr       \* bound: HTTP requests

ASSUME BackendsAssumption ==
  /\ Fds \subseteq Nat \ {0} /\ IsFiniteSet(Fds)
  /\ BufCap \in Nat \ {0} /\ PipeCap \in Nat \ {0} /\ MaxSr \in Nat
  /\ \A o \in Outputs : o \in Seq({"H", "E", "B"})

Srs  == 1 .. MaxSr
NoFd == 0

VARIABLES
  plugin,    \* the plugin that is loaded
  w,         \* the worker's world: see World
  closing,   \* calls of close(2) the running handler has still to make
  sr         \* HTTP requests so far

vars == <<plugin, w, closing, sr>>

(* file: what a descriptor is; ep: what the worker's epoll set watches;    *)
(* cl: the connection's request ("new": accepted and without a session);   *)
(* req: struct cgi_request or struct mk_palm_request, by the descriptor of *)
(* the program's output; by_socket: requests_by_socket of the CGI plugin.  *)
(* prog: the program at the other end; pipe: what it wrote and nobody read.*)
(* The rest is history: output and got, what a request's program has to    *)
(* say and what its client was sent; ended, the requests whose program     *)
(* ended; damaged, the ones with a known loss; heir, the ones that came on *)
(* a socket number that requests_by_socket still knew.                     *)
Reqs == [socket : Fds, sr : Srs, buf : Seq({"H", "E", "B"}), headers : BOOLEAN]
NoReq == [socket |-> NoFd, sr |-> 0, buf |-> <<>>, headers |-> FALSE]
NoProg == [sr |-> 0, left |-> <<>>]

Init ==
  /\ plugin \in {"cgi", "palm"}
  /\ w = [file |-> [fd \in Fds |-> "free"], ep |-> [fd \in Fds |-> "none"],
          cl |-> [fd \in Fds |-> [st |-> "none", sr |-> 0]],
          req |-> [fd \in Fds |-> NoReq], by_socket |-> [fd \in Fds |-> NoFd],
          prog |-> [fd \in Fds |-> NoProg], pipe |-> [fd \in Fds |-> <<>>],
          output |-> [x \in Srs |-> <<>>], got |-> [x \in Srs |-> <<>>],
          ended |-> {}, damaged |-> {}, heir |-> {}]
  /\ closing = <<>>
  /\ sr = 0

Live(v, fd)  == fd # NoFd /\ v.req[fd] # NoReq
FreeFds(v)   == {fd \in Fds : v.file[fd] = "free"}
Damage(v, x) == [v EXCEPT !.damaged = @ \cup {x}]

(* mk_epoll_change_mode(): fails for a descriptor that is not watched.     *)
Mode(v, fd, m) == [v EXCEPT !.ep[fd] = IF @ = "none" THEN @ ELSE m]

(* close(2), of whatever has the number now.                               *)
Close(v, fd) ==
  [v EXCEPT !.file[fd] = "free", !.ep[fd] = "none", !.cl[fd] = [st |-> "none", sr |-> 0],
            !.prog[fd] = NoProg, !.pipe[fd] = <<>>]

(* A client's socket takes what is written to it, any other descriptor     *)
(* does not.                                                               *)
ToClient(v, fd, from, data) ==
  IF data = <<>> THEN v
  ELSE IF v.file[fd] = "client" /\ v.cl[fd].sr # 0
  THEN [v EXCEPT !.got[v.cl[fd].sr] = @ \o [i \in 1 .. Len(data) |-> <<from, data[i]>>]]
  ELSE Damage(v, from)

-----------------------------------------------------------------------------
(* The CGI plugin.                                                         *)

(* _mkp_stage_30() and do_cgi(): the pipe gets the lowest free number.  A  *)
(* socket the plugin still knows is not served.                            *)
CgiStage30(v, fd, o) ==
  LET p == Min(FreeFds(v))
      x == v.cl[fd].sr
  IN  IF v.by_socket[fd] # NoFd THEN v
      ELSE [v EXCEPT !.file[p] = "pipe", !.ep = [@ EXCEPT ![p] = "READ", ![fd] = "SLEEP"],
                     !.prog[p] = [sr |-> x, left |-> o],
                     !.output[x] = o,
                     !.req[p] = [NoReq EXCEPT !.socket = fd, !.sr = x],
                     !.by_socket[fd] = p]

(* _mkp_event_write(): the pipe is watched again only after a part of the  *)
(* body was written.                                                       *)
CgiEventWrite(v, fd) ==
  LET p       == v.by_socket[fd]
      r       == v.req[p]
      headers == r.headers \/ Contains(r.buf, "E")
      body    == r.headers \/ (headers /\ Last(r.buf) # "E")
      written == Mode([ToClient(v, fd, r.sr, r.buf) EXCEPT
                         !.req[p].headers = headers, !.req[p].buf = <<>>], fd, "SLEEP")
  IN  IF r.buf = <<>> THEN v ELSE IF body THEN Mode(written, p, "READ") ELSE written

(* Mutant: all that the pipe has is read, whatever fits.                   *)
CgiEventReadAll(v, p, n) ==
  Mode([v EXCEPT !.req[p].buf = @ \o v.pipe[p], !.pipe[p] = <<>>], v.req[p].socket, "WRITE")

(* Mutant: what is read goes to the beginning of the buffer.               *)
CgiEventReadOver(v, p, n) ==
  Mode(IF Len(v.req[p].buf) = BufCap THEN Mode(v, p, "SLEEP")
       ELSE [v EXCEPT !.req[p].buf = SubSeq(v.pipe[p], 1, n),
                      !.pipe[p] = SubSeq(@, n + 1, Len(@))],
       v.req[p].socket, "WRITE")

(* _mkp_event_read() of a pipe that has data.                              *)
CgiEventRead(v, p, n) ==
  LET r == v.req[p] IN
  Mode(IF Len(r.buf) = BufCap THEN Mode(v, p, "SLEEP")
       ELSE [v EXCEPT !.req[p].buf = @ \o SubSeq(v.pipe[p], 1, n),
                      !.pipe[p] = SubSeq(@, n + 1, Len(@))],
       r.socket, "WRITE")

(* Mutant: requests_by_socket keeps the pointer.                           *)
CgiForgetNot(v, p, s) == [Close(v, p) EXCEPT !.req[p] = NoReq]

(* The end of hangup(): socket_close(), requests_by_socket, cgi_req_del(). *)
CgiForget(v, p, s) == [Close(v, p) EXCEPT !.by_socket[s] = NoFd, !.req[p] = NoReq]

(* Mutant: the core is not told that the request has ended.                *)
CgiHangupSilent(v, p, ka) ==
  LET r == v.req[p]
      flushed == IF v.by_socket[r.socket] = NoFd THEN v ELSE CgiEventWrite(v, r.socket)
      cut == IF v.pipe[p] = <<>> THEN flushed ELSE Damage(flushed, r.sr)
  IN  CgiForget([cut EXCEPT !.ep[p] = "none", !.ended = @ \cup {r.sr}], p, r.socket)

(* hangup() of pipe p; ka: the connection is kept alive.  Without a        *)
(* session http_request_end() closes whatever has the socket's number:     *)
(* mk_conn_close() asks the plugin first, whose hangup() may know it as a  *)
(* pipe.                                                                   *)
RECURSIVE CgiHangup(_, _, _)
CgiHangup(v, p, ka) ==
  LET r == v.req[p]
      s == r.socket
      flushed == IF v.by_socket[s] = NoFd THEN v ELSE CgiEventWrite(v, s)
      cut == IF v.pipe[p] = <<>> THEN flushed ELSE Damage(flushed, r.sr)
      del == [cut EXCEPT !.ep[p] = "none", !.ended = @ \cup {r.sr}]
      end == IF v.cl[s].st \in {"idle", "write"} /\ ka
             THEN Mode([del EXCEPT !.cl[s] = [st |-> "idle", sr |-> 0]], s, "READ")
             ELSE IF s # p /\ Live(v, s)
             THEN CgiHangup(Damage(del, v.req[s].sr), s, ka)
             ELSE Close(del, s)
  IN  CgiForget(end, p, s)

-----------------------------------------------------------------------------
(* The Palm plugin.                                                        *)

(* Mutant: any request of the list will do.                                *)
ByHttpAny(v, fd) ==
  LET S == {p \in Fds : v.req[p] # NoReq} IN IF S = {} THEN NoFd ELSE Min(S)

(* mk_palm_request_get_by_http()                                           *)
ByHttp(v, fd) ==
  LET S == {p \in Fds : v.req[p] # NoReq /\ v.req[p].socket = fd}
  IN  IF S = {} THEN NoFd ELSE Min(S)

(* _mkp_stage_30(), mk_palm_connect(), mk_palm_send_request(): the client  *)
(* goes on asking for write events.                                        *)
PalmStage30(v, fd, o) ==
  LET p == Min(FreeFds(v))
      x == v.cl[fd].sr
  IN  IF ByHttp(v, fd) # NoFd THEN v
      ELSE [v EXCEPT !.file[p] = "pipe", !.ep[p] = "READ",
                     !.prog[p] = [sr |-> x, left |-> o],
                     !.output[x] = o,
                     !.req[p] = [NoReq EXCEPT !.socket = fd, !.sr = x]]

(* _mkp_event_write(): what could not be written is moved to a buffer that *)
(* nothing sends.                                                          *)
PalmEventWrite(v, fd) ==
  LET p == ByHttp(v, fd)
      r == v.req[p]
  IN  IF r.headers
      THEN [ToClient(v, fd, r.sr, r.buf) EXCEPT !.req[p].buf = <<>>]
      ELSE v

(* _mkp_event_read(): n pieces were read.  Headers go to the client as     *)
(* soon as they are complete, the body waits for a write event.            *)
PalmEventRead(v, p, n) ==
  LET r    == v.req[p]
      data == r.buf \o SubSeq(v.pipe[p], 1, n)
      i    == IF Contains(data, "E") THEN SelectInSeq(data, LAMBDA c : c = "E") ELSE 0
      read == [v EXCEPT !.pipe[p] = SubSeq(@, n + 1, Len(@))]
  IN  IF r.headers \/ i = 0 THEN [read EXCEPT !.req[p].buf = data]
      ELSE [ToClient(read, r.socket, r.sr, SubSeq(data, 1, i)) EXCEPT
              !.req[p].headers = TRUE, !.req[p].buf = SubSeq(data, i + 1, Len(data))]

PalmForget(v, p) == [v EXCEPT !.req[p] = NoReq]

(* hangup() of a client: the program's connection is closed first.         *)
PalmHangupClient(v, fd) ==
  LET p == ByHttp(v, fd) IN
  IF p = NoFd THEN Close(v, fd) ELSE Close(PalmForget(Close(v, p), p), fd)

(* hangup() of connection p up to the first close of it; it is closed once *)
(* more, by itself or by mk_sched_remove_client(), or twice: when ending   *)
(* the request closes the client, hangup() runs for that one in between.   *)
(* What was read and not written yet is lost.                              *)
PalmHangup(v, p, ka) ==
  LET r   == v.req[p]
      cut == IF r.buf = <<>> THEN v ELSE Damage(v, r.sr)
      del == [cut EXCEPT !.ep[p] = "none", !.ended = @ \cup {r.sr}]
  IN  IF ka
      THEN Close(PalmForget(Mode([del EXCEPT !.cl[r.socket] = [st |-> "idle", sr |-> 0]],
                                 r.socket, "READ"), p), p)
      ELSE PalmHangupClient(del, r.socket)
PalmClosesLeft(p, ka) == IF ka THEN <<p>> ELSE <<p, p>>

-----------------------------------------------------------------------------
(* The other thread accepts a connection; its client sends a request.      *)
Accept ==
  /\ FreeFds(w) # {} /\ sr < MaxSr
  /\ sr' = sr + 1
  /\ LET fd == Min(FreeFds(w)) IN
       w' = [w EXCEPT !.file[fd] = "client", !.ep[fd] = "READ",
                      !.cl[fd] = [st |-> "new", sr |-> sr + 1],
                      !.heir = IF w.by_socket[fd] # NoFd THEN @ \cup {sr + 1} ELSE @]
  /\ UNCHANGED <<plugin, closing>>

(* The worker is between two events.                                       *)
Step == closing = <<>> /\ UNCHANGED plugin

(* mk_conn_read() of a client with a whole request.                        *)
ReadRequest(fd) ==
  /\ Step
  /\ w.file[fd] = "client" /\ w.ep[fd] = "READ"
  /\ \/ w.cl[fd].st = "new" /\ sr' = sr
        /\ w' = Mode([w EXCEPT !.cl[fd].st = "write"], fd, "WRITE")
     \/ w.cl[fd].st = "idle" /\ sr < MaxSr /\ sr' = sr + 1
        /\ w' = Mode([w EXCEPT !.cl[fd] = [st |-> "write", sr |-> sr + 1]], fd, "WRITE")
  /\ UNCHANGED closing

(* Has the plugin a request for the socket?  It is asked first.            *)
Known(v, fd) == IF plugin = "cgi" THEN v.by_socket[fd] # NoFd ELSE ByHttp(v, fd) # NoFd

(* mk_conn_write() of a socket the plugin owns.                            *)
WriteEvent(fd) ==
  /\ Step
  /\ w.file[fd] = "client" /\ w.ep[fd] = "WRITE" /\ Known(w, fd)
  /\ w' = IF plugin = "cgi" THEN CgiEventWrite(w, fd) ELSE PalmEventWrite(w, fd)
  /\ UNCHANGED <<closing, sr>>

(* mk_conn_write() otherwise, down to STAGE_30: the request is the         *)
(* plugin's; or it cannot be started and the connection is closed.         *)
Serve(fd) ==
  /\ Step
  /\ w.cl[fd].st = "write" /\ w.ep[fd] = "WRITE" /\ ~ Known(w, fd)
  /\ \/ /\ FreeFds(w) # {}
        /\ \E o \in Outputs :
             w' = IF plugin = "cgi" THEN CgiStage30(w, fd, o) ELSE PalmStage30(w, fd, o)
     \/ w' = Close(w, fd)
  /\ UNCHANGED <<closing, sr>>

(* The client left: mk_conn_error(), or the read handler's close.  The CGI *)
(* plugin looks for a pipe with the socket's number and does nothing.      *)
ClientLeaves(fd) ==
  /\ Step
  /\ w.file[fd] = "client" /\ w.cl[fd].st \in {"idle", "write"}
  /\ w' = LET v == Damage(w, w.cl[fd].sr)
          IN  IF plugin = "cgi" THEN Close(v, fd) ELSE PalmHangupClient(v, fd)
  /\ UNCHANGED <<closing, sr>>

(* mk_conn_read() of a program's output.                                   *)
ReadEvent(p) ==
  /\ Step
  /\ Live(w, p) /\ w.ep[p] = "READ" /\ w.pipe[p] # <<>>
  /\ LET n == Min({Len(w.pipe[p]), BufCap - Len(w.req[p].buf)}) IN
       IF plugin = "cgi" THEN w' = CgiEventRead(w, p, n)
       ELSE n > 0 /\ w' = PalmEventRead(w, p, n)
  /\ UNCHANGED <<closing, sr>>

(* A program that has ended is a hangup of the pipe, at once when the pipe *)
(* sleeps, else when it is empty.                                          *)
CgiEnds(p) ==
  /\ Step /\ plugin = "cgi"
  /\ Live(w, p) /\ w.prog[p] = NoProg
  /\ w.ep[p] = "SLEEP" \/ w.pipe[p] = <<>>
  /\ \E ka \in BOOLEAN : w' = CgiHangup(w, p, ka)
  /\ UNCHANGED <<closing, sr>>

(* A Palm server that has closed the connection is an end of file; so is a *)
(* read into a buffer that is full.                                        *)
PalmEnds(p) ==
  /\ Step /\ plugin = "palm"
  /\ Live(w, p)
  /\ \/ w.prog[p] = NoProg /\ w.pipe[p] = <<>>
     \/ Len(w.req[p].buf) = BufCap /\ w.pipe[p] # <<>>
  /\ \E ka \in BOOLEAN :
       /\ w' = PalmHangup(IF w.pipe[p] = <<>> THEN w ELSE Damage(w, w.req[p].sr), p, ka)
       /\ closing' = PalmClosesLeft(p, ka)
  /\ UNCHANGED sr

(* The handler closes the number once more.                                *)
CloseAgain ==
  /\ closing # <<>>
  /\ w' = LET fd == Head(closing) IN
          Close(IF w.cl[fd].sr = 0 THEN w ELSE Damage(w, w.cl[fd].sr), fd)
  /\ closing' = Tail(closing)
  /\ UNCHANGED <<plugin, sr>>

-----------------------------------------------------------------------------
(* The programs.                                                           *)
ProgramWrites(p) ==
  /\ w.prog[p].left # <<>> /\ Len(w.pipe[p]) < PipeCap
  /\ w' = [w EXCEPT !.pipe[p] = Append(@, Head(w.prog[p].left)),
                    !.prog[p].left = Tail(@)]
  /\ UNCHANGED <<plugin, closing, sr>>

ProgramEnds(p) ==
  /\ w.prog[p].sr # 0 /\ w.prog[p].left = <<>>
  /\ w' = [w EXCEPT !.prog[p] = NoProg]
  /\ UNCHANGED <<plugin, closing, sr>>

Next ==
  \/ Accept \/ CloseAgain
  \/ \E fd \in Fds :
       \/ ReadRequest(fd) \/ WriteEvent(fd) \/ Serve(fd) \/ ClientLeaves(fd)
       \/ ReadEvent(fd) \/ CgiEnds(fd) \/ PalmEnds(fd)
       \/ ProgramWrites(fd) \/ ProgramEnds(fd)

(* The worker handles its events, the programs go on.                      *)
Fairness ==
  /\ \A fd \in Fds :
       /\ WF_vars(WriteEvent(fd) \/ Serve(fd))
       /\ WF_vars(ReadEvent(fd) \/ CgiEnds(fd) \/ PalmEnds(fd))
       /\ WF_vars(ProgramWrites(fd) \/ ProgramEnds(fd))
  /\ WF_vars(CloseAgain)

Spec == Init /\ [][Next]_vars /\ Fairness

-----------------------------------------------------------------------------
TypeOK ==
  /\ plugin \in {"cgi", "palm"}
  /\ w.file \in [Fds -> {"free", "client", "pipe"}]
  /\ w.ep \in [Fds -> {"none", "READ", "WRITE", "SLEEP"}]
  /\ w.cl \in [Fds -> [st : {"none", "new", "idle", "write"}, sr : Srs \cup {0}]]
  /\ \A fd \in Fds : /\ w.req[fd] = NoReq \/ w.req[fd] \in Reqs
                     /\ Len(w.req[fd].buf) <= BufCap
                     /\ Len(w.pipe[fd]) <= PipeCap
  /\ w.by_socket \in [Fds -> Fds \cup {NoFd}]
  /\ closing \in Seq(Fds)
  /\ sr \in 0 .. MaxSr

(* requests_by_socket and the list of requests agree: a pointer in the     *)
(* table leads to a request that lives and that has the socket, so that    *)
(* cgi_req_get() never returns freed memory.                               *)
NoDanglingRequest ==
  \A fd \in Fds : w.by_socket[fd] # NoFd =>
    Live(w, w.by_socket[fd]) /\ w.req[w.by_socket[fd]].socket = fd

(* A client is sent only the output of its own request's program.  The one *)
(* exception in the code: it was accepted on the number of a client that   *)
(* left while its script was running, which hangup() does not find, so     *)
(* that requests_by_socket still leads to the old script.                  *)
OwnOutput ==
  \A x \in Srs : \A i \in DOMAIN w.got[x] : w.got[x][i][1] = x \/ x \in w.heir

(* When the program has ended, its client was sent all of its output, in   *)
(* order and once, except where the code is known to lose some (damaged):  *)
(* the script ended while its pipe slept (hangup() does not read the       *)
(* rest); the Palm server closed, or the buffer was full, before the       *)
(* client's next write event; or the client's connection was closed.       *)
WholeAnswer ==
  \A x \in w.ended \ (w.damaged \cup w.heir) :
    w.got[x] = [i \in DOMAIN w.output[x] |-> <<x, w.output[x][i]>>]

(* Every request ends, provided that the headers of the scripts leave room *)
(* in in_buf: _mkp_event_write() returns without waking up the pipe when   *)
(* all it had were headers.                                                *)
HeadersFit ==
  \A x \in Srs : plugin = "cgi" =>
    \A i \in 1 .. Len(w.output[x]) : w.output[x][i] = "E" => i < BufCap
RequestsEnd ==
  \A fd \in Fds : (w.cl[fd].st = "write") ~> (w.cl[fd].st # "write" \/ ~ HeadersFit)

=============================================================================
