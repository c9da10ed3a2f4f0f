------------------------------ MODULE Request ------------------------------
(***************************************************************************)
(* The life of one connection in its worker: the client session with its   *)
(* receive buffer, the list of requests found in it, the handlers          *)
(* mk_conn_read(), mk_conn_write(), mk_conn_error() and the timeout sweep, *)
(* as src/mk_connection.c, src/mk_request.c and src/mk_http.c implement    *)
(* them.                                                                   *)
(*                                                                         *)
(* The bytes of the connection are abstracted to the parts a request is    *)
(* made of: "head" (request line and headers), "end" (the empty line, that *)
(* is CRLFCRLF) and "data" (the content of a POST).  A token is one part   *)
(* of one request; the client sends tokens one by one, so that a read can  *)
(* find a request in any number of pieces, and several requests at once.   *)
(***************************************************************************)
EXTENDS Integers, Sequences, FiniteSets

CONSTANTS
    Requests,        \* how many requests the client sends
    Clients,         \* the behaviours of the client, see client below
    Kinds,           \* the kinds of requests it sends
    Chunk,           \* MK_REQUEST_CHUNK, in tokens
    MaxRequestSizes, \* values of config->max_request_size, in tokens
    MaxKeepAlive,    \* config->max_keep_alive_request
    FileSize         \* size of a static file, in units of one send

\* A size no configuration allows.
Oversize == CHOOSE m \in MaxRequestSizes : \A l \in MaxRequestSizes : l <= m

(***************************************************************************)
(* The parts of every kind of request.  "bye" asks for the connection to   *)
(* be closed ("Connection: close", or HTTP/1.0); "long" does not fit into  *)
(* the buffer; "nolen" is a POST without Content-Length; "huge" announces  *)
(* a content larger than max_request_size; "range" asks for bytes beyond   *)
(* the end of the file.                                                    *)
(***************************************************************************)
Parts == [get   |-> <<"head", "end">>,
          bye   |-> <<"head", "end">>,
          range |-> <<"head", "end">>,
          long  |-> [i \in 1 .. Oversize |-> "head"] \o <<"end">>,
          post  |-> <<"head", "end", "data">>,
          nolen |-> <<"head", "end">>,
          huge  |-> <<"head", "end", "data">>]

\* The Content-Length of the requests that use the POST method.
ContentLength == [post |-> 1, nolen |-> -1, huge |-> Oversize]

Posts == DOMAIN ContentLength

ASSUME RequestAssumption ==
    /\ Requests \in Nat /\ FileSize \in Nat \ {0}
    /\ Kinds \subseteq DOMAIN Parts
    /\ Clients \subseteq {"patient", "pipelining", "pushing"}
    /\ Chunk \in Nat \ {0}
    /\ MaxRequestSizes \subseteq Nat /\ MaxRequestSizes # {} /\ IsFiniteSet(MaxRequestSizes)
    /\ \A m \in MaxRequestSizes : Chunk < m
    /\ MaxKeepAlive \in Nat \ {0}

Ids == 1 .. Requests

VARIABLES
    limit,    \* config->max_request_size
    client,   \* "patient": sends a request when the previous one is answered
              \* "pushing": patient, but sends the content of a refused POST
              \* "pipelining": sends requests without waiting for answers
    nsent,    \* number of requests begun by the client
    rest,     \* tokens of the current request it still has to send
    wire,     \* tokens on their way to the server
    fin,      \* the client has closed its side
    mode,     \* epoll mode of the socket, or how the connection ended
    cs,       \* the client_session
    node,     \* the request mk_handler_write() is at, or the one a plugin
              \* works on while the socket sleeps; 0 otherwise
    replies,  \* how often a response header was sent for a request, 2 = more
    ended,    \* how often STAGE_40 was run for a request, 2 = more
    closes,   \* how often STAGE_50 was run for the connection, 2 = more
    files     \* requests whose fd_file is open, and Lost

netVars == <<limit, client, nsent, rest, wire, fin>>
outVars == <<replies, ended, closes, files>>
vars == <<netVars, mode, cs, node, outVars>>

NoSession == [alive |-> FALSE]

\* A file that is open and that no request knows of any more.
Lost == 0

Tokens(i, k) == [j \in 1 .. Len(Parts[k]) |->
                   [req |-> i, kind |-> k, part |-> Parts[k][j]]]

More(f, i) == [f EXCEPT ![i] = IF @ = 0 THEN 1 ELSE 2]

Stage50 == IF closes = 0 THEN 1 ELSE 2

Open == mode \in {"new", "read", "write", "sleep"}

(***************************************************************************)
(* mk_session_create()                                                     *)
(***************************************************************************)
NewSession == [alive |-> TRUE, body |-> <<>>, size |-> Chunk, pos |-> 0,
               method |-> "unknown", counter |-> 0, status |-> "incomplete",
               list |-> <<>>]

Session == IF cs.alive THEN cs ELSE NewSession

Init == /\ limit \in MaxRequestSizes /\ client \in Clients
        /\ nsent = 0 /\ rest = <<>> /\ wire = <<>> /\ fin = FALSE
        /\ mode = "new" /\ cs = NoSession /\ node = 0
        /\ replies = [i \in Ids |-> 0] /\ ended = [i \in Ids |-> 0]
        /\ closes = 0 /\ files = {}

----------------------------------------------------------------------------
(***************************************************************************)
(* The client.  An answer is complete when its header was sent and no data *)
(* of it is left to be sent.                                               *)
(***************************************************************************)
Sending(i) == /\ cs.alive
              /\ \E n \in DOMAIN cs.list : cs.list[n].req = i /\ cs.list[n].bts > 0

Complete(i) == replies[i] > 0 /\ ~ Sending(i)

ClientRequest == /\ Open /\ ~ fin /\ rest = <<>> /\ nsent < Requests
                 /\ client # "pipelining" => \A i \in 1 .. nsent : Complete(i)
                 /\ \E k \in Kinds : rest' = Tokens(nsent + 1, k)
                 /\ nsent' = nsent + 1
                 /\ UNCHANGED <<limit, client, wire, fin, mode, cs, node, outVars>>

\* The content of a request that was refused is only sent by a pushing client.
ClientSend == /\ Open /\ ~ fin /\ rest # <<>>
              /\ LET t == Head(rest) IN
                   IF t.kind = "huge" /\ t.part = "data" /\ client # "pushing"
                   THEN UNCHANGED wire
                   ELSE wire' = Append(wire, t)
              /\ rest' = Tail(rest)
              /\ UNCHANGED <<limit, client, nsent, fin, mode, cs, node, outVars>>

ClientClose == /\ Open /\ ~ fin
               /\ fin' = TRUE
               /\ UNCHANGED <<limit, client, nsent, rest, wire, mode, cs, node, outVars>>

----------------------------------------------------------------------------
(***************************************************************************)
(* The end of the connection.  A handler that returns -1 makes the epoll   *)
(* loop call mk_conn_close(); mk_sched_remove_client() closes the socket   *)
(* and runs STAGE_50 for a registered connection.  What is not read from   *)
(* the socket is lost.                                                     *)
(***************************************************************************)
\* Mutant: the plugins are not told.
RemoveClientSilent(how) == /\ mode' = how
                           /\ wire' = <<>> /\ rest' = <<>>
                           /\ UNCHANGED <<limit, client, nsent, fin, closes>>

RemoveClient(how) == /\ mode' = how
                     /\ closes' = Stage50
                     /\ wire' = <<>> /\ rest' = <<>>
                     /\ UNCHANGED <<limit, client, nsent, fin>>

\* mk_session_remove(): the list of requests is not looked at.
SessionRemove == cs' = NoSession

\* Mutant: the files stay open.
FreeListNothing(list) == files

\* mk_request_free_list()
FreeList(list) == files \ {list[n].req : n \in DOMAIN list}

\* First event of a connection: mk_sched_register_client(); STAGE_10 may refuse it.
Register == /\ mode = "new" /\ wire # <<>>
            /\ mode' = "read"
            /\ UNCHANGED <<netVars, cs, node, outVars>>

Refuse == /\ mode = "new" /\ wire # <<>>
          /\ mode' = "closed" /\ wire' = <<>> /\ rest' = <<>>
          /\ UNCHANGED <<limit, client, nsent, fin, cs, node, outVars>>

----------------------------------------------------------------------------
(***************************************************************************)
(* mk_http_pending_request(): is the request in the buffer complete?       *)
(***************************************************************************)
Ends(body) == {j \in DOMAIN body : body[j].part = "end"}

\* Mutant: the position after the block.
PosEndPast(c) == CASE c.pos > 0 -> c.pos
                   [] c.pos = 0 /\ Ends(c.body) = {} -> 0
                   [] OTHER -> Len(c.body) + 1

PosEnd(c) == CASE c.pos > 0 -> c.pos
               [] c.pos = 0 /\ Ends(c.body) = {} -> 0
               [] OTHER -> IF c.body[Len(c.body)].part = "end"
                           THEN Len(c.body)
                           ELSE CHOOSE j \in Ends(c.body) : \A l \in Ends(c.body) : j <= l

\* mk_http_method_get() of the first bytes of a block
Method(t) == CASE t.part # "head" -> "unknown"
               [] t.part = "head" /\ t.kind \in Posts -> "post"
               [] OTHER -> "get"

FirstMethod(c) == IF c.method = "unknown" THEN Method(c.body[1]) ELSE c.method

TooLarge(c) == ContentLength[c.body[1].kind] >= limit

\* All expected data of a POST has arrived; its length is judged later if it is wrong.
PostArrived(c) == LET pos == PosEnd(c)
                      len == ContentLength[c.body[1].kind]
                  IN  IF pos = Len(c.body) THEN len <= 0 ELSE Len(c.body) - pos >= len

Arrived(c) == /\ PosEnd(c) > 0
              /\ FirstMethod(c) = "post" => TooLarge(c) \/ PostArrived(c)

PendingRequest(c) ==
    IF PosEnd(c) = 0 THEN c
    ELSE [c EXCEPT !.pos = PosEnd(c), !.method = FirstMethod(c),
                   !.status = IF Arrived(c) /\ ~ (FirstMethod(c) = "post" /\ TooLarge(c))
                              THEN "completed" ELSE @]

(***************************************************************************)
(* mk_handler_read(): the buffer grows by a chunk when it is full.         *)
(***************************************************************************)
Full(c) == Len(c.body) >= c.size

\* Mutant: the limit itself is allowed.
NewSizeOffByOne(c) == c.size + Chunk <= limit

NewSizeAllowed(c) == c.size + Chunk < limit

Grown(c) == IF Full(c) THEN [c EXCEPT !.size = @ + Chunk] ELSE c

Readable == mode = "read" /\ node = 0 /\ (wire # <<>> \/ fin)

(***************************************************************************)
(* mk_request_premature_close(): the error page, STAGE_40 for the first    *)
(* request, STAGE_50, and the session is removed, but not its requests;    *)
(* the handler returns -1, so that the connection is closed and STAGE_50   *)
(* is run again.                                                           *)
(***************************************************************************)
PrematureClose(c, how) == /\ replies' = More(replies, c.body[1].req)
                          /\ ended' = More(ended, c.body[1].req)
                          /\ mode' = how /\ closes' = 2
                          /\ wire' = <<>> /\ rest' = <<>>
                          /\ SessionRemove
                          /\ UNCHANGED <<limit, client, nsent, fin, node>>

ReadTooLarge == /\ Readable /\ Full(Session) /\ ~ NewSizeAllowed(Session)
                /\ PrematureClose(Session, "closed")
                /\ UNCHANGED files

\* mk_mem_realloc() fails; the first growth is a malloc() whose result is not checked.
\* The error page may be a customized one, whose file is not closed.
ReadNoMemory == /\ Readable /\ Full(Session) /\ NewSizeAllowed(Session)
                /\ Session.size > Chunk
                /\ PrematureClose(Session, "failed")
                /\ files' \in {files, files \cup {Session.body[1].req}}

(***************************************************************************)
(* The part of mk_conn_read() after data was read.                         *)
(***************************************************************************)
AfterRead(c) ==
    \/ /\ Arrived(c)
       /\ cs' = PendingRequest(c) /\ mode' = "write"
       /\ UNCHANGED closes
    \/ /\ ~ Arrived(c)
       /\ Len(c.body) + 1 < limit
       /\ cs' = PendingRequest(c)
       /\ UNCHANGED <<mode, closes>>
    \/ /\ ~ Arrived(c)
       /\ Len(c.body) + 1 >= limit
       /\ SessionRemove /\ mode' = "closed" /\ closes' = Stage50

CanRead == Full(Session) => NewSizeAllowed(Session)

Read == /\ Readable /\ CanRead /\ wire # <<>>
        /\ LET c == Grown(Session)
               k == IF Len(wire) < c.size - Len(c.body) THEN Len(wire)
                                                        ELSE c.size - Len(c.body)
           IN  /\ AfterRead([c EXCEPT !.body = @ \o SubSeq(wire, 1, k)])
               /\ wire' = IF mode' = "closed" THEN <<>> ELSE SubSeq(wire, k + 1, Len(wire))
        /\ rest' = IF mode' = "closed" THEN <<>> ELSE rest
        /\ UNCHANGED <<limit, client, nsent, fin, node, replies, ended, files>>

\* EAGAIN: mk_handler_read() returns 1 and the buffer is examined again.
ReadAgain == /\ Readable /\ CanRead /\ wire # <<>>
             /\ AfterRead(Grown(Session))
             /\ UNCHANGED <<netVars, node, replies, ended, files>>

ReadClosed == /\ Readable /\ CanRead /\ wire = <<>>
              /\ SessionRemove /\ RemoveClient("closed")
              /\ UNCHANGED <<node, replies, ended, files>>

----------------------------------------------------------------------------
(***************************************************************************)
(* mk_request_parse(): the requests of the buffer.  Only on a connection   *)
(* that was kept alive is the buffer split into blocks.                    *)
(***************************************************************************)
Starts(c) == {1} \cup {j \in 2 .. c.pos : c.body[j - 1].part = "end"}

Block(t) == [req |-> t.req, kind |-> t.kind, method |-> Method(t),
             bts |-> -1, conn |-> "unset"]

FirstBlock(c) == [Block(c.body[1]) EXCEPT !.method = c.method]

Nth(S, n) == CHOOSE j \in S : Cardinality({l \in S : l < j}) = n - 1

Parsed(c) == IF c.counter = 0 THEN <<FirstBlock(c)>>
             ELSE [n \in 1 .. Cardinality(Starts(c)) |->
                     IF n = 1 THEN FirstBlock(c) ELSE Block(c.body[Nth(Starts(c), n)])]

\* Pipelined requests must use the GET or HEAD method.
ParseOK(list) == Len(list) > 1 => \A n \in DOMAIN list : list[n].method = "get"

CloseSession == /\ SessionRemove /\ RemoveClient("closed")
                /\ node' = 0

WriteEvent == /\ mode = "write" /\ node = 0
              /\ LET list == IF cs.list = <<>> THEN Parsed(cs) ELSE cs.list IN
                   \/ /\ cs.list # <<>> \/ ParseOK(list)
                      /\ cs' = [cs EXCEPT !.list = list]
                      /\ node' = 1
                      /\ UNCHANGED <<netVars, mode, outVars>>
                   \/ /\ cs.list = <<>> /\ ~ ParseOK(list)
                      /\ files' = FreeList(list)
                      /\ CloseSession
                      /\ UNCHANGED <<replies, ended>>

AtNode == mode = "write" /\ node > 0 /\ node <= Len(cs.list)

Sr == cs.list[node]

\* Mutant: the end of the request is announced at every write event.
WaitAnnounced(sr) == /\ cs' = [cs EXCEPT !.list[node] = sr]
                     /\ node' = 0
                     /\ ended' = More(ended, sr.req)
                     /\ UNCHANGED <<netVars, mode, closes>>

\* A positive status: the rest is sent at the next write event.
Wait(sr) == /\ cs' = [cs EXCEPT !.list[node] = sr]
            /\ node' = 0
            /\ UNCHANGED <<netVars, mode, closes, ended>>

\* EXIT_NORMAL and EXIT_ERROR: STAGE_40, then the next request, or the end.
EndNode(sr, open) ==
    /\ ended' = More(ended, sr.req)
    /\ \/ /\ sr.conn # "close"
          /\ cs' = [cs EXCEPT !.list[node] = sr]
          /\ node' = node + 1 /\ files' = open
          /\ UNCHANGED <<netVars, mode, closes>>
       \/ /\ sr.conn = "close"
          /\ files' = open \ {cs.list[n].req : n \in DOMAIN cs.list}
          /\ CloseSession

\* EXIT_ABORT: STAGE_40, then the connection is closed.
AbortNode == /\ ended' = More(ended, Sr.req)
             /\ files' = FreeList(cs.list)
             /\ CloseSession

(***************************************************************************)
(* mk_http_send_file() has k units accepted by the socket, or fails.       *)
(***************************************************************************)
\* Mutant: what was sent is not accounted for.
SendFileStuck(sr, open, k) == Wait(sr) /\ files' = open

SendFile(sr, open, k) ==
    LET left == [sr EXCEPT !.bts = @ - k] IN
    IF left.bts > 0
    THEN Wait(left) /\ files' = open
    ELSE EndNode(left, open)

Continue == /\ AtNode /\ Sr.bts > 0
            /\ \E k \in 0 .. Sr.bts : SendFile(Sr, files, k)
            /\ UNCHANGED replies

ContinueFails == /\ AtNode /\ Sr.bts > 0
                 /\ AbortNode
                 /\ UNCHANGED replies

\* A request that was served before, in a list of pipelined requests.
Skip == /\ AtNode /\ Sr.bts = 0
        /\ EndNode(Sr, files)
        /\ UNCHANGED replies

(***************************************************************************)
(* mk_request_process() and mk_http_init().  The Connection header is read *)
(* by mk_request_header_process().                                         *)
(***************************************************************************)
Processed == [Sr EXCEPT !.conn = IF Sr.kind = "bye" THEN "close" ELSE "keep"]

\* Mutant: bytes_to_send is not looked at.
ToProcessAlways == AtNode

ToProcess == AtNode /\ Sr.bts < 0

\* mk_method_parse_data() refuses the request.
LengthRefused == Sr.method = "post" /\ Sr.kind \in {"nolen", "huge"}

\* open() of the file to be sent; fd_file is overwritten if the request has a file.
OpenFile == IF Sr.req \in files THEN files \cup {Lost} ELSE files \cup {Sr.req}

\* A malformed header, an unknown protocol version or an unknown user: an error page and
\* EXIT_ABORT; or the first mk_http_send_file() fails after the header was sent.
ProcessAbort == /\ ToProcess
                /\ replies' = More(replies, Sr.req)
                /\ AbortNode

\* STAGE_20 asks for the connection to be closed; nothing is sent.
ProcessDrop == /\ ToProcess /\ ~ LengthRefused
               /\ AbortNode
               /\ UNCHANGED replies

\* A response whose content is not sent from a file: an error page, a redirection, 304,
\* HEAD (the file is opened all the same), an empty file, or a plugin that serves the
\* request in STAGE_30.  Always for a wrong Content-Length.
ProcessShort == /\ ToProcess
                /\ replies' = More(replies, Sr.req)
                /\ \E open \in {files, IF LengthRefused THEN files ELSE OpenFile} :
                      EndNode(Processed, open)

\* A static file or a customized error page: header, open(), first mk_http_send_file().
ProcessFile == /\ ToProcess /\ ~ LengthRefused
               /\ replies' = More(replies, Sr.req)
               /\ \E k \in 0 .. FileSize :
                     SendFile([Processed EXCEPT !.bts = FileSize], OpenFile, k)

\* mk_http_range_set() refuses the range after the header was sent: an error page follows.
ProcessRange == /\ ToProcess /\ Sr.kind = "range" /\ Sr.method = "get"
                /\ replies' = [replies EXCEPT ![Sr.req] = 2]
                /\ \E b \in {-1, 1} : EndNode([Processed EXCEPT !.bts = b], OpenFile)

\* STAGE_30 returns MK_PLUGIN_RET_CONTINUE: the plugin answers, the socket sleeps.
ProcessPlugin == /\ ToProcess /\ ~ LengthRefused
                 /\ cs' = [cs EXCEPT !.list[node] = Processed]
                 /\ mode' = "sleep"
                 /\ UNCHANGED <<netVars, node, outVars>>

----------------------------------------------------------------------------
(***************************************************************************)
(* mk_http_keepalive_check(): may the connection stay open?  A client that *)
(* uses HTTP/1.0 is only kept when it asked for it and the length of the   *)
(* content is known, and keep-alive may be switched off: a connection that *)
(* can be kept is not always kept.                                         *)
(***************************************************************************)
\* Mutant: max_keep_alive_request is not looked at.
KeepAliveForgetful(c) == c.list[Len(c.list)].conn = "keep"

\* The last request decides, and the number of requests served before.
KeepAlivePossible(c) == /\ c.list[Len(c.list)].conn = "keep"
                        /\ c.counter < MaxKeepAlive

\* Mutant: the list of requests is not emptied.
KaNextKeepsList(c) == [c EXCEPT !.body = <<>>, !.pos = 0, !.method = "unknown",
                                !.counter = @ + 1, !.status = "incomplete"]

\* mk_request_ka_next(): what is left in the buffer is dropped.
KaNext(c) == [c EXCEPT !.body = <<>>, !.pos = 0, !.method = "unknown", !.list = <<>>,
                       !.counter = @ + 1, !.status = "incomplete"]

\* mk_http_request_end()
RequestEnd == /\ files' = FreeList(cs.list)
              /\ node' = 0
              /\ \/ /\ KeepAlivePossible(cs)
                    /\ cs' = KaNext(cs) /\ mode' = "read"
                    /\ UNCHANGED <<netVars, closes>>
                 \/ SessionRemove /\ RemoveClient("closed")

WriteDone == /\ mode = "write" /\ node = Len(cs.list) + 1
             /\ RequestEnd
             /\ UNCHANGED <<replies, ended>>

\* The plugin has sent its answer and calls mk_plugin_http_request_end().
PluginEnd == /\ mode = "sleep"
             /\ replies' = More(replies, Sr.req)
             /\ RequestEnd
             /\ UNCHANGED ended

\* mk_conn_error(): EPOLLERR or EPOLLHUP alone; the requests are not freed.
ConnError == /\ fin /\ (mode = "sleep" \/ (mode = "write" /\ node = 0))
             /\ SessionRemove /\ RemoveClient("failed")
             /\ node' = 0
             /\ UNCHANGED <<replies, ended, files>>

(***************************************************************************)
(* mk_sched_check_timeouts(): a connection is PENDING until its first      *)
(* write event, a session can expire while it is INCOMPLETE.               *)
(***************************************************************************)
Pending == \/ mode = "read" /\ (cs.alive => cs.counter = 0)
           \/ mode = "write" /\ cs.counter = 0 /\ cs.list = <<>>

Timeout == /\ node = 0
           /\ \/ /\ Pending /\ (cs.alive => cs.status = "completed")
                 /\ UNCHANGED cs
              \/ /\ cs.alive /\ cs.status = "incomplete" /\ mode \in {"read", "write"}
                 /\ SessionRemove
           /\ RemoveClient("closed")
           /\ UNCHANGED <<node, replies, ended, files>>

Receive == Register \/ Refuse \/ ReadTooLarge \/ ReadNoMemory \/ Read \/ ReadClosed

Process == \/ ProcessAbort \/ ProcessDrop \/ ProcessShort \/ ProcessFile
           \/ ProcessRange \/ ProcessPlugin

Write == WriteEvent \/ Continue \/ ContinueFails \/ Skip \/ Process \/ WriteDone

Next == \/ ClientRequest \/ ClientSend \/ ClientClose
        \/ Receive \/ ReadAgain \/ Write \/ PluginEnd \/ ConnError \/ Timeout

Spec == Init /\ [][Next]_vars

(***************************************************************************)
(* Fairness: the worker handles the events of the socket; the socket takes *)
(* some bytes again and again as long as the client reads, and the file is *)
(* not truncated while it is sent, so that sendfile() does not return 0    *)
(* for ever.                                                               *)
(***************************************************************************)
SendProgress == /\ AtNode /\ Sr.bts > 0
                /\ \E k \in 1 .. Sr.bts : SendFile(Sr, files, k)
                /\ UNCHANGED replies

FairSpec == Spec /\ WF_vars(Write) /\ SF_vars(SendProgress)

----------------------------------------------------------------------------
(***************************************************************************)
(* Properties                                                              *)
(***************************************************************************)
TokenType == [req : Ids, kind : Kinds, part : {"head", "end", "data"}]

SrType == [req : Ids, kind : Kinds, bts : -1 .. FileSize,
           method : {"unknown", "get", "post"}, conn : {"unset", "keep", "close"}]

IsSession(c) == /\ c.alive
                /\ \A j \in DOMAIN c.body : c.body[j] \in TokenType
                /\ c.pos \in 0 .. Len(c.body)
                /\ c.method \in {"unknown", "get", "post"}
                /\ c.counter \in Nat /\ c.size \in Nat
                /\ c.status \in {"incomplete", "completed"}
                /\ \A n \in DOMAIN c.list : c.list[n] \in SrType

\* The variables keep their types; the end of the header lies in the buffer, and
\* mk_handler_write() does not leave the list of requests.
TypeOK == /\ limit \in MaxRequestSizes /\ client \in Clients /\ nsent \in 0 .. Requests /\ fin \in BOOLEAN
          /\ \A j \in DOMAIN rest : rest[j] \in TokenType
          /\ \A j \in DOMAIN wire : wire[j] \in TokenType
          /\ mode \in {"new", "read", "write", "sleep", "closed", "failed"}
          /\ cs = NoSession \/ IsSession(cs)
          /\ node \in Nat /\ (node > 0 => cs.alive /\ node <= Len(cs.list) + 1)
          /\ replies \in [Ids -> 0 .. 2] /\ ended \in [Ids -> 0 .. 2]
          /\ closes \in 0 .. 2 /\ files \subseteq Ids \cup {Lost}

\* A client that waits for each answer gets its answers in turn: a response is begun
\* only for a request that has none, when all the answers before it are complete and
\* no later request has one.  This depends on what mk_request_ka_next() and
\* mk_request_free_list() leave in the session for the next request.
AnswersInTurn ==
    [][client = "patient" =>
         \A i \in Ids : replies'[i] # replies[i] =>
            /\ replies[i] = 0
            /\ \A j \in Ids : IF j < i THEN Complete(j) ELSE replies[j] = 0]_vars

\* mk_handler_write() announces the end of a request to the plugins (STAGE_40) once, for
\* a client that waits for its answers; and while the connection stays open never for
\* a request that has got no response, whatever the client does.
RequestEndsOnce == \A i \in Ids : /\ client = "patient" => ended[i] <= 1
                                  /\ (Open /\ ended[i] > 0) => replies[i] > 0

\* The file of a response is closed with the session, on every path that ends it but
\* mk_conn_error() and the failure of realloc(), where mk_request_free_list() is not
\* called; and for a client that waits for its answers fd_file is never overwritten.
FilesClosed == \/ mode = "failed"
               \/ /\ client # "pipelining" => Lost \notin files
                  /\ files \ {Lost} \subseteq
                        (IF cs.alive THEN {cs.list[n].req : n \in DOMAIN cs.list} ELSE {})

\* The receive buffer holds what was read and stays below max_request_size, through
\* growth in mk_handler_read() and reuse by the next request of the connection.
BoundedBuffer == cs.alive => Len(cs.body) <= cs.size /\ cs.size < limit

\* A session that waits for data carries nothing over from the request before it, and
\* one that is written to holds a complete header, which mk_request_parse() relies on.
SessionInStep == /\ mode = "read" /\ cs.alive =>
                      cs.list = <<>> /\ cs.status = "incomplete"
                 /\ mode \in {"write", "sleep"} =>
                      cs.alive /\ cs.pos > 0 /\ cs.body[cs.pos].part = "end"

\* A client that waits for each answer is served at most max_keep_alive_request + 1
\* times on a connection: the check compares the number of earlier requests.
KeepAliveBound == client = "patient" =>
                     Cardinality({i \in Ids : replies[i] > 0}) <= MaxKeepAlive + 1

\* The plugins learn of the end of every connection that was served (STAGE_50), and
\* never of the end of one that is still open.
EndIsReported == /\ Open => closes = 0
                 /\ ~ Open /\ (\E i \in Ids : replies[i] > 0) => closes > 0

\* No connection stays in the write phase: every response, partial sends and repeated
\* visits of the list of requests included, comes to an end.
ResponseEnds == (mode = "write") ~> (mode # "write")

\* No request is answered twice, whatever the client does.  mk_handler_write() means to
\* process requests that are "not processed" only.
AnsweredOnce == \A i \in Ids : replies[i] <= 1
============================================================================
