---------------------------- MODULE FastCGIWire ----------------------------
(***************************************************************************)
(* What the FastCGI plugin puts on a connection and what it makes of the   *)
(* bytes that come back: packages (protocol.c), the request that is sent   *)
(* (fcgi_prepare_request(), fcgi_env_write()), vectors that are sent piece *)
(* by piece (chunk_iov_drop()) and the chunks that packages are put        *)
(* together in again (fcgi_recv_response(), fcgi_fd_set_chunk()).          *)
(*                                                                         *)
(* A byte that is received is its position in the stream, and what a       *)
(* header says is looked up there.  Lengths that are written stand for     *)
(* themselves.  FastCGI.tla says what becomes of a package.                *)
(***************************************************************************)
EXTENDS Integers, Sequences, FiniteSets, FiniteSetsExt, SequencesExt, TLC

CONSTANTS
  HeaderLen,     \* sizeof(struct fcgi_header)
  ChunkSize,     \* CHUNK_SIZE(8192)
  Streams,       \* sequences of package lengths that servers send
  Vectors,       \* sequences of lengths that are sent with one chunk_iov
  Bodies,        \* lengths of request bodies
  ParamLists     \* sequences of [key, value], the lengths of FastCGI parameters

ASSUME WireAssumption ==
  /\ HeaderLen \in Nat \ {0} /\ ChunkSize \in Nat \ {0}
  /\ \A s \in Streams : \A i \in DOMAIN s : s[i] >= HeaderLen

SumOf(seq) == FoldLeft(+, 0, seq)

-----------------------------------------------------------------------------
(* Receiving.                                                              *)

Chunks == [size : Nat, data : Seq(Nat), read : Nat]

Start(stream, k) == SumOf(SubSeq(stream, 1, k - 1)) + 1
Package(stream, k) ==
  [i \in 1 .. stream[k] |-> Start(stream, k) + i - 1]

(* The length that the header at byte b declares; bytes in the middle of a *)
(* package declare nothing in particular.                                  *)
Declared(stream, b) ==
  IF \E k \in DOMAIN stream : Start(stream, k) = b
  THEN stream[CHOOSE k \in DOMAIN stream : Start(stream, k) = b]
  ELSE HeaderLen

chunk_new(size) == [size |-> size, data |-> <<>>, read |-> 0]
chunk_write_len(c) == c.size - Len(c.data)
chunk_unread(c) == SubSeq(c.data, c.read + 1, Len(c.data))

retain(refs, c)  == [refs EXCEPT ![c] = @ + 1]
release(refs, c) == [refs EXCEPT ![c] = @ - 1]

(* The receiving side of a connection: at, bytes taken from the socket;    *)
(* chunk, fd->chunk, which is the chunk number cur; first, no read(2) of   *)
(* this call yet; inherit and pkg_size, the locals.  refs counts the       *)
(* references of all chunks so far, held lists the ones of the request's   *)
(* vector.  got is what handle_pkg() was given, lost the bytes that were   *)
(* left behind in a chunk.                                                 *)
Receivers(stream) ==
  [stream |-> stream, at |-> 0, chunk |-> chunk_new(0), cur |-> 0,
   first |-> TRUE, inherit |-> 0, pkg_size |-> 0, refs |-> <<>>,
   held |-> <<>>, got |-> <<>>, lost |-> <<>>, open |-> TRUE]

(* fcgi_fd_set_chunk(): the tail of the old chunk opens the new one.       *)
fcgi_fd_set_chunk_Head(a, b, inherit) ==
  [a EXCEPT !.data = SubSeq(b.data, 1, inherit)]
fcgi_fd_set_chunk(a, b, inherit) ==
  [a EXCEPT !.data = SubSeq(b.data, Len(b.data) - inherit + 1, Len(b.data))]

NeedsChunk(r) == r.inherit > 0 \/ chunk_write_len(r.chunk) < HeaderLen

WithRoom(r) ==
  IF ~ NeedsChunk(r) THEN r
  ELSE LET a == chunk_new(IF r.pkg_size > ChunkSize THEN r.pkg_size
                          ELSE ChunkSize)
           refs == Append(r.refs, 1)
       IN [r EXCEPT
             !.chunk = fcgi_fd_set_chunk(a, r.chunk, r.inherit),
             !.cur = Len(refs),
             !.refs = IF r.cur = 0 THEN refs ELSE release(refs, r.cur),
             !.lost = IF r.inherit > 0 THEN @ ELSE chunk_unread(r.chunk),
             !.open = a.size > r.inherit,
             !.inherit = 0]

(* The packages of what is unread.  A package with a body gets an entry in *)
(* the vector of its request: request_add_pkg(), chunk_iov_add().  What is *)
(* left is too short for a package, and inherited by the next chunk.       *)
RECURSIVE Packages(_, _)
Packages(r, unread) ==
  LET size == IF Len(unread) < HeaderLen THEN HeaderLen
              ELSE Declared(r.stream, Head(unread)) IN
  IF unread = <<>> THEN r
  ELSE IF Len(unread) < size
  THEN [r EXCEPT !.pkg_size = size, !.inherit = Len(unread)]
  ELSE Packages(
         [r EXCEPT !.pkg_size = size,
                   !.got = Append(@, SubSeq(unread, 1, size)),
                   !.held = IF size > HeaderLen THEN Append(@, r.cur) ELSE @,
                   !.refs = IF size > HeaderLen THEN retain(@, r.cur) ELSE @],
         SubSeq(unread, size + 1, Len(unread)))

Parsed(r) ==
  [Packages(r, chunk_unread(r.chunk)) EXCEPT
     !.chunk.read = Len(r.chunk.data)]

(* One turn of the loop of fcgi_recv_response() with what read(2) returned.*)
(* A call begins because there is something to read: its first read(2)     *)
(* returns bytes, or 0 when the server closed the connection.  The locals  *)
(* do not outlive the call.                                                *)
Received(r, n) ==
  Parsed([r EXCEPT !.chunk.data = @ \o [i \in 1 .. n |-> r.at + i],
                   !.at = @ + n, !.first = FALSE])
EndOfCall(r) == [r EXCEPT !.first = TRUE, !.inherit = 0, !.pkg_size = 0]
Closed(r) == [Parsed(r) EXCEPT !.open = FALSE]

fcgi_recv_response(r) ==
  IF ~ r.open \/ r.lost # <<>> THEN {}
  ELSE LET s == WithRoom(r) IN
       IF ~ s.open THEN {s}
       ELSE {Received(s, n) : n \in 1 .. chunk_write_len(s.chunk)
                                \cap 1 .. SumOf(s.stream) - s.at}
            \cup {IF s.first THEN Closed(s) ELSE EndOfCall(s)}

(* The vector went to the client: chunk_iov_reset().                       *)
chunk_iov_reset(r) ==
  IF r.first /\ r.held # <<>>
  THEN {[r EXCEPT !.held = <<>>, !.refs = FoldLeft(release, @, r.held)]}
  ELSE {}

(* What a connection delivers: fcgi_recv_response() hands on the packages  *)
(* of the server one by one, whole and in order, and no byte is lost when  *)
(* a package arrives in pieces and its pieces in different chunks; but     *)
(* when all but a few bytes of a chunk is taken by a package that is not   *)
(* complete when the socket runs dry, the next call leaves it behind.      *)
PackagesWhole(r) ==
  IF r.lost = <<>>
  THEN /\ \A k \in DOMAIN r.got :
            k \in DOMAIN r.stream /\ r.got[k] = Package(r.stream, k)
       /\ r.open => Len(FlattenSeq(r.got)) + Len(chunk_unread(r.chunk))
                      + r.inherit = r.at
  ELSE LET size == Declared(r.stream, Head(r.lost)) IN
       (IF size > ChunkSize THEN size ELSE ChunkSize) - Len(r.lost) < HeaderLen

(* A chunk lives exactly as long as the connection receives into it or the *)
(* vector of a request points into it: chunk_retain(), chunk_release().    *)
ChunksLive(r) ==
  \A c \in DOMAIN r.refs :
    r.refs[c] = (IF c = r.cur THEN 1 ELSE 0)
                + Cardinality({i \in DOMAIN r.held : r.held[i] = c})


-----------------------------------------------------------------------------
(* Sending.  A vector is a sequence of byte sequences.                     *)

Sender(lens) ==
  [lens |-> lens, sent |-> <<>>,
   iov |-> [i \in DOMAIN lens |->
              [j \in 1 .. lens[i] |-> SumOf(SubSeq(lens, 1, i - 1)) + j]],
   begin_req_remain |-> SumOf(lens)]

RECURSIVE chunk_iov_drop(_, _)
chunk_iov_drop(iov, bytes) ==
  IF bytes = 0 \/ iov = <<>> THEN iov
  ELSE LET io == Head(iov) IN
       IF Len(io) < bytes
       THEN <<<<>>>> \o chunk_iov_drop(Tail(iov), bytes - Len(io))
       ELSE <<SubSeq(io, bytes + 1, Len(io))>> \o Tail(iov)

(* event_write(): writev(2) takes any number of bytes.                     *)
Sent(q, ret) ==
  [q EXCEPT !.sent = @ \o SubSeq(FlattenSeq(q.iov), 1, ret),
            !.iov = chunk_iov_drop(@, ret), !.begin_req_remain = @ - ret]
SendStep(q) == {Sent(q, ret) : ret \in 1 .. q.begin_req_remain}

(* However the socket cuts a vector, the server gets its bytes once and in *)
(* order, and begin_req_remain says how many are left.                     *)
SentInOrder(q) ==
  /\ q.sent \o FlattenSeq(q.iov) = [i \in 1 .. SumOf(q.lens) |-> i]
  /\ Len(FlattenSeq(q.iov)) = q.begin_req_remain

-----------------------------------------------------------------------------
(* Composing.                                                              *)

Byte(n, shift) == (n \div 2 ^ shift) % 256

(* Byte 7 is reserved and left as it is.                                   *)
fcgi_write_header(h) ==
  <<h.version, h.type, Byte(h.req_id, 8), Byte(h.req_id, 0),
    Byte(h.body_len, 8), Byte(h.body_len, 0), h.body_pad>>
fcgi_read_header(p) ==
  [version |-> p[1], type |-> p[2], req_id |-> p[3] * 256 + p[4],
   body_len |-> p[5] * 256 + p[6], body_pad |-> p[7]]

write_length_Swapped(len) ==
  IF len > 127
  THEN <<128 + (Byte(len, 24) % 128), Byte(len, 16), Byte(len, 0), Byte(len, 8)>>
  ELSE <<len>>
write_length(len) ==
  IF len > 127
  THEN <<128 + (Byte(len, 24) % 128), Byte(len, 16), Byte(len, 8), Byte(len, 0)>>
  ELSE <<len>>
fcgi_param_read_length(p, at) ==
  IF p[at] >= 128
  THEN (p[at] - 128) * 2 ^ 24 + p[at + 1] * 2 ^ 16 + p[at + 2] * 256 + p[at + 3]
  ELSE p[at]

(* A buffer of parameters: the bytes of the lengths by their position; the *)
(* keys and values themselves only take up room.                           *)
fcgi_param_write(b, param) ==
  LET lens == write_length(param.key) \o write_length(param.value) IN
  [bytes |-> [i \in DOMAIN b.bytes \cup {b.pos + j - 1 : j \in DOMAIN lens} |->
                IF i < b.pos THEN b.bytes[i] ELSE lens[i - b.pos + 1]],
   pos |-> b.pos + Len(lens) + param.key + param.value,
   full |-> FALSE]

(* fcgi_env_write(): the first parameter that may not fit ends the list.   *)
fcgi_env_write(len, params) ==
  FoldLeft(LAMBDA b, p :
             IF b.full \/ len - b.pos <= 8 + p.key + p.value
             THEN [b EXCEPT !.full = TRUE] ELSE fcgi_param_write(b, p),
           [bytes |-> <<>>, pos |-> 0, full |-> FALSE], params)

(* fcgi_param_entry_next(), from entry to entry.                           *)
RECURSIVE Entries(_, _)
Entries(b, position) ==
  IF position >= b.pos THEN <<>>
  ELSE LET key == fcgi_param_read_length(b.bytes, position)
           at == position + (IF key > 127 THEN 4 ELSE 1)
           value == fcgi_param_read_length(b.bytes, at)
           data == at + (IF value > 127 THEN 4 ELSE 1)
       IN <<[key |-> key, value |-> value]>> \o Entries(b, data + key + value)

BufLen == 4096
Pad(len) == (0 - len) % 8
(* len - pos > n with unsigned numbers: a difference below 0 is a large one*)
Fits(pos, n) == pos > BufLen \/ BufLen - pos > n

(* fcgi_prepare_request(): the headers that are written, by their place in *)
(* the buffer, and the pieces of the vector.  Without a body the STDIN     *)
(* package is empty.  With one, the third piece should hold the padding    *)
(* and the header that ends STDIN; it starts with as many bytes of the     *)
(* buffer as the body has, and its length counts from the buffer's start.  *)
fcgi_prepare_request(params, body) ==
  LET env == fcgi_env_write(BufLen - 24, params).pos
      hdr(t, n) == [type |-> t, body_len |-> n % 2 ^ 16, body_pad |-> Pad(n)]
      pos1 == 24 + env + Pad(env)
      heads == 0 :> [type |-> "BEGIN", body_len |-> 8, body_pad |-> 0]
               @@ 16 :> hdr("PARAMS", env) @@ pos1 :> hdr("PARAMS", 0)
               @@ pos1 + 8 :> hdr("STDIN", body)
      pos3 == pos1 + 16
      pos4 == pos3 + body + Pad(body)
      ok1 == Fits(pos1, 8) /\ Fits(pos1 + 8, 8)
      piece(src, from, len) == [src |-> src, from |-> from, len |-> len]
  IN IF ~ ok1 \/ (body > 0 /\ ~ Fits(pos4, 8))
     THEN [ok |-> FALSE, env |-> env, heads |-> heads, pieces |-> <<>>]
     ELSE IF body = 0
     THEN [ok |-> TRUE, env |-> env, heads |-> heads,
           pieces |-> <<piece("buffer", 0, pos3)>>]
     ELSE [ok |-> TRUE, env |-> env, heads |-> heads @@ pos4 :> hdr("STDIN", 0),
           pieces |-> <<piece("buffer", 0, pos3), piece("body", 0, body),
                        piece("buffer", pos3, pos4 + 8)>>]

(* The byte at place x of what is sent, and the packages a server reads.   *)
PieceAt(w, x) ==
  CHOOSE i \in DOMAIN w.pieces :
    LET before == SumOf([j \in 1 .. i - 1 |-> w.pieces[j].len]) IN
    x >= before /\ x < before + w.pieces[i].len
ByteAt(w, x) ==
  LET i == PieceAt(w, x) IN
  [src |-> w.pieces[i].src,
   at |-> w.pieces[i].from + x - SumOf([j \in 1 .. i - 1 |-> w.pieces[j].len])]

RECURSIVE ServerReads(_, _, _)
ServerReads(w, x, n) ==
  LET b == ByteAt(w, x) IN
  IF n = 0 THEN <<>>
  ELSE IF b.src # "buffer" \/ b.at \notin DOMAIN w.heads THEN <<"garbage">>
  ELSE LET h == w.heads[b.at] IN
       <<[type |-> h.type, len |-> h.body_len,
          data |-> IF h.type = "STDIN" /\ h.body_len > 0
                   THEN ByteAt(w, x + 8) ELSE [src |-> "none", at |-> 0]]>>
       \o ServerReads(w, x + 8 + h.body_len + h.body_pad, n - 1)

(* A request that is sent is one that a server can read: begin, parameters *)
(* padded to the eighth byte, the empty package behind them, and the body  *)
(* from its first byte on; without a body, exactly that.  The headers lie  *)
(* inside of the buffer, also when the parameters fill it to the last      *)
(* byte; but with a body that is larger than the room behind them, the     *)
(* last one does not.                                                      *)
RequestReadable(params, body) ==
  LET w == fcgi_prepare_request(params, body)
      last == Max(DOMAIN w.heads)
      room == BufLen - (24 + w.env + Pad(w.env) + 16)
      none == [src |-> "none", at |-> 0] IN
  w.ok =>
    /\ last + 8 <= BufLen \/ body + Pad(body) > room
    /\ ServerReads(w, 0, 4) =
         <<[type |-> "BEGIN", len |-> 8, data |-> none],
           [type |-> "PARAMS", len |-> w.env, data |-> none],
           [type |-> "PARAMS", len |-> 0, data |-> none],
           [type |-> "STDIN", len |-> body,
            data |-> IF body = 0 THEN none ELSE [src |-> "body", at |-> 0]]>>
    /\ body = 0 => SumOf([i \in DOMAIN w.pieces |-> w.pieces[i].len])
                     = 8 + 8 + 8 + w.env + Pad(w.env) + 8 + 8

(* Parameters read back as they were written, up to the one that did not   *)
(* fit, and so do headers, whatever the lengths are.                       *)
ParamsReadBack(params) ==
  LET b == fcgi_env_write(BufLen - 24, params)
      entries == Entries(b, 0) IN
  /\ b.pos <= BufLen - 24
  /\ IsPrefix(entries, params)
  /\ ~ b.full => entries = params
  /\ \A p \in ToSet(params) :
       LET h == [version |-> 1, type |-> 4, req_id |-> p.key,
                 body_len |-> p.value, body_pad |-> Pad(p.value)] IN
       fcgi_read_header(fcgi_write_header(h)) = h

=============================================================================
