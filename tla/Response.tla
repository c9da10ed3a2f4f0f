------------------------------ MODULE Response ------------------------------
(***************************************************************************)
(* How a file is answered with: the path that is looked up and where it is *)
(* kept (mk_http_init(), mk_request_index()), the part of the file that a  *)
(* Range header asks for (mk_http_range_parse(), mk_http_range_set()) and  *)
(* the headers that announce it (mk_header_send()).  Request.tla has the   *)
(* order in which this happens; here are the numbers.                      *)
(***************************************************************************)
EXTENDS Integers, Sequences, FiniteSets, SequencesExt

CONSTANTS
  FileSizes,    \* sizes of files
  RangeNums,    \* numbers in Range headers
  PathBase,     \* MK_PATH_BASE, the size of real_path_static
  MaxPath,      \* MAX_PATH, the size of the buffer on the stack
  PathLens      \* lengths of document roots, URIs and index files

None == -1
PageLen == 1000            \* the length of an error page
HeaderEntries == 32        \* entries of the vector in mk_cache.c

(* A Range header: a unit and two numbers that may be missing.             *)
Ranges == [unit : {"bytes", "other"}, first : RangeNums \cup {None},
           last : RangeNums \cup {None}]
NoRange == [unit |-> "none", first |-> None, last |-> None]

(* dir: a directory that was asked for without the slash at its end; kept: *)
(* the client has it already (If-Modified-Since).                          *)
Requests ==
  [method : {"GET", "POST", "HEAD"}, size : FileSizes, dir : BOOLEAN,
   kept : BOOLEAN, range : Ranges \cup {NoRange}, resume : BOOLEAN,
   http11 : BOOLEAN, connection : {"none", "keep-alive", "close"}]

-----------------------------------------------------------------------------
(* struct response_headers, as mk_header_response_reset() leaves it        *)
response_reset ==
  [status |-> 0, ranges |-> <<-1, -1>>, content_length |-> -1,
   real_length |-> 0, last_modified |-> FALSE, content_type |-> FALSE,
   location |-> FALSE]

(* mk_http_keepalive_check(), of a connection that has requests left.      *)
KeptAlive(in, sh) ==
  IF in.http11 THEN in.connection # "close"
  ELSE in.connection = "keep-alive" /\ sh.content_length > 0

(* The Content-Range header of mk_header_send(): first, last, size.        *)
ContentRange(in, sh) ==
  LET r == sh.ranges IN
  IF ~ in.resume \/ sh.content_length = 0 \/ (r[1] < 0 /\ r[2] < 0) THEN <<>>
  ELSE IF r[1] >= 0 /\ r[2] = -1 THEN <<r[1], sh.real_length - 1, sh.real_length>>
  ELSE IF r[1] >= 0 THEN <<r[1], r[2], sh.real_length>>
  ELSE <<sh.real_length - r[2], sh.real_length - 1, sh.real_length>>

(* Entries that mk_iov_add_entry() takes for a header: one, and one for    *)
(* the separator.                                                          *)
Takes(cond, n) == IF cond THEN n ELSE 0

(* mk_header_send(): what the client learns, and the entries it took.      *)
mk_header_send(in, sh) ==
  [status |-> sh.status,
   length |-> IF sh.content_length >= 0 THEN sh.content_length ELSE None,
   range |-> ContentRange(in, sh),
   location |-> sh.location,
   close |-> ~ KeptAlive(in, sh),
   entries |-> 1 + 2 + 2 + Takes(sh.last_modified, 2)
               + (IF ~ KeptAlive(in, sh) THEN 1
                  ELSE Takes(in.connection # "none", 3))
               + Takes(sh.location, 3) + Takes(sh.content_type, 2)
               + Takes(sh.content_length >= 0, 2)
               + Takes(ContentRange(in, sh) # <<>>, 2) + 1]

(* A response: its headers, and the bytes of the file that follow: how     *)
(* many the server means to send and how many of them there are.           *)
Answer(head, from, n, size) ==
  [head |-> head, from |-> from, to_send |-> n,
   there |-> IF from >= 0 /\ from < size
             THEN IF n > size - from THEN size - from ELSE n ELSE 0]
HeadOnly(head) == Answer(head, 0, 0, 0)

(* mk_request_error() with the page of a bad request.                      *)
BadRequest(in, sh) ==
  LET e == [sh EXCEPT !.status = 400, !.content_length = PageLen,
                      !.last_modified = FALSE, !.content_type = TRUE]
      n == IF in.method = "HEAD" THEN 0 ELSE PageLen
  IN Answer(mk_header_send(in, e), 0, n, PageLen)

(* mk_http_directory_redirect_check()                                      *)
Redirect(in) ==
  <<HeadOnly(mk_header_send(in, [response_reset EXCEPT
      !.status = 301, !.content_length = 0, !.location = TRUE]))>>

(* mk_http_range_parse(); a number that is missing counts as 0 where one   *)
(* is read.                                                                *)
mk_http_range_parse(sh, r) ==
  LET last == IF r.last = None THEN 0 ELSE r.last IN
  IF r.unit # "bytes" THEN [ok |-> FALSE, sh |-> sh]
  ELSE IF r.first = None
  THEN [ok |-> last > 0,
        sh |-> [sh EXCEPT !.ranges = <<-1, last>>,
                          !.content_length = IF last > 0 THEN last ELSE @]]
  ELSE IF r.last # None
  THEN LET ok == last > 0 /\ r.first <= last IN
       [ok |-> ok,
        sh |-> [sh EXCEPT !.ranges = <<r.first, last>>,
                          !.content_length = IF ok THEN last - r.first + 1
                                             ELSE @]]
  ELSE [ok |-> TRUE,
        sh |-> [sh EXCEPT !.ranges = <<r.first, -1>>,
                          !.content_length = @ - r.first]]

(* mk_http_range_set(): bytes_offset and bytes_to_send.                    *)
Part_Short(r, size) ==
  IF r[1] >= 0 /\ r[2] = -1 THEN <<r[1], size - r[1]>>
  ELSE IF r[1] >= 0 /\ r[2] >= 0 THEN <<r[1], r[2] - r[1]>>
  ELSE IF r[1] = -1 /\ r[2] > 0 THEN <<size - r[2], r[2]>>
  ELSE <<0, size>>
Part(r, size) ==
  IF r[1] >= 0 /\ r[2] = -1 THEN <<r[1], size - r[1]>>
  ELSE IF r[1] >= 0 /\ r[2] >= 0 THEN <<r[1], r[2] - r[1] + 1>>
  ELSE IF r[1] = -1 /\ r[2] > 0 THEN <<size - r[2], r[2]>>
  ELSE <<0, size>>
mk_http_range_set(in, sh) ==
  LET part == IF in.resume /\ in.range # NoRange THEN Part(sh.ranges, in.size)
              ELSE <<0, in.size>>
  IN [ok |-> part[1] <= in.size /\ part[2] <= in.size,
      offset |-> part[1], to_send |-> part[2]]

(* mk_http_init(), from the file that was found on: the responses.         *)
Ranged(in) == in.method # "POST" /\ in.resume /\ in.range # NoRange
Responses(in) ==
  LET ok == [response_reset EXCEPT !.status = 200, !.content_length = in.size,
               !.real_length = in.size, !.last_modified = TRUE,
               !.content_type = in.method # "POST"]
      parsed == IF Ranged(in) THEN mk_http_range_parse(ok, in.range)
                ELSE [ok |-> TRUE, sh |-> ok]
      sh == IF parsed.sh.ranges # <<-1, -1>>
            THEN [parsed.sh EXCEPT !.status = 206] ELSE parsed.sh
      head == mk_header_send(in, sh)
      set == mk_http_range_set(in, sh)
  IN IF in.dir THEN Redirect(in)
     ELSE IF in.kept /\ in.method = "GET"
     THEN <<HeadOnly(mk_header_send(in, [response_reset EXCEPT !.status = 304,
                                                     !.last_modified = TRUE]))>>
     ELSE IF ~ parsed.ok THEN <<BadRequest(in, parsed.sh)>>
     ELSE IF sh.content_length = 0 \/ in.method = "HEAD" THEN <<HeadOnly(head)>>
     ELSE IF ~ set.ok THEN <<HeadOnly(head), BadRequest(in, sh)>>
     ELSE <<Answer(head, set.offset, set.to_send, in.size)>>

(* What RFC 2616 calls a range that can be satisfied; the range 0-0 is     *)
(* refused by mk_http_range_parse().                                       *)
Satisfiable(r, size) ==
  /\ r.unit = "bytes"
  /\ IF r.first = None THEN r.last > 0 /\ r.last <= size
     ELSE /\ r.first < size
          /\ r.last # None => r.first <= r.last /\ 0 < r.last /\ r.last < size

(* A client that asks for a part that the file has, or for no part at all, *)
(* gets one response that is true: as many bytes follow as Content-Length  *)
(* says, they are in the file, and Content-Range names the first and the   *)
(* last of them.  A part that reaches past the end of the file is the      *)
(* exception: the headers promise it, and what follows is fewer bytes, or  *)
(* a second response.                                                      *)
ResponseTrue(in) ==
  LET rs == Responses(in)
      a == rs[1]
      h == a.head IN
  /\ ~ Ranged(in) \/ Satisfiable(in.range, in.size) =>
       /\ Len(rs) = 1
       /\ a.there = a.to_send
       /\ in.method # "HEAD" /\ h.length # None => a.to_send = h.length
       /\ h.status = 206 /\ in.method # "HEAD" =>
            h.range = <<a.from, a.from + a.to_send - 1, in.size>>
       /\ h.status # 206 => h.range = <<>>
       /\ ~ h.close => h.length # None \/ h.status = 304
  /\ \A i \in DOMAIN rs :
       /\ rs[i].head.entries <= HeaderEntries
       /\ rs[i].from >= 0
  /\ Len(rs) > 1 \/ a.there < a.to_send =>
       /\ Ranged(in) /\ h.status = 206
       /\ \/ in.range.first = None /\ in.range.last > in.size
          \/ in.range.first > in.size \/ in.range.last >= in.size

-----------------------------------------------------------------------------
(* Paths.  text: what it consists of; len: the length that is recorded;    *)
(* in: where it is kept, real_path_static or a block of the heap; heap     *)
(* counts the blocks, freed lists the ones that were freed.                *)

Static == 0
SumLen(text) == FoldLeft(LAMBDA n, part : n + part.len, 0, text)
Path(text, place) == [text |-> text, len |-> SumLen(text), in |-> place,
                      heap |-> 0, freed |-> <<>>, cut |-> FALSE]
Allocated(p) == [p EXCEPT !.heap = @ + 1, !.in = p.heap + 1]
Freed(p) == [p EXCEPT !.freed = Append(@, p.in)]

(* The path of a user's home directory is on the heap: mk_user_init().     *)
Composed(root, uri, home) ==
  LET text == <<root, uri>> IN
  IF ~ home /\ SumLen(text) < PathBase THEN Path(text, Static)
  ELSE Allocated(Path(text, Static))

(* mk_request_index(): the path of the first index file that exists, on    *)
(* the stack.  What does not fit is cut, and then the length is one more   *)
(* than the string has.                                                    *)
mk_request_index(p, file) ==
  LET text == p.text \o <<file>> IN
  [text |-> text, cut |-> SumLen(text) >= MaxPath,
   len |-> IF SumLen(text) > MaxPath THEN MaxPath ELSE SumLen(text)]

(* The directory's index file takes the place of the path.                 *)
WithIndex(p, file) ==
  LET f == mk_request_index(p, file)
      q == [p EXCEPT !.text = f.text, !.len = f.len, !.cut = f.cut] IN
  IF p.in # Static
  THEN [Allocated(q) EXCEPT !.freed = Append(p.freed, p.in)]
  ELSE IF f.len < PathBase THEN q
  ELSE Allocated(q)

(* mk_request_free()                                                       *)
PathReleased(p) == IF p.in = Static THEN p ELSE Freed(p)

PathOf(in) ==
  LET part(n, l) == [name |-> n, len |-> l]
      p == Composed(part("root", in.root), part("uri", in.uri), in.home) IN
  IF in.index = None THEN p ELSE WithIndex(p, part("index", in.index))

PathInputs ==
  [root : PathLens, uri : PathLens, index : PathLens \cup {None}, home : BOOLEAN]

(* The path that is opened is document root, URI and index file, and its   *)
(* recorded length is the length of the string unless it was cut; it ends  *)
(* inside of real_path_static when it is kept there.  All that was         *)
(* allocated for it is freed once when the request is.                     *)
PathHeld(in) ==
  LET p == PathOf(in)
      q == PathReleased(p) IN
  /\ p.len = SumLen(p.text) \/ p.cut
  /\ p.cut => in.index # None /\ p.len <= MaxPath
  /\ p.in = Static => p.len < PathBase
  /\ \A b \in 1 .. q.heap : Cardinality({i \in DOMAIN q.freed : q.freed[i] = b}) = 1
  /\ Len(q.freed) = q.heap

=============================================================================
