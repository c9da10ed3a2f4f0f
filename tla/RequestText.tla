---------------------------- MODULE RequestText ----------------------------
(***************************************************************************)
(* How the text of a request is taken apart (mk_request_header_process()   *)
(* and what it calls), and the pieces of mk_string.c and mk_utils.c that   *)
(* work on text.  A text is a sequence of classes of characters; positions *)
(* count from 0 as in C, and -1 is "not found".                            *)
(***************************************************************************)
EXTENDS Integers, Sequences, FiniteSets, FiniteSetsExt, SequencesExt

CONSTANTS
  MaxLine,      \* bound: characters of a request line
  HeaderNames,  \* "host:", "length:" and names of other headers
  MaxHeaders,   \* bound: headers of a request
  TocLen,       \* MK_HEADERS_TOC_LEN
  MaxUri,       \* bound: characters of a URI
  Dates,        \* dates, numbers other than 0
  GmtCaches,    \* MK_GMT_CACHES
  MaxHits,      \* bound: hits of a cached date
  Numbers,      \* numbers to print
  Blobs         \* sequences of bytes to encode

Texts(chars, n) == UNION {[1 .. k -> chars] : k \in 0 .. n}
At(text, i) == IF i < Len(text) THEN text[i + 1] ELSE "end"
Sub(text, from, to) == SubSeq(text, from + 1, to)

(* memchr() and memrchr() over the first len characters                    *)
Positions(text, from, len, c) ==
  {i \in 0 .. len - 1 : from + i < Len(text) /\ At(text, from + i) = c}
mk_string_char_search(text, from, c, len) ==
  LET found == Positions(text, from, len, c) IN
  IF found = {} THEN -1 ELSE Min(found)
mk_string_char_search_r(text, from, c, len) ==
  LET found == Positions(text, from, IF len <= 0 THEN Len(text) - from ELSE len, c)
  IN IF found = {} THEN -1 ELSE Max(found)

-----------------------------------------------------------------------------
(* The first line.                                                         *)

(* mk_http_method_get(), mk_http_method_check(): the first letters of a    *)
(* method are taken for all of it if there are three of them.              *)
MethodLens == [GET |-> 3, POST |-> 4, HEAD |-> 4, PUT |-> 3, DELETE |-> 6]
Methods == DOMAIN MethodLens
mk_http_method_get(name, letters) ==
  IF letters <= 2 \/ letters >= 7 \/ name \notin Methods THEN "UNKNOWN"
  ELSE IF letters <= MethodLens[name] THEN name ELSE "UNKNOWN"

(* mk_http_protocol_check(), of the first len characters of "HTTP/" and a  *)
(* version, or of all of them and more.                                    *)
mk_http_protocol_check(version, len) ==
  IF len <= 5 \/ (len <= 7 /\ version \in {"1.1", "1.0"}) THEN "1.1"
  ELSE IF len <= 8 /\ version \in {"1.1", "1.0", "0.9"} THEN version
  ELSE "UNKNOWN"

(* mk_pointer_create(): a pointer to nothing has length 1.                 *)
mk_pointer_create(text, init, end) ==
  Sub(text, init, IF init # end THEN end ELSE init + 1)

(* The URI and the query of mk_request_header_process(), and the length of *)
(* the version.  The '?' is looked for in prot_init characters from the    *)
(* URI on, which may end behind the line.                                  *)
BadLine == [ok |-> FALSE, uri |-> <<>>, query |-> <<>>, prot_len |-> 0]
Query(body, uri_init, uri_end) ==
  LET q == mk_string_char_search(body, uri_init, "?", uri_end + 2)
      init == q + uri_init IN
  IF q > 0 /\ init <= uri_end
  THEN [uri_end |-> init - 1,
        query |-> mk_pointer_create(body, init + 1, uri_end + 1)]
  ELSE [uri_end |-> uri_end, query |-> <<>>]
RequestLine_Greedy(body) ==
  LET fh_limit == mk_string_char_search(body, 0, "LF", Len(body))
      uri_init == mk_string_char_search(body, 0, " ", Len(body)) + 1
      uri_end == mk_string_char_search(body, uri_init, " ", fh_limit) + uri_init - 1
      q == Query(body, uri_init, uri_end)
      prot_len == fh_limit - 1 - (uri_end + 2) IN
  IF uri_end <= 0 \/ uri_end < uri_init \/ prot_len = 0 THEN BadLine
  ELSE [ok |-> TRUE, uri |-> mk_pointer_create(body, uri_init, q.uri_end + 1),
        query |-> q.query, prot_len |-> prot_len]
RequestLine(body) ==
  LET fh_limit == mk_string_char_search(body, 0, "LF", Len(body))
      uri_init == mk_string_char_search(body, 0, " ", Len(body)) + 1
      uri_end == mk_string_char_search_r(body, 0, " ", fh_limit) - 1
      q == Query(body, uri_init, uri_end)
      prot_len == fh_limit - 1 - (uri_end + 2) IN
  IF uri_end <= 0 \/ uri_end < uri_init \/ prot_len = 0 THEN BadLine
  ELSE [ok |-> TRUE, uri |-> mk_pointer_create(body, uri_init, q.uri_end + 1),
        query |-> q.query, prot_len |-> prot_len]

(* Lines, and behind them a header with blanks and question marks.         *)
Lines == [line : Texts({" ", "?", "c"}, MaxLine),
          rest : {<<"c", " ", "?">>, <<"?", "c", " ">>}]
BodyOf(in) == in.line \o <<"CR", "LF">> \o in.rest

(* What stands between the first and the last blank of the line is the     *)
(* URI and the query, parted by the first '?' unless that is at the very   *)
(* front, and what follows is the version; nothing is taken from behind    *)
(* the line.  A '?' with nothing behind it makes a query of one character, *)
(* the blank.                                                              *)
LineTaken(in) ==
  LET r == RequestLine(BodyOf(in))
      blanks == {i \in DOMAIN in.line : in.line[i] = " "}
      between == SubSeq(in.line, Min(blanks) + 1, Max(blanks) - 1)
      marks == IF Head(between) = "?" THEN {}
               ELSE {i \in DOMAIN between : between[i] = "?"} IN
  /\ r.ok => blanks # {} /\ between # <<>>
  /\ r.ok => r.prot_len = Len(in.line) - Max(blanks)
  /\ r.ok /\ marks = {} => r.uri = between /\ r.query = <<>>
  /\ r.ok /\ marks # {} =>
       /\ r.uri = SubSeq(between, 1, Min(marks) - 1)
       /\ r.query = LET q == SubSeq(between, Min(marks) + 1, Len(between)) IN
                    IF q = <<>> THEN <<" ">> ELSE q
  /\ Cardinality(blanks) >= 2 =>
       (r.ok <=> Max(blanks) > Min(blanks) + 1 /\ Max(blanks) < Len(in.line))

-----------------------------------------------------------------------------
(* The headers.  A header is its name and a value; the name "xlength:"     *)
(* ends with the name "length:".                                           *)

(* struct headers_toc, mk_request_header_toc_parse()                       *)
mk_request_header_toc_parse(rows) ==
  LET n == IF Len(rows) < TocLen THEN Len(rows) ELSE TocLen IN
  [i \in 1 .. n |-> [name |-> rows[i].name, value |-> rows[i].value, status |-> 0]]

(* mk_request_header_get(): the row is marked, and not found again.        *)
NoRow == 0
mk_request_header_get(toc, name) ==
  LET rows == {i \in DOMAIN toc : toc[i].status = 0 /\ toc[i].name = name}
      i == Min(rows) IN
  IF rows = {} THEN [value |-> NoRow, toc |-> toc]
  ELSE [value |-> toc[i].value, toc |-> [toc EXCEPT ![i].status = 1]]

(* mk_method_validate_content_length(): among the first rows of the whole  *)
(* request; then, as before it has been read to the end, anywhere.         *)
FirstLine == [name |-> "line", value |-> NoRow]
mk_method_validate_content_length(hs, rows) ==
  LET all == <<FirstLine>> \o hs
      toc == mk_request_header_toc_parse(
               SubSeq(all, 1, IF rows < Len(all) THEN rows ELSE Len(all)))
      got == mk_request_header_get(toc, "length:")
      named == {i \in DOMAIN hs : hs[i].name \in {"length:", "xlength:"}} IN
  IF got.value # NoRow THEN got.value
  ELSE IF named = {} THEN -1 ELSE hs[Min(named)].value

HeaderLists ==
  UNION {{[i \in 1 .. n |-> [name |-> names[i], value |-> i]] :
            names \in [1 .. n -> HeaderNames]} : n \in 0 .. MaxHeaders}

(* The headers of a name are found one after the other, each of them once, *)
(* as far as the table reaches.  The length of the body is that of the     *)
(* first Content-Length header, the same when the request is awaited (only *)
(* the first line is in the table then) and when it is processed, unless   *)
(* its name is part of the one of an earlier header.                       *)
Named(hs, name) == SelectSeq(hs, LAMBDA h : h.name = name)
HeadersFound(hs) ==
  LET toc == mk_request_header_toc_parse(hs)
      awaited == mk_method_validate_content_length(hs, 1)
      processed == mk_method_validate_content_length(hs, Len(hs) + 1) IN
  /\ \A name \in HeaderNames :
       LET g1 == mk_request_header_get(toc, name)
           g2 == mk_request_header_get(g1.toc, name)
           ws == Named(SubSeq(hs, 1, Len(toc)), name) IN
       /\ g1.value = IF Len(ws) >= 1 THEN ws[1].value ELSE NoRow
       /\ g2.value = IF Len(ws) >= 2 THEN ws[2].value ELSE NoRow
  /\ Named(hs, "xlength:") = <<>> =>
       /\ awaited = processed
       /\ processed = IF Named(hs, "length:") = <<>> THEN -1
                      ELSE Named(hs, "length:")[1].value
  /\ awaited # processed =>
       Named(hs, "xlength:")[1].value < Named(hs, "length:")[1].value

(* The port of a Host header, digits and other characters (10): at most    *)
(* five digits, and not 0.                                                 *)
PortOf(port) ==
  LET n == FoldLeft(LAMBDA v, d : 10 * v + d, 0, port) IN
  IF Len(port) >= 6 \/ 10 \in ToSet(port) \/ n = 0 THEN -1 ELSE n

Names == [method : Methods \cup {"TRACE"}, letters : 0 .. 7,
          version : {"1.1", "1.0", "0.9", "2.0"}, len : 0 .. 9, port : {<<>>}]
         \cup [method : {"GET"}, letters : {3}, version : {"1.0"}, len : {8},
               port : UNION {[1 .. n -> {0, 1, 9, 10}] : n \in 1 .. 6}]

(* A method and a version that are written out are recognised, and nothing *)
(* but their first letters is taken for them: a method's own, and for      *)
(* version 1.1 those of the others too.  The port is the number that was   *)
(* written, of five digits at most.                                        *)
NamesTaken(in) ==
  LET m == mk_http_method_get(in.method, in.letters)
      v == mk_http_protocol_check(in.version, in.len)
      p == PortOf(in.port) IN
  /\ m \in {in.method, "UNKNOWN"}
  /\ in.method \in Methods /\ in.letters = MethodLens[in.method] => m = in.method
  /\ m # "UNKNOWN" => in.letters \in 3 .. MethodLens[in.method]
  /\ in.len = 8 => v = IF in.version = "2.0" THEN "UNKNOWN" ELSE in.version
  /\ v # in.version /\ v # "UNKNOWN" => v = "1.1" /\ in.len < 8
  /\ p # -1 => p \in 1 .. 99999 /\ Len(in.port) <= 5
  /\ p = -1 => Len(in.port) > 5 \/ ToSet(in.port) \subseteq {0} \/ 10 \in ToSet(in.port)

-----------------------------------------------------------------------------
(* mk_utils_url_decode().  The characters are '%', two that are digits, and *)
(* one that is not.                                                        *)

HexDigits == {"0", "4"}
mk_utils_hex2int(a, b) ==
  IF {a, b} \subseteq HexDigits
  THEN IF a = "4" /\ b = "0" THEN "@" ELSE IF a = "0" /\ b = "0" THEN "NUL"
       ELSE "other"
  ELSE "error"

RECURSIVE DecodeFrom(_, _)
DecodeFrom(uri, i) ==
  IF i >= Len(uri) THEN <<>>
  ELSE IF At(uri, i) = "%" /\ i + 2 < Len(uri)
  THEN <<mk_utils_hex2int(At(uri, i + 1), At(uri, i + 2))>> \o DecodeFrom(uri, i + 3)
  ELSE <<At(uri, i)>> \o DecodeFrom(uri, i + 1)

(* NULL where there is nothing to decode or something wrong.               *)
mk_utils_url_decode(uri) ==
  LET buf == DecodeFrom(uri, 0) IN
  IF "%" \notin ToSet(uri) \/ "error" \in ToSet(buf)
  THEN [null |-> TRUE, buf |-> <<>>] ELSE [null |-> FALSE, buf |-> buf]

(* uri_processed, which ends at the first NUL.                             *)
UriProcessed(uri) ==
  LET d == mk_utils_url_decode(uri)
      nul == mk_string_char_search(d.buf, 0, "NUL", Len(d.buf)) IN
  IF d.null THEN uri ELSE IF nul >= 0 THEN Sub(d.buf, 0, nul) ELSE d.buf

Uris == Texts({"%", "0", "4", "x"}, MaxUri)
Encoded(plain) ==
  FlattenSeq([i \in DOMAIN plain |->
    IF plain[i] = "@" THEN <<"%", "4", "0">> ELSE <<plain[i]>>])

(* What a client has encoded is decoded to what it was, and what needs no  *)
(* decoding stays as it is.  The result and the NUL behind it fit into the *)
(* uri.len bytes that are allocated if anything was decoded; if there is a *)
(* '%' with nothing to decode, the NUL is the one byte that does not.      *)
UriDecoded(uri) ==
  LET d == mk_utils_url_decode(uri)
      plain == [i \in DOMAIN uri |-> IF uri[i] = "%" THEN "@" ELSE uri[i]] IN
  /\ UriProcessed(Encoded(plain)) = plain
  /\ "%" \notin ToSet(uri) => UriProcessed(uri) = uri
  /\ ~ d.null => Len(d.buf) + 1 <= Len(uri) \/ d.buf = uri

-----------------------------------------------------------------------------
(* mk_utils_utime2gmt().  The cache of a thread: the texts of dates and    *)
(* how often they were asked for.  text: what the last call wrote.         *)

Gmt(date) == <<"GMT", date>>
GmtInit == [cache |-> [i \in 1 .. GmtCaches |->
                         [time |-> 0, text |-> <<>>, hits |-> 0]],
            date |-> 0, text |-> <<>>]

mk_utils_gmt_cache_add(g, date) ==
  LET hits(i) == g.cache[i].hits
      least == {i \in 1 .. GmtCaches : \A j \in 1 .. GmtCaches : hits(i) <= hits(j)} IN
  [cache |-> [g.cache EXCEPT ![Min(least)] =
                [time |-> date, text |-> Gmt(date), hits |-> 1]],
   date |-> date, text |-> Gmt(date)]
mk_utils_gmt_cache_get(g, date) ==
  {i \in 1 .. GmtCaches : g.cache[i].time = date}

(* Of date 0 it is the time now.                                           *)
mk_utils_utime2gmt(g, date, now) ==
  LET cached == mk_utils_gmt_cache_get(g, date)
      i == Min(cached) IN
  IF date # 0 /\ cached # {}
  THEN [g EXCEPT !.cache[i].hits = @ + 1, !.date = date, !.text = g.cache[i].text]
  ELSE mk_utils_gmt_cache_add(g, IF date = 0 THEN now ELSE date)

GmtSteps(g) ==
  {h \in {mk_utils_utime2gmt(g, d, now) : d \in Dates \cup {0}, now \in Dates} :
     \A i \in 1 .. GmtCaches : h.cache[i].hits <= MaxHits}

(* The text is that of the date that was asked for, and every date whose   *)
(* text was taken from the cache or put there is in it.                    *)
DateTrue(g) ==
  g.date # 0 =>
    /\ g.text = Gmt(g.date)
    /\ \E i \in 1 .. GmtCaches : g.cache[i].time = g.date /\ g.cache[i].hits > 0

-----------------------------------------------------------------------------
(* mk_string_split_line(): the words of a line.                            *)
RECURSIVE SplitFrom(_, _)
SplitFrom(line, i) ==
  LET end == mk_string_char_search(line, i, " ", Len(line) - i) IN
  IF i >= Len(line) THEN <<>>
  ELSE IF end = 0 THEN SplitFrom(line, i + 1)
  ELSE IF end > 0 THEN <<Sub(line, i, i + end)>> \o SplitFrom(line, i + end + 1)
  ELSE <<Sub(line, i, Len(line))>>
mk_string_split_line(line) == SplitFrom(line, 0)

(* mk_string_itop(): digits from the last to the first, a sign, all turned *)
(* around, and CR and LF.  The sign is the digit -1.                       *)
RECURSIVE DigitsBack(_)
DigitsBack(n) == <<n % 10>> \o IF n < 10 THEN <<>> ELSE DigitsBack(n \div 10)
mk_string_itop(n) ==
  Reverse(IF n < 0 THEN Append(DigitsBack(0 - n), -1) ELSE DigitsBack(n))

(* A line is split into its words in their order, none of them empty, and  *)
(* a number is printed so that it reads as the same number.                *)
LineSplit(line) ==
  LET words == mk_string_split_line(line)
      starts == {i \in DOMAIN line : line[i] # " " /\ (i = 1 \/ line[i - 1] = " ")} IN
  /\ FlattenSeq(words) = SelectSeq(line, LAMBDA c : c # " ")
  /\ Len(words) = Cardinality(starts)
  /\ \A w \in ToSet(words) : w # <<>> /\ " " \notin ToSet(w)
NumberPrinted(n) ==
  LET digits == SelectSeq(mk_string_itop(n), LAMBDA d : d >= 0)
      value == FoldLeft(LAMBDA v, d : 10 * v + d, 0, digits) IN
  /\ n = IF -1 \in ToSet(mk_string_itop(n)) THEN 0 - value ELSE value
  /\ digits[1] = 0 => Len(digits) = 1

(* mk_string_trim(): the blanks on both sides.                             *)
mk_string_trim(str) ==
  LET full == {i \in DOMAIN str : str[i] # " "} IN
  IF full = {} THEN <<>> ELSE SubSeq(str, Min(full), Max(full))

(* _mk_string_search(): the first place of search, among the first len     *)
(* ones if len > 0.                                                        *)
Upper(c) == IF c = "a" THEN "A" ELSE c
Matches(string, search, sensitive, at) ==
  \A j \in DOMAIN search :
    /\ at + j <= Len(string)
    /\ \/ string[at + j] = search[j]
       \/ ~sensitive /\ Upper(string[at + j]) = Upper(search[j])
_mk_string_search(string, search, sensitive, len) ==
  LET last == IF len <= 0 THEN Len(string) ELSE Min({len - 1, Len(string)})
      found == {i \in 0 .. last : Matches(string, search, sensitive, i)}
  IN IF found = {} THEN -1 ELSE Min(found)

(* Without its blanks a line begins and ends with a word, and has the same *)
(* words; a shorter search finds no other place than a longer one.         *)
LineTrimmed(line) ==
  LET t == mk_string_trim(line) IN
  /\ t # <<>> => t[1] # " " /\ Last(t) # " "
  /\ mk_string_split_line(t) = mk_string_split_line(line)
  /\ mk_string_trim(t) = t
SearchFound(v) ==
  LET all == _mk_string_search(v.string, v.search, v.sensitive, -1) IN
  \A len \in 1 .. Len(v.string) + 2 :
    LET some == _mk_string_search(v.string, v.search, v.sensitive, len) IN
    /\ some = IF all < len THEN all ELSE -1
    /\ some >= 0 /\ v.sensitive =>
         Sub(v.string, some, some + Len(v.search)) = v.search
SearchInputs ==
  [string : Texts({"a", "A", "b"}, 4), search : Texts({"a", "A", "b"}, 2) \ {<<>>},
   sensitive : BOOLEAN]

-----------------------------------------------------------------------------
(* plugins/auth/base64.c.  A character is its place in base64_table; '='   *)
(* is Eq, and every other one, the line feed included, is Other.           *)
Eq == 64
Other == 65
Six(in, k) ==   \* the k-th 6 bits of three bytes
  CASE k = 1 -> in[1] \div 4
    [] k = 2 -> (in[1] % 4) * 16 + (in[2] \div 16)
    [] k = 3 -> (in[2] % 16) * 4 + (in[3] \div 64)
    [] k = 4 -> in[3] % 64
RECURSIVE EncodeFrom(_, _)
EncodeFrom(src, line_len) ==
  LET feed == IF line_len > 0 THEN <<Other>> ELSE <<>>
      in == SubSeq(src \o <<0, 0>>, 1, 3)
      full == [k \in 1 .. 4 |-> Six(in, k)]
  IN CASE src = <<>> -> feed
       [] Len(src) = 1 -> <<full[1], full[2], Eq, Eq, Other>>
       [] Len(src) = 2 -> <<full[1], full[2], full[3], Eq, Other>>
       [] OTHER ->
            full \o (IF line_len + 4 >= 72
                     THEN <<Other>> \o EncodeFrom(SubSeq(src, 4, Len(src)), 0)
                     ELSE EncodeFrom(SubSeq(src, 4, Len(src)), line_len + 4))
base64_encode(src) == EncodeFrom(src, 0)

(* Whole blocks of four, up to the first with a '=' in it, and as many     *)
(* bytes less as there are of them.  NULL: nothing to decode, or not in    *)
(* blocks, or too many '='.                                                *)
NotBase64 == <<-1>>
Three(block) ==
  LET b == [j \in 1 .. 4 |-> block[j] % 64] IN
  <<b[1] * 4 + (b[2] \div 16), (b[2] % 16) * 16 + (b[3] \div 4), (b[3] % 4) * 64 + b[4]>>
RECURSIVE DecodeBlocks(_)
DecodeBlocks(text) ==
  LET block == SubSeq(text, 1, 4)
      pad == Cardinality({j \in 1 .. 4 : block[j] = Eq})
      rest == DecodeBlocks(SubSeq(text, 5, Len(text)))
  IN IF text = <<>> THEN <<>>
     ELSE IF pad > 2 THEN NotBase64
     ELSE IF pad > 0 THEN SubSeq(Three(block), 1, 3 - pad)
     ELSE IF rest = NotBase64 THEN NotBase64
     ELSE Three(block) \o rest
base64_decode(src) ==
  LET known == SelectSeq(src, LAMBDA c : c # Other) IN
  IF known = <<>> \/ Len(known) % 4 # 0 THEN NotBase64 ELSE DecodeBlocks(known)

(* Bytes are decoded to what was encoded, over the end of a line too, and  *)
(* a decoded text never needs more than was allocated for it.              *)
BytesBack(bytes) ==
  bytes # <<>> => base64_decode(base64_encode(bytes)) = bytes
TextDecoded(text) ==
  LET d == base64_decode(text) IN
  d # NotBase64 => /\ Len(d) <= 3 * (Len(text) \div 4)
                   /\ ToSet(d) \subseteq 0 .. 255
=============================================================================
