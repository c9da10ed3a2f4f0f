--------------------------- MODULE MCAlgorithms ---------------------------
EXTENDS Algorithms

(* Packages of all lengths around those of a header and of a chunk.        *)
MCStreams == UNION {[1 .. n -> {2, 3, 4, 5, 6, 7}] : n \in 1 .. 2} \cup
             [1 .. 3 -> {2, 4, 7}]
MCVectors == UNION {[1 .. n -> 0 .. 3] : n \in 1 .. 3}
MCParamLists ==
  LET p(k, v) == [key |-> k, value |-> v] IN
  {<<>>} \cup {<<p(k, v)>> : k \in {5, 127, 128}, v \in {0, 1, 127, 128, 300}}
  \cup {<<p(k1, v1), p(k2, v2)>> : k1 \in {5, 127}, v1 \in {127, 128},
                                   k2 \in {5, 128}, v2 \in {0, 128}}
  \cup {<<p(100, v), p(20, w)>> : v \in {3900}, w \in 0 .. 60}
MCServerSets ==
  LET s(n, m) == [name |-> n, max_connections |-> m] IN
  {<<s("a", m)>> : m \in 0 .. 4}
  \cup {<<s("a", m), s("b", n)>> : m \in 0 .. 3, n \in 0 .. 3}
  \cup {<<s("a", 1), s("b", 2), s(c, 3)>> : c \in {"a", "c"}}
MCLocationSets ==
  {<<<<"a">>>>, <<<<"a", " ", "b">>>>, <<<<"a", ",", "b">>>>,
   <<<<"a", ",", " ", "b">>>>, <<<<"b">>, <<"a">>>>,
   <<<<"c", " ", "a">>, <<"b">>>>, <<<<"d">>>>, <<<<"a">>, <<"a">>>>}

MCLower ==
  LET caps == [P |-> "p", Host |-> "host", A |-> "a"]
      all == {"P", "p", "q", "ort", "id", "Host", "host", "server", "A", "a", "b", "long"}
  IN [n \in all |-> IF n \in DOMAIN caps THEN caps[n] ELSE n]
MCConfigLines ==
  SectionLines({"server"})
  \cup [kind : {"section"}, name : {"Host", "host"}, closed : {TRUE}]
  \cup {[kind |-> "skip"]}
  \cup {[kind |-> "text", blanks |-> b, body |-> "entry", key |-> k, val |-> v] :
          b \in {0, 1}, k \in {<<"P", "ort">>}, v \in {"1"}}
  \cup {[kind |-> "text", blanks |-> b, body |-> "entry", key |-> <<"p", "ort">>,
         val |-> v] : b \in {1, 2}, v \in {"2", NoVal}}
  \cup {[kind |-> "text", blanks |-> 0, body |-> "entry", key |-> <<"p", "id">>,
         val |-> "3"]}
  \cup [kind : {"text"}, blanks : {1, 2}, body : {"blank", "comment"}]
MCMonkeys ==
  [Port : {0, 1, 2, 80, 65534, 65535}, Workers : {-1, 0, 1, 4, 32768, 65536},
   Timeout : {-1, 0, 15}, KeepAlive : Switches, HideVersion : {"on", "missing", "wrong"},
   MaxKeepAliveRequest : {-1, 0, 50}, KeepAliveTimeout : {0, 5},
   MaxRequestSize : {-1, 0, 1, 32, 2097152, 4194304}, nproc : {2}, limit : {8, 1024}]
MCSites ==
  [file : {1}, section : {TRUE},
   names : {<<"a">>, <<"A", "b">>, <<"long">>, NoNames},
   pages : {<<>>, <<[status |-> 404, there |-> TRUE, page |-> 1]>>}]
MCOthers(k) ==
  [file : {k}, section : BOOLEAN, names : {<<"a">>, <<"b">>, <<"A", "b">>, <<"long">>},
   pages : {<<>>,
     <<[status |-> 399, there |-> TRUE, page |-> 2],
       [status |-> 404, there |-> FALSE, page |-> 3],
       [status |-> 404, there |-> TRUE, page |-> 4],
       [status |-> 413, there |-> TRUE, page |-> 5],
       [status |-> 505, there |-> TRUE, page |-> 6]>>}]
MCSiteSets ==
  {<<s>> : s \in MCSites} \cup {<<s, t>> : s \in MCSites, t \in MCOthers(2)}
  \cup {<<s, t, u>> : s \in MCSites, t \in MCOthers(2), u \in MCOthers(3)}
MCNewSites ==
  {[file |-> f, section |-> TRUE, names |-> n, pages |-> <<>>] :
     f \in {2, 9}, n \in {<<"b">>, <<>>, <<"A">>}}
MCMimeNames == [id : 1 .. 4, caps : BOOLEAN]
MCMimeFiles ==
  UNION {[1 .. n -> [id : 1 .. 3, caps : BOOLEAN]] : n \in 3 .. 4}
MCNumbers == (-12 .. 120) \cup {-305, 999, 1000, 65535, 2147483647}
MCBlobs ==
  UNION {[1 .. n -> {0, 1, 77, 255}] : n \in 0 .. 4}
  \cup {[k \in 1 .. n |-> (41 * k + n) % 256] : n \in 5 .. 60 \cup 105 .. 111}
MCThemeFiles ==
  LET text(n) == [kind |-> "text", tag |-> "", len |-> n]
      unknown == [kind |-> "unknown", tag |-> "", len |-> 6]
      tag(t) == [kind |-> "tag", tag |-> t, len |-> TagLen[t]]
  IN {<<>>, <<text(5)>>, <<unknown>>, <<text(3), unknown, text(2), tag("html_title")>>,
      <<tag("html_title"), tag("theme_path")>>, <<text(4), tag("theme_path"), text(1)>>,
      <<tag("theme_path"), tag("html_title")>>,
      <<tag("target_title"), text(1), tag("target_url"), text(3), tag("target_name")>>,
      <<tag("target_url"), tag("target_title"), text(9)>>,
      <<tag("target_url"), text(2), tag("target_title")>>,
      <<text(7), tag("target_time"), tag("target_size"), text(2), tag("theme_path")>>}
MCDirectories ==
  LET d(n, t, h, s) == [name |-> n, type |-> t, hidden |-> h, stat |-> s] IN
  {<<>>, <<d(1, "DIR", TRUE, TRUE), d(3, "REG", FALSE, TRUE), d(2, "DIR", FALSE, TRUE)>>,
   <<d(3, "LNK", FALSE, FALSE), d(2, "other", FALSE, TRUE), d(1, "UNKNOWN", FALSE, TRUE)>>,
   <<d(4, "REG", FALSE, TRUE), d(2, "DIR", FALSE, TRUE), d(1, "REG", FALSE, TRUE),
     d(3, "REG", FALSE, TRUE)>>,
   <<d(5, "REG", FALSE, TRUE), d(4, "DIR", FALSE, TRUE)>>}
MCPluginFiles ==
  LET f(n, t, h, s, e) == [name |-> n, fate |-> t, hooks |-> h, says |-> s, event |-> e] IN
  {f("liana", "good", {NetworkIO}, "NOT_ME", "none"),
   f("auth", "good", {30}, "END", "none"), f("auth", "good", {30}, "NOT_ME", "none"),
   f("cgi", "good", {30, 50}, "CONTINUE", "OWNED"), f("fcgi", "good", {30}, "NOT_ME", "NEXT"),
   f("deny", "good", {10, 20, 30}, "CLOSE_CONX", "CLOSE"),
   f("bad", "good", {30}, "invalid", "none"),
   f("list", "refuses", {30}, "END", "OWNED"), f("old", "incomplete", {30}, "END", "NEXT"),
   f("lib", "foreign", {30}, "END", "none"), f("no", "unreadable", {30}, "END", "none")}
=============================================================================
