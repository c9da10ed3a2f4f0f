------------------------------ MODULE Settings ------------------------------
(***************************************************************************)
(* What the server knows before it serves: the configuration files and     *)
(* what is looked up in them (mk_config.c), the settings of monkey.conf,   *)
(* the virtual hosts and the MIME types (mk_mimetype.c), and the calls of  *)
(* libmonkey that change them (mk_lib.c).                                  *)
(*                                                                         *)
(* A name is a string, a key of a configuration file a pair of its first   *)
(* letter and the rest, and Lower maps each of them to lower case.         *)
(***************************************************************************)
EXTENDS FastCGISetup

CONSTANTS
  ConfigLines,   \* lines of configuration files, see SectionLines, TextLines
  MaxLines,      \* bound: lines of a file
  Lower,         \* tolower(), of all names
  Monkeys,       \* values in monkey.conf, see Values
  HostNames,     \* names of hosts
  LongNames,     \* those of them that have MK_HOSTNAME_LEN letters or more
  SiteSets,      \* sequences of files in sites/, the default one first
  NewSites,      \* virtual hosts that libmonkey adds
  MimeCommon,    \* MIME_COMMON
  MimeFiles,     \* sequences of MIME names
  MimeNames,     \* names that are looked up or added
  MaxAdded       \* bound: MIME types that libmonkey adds

(* The position of the first element of s that P holds for, or 0.          *)
FirstOf(s, P(_)) ==
  LET found == {i \in DOMAIN s : P(s[i])} IN IF found = {} THEN 0 ELSE Min(found)

-----------------------------------------------------------------------------
(* mk_config_create().  A line is empty or a comment; a section, whose     *)
(* bracket may not be closed; or text: blanks, and then an entry, a        *)
(* comment or nothing.  Lines fit into the buffer.                         *)

NoVal == "no value"
SectionLines(names) ==
  [kind : {"section"}, name : names, closed : BOOLEAN]
TextLines(blanks, keys, vals) ==
  [kind : {"text"}, blanks : blanks, body : {"entry"}, key : keys,
   val : vals \cup {NoVal}]
  \cup [kind : {"text"}, blanks : blanks \ {0}, body : {"blank", "comment"}]

(* struct mk_config, mk_config_section and mk_config_entry, and what the   *)
(* loop keeps: the indentation, n_keys, and whether it goes on.            *)
NoIndent == [blanks |-> 0, letter |-> ""]
NewConfig == [state |-> "reading", indent |-> NoIndent, n_keys |-> 0,
              sections |-> <<>>]
mk_config_error(c) == [c EXCEPT !.state = "exit"]

mk_config_section_add(c, name) ==
  [c EXCEPT !.sections = Append(@, [name |-> name, entries |-> <<>>])]

(* An entry in front of all sections is put into one that does not exist.  *)
mk_config_entry_add(c, key, val) ==
  IF c.sections = <<>> THEN [c EXCEPT !.state = "undefined"]
  ELSE [c EXCEPT !.sections[Len(c.sections)].entries =
                     Append(@, [key |-> key, val |-> val])]

SectionLine_KeepsCount(c, l) ==
  IF ~ l.closed \/ (c.sections # <<>> /\ c.n_keys = 0) THEN mk_config_error(c)
  ELSE mk_config_section_add(c, l.name)
SectionLine(c, l) ==
  IF ~ l.closed \/ (c.sections # <<>> /\ c.n_keys = 0) THEN mk_config_error(c)
  ELSE [mk_config_section_add(c, l.name) EXCEPT !.n_keys = 0]

(* The indentation of all lines is that of the first one, whose first      *)
(* character counts as a part of it whatever it is.                        *)
Indent(l) ==
  [blanks |-> l.blanks, letter |-> IF l.blanks = 0 THEN l.key[1] ELSE ""]
Indented(l, indent) ==
  /\ l.blanks = indent.blanks
  /\ l.blanks = 0 => l.key[1] = indent.letter

TextLine(c, l) ==
  LET d == [c EXCEPT !.indent = IF @ = NoIndent THEN Indent(l) ELSE @] IN
  IF c.indent = NoIndent /\ l.body = "blank" THEN d
  ELSE IF ~ Indented(l, d.indent) THEN mk_config_error(d)
  ELSE IF l.body \in {"blank", "comment"} THEN d
  ELSE IF l.val = NoVal THEN mk_config_error(d)
  ELSE [mk_config_entry_add(d, IF l.blanks = 0 THEN Tail(l.key) ELSE l.key, l.val)
          EXCEPT !.n_keys = @ + 1]

ReadLine(c, l) ==
  IF c.state # "reading" \/ l.kind = "skip" THEN c
  ELSE IF l.kind = "section" THEN SectionLine(c, l)
  ELSE TextLine(c, l)

mk_config_create(file) ==
  LET c == FoldLeft(ReadLine, NewConfig, file) IN
  IF c.state # "reading" THEN c
  ELSE IF c.n_keys = 0 THEN mk_config_error(c)
  ELSE [c EXCEPT !.state = "ok"]

(* strcasecmp() of two keys                                                *)
SameKey(k1, k2) ==
  [i \in DOMAIN k1 |-> Lower[k1[i]]] = [i \in DOMAIN k2 |-> Lower[k2[i]]]

mk_config_section_get(c, name) ==
  FirstOf(c.sections, LAMBDA s : Lower[s.name] = Lower[name])
mk_config_section_getval(section, key) ==
  LET i == FirstOf(section.entries, LAMBDA e : SameKey(e.key, key)) IN
  IF i = 0 THEN NoVal ELSE section.entries[i].val

ConfigFiles == UNION {[1 .. n -> ConfigLines] : n \in 0 .. MaxLines}

(* What the file says, read by hand.                                       *)
IsSection(l) == l.kind = "section"
IsText(l) == l.kind = "text"
IsEntry(l) == IsText(l) /\ l.body = "entry"
InSection(f, i, j) ==
  i < j /\ IsEntry(f[j]) /\ ~ \E k \in i + 1 .. j : IsSection(f[k])
WellFormed(f) ==
  /\ \A i \in DOMAIN f : IsSection(f[i]) =>
       f[i].closed /\ \E j \in DOMAIN f : InSection(f, i, j)
  /\ \A i, j \in DOMAIN f : IsText(f[i]) /\ IsText(f[j]) =>
       f[i].blanks = f[j].blanks
  /\ \A j \in DOMAIN f : IsEntry(f[j]) =>
       f[j].val # NoVal /\ \E i \in DOMAIN f : IsSection(f[i]) /\ i < j
  /\ \E j \in DOMAIN f : IsEntry(f[j])
SaidBy(f, name, key) ==
  LET i == FirstOf(f, LAMBDA l : IsSection(l) /\ Lower[l.name] = Lower[name])
      js == {j \in DOMAIN f : InSection(f, i, j) /\ SameKey(f[j].key, key)}
  IN IF i = 0 \/ js = {} THEN NoVal ELSE f[Min(js)].val

(* A file whose lines are indented is read exactly when it is well formed, *)
(* and what is looked up in it is what it says.  An entry without a        *)
(* section is found nowhere else.  (Where the first entry is not indented, *)
(* its first letter is taken for the indentation.)                         *)
ReadAsWritten(f) ==
  LET c == mk_config_create(f)
      t == FirstOf(f, IsText) IN
  /\ t = 0 \/ f[t].blanks > 0 =>
       /\ c.state = "ok" <=> WellFormed(f)
       /\ c.state = "ok" =>
            \A l, m \in {l \in ConfigLines : IsSection(l) \/ IsEntry(l)} :
              IsSection(l) /\ IsEntry(m) =>
                LET s == mk_config_section_get(c, l.name) IN
                SaidBy(f, l.name, m.key) =
                  IF s = 0 THEN NoVal
                  ELSE mk_config_section_getval(c.sections[s], m.key)
  /\ c.state = "undefined" =>
       \E j \in DOMAIN f : IsEntry(f[j]) /\ ~ \E i \in 1 .. j : IsSection(f[i])

-----------------------------------------------------------------------------
(* monkey.conf: numbers, 0 where the key is missing, and switches.  The    *)
(* limit on descriptors and the number of processors come with them.       *)

Switches == {"on", "off", "missing", "wrong"}

(* mk_config_section_getval() of a switch: MK_TRUE, MK_FALSE or MK_ERROR;  *)
(* NULL is MK_FALSE.                                                       *)
SwitchOf(v) == IF v = "wrong" THEN -1 ELSE IF v = "on" THEN 1 ELSE 0

(* workers is a short int.  max_request_size is an int; here it is counted *)
(* in units of 1024, as many of which as are in 2^32 make none.            *)
Short(n) == ((n + 2 ^ 15) % 2 ^ 16) - 2 ^ 15
Kilobytes(n) == ((n + 2 ^ 21) % 2 ^ 22) - 2 ^ 21

(* mk_config_read_files(); a value that is not allowed ends the program.   *)
mk_config_read_files(v) ==
  LET workers == IF Short(v.Workers) < 1 THEN v.nproc ELSE Short(v.Workers)
      capacity == mk_server_worker_capacity(v.limit, workers) IN
  [ok |-> /\ v.Port > 1 /\ v.Port < 65535
          /\ v.Timeout >= 1
          /\ SwitchOf(v.KeepAlive) # -1 /\ SwitchOf(v.HideVersion) # -1
          /\ v.MaxKeepAliveRequest # 0 /\ v.KeepAliveTimeout # 0
          /\ v.MaxRequestSize > 0,
   serverport |-> v.Port, workers |-> workers, worker_capacity |-> capacity,
   max_load |-> capacity * workers, timeout |-> v.Timeout,
   keep_alive |-> SwitchOf(v.KeepAlive), hideversion |-> SwitchOf(v.HideVersion),
   max_keep_alive_request |-> v.MaxKeepAliveRequest,
   keep_alive_timeout |-> v.KeepAliveTimeout,
   max_request_size |-> Kilobytes(v.MaxRequestSize), limit |-> v.limit]

(* mk_config_set_init_values() and mklib_init()                            *)
mk_config_set_init_values(limit) ==
  [ok |-> TRUE, serverport |-> 2001, workers |-> 1,
   worker_capacity |-> mk_server_worker_capacity(limit, 1),
   max_load |-> mk_server_worker_capacity(limit, 1), timeout |-> 15,
   keep_alive |-> 1, hideversion |-> 0, max_keep_alive_request |-> 50,
   keep_alive_timeout |-> 15, max_request_size |-> 32, limit |-> limit]

(* mklib_config() with one item; what it is given is not checked.          *)
mklib_config(c) ==
  {[c EXCEPT !.workers = w,
             !.worker_capacity = mk_server_worker_capacity(c.limit, w),
             !.max_load = mk_server_worker_capacity(c.limit, w) * w] :
     w \in WorkerCounts}
  \cup {[c EXCEPT !.timeout = t] : t \in {-1, 0, 1}}
  \cup {[c EXCEPT !.keep_alive = k] : k \in {0, 1}}
  \cup {[c EXCEPT !.hideversion = k] : k \in {0, 1}}

(* The settings that the server starts with can be worked with: a port, at *)
(* least one worker, switches that are on or off, and load for all of the  *)
(* workers, which the descriptors suffice for when there are enough of     *)
(* them to begin with; and the file's values are refused only for a        *)
(* reason.  The exception is a MaxRequestSize of 2 GB or more, of which    *)
(* only the low bits are left.                                             *)
Usable(c) ==
  /\ c.workers >= 1
  /\ c.keep_alive \in {0, 1} /\ c.hideversion \in {0, 1}
  /\ c.max_load = c.worker_capacity * c.workers
  /\ c.limit >= 7 + c.workers => 2 * c.max_load < c.limit
SettingsUsable(v) ==
  LET c == mk_config_read_files(v) IN
  /\ c.ok =>
       /\ Usable(c)
       /\ c.serverport \in 2 .. 65534 /\ c.timeout > 0
       /\ c.max_keep_alive_request # 0
       /\ c.max_request_size > 0 \/ v.MaxRequestSize >= 2 ^ 21
  /\ ~ c.ok =>
       \/ v.Port \notin 2 .. 65534
       \/ v.KeepAlive = "wrong" \/ v.HideVersion = "wrong"
       \/ v.Timeout < 1 \/ v.MaxRequestSize < 1
       \/ 0 \in {v.MaxKeepAliveRequest, v.KeepAliveTimeout}

-----------------------------------------------------------------------------
(* Virtual hosts.  A file in sites/ has a section HOST or not, in it a     *)
(* list of names or none, and error pages that exist or not.               *)

NoNames == <<"no Servername">>

(* mk_config_get_host(): "exit", NULL, or struct host.                     *)
NoHost(out) == [out |-> out, host |-> [file |-> 0, names |-> <<>>, pages |-> <<>>]]
AliasesOf(names) ==
  LET short == SelectSeq(names, LAMBDA n : n \notin LongNames) IN
  [i \in DOMAIN short |-> Lower[short[i]]]
ErrorPages(pages) ==
  SelectSeq(pages, LAMBDA p : p.status >= 400 /\ p.status <= 505)
mk_config_get_host(site) ==
  LET names == AliasesOf(site.names) IN
  IF ~ site.section THEN NoHost("null")
  ELSE IF site.names = NoNames THEN NoHost("exit")
  ELSE IF names = <<>> THEN NoHost("null")
  ELSE [out |-> "host", host |-> [file |-> site.file, names |-> names,
                                  pages |-> ErrorPages(site.pages)]]

(* mk_config_read_hosts(): the default host, and then the others.  Without *)
(* a default host the list gets a link of none.                            *)
AddHost(h, site) ==
  LET got == mk_config_get_host(site) IN
  IF h.state # "ok" THEN h
  ELSE IF got.out = "exit" THEN [h EXCEPT !.state = "exit"]
  ELSE IF got.out = "host" THEN [h EXCEPT !.hosts = Append(@, got.host)]
  ELSE IF h.hosts = <<>> THEN [h EXCEPT !.state = "undefined"]
  ELSE h
mk_config_read_hosts(sites) ==
  FoldLeft(AddHost, [state |-> "ok", hosts |-> <<>>, sites |-> sites], sites)

mk_config_host_find(hosts, name) ==
  FirstOf(hosts, LAMBDA h : name \in ToSet(h.names))

(* mk_request_process(): the host of a request.                            *)
HostOf(hosts, name) ==
  LET i == mk_config_host_find(hosts, name) IN IF i = 0 THEN hosts[1] ELSE hosts[i]

(* mk_request_error(): the page that the host has for the error, 0 if none *)
(* can be sent.                                                            *)
NoPageFor == {400, 411, 413}
ErrorPage(host, status) ==
  LET i == FirstOf(host.pages, LAMBDA p : p.status = status) IN
  IF status \in NoPageFor \/ i = 0 THEN 0
  ELSE IF host.pages[i].there THEN host.pages[i].page ELSE 0

(* mklib_vhost_config(): one host for each file name.                      *)
mklib_vhost_config(h, site) ==
  IF \E i \in DOMAIN h.hosts : h.hosts[i].file = site.file THEN h
  ELSE [h EXCEPT !.hosts = Append(@, [file |-> site.file, pages |-> <<>>,
                                      names |-> AliasesOf(site.names)]),
                 !.sites = Append(@, site)]
HostSteps(h) ==
  {mklib_vhost_config(h, site) :
     site \in IF h.state = "ok" THEN NewSites ELSE {}}

(* A request gets the host of the first file, the default one before all   *)
(* others, that lists the name it was sent to, written in lower case, and  *)
(* the default one if there is none; and the host has the error pages of   *)
(* its file.  No two hosts have the same file.                             *)
HostsFound(h) ==
  h.state = "ok" =>
    /\ h.hosts[1].file = h.sites[1].file
    /\ \A i, j \in DOMAIN h.hosts : h.hosts[i].file = h.hosts[j].file => i = j
    /\ \A n \in HostNames :
         LET i == FirstOf(h.sites, LAMBDA s :
                    /\ s.section /\ n \notin LongNames
                    /\ \E k \in DOMAIN s.names : Lower[s.names[k]] = n)
             s == h.sites[IF i = 0 THEN 1 ELSE i]
         IN /\ HostOf(h.hosts, n).file = s.file
            /\ \A p \in ToSet(s.pages) :
                 (* the first page for its status *)
                 FirstOf(s.pages, LAMBDA q : q.status = p.status) =
                 FirstOf(s.pages, LAMBDA q : q = p) =>
                   (ErrorPage(HostOf(h.hosts, n), p.status) = p.page <=>
                      p.there /\ p.status \in (400 .. 505) \ NoPageFor)

-----------------------------------------------------------------------------
(* MIME types.  The name of a type is [id, caps]: two names with the same  *)
(* id differ in case only.  type is the position in the file.              *)

(* mime_cmp(): capital letters are less than small ones.                   *)
MimeCode(n) == n.id + IF n.caps THEN 0 ELSE 100
MimeLess(m1, m2) == MimeCode(m1.name) < MimeCode(m2.name)

(* mk_mimetype_add(), mk_mimearr_sort(), mk_mimetype_read_config()         *)
mk_mimetype_add(m, name, type, common) ==
  LET new == [name |-> name, type |-> type] IN
  IF common THEN [m EXCEPT !.mimecommon = Append(@, new)]
  ELSE [m EXCEPT !.mimearr = Append(@, new)]
mk_mimearr_sort(m) == [m EXCEPT !.mimearr = SortSeq(@, MimeLess)]
mk_mimetype_read_config(names) ==
  mk_mimearr_sort(
    FoldLeft(LAMBDA m, i : mk_mimetype_add(m, names[i], i, i <= MimeCommon),
             [mimecommon |-> <<>>, mimearr |-> <<>>, added |-> 0, listed |-> 0,
              freed |-> 0],
             [i \in DOMAIN names |-> i]))

(* bsearch()                                                               *)
RECURSIVE bsearch(_, _, _, _)
bsearch(arr, name, lo, hi) ==
  LET mid == (lo + hi) \div 2
      at == MimeCode(arr[mid].name) IN
  IF lo >= hi THEN 0
  ELSE IF MimeCode(name) = at THEN mid
  ELSE IF MimeCode(name) < at THEN bsearch(arr, name, lo, mid)
  ELSE bsearch(arr, name, mid + 1, hi)

NotFound == [name |-> [id |-> 0, caps |-> FALSE], type |-> 0]
mk_mimetype_lookup(m, name) ==
  LET i == FirstOf(m.mimecommon, LAMBDA t : t.name.id = name.id)
      j == bsearch(m.mimearr, name, 1, Len(m.mimearr) + 1) IN
  IF i # 0 THEN m.mimecommon[i] ELSE IF j # 0 THEN m.mimearr[j] ELSE NotFound

(* mklib_mimetype_add()                                                    *)
mklib_mimetype_add(m, name) ==
  IF mk_mimetype_lookup(m, name) # NotFound THEN m
  ELSE mk_mimearr_sort([mk_mimetype_add(m, name, 100 + m.added, FALSE)
                          EXCEPT !.added = @ + 1])

(* mklib_mimetype_list(): the list that was given out the last time is     *)
(* freed, as many entries of it as there are types now.                    *)
mklib_mimetype_list(m) ==
  LET total == Len(m.mimearr) + MimeCommon IN
  [m EXCEPT !.freed = IF m.listed = 0 THEN 0 ELSE total - m.listed,
            !.listed = total]

MimeSteps(m) ==
  {mklib_mimetype_add(m, n) : n \in IF m.added < MaxAdded THEN MimeNames ELSE {}}
  \cup {mklib_mimetype_list(m)}

(* The type of an extension is found, and it is that extension's: by its   *)
(* exact name, or, among the common ones, which come first, in any case.   *)
(* The list of all types is freed as it was made, but for types that have  *)
(* been added since.                                                       *)
TypesFound(m) ==
  /\ \A n \in MimeNames :
       LET t == mk_mimetype_lookup(m, n)
           all == ToSet(m.mimecommon) \cup ToSet(m.mimearr) IN
       /\ t # NotFound =>
            \/ t.name = n /\ t \in all
            \/ t.name.id = n.id /\ t \in ToSet(m.mimecommon)
       /\ t = NotFound =>
            /\ ~ \E u \in all : u.name = n
            /\ ~ \E u \in ToSet(m.mimecommon) : u.name.id = n.id
  /\ \A i, j \in DOMAIN m.mimearr : i < j => ~ MimeLess(m.mimearr[j], m.mimearr[i])
  /\ m.freed <= 1 \/ m.added > 1
=============================================================================
