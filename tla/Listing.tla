------------------------------ MODULE Listing ------------------------------
(***************************************************************************)
(* The page of plugins/dirlisting: how a theme file is split into text and *)
(* tags, how a page is put together from it and from a directory, and how  *)
(* it is sent.  A theme is a sequence of pieces with their lengths, a page *)
(* a sequence of parts; positions count from 0.                            *)
(***************************************************************************)
EXTENDS Integers, Sequences, FiniteSets, FiniteSetsExt, SequencesExt

CONSTANTS
  ThemeFiles,   \* sequences of pieces, the empty one: there is no such file
  Directories,  \* sequences of directory entries, as readdir() returns them
  DirBuf        \* directory entries that fit the buffer of a DIR

_tags_global == <<"html_title", "theme_path">>
_tags_entry ==
  <<"target_title", "target_url", "target_name", "target_time", "target_size">>
TagLen ==
  [html_title |-> 14, theme_path |-> 14, target_title |-> 16, target_url |-> 14,
   target_name |-> 15, target_time |-> 15, target_size |-> 15]
Pieces ==   \* an unknown tag begins like a tag
  [kind : {"text", "tag", "unknown"}, tag : {""} \cup DOMAIN TagLen, len : Nat]
Dirents ==
  [name : Nat, type : {"REG", "DIR", "LNK", "UNKNOWN", "other"},
   hidden : BOOLEAN, stat : BOOLEAN]

Offset(theme, k) == FoldLeft(LAMBDA n, p : n + p.len, 0, SubSeq(theme, 1, k - 1))
ThemeLen(theme) == Offset(theme, Len(theme) + 1)

-----------------------------------------------------------------------------
(* mk_dirhtml_theme_match_tag(): the first tag of the list that begins     *)
(* anywhere in as many characters as it has itself; 0 is "none".           *)
mk_dirhtml_theme_match_tag(theme, at, tags) ==
  LET Near(t) ==
        \E k \in DOMAIN theme :
          /\ theme[k].kind = "tag" /\ theme[k].tag = tags[t]
          /\ Offset(theme, k) \in at .. at + TagLen[tags[t]] - 1
      found == {t \in DOMAIN tags : Near(t)}
  IN IF found = {} THEN 0 ELSE Min(found)

(* struct dirhtml_template: text from .. to - 1 of the file, or a tag      *)
Text(from, to) == [tag |-> "", from |-> from, to |-> to]
Value(tag) == [tag |-> tag, from |-> 0, to |-> 0]

RECURSIVE TemplateFrom(_, _)
TemplateFrom(theme, i) ==
  LET marks == {Offset(theme, k) : k \in {k \in DOMAIN theme : theme[k].kind # "text"}}
      next == {o \in marks : o >= i}
      at == Min(next)
      global == mk_dirhtml_theme_match_tag(theme, at, _tags_global)
      entry == mk_dirhtml_theme_match_tag(theme, at, _tags_entry)
      tag == IF global > 0 THEN _tags_global[global] ELSE _tags_entry[entry]
  IN IF next = {} THEN <<Text(i, ThemeLen(theme))>>
     ELSE IF global = 0 /\ entry = 0 THEN TemplateFrom(theme, i + 1)
     ELSE <<Text(i, at), Value(tag)>> \o TemplateFrom(theme, at + TagLen[tag])
mk_dirhtml_template_create(theme) == TemplateFrom(theme, 0)

(* mk_dirhtml_theme_load(): all three files, or the plugin is not loaded.  *)
mk_dirhtml_theme_load(c) ==
  [ok |-> c.header # <<>> /\ c.entry # <<>> /\ c.footer # <<>>,
   header |-> mk_dirhtml_template_create(c.header),
   entry |-> mk_dirhtml_template_create(c.entry),
   footer |-> mk_dirhtml_template_create(c.footer)]

-----------------------------------------------------------------------------
(* The values of tags (mk_dirhtml_tag_assign()), by tag: what they are of  *)
(* (0: the request), their length, and whether a slash follows.            *)
What(of, len, slash) == [of |-> of, len |-> len, slash |-> slash]
ValuesGlobal ==
  [html_title |-> What(0, 3, FALSE), theme_path |-> What(0, 5, FALSE)]
ValuesEntry(e) ==
  LET named == What(e.name, 1 + (e.name % 3), e.type = "DIR") IN
  [target_title |-> named, target_url |-> named, target_name |-> named,
   target_time |-> What(e.own, 17, FALSE), target_size |-> What(e.own, 4, FALSE)]

(* A tag without a value adds nothing.                                     *)
Filled(node, values) ==
  IF node.tag = ""
  THEN <<[part |-> "text", from |-> node.from, len |-> node.to - node.from]>>
  ELSE IF node.tag \notin DOMAIN values THEN <<>>
  ELSE LET v == values[node.tag] IN
       <<[part |-> node.tag, from |-> v.of, len |-> v.len]>>
       \o (IF v.slash THEN <<[part |-> "/", from |-> 0, len |-> 1]>> ELSE <<>>)
Crlf == [part |-> "crlf", from |-> 0, len |-> 2]
LenOf(parts) == FoldLeft(LAMBDA n, p : n + p.len, 0, parts)

(* Entry 0 of the vector is left for the size of the chunk.                *)
mk_dirhtml_theme_compose(template, values, is_chunked) ==
  LET filled == FlattenSeq([k \in DOMAIN template |-> Filled(template[k], values)])
      parts == IF is_chunked THEN Append(filled, Crlf) ELSE filled
  IN [parts |-> parts, total_len |-> LenOf(parts), iov_idx |-> 1 + Len(parts),
      size |-> 1 + (2 * Len(template))]

(* What mk_dirhtml_send() writes: chunk is the size in front, or -1.       *)
mk_dirhtml_send(iov, is_chunked) ==
  [iov |-> iov, chunk |-> IF is_chunked THEN iov.total_len - 2 ELSE -1]

-----------------------------------------------------------------------------
(* mk_dirhtml_create_list(): an entry keeps its time and its size, but its *)
(* name is read in the buffer of the DIR, where a later entry may have     *)
(* taken its place.                                                        *)
Shown(d) == ~d.hidden /\ d.type # "other" /\ d.stat
NameInBuffer(dir, k) ==
  dir[Max({j \in DOMAIN dir : j % DirBuf = k % DirBuf})].name
mk_dirhtml_create_list(dir) ==
  LET kept == SelectSeq([k \in DOMAIN dir |-> k], LAMBDA k : Shown(dir[k])) IN
  [j \in DOMAIN kept |->
     [own |-> dir[kept[j]].name, name |-> NameInBuffer(dir, kept[j]),
      type |-> dir[kept[j]].type]]

(* The page: header, an entry for each file, footer.                       *)
Blocks(theme, toc, is_chunked) ==
  LET Block(template, values) ==
        mk_dirhtml_send(mk_dirhtml_theme_compose(template, values, is_chunked), is_chunked)
  IN <<Block(theme.header, ValuesGlobal)>>
     \o [k \in DOMAIN toc |-> Block(theme.entry, ValuesEntry(toc[k]))]
     \o <<Block(theme.footer, ValuesGlobal)>>

(* left: how many sends succeed before the connection breaks.  The headers *)
(* are sent first; the last chunk is sent if the footer was.               *)
mk_dirhtml_init(c, dir, is_chunked, left) ==
  LET toc == SortSeq(mk_dirhtml_create_list(dir), LAMBDA a, b : a.name < b.name)
      sent == Min({Max({left - 1, 0}), Len(toc) + 2})
  IN [headers |-> left >= 1, toc |-> toc,
      sent |-> SubSeq(Blocks(mk_dirhtml_theme_load(c), toc, is_chunked), 1, sent),
      footer |-> sent = Len(toc) + 2, end |-> is_chunked /\ left >= Len(toc) + 4]

ListingInputs ==
  {v \in [header : ThemeFiles, entry : ThemeFiles, footer : ThemeFiles,
          dir : Directories, chunked : BOOLEAN, left : 0 .. 7] : v.footer = v.header}

-----------------------------------------------------------------------------
(* What a theme asks for: every piece of it once, in its place.  Apart:    *)
(* all its tags are known, and none begins so close to one in front of it  *)
(* that it is found first.                                                 *)
Rank(tag) ==
  CHOOSE n \in 1 .. 7 : (_tags_global \o _tags_entry)[n] = tag
Apart(theme) ==
  \A j \in DOMAIN theme :
    /\ theme[j].kind # "unknown"
    /\ \A k \in j + 1 .. Len(theme) :
         (theme[j].kind = "tag" /\ theme[k].kind = "tag") =>
           \/ Rank(theme[k].tag) >= Rank(theme[j].tag)
           \/ Offset(theme, k) >= Offset(theme, j) + TagLen[theme[k].tag]
Meant(theme, values) ==
  FlattenSeq([k \in DOMAIN theme |->
    Filled(IF theme[k].kind = "tag" THEN Value(theme[k].tag)
           ELSE Text(Offset(theme, k), Offset(theme, k) + theme[k].len), values)])
Page(block) ==
  SelectSeq(block.iov.parts, LAMBDA p : p # Crlf /\ p.len > 0)

PageTrue(v, r) ==
  LET n == Len(r.toc)
      ThemeOf(k) == IF k = 1 THEN v.header ELSE IF k = n + 2 THEN v.footer ELSE v.entry
      ValuesOf(k) == IF k \in {1, n + 2} THEN ValuesGlobal ELSE ValuesEntry(r.toc[k - 1])
      names == {d.name : d \in {d \in Range(v.dir) : Shown(d)}}
  IN /\ \A k \in DOMAIN r.sent :
          /\ r.sent[k].iov.iov_idx <= r.sent[k].iov.size
          /\ v.chunked => r.sent[k].chunk = LenOf(Page(r.sent[k]))
          /\ Apart(ThemeOf(k)) => Page(r.sent[k]) = Meant(ThemeOf(k), ValuesOf(k))
     /\ Len(v.dir) <= DirBuf => [k \in 1 .. n |-> r.toc[k].name] = SetToSortSeq(names, <)
     /\ r.end => r.footer
     /\ {e.own : e \in Range(r.toc)} = names

(* A page is what the theme asks for, for every file of the directory once *)
(* and in order; a chunk is as long as it says; no vector is overrun; the  *)
(* page is ended only if all of it was sent.  Exceptions: themes that are  *)
(* not Apart, and directories of more entries than the buffer of a DIR     *)
(* holds, whose names may be those of other files.                         *)
ListingTrue(v) ==
  mk_dirhtml_theme_load(v).ok =>
    PageTrue(v, mk_dirhtml_init(v, v.dir, v.chunked, v.left))
=============================================================================
