------------------------------ MODULE Plugins ------------------------------
(***************************************************************************)
(* How mk_plugin.c loads plugins, asks them at the stages of a request and *)
(* hands them events, and how mk_http_init() goes on with what they say.   *)
(* A plugin is the record of what its shared object would do.              *)
(***************************************************************************)
EXTENDS Integers, Sequences, FiniteSets, FiniteSetsExt, SequencesExt

CONSTANTS
  PluginFiles,   \* what "Load" may name
  MaxPlugins,    \* bound: lines "Load" of plugins.load
  Transports,    \* what TransportLayer may say, NoTransport included
  NoTransport    \* there is no such line

Fates == {"unreadable", "foreign", "refuses", "incomplete", "good"}
Stages == {10, 20, 30, 40, 50}
NetworkIO == 0
StageVerdicts == {"NOT_ME", "CONTINUE", "END", "CLOSE_CONX", "invalid"}
EventVerdicts == {"none", "NEXT", "OWNED", "CLOSE", "CONTINUE"}
Plugin ==   \* struct plugin; event = "none": it has no hook for events
  [name : STRING, fate : Fates, hooks : SUBSET (Stages \cup {NetworkIO}),
   says : StageVerdicts, event : EventVerdicts]
LoadLists == UNION {[1 .. n -> PluginFiles] : n \in 1 .. MaxPlugins}

-----------------------------------------------------------------------------
(* Loading.  reg holds config->plugins, plg_stagemap, plg_netiomap and the *)
(* shared objects that stay open.                                          *)
NoPlugins ==
  [plugins |-> <<>>, stage |-> [s \in Stages |-> <<>>], net |-> {}, open |-> 0]

mk_plugin_register_stagemap(stage, p) ==
  [s \in Stages |-> IF s \in p.hooks THEN Append(stage[s], p) ELSE stage[s]]

mk_plugin_register(reg, p, transport) ==
  IF p.fate = "incomplete" \/ p.hooks = {} THEN reg
  ELSE [reg EXCEPT
    !.plugins = Append(@, p),
    !.stage = mk_plugin_register_stagemap(@, p),
    !.net = IF NetworkIO \in p.hooks /\ transport = p.name THEN {p} ELSE @]

mk_plugin_load(p) == p.fate # "unreadable"
mk_plugin_alloc(p) == IF p.fate = "foreign" THEN {} ELSE {p}

(* One line "Load": a plugin whose init() fails is freed and stays open.   *)
Load(reg, p, transport) ==
  LET opened == [reg EXCEPT !.open = @ + 1] IN
  IF ~mk_plugin_load(p) \/ mk_plugin_alloc(p) = {} THEN reg
  ELSE IF p.fate = "refuses" THEN opened
  ELSE mk_plugin_register(opened, p, transport)

(* up: there is a transport layer, or the server does not start.           *)
mk_plugin_read_config(list, transport) ==
  LET reg == FoldLeft(LAMBDA r, p : Load(r, p, transport), NoPlugins, list) IN
  [reg |-> reg, up |-> reg.net # {}]

(* Every plugin is asked to exit before the first one is unloaded.         *)
mk_plugin_exit_all(reg) ==
  LET n == Len(reg.plugins) IN
  [k \in 1 .. 2 * n |-> IF k <= n THEN [op |-> "exit", plugin |-> reg.plugins[k]]
                        ELSE [op |-> "unload", plugin |-> reg.plugins[k - n]]]

-----------------------------------------------------------------------------
(* The stages.  Chain: those of a stage are asked in the order they were   *)
(* loaded, up to the first whose answer stops it.                          *)
Stops == [s10 |-> {"CLOSE_CONX"}, s20 |-> {"CLOSE_CONX"},
          s30 |-> StageVerdicts \ {"NOT_ME"}, s40 |-> {}, s50 |-> {"CONTINUE"}]
StopsAt(s) ==
  CASE s = 10 -> Stops.s10 [] s = 20 -> Stops.s20 [] s = 30 -> Stops.s30
    [] s = 40 -> Stops.s40 [] s = 50 -> Stops.s50
Chain(list, stops) ==
  LET last == SelectInSeq(list, LAMBDA p : p.says \in stops) IN
  IF last = 0 THEN [asked |-> list, ret |-> "none"]
  ELSE [asked |-> SubSeq(list, 1, last), ret |-> list[last].says]

(* lib: what the callbacks of the library would say ("yes", "no"), "none"  *)
(* without one.  Those on the address and the URL come before the plugins, *)
(* the one that makes the content after them.  Nothing ever sets           *)
(* sr->handled_by or sr->stage30_blocked.                                  *)
mk_plugin_stage_run_Late(reg, s, lib) ==
  LET chain == Chain(reg.stage[s], StopsAt(s)) IN
  IF s = 30 /\ lib = "yes" THEN [chain EXCEPT !.ret = "END"]
  ELSE IF s \in {10, 20} /\ lib = "no" THEN [asked |-> <<>>, ret |-> "CLOSE_CONX"]
  ELSE chain
mk_plugin_stage_run(reg, s, lib) ==
  LET chain == Chain(reg.stage[s], StopsAt(s)) IN
  IF s \in {10, 20} /\ lib = "no" THEN [asked |-> <<>>, ret |-> "CLOSE_CONX"]
  ELSE IF s = 30 /\ chain.ret = "none" /\ lib = "yes" THEN [chain EXCEPT !.ret = "END"]
  ELSE chain

-----------------------------------------------------------------------------
(* mk_http_init(), from the file on: f is what mk_file_get_info() finds,   *)
(* index what it finds of the directory's index file, if there is one.     *)
FileInfos ==
  [there : {"ok", "missing", "denied"}, is_directory : BOOLEAN, is_link : BOOLEAN,
   read_access : BOOLEAN]
PlainFile == [there |-> "ok", is_directory |-> FALSE, is_link |-> FALSE,
              read_access |-> TRUE]
Indexes == {<<>>} \cup {<<f>> : f \in {PlainFile, [PlainFile EXCEPT !.is_link = TRUE],
                                      [PlainFile EXCEPT !.read_access = FALSE]}}
Closed403(status) == IF status > 0 THEN status ELSE 403
Done(what, status, asked) == [what |-> what, status |-> status, asked |-> asked]
Refuse(status, asked) == Done("error", status, asked)

(* What the answer of stage 30 means; otherwise: nobody took the request.  *)
ByStage30(run, status, otherwise) ==
  CASE run.ret = "CONTINUE" -> Done("continue", 0, run.asked)
    [] run.ret = "END" -> Done("end", 0, run.asked)
    [] run.ret = "CLOSE_CONX" -> Refuse(Closed403(status), run.asked)
    [] run.ret = "invalid" -> Done("exit", 0, run.asked)
    [] OTHER -> otherwise

(* From 478 on                                                             *)
Serve(v, f, asked) ==
  IF v.method \in {"PUT", "DELETE", "UNKNOWN"} THEN Refuse(501, asked)
  ELSE IF ~f.read_access THEN Refuse(403, asked)
  ELSE IF f.is_directory THEN Refuse(403, asked)
  ELSE Done("file", 200, asked)

mk_http_init(reg, v) ==
  LET run == mk_plugin_stage_run(reg, 30, v.lib)
      g == IF v.file.is_directory /\ v.index # <<>> THEN v.index[1] ELSE v.file
      found ==
        IF v.file.is_directory /\ ~v.slash THEN Done("redirect", 301, <<>>)
        ELSE IF g.is_link /\ v.symlink # "followed" THEN Refuse(403, <<>>)
        ELSE ByStage30(run, v.status, Serve(v, g, run.asked))
  IN IF v.backward THEN Refuse(403, <<>>)
     ELSE IF v.file.there = "ok" THEN found
     ELSE ByStage30(run, v.status,
       Refuse(IF v.file.there = "missing" THEN 404 ELSE 403, run.asked))

StageInputs ==
  {v \in [file : FileInfos, index : Indexes, slash : BOOLEAN,
          symlink : {"refused", "unreadable", "followed"},
          backward : BOOLEAN, method : {"GET", "PUT"}, status : {0, 401},
          lib : {"none", "yes", "no"}] :
     /\ v.file.there # "ok" => v.file = [PlainFile EXCEPT !.there = v.file.there]
     /\ v.backward => v.file = PlainFile
     /\ (v.index # <<>> \/ v.slash) => v.file.is_directory
     /\ v.symlink # "followed" => v.file.is_link \/ v.index # <<>>}
(* The plugins of a server that came up                                    *)
Running(transport) == {l \in LoadLists : mk_plugin_read_config(l, transport).up}

-----------------------------------------------------------------------------
(* The events: mk_plugin_event_read() and its like for the other four.     *)
mk_plugin_event(reg, owner) ==
  IF \E p \in owner : p.event # "none"
  THEN [asked |-> SetToSeq(owner), ret |-> (CHOOSE p \in owner : TRUE).event]
  ELSE LET able == SelectSeq(reg.plugins, LAMBDA p : p.event # "none")
           last == SelectInSeq(able, LAMBDA p : p.event # "NEXT")
       IN IF last = 0 THEN [asked |-> able, ret |-> "CONTINUE"]
          ELSE [asked |-> SubSeq(able, 1, last), ret |-> able[last].event]

-----------------------------------------------------------------------------
(* Plugins are asked in the order of their lines "Load", and nobody is     *)
(* asked who is not registered, or after one that took the request: what   *)
(* a plugin refuses or answers is neither answered again by another one    *)
(* nor served from the file.                                               *)
InLoadOrder(asked, list) ==
  \E at \in [DOMAIN asked -> DOMAIN list] :
    \A j \in DOMAIN asked :
      /\ list[at[j]] = asked[j] /\ asked[j].fate = "good"
      /\ \A k \in DOMAIN asked : j < k => at[j] < at[k]
TakenOnce(reg, v, list) ==
  LET r == mk_http_init(reg, v)
      takers == {j \in DOMAIN r.asked : r.asked[j].says # "NOT_ME"}
  IN /\ InLoadOrder(r.asked, list)
     /\ takers \subseteq {Len(r.asked)}
     /\ r.what = "file" =>
          /\ takers = {} /\ v.lib # "yes"
          /\ v.file.there = "ok" /\ v.method = "GET" /\ ~v.backward
          /\ IF v.file.is_directory THEN v.index # <<>> ELSE v.file.read_access
     /\ (r.what = "end" /\ takers = {}) => v.lib = "yes"
     /\ takers # {} => (r.what = "end") = (Last(r.asked).says = "END")

(* Without a transport layer the server does not start, whatever else is   *)
(* loaded; every plugin that is registered is asked to exit once, while    *)
(* all of them are still loaded.                                           *)
LoadedWell(list, transport) ==
  LET c == mk_plugin_read_config(list, transport)
      bye == mk_plugin_exit_all(c.reg)
  IN /\ c.up => \E k \in DOMAIN list : list[k].name = transport
     /\ \A p \in Range(c.reg.plugins) : p.fate = "good"
     /\ c.reg.open >= Len(c.reg.plugins)
     /\ \A j, k \in DOMAIN bye : (bye[j].op = "exit" /\ bye[k].op = "unload") => j < k
     /\ [k \in 1 .. Len(c.reg.plugins) |-> bye[k].plugin] = c.reg.plugins

(* Stage 40 asks all of its plugins; at stages 10 and 20 the connection is *)
(* closed exactly if a plugin or the library says so.                      *)
StagesRun(reg) ==
  \A s \in Stages \ {30}, lib \in {"none", "yes", "no"} :
    LET r == mk_plugin_stage_run(reg, s, lib) IN
    /\ s = 40 => r.asked = reg.stage[40]
    /\ s \in {10, 20} =>
         (r.ret = "CLOSE_CONX") =
         (lib = "no" \/ \E p \in Range(reg.stage[s]) : p.says = "CLOSE_CONX")

(* An event of a socket that a plugin registered goes to that plugin alone *)
(* if it has the hook, and is otherwise offered in order until one does    *)
(* not say NEXT.                                                           *)
EventsOffered(reg) ==
  \A owner \in {{}} \cup {{p} : p \in Range(reg.plugins)} :
    LET e == mk_plugin_event(reg, owner) IN
    /\ \A j \in 1 .. Len(e.asked) - 1 : e.asked[j].event = "NEXT"
    /\ (\E p \in owner : p.event # "none") => Range(e.asked) = owner
    /\ e.ret = "NEXT" => owner # {}
=============================================================================
