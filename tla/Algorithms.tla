---------------------------- MODULE Algorithms ----------------------------
(***************************************************************************)
(* The parts of the server that compute something, each on its own: job is *)
(* the part that runs and st its state.  Most of them are done when they   *)
(* have their input; some take steps.                                      *)
(***************************************************************************)
EXTENDS FastCGIWire, FastCGISetup, Response, Settings, RequestText, Plugins, Listing

VARIABLES
  job,   \* "idle", or what is computed
  st     \* its input or state

vars == <<job, st>>

Init == job = "idle" /\ st = <<>>

Begin(name) == job = "idle" /\ job' = name
Go(name) == job = name /\ job' = name

Receive == Begin("receive") /\ st' \in {Receivers(s) : s \in Streams}
ReceiveMore == Go("receive") /\ st' \in fcgi_recv_response(st)
Answered == Go("receive") /\ st' \in chunk_iov_reset(st)
Send == Begin("send") /\ st' \in {Sender(v) : v \in Vectors}
SendMore == Go("send") /\ st' \in SendStep(st)
Prepare == Begin("prepare") /\ st' \in [params : ParamLists, body : Bodies]
Share ==
  /\ Begin("share")
  /\ st' \in [servers : ServerSets, names : LocationSets, workers : WorkerCounts]
Identify == Begin("identify") /\ st' \in [limit : FdLimits, workers : WorkerCounts]
Cache == Begin("cache") /\ st' \in {request_cache_init}
CacheMore == Go("cache") /\ st' \in CacheSteps(st)
Respond == Begin("respond") /\ st' \in Requests
FindPath == Begin("path") /\ st' \in PathInputs
ReadConfig == Begin("config") /\ st' \in ConfigFiles
ReadMonkeyConf == Begin("monkey.conf") /\ st' \in Monkeys
LibraryInit == Begin("library") /\ st' \in {mk_config_set_init_values(l) : l \in FdLimits}
LibraryConfig == Go("library") /\ st' \in mklib_config(st)
ReadHosts == Begin("hosts") /\ st' \in {mk_config_read_hosts(s) : s \in SiteSets}
AddHosts == Go("hosts") /\ st' \in HostSteps(st)
ReadMime == Begin("mime") /\ st' \in {mk_mimetype_read_config(f) : f \in MimeFiles}
ChangeMime == Go("mime") /\ st' \in MimeSteps(st)
ReadLines == Begin("line") /\ st' \in Lines
ReadNames == Begin("names") /\ st' \in Names
ReadHeaders == Begin("headers") /\ st' \in HeaderLists
Decode == Begin("decode") /\ st' \in Uris
FormatDates == Begin("dates") /\ st' \in {GmtInit}
FormatDate == Go("dates") /\ st' \in GmtSteps(st)
Split == Begin("split") /\ st' \in Texts({" ", "a", "b"}, MaxLine)
PrintNumber == Begin("number") /\ st' \in Numbers
Search == Begin("search") /\ st' \in SearchInputs
EncodeBytes == Begin("encode") /\ st' \in Blobs
DecodeText == Begin("decode64") /\ st' \in Texts({0, 37, 63, Eq, Other}, MaxUri)
List == Begin("list") /\ st' \in ListingInputs
LoadPlugins == Begin("plugins") /\ st' \in [list : LoadLists, transport : Transports]
AskPlugins ==
  /\ Begin("stage 30")
  /\ \E t \in Transports :
       st' \in [list : Running(t), transport : {t}, input : StageInputs]

Next ==
  \/ Receive \/ ReceiveMore \/ Answered
  \/ Send \/ SendMore
  \/ Prepare
  \/ Share
  \/ Identify
  \/ Cache \/ CacheMore
  \/ Respond
  \/ FindPath
  \/ ReadConfig
  \/ ReadMonkeyConf
  \/ LibraryInit \/ LibraryConfig
  \/ ReadHosts \/ AddHosts
  \/ ReadMime \/ ChangeMime
  \/ ReadLines
  \/ ReadNames
  \/ ReadHeaders
  \/ Decode
  \/ FormatDates \/ FormatDate
  \/ Split
  \/ PrintNumber
  \/ Search
  \/ EncodeBytes
  \/ DecodeText
  \/ List
  \/ LoadPlugins \/ AskPlugins

Spec == Init /\ [][Next]_vars

(* What FastCGIWire says of receiving: the packages of a server come whole *)
(* and in order out of chunks that live as long as they are needed.        *)
PackagesReceived ==
  job = "receive" => PackagesWhole(st) /\ ChunksLive(st)
(* What FastCGIWire says of sending: a request is one that a server can    *)
(* read, and every byte of it is sent once.                                *)
RequestsSent ==
  /\ job = "send" => SentInOrder(st)
  /\ job = "prepare" =>
       RequestReadable(st.params, st.body) /\ ParamsReadBack(st.params)
(* What FastCGISetup says of the tables.                                   *)
Tables ==
  /\ job = "share" =>
       LET conf == fcgi_config_read(st.servers, st.names) IN
       /\ ConnectionsShared(conf, st.workers)
       /\ \A l \in DOMAIN st.names : NamesFit(st.servers, st.names[l])
  /\ job = "identify" => RequestsIdentified(st.limit, st.workers)
  /\ job = "cache" => CacheTransparent(st)
(* What Response says of files, and Listing of directories.                *)
FilesServed ==
  /\ job = "respond" => ResponseTrue(st)
  /\ job = "path" => PathHeld(st)
  /\ job = "list" => ListingTrue(st)
(* What Settings says of the files, the settings, the hosts and the types. *)
Configured ==
  /\ job = "config" => ReadAsWritten(st)
  /\ job = "monkey.conf" => SettingsUsable(st)
  /\ job = "library" => Usable(st)
  /\ job = "hosts" => HostsFound(st)
  /\ job = "mime" => TypesFound(st)
(* What RequestText says of a request's text, and of text in general.      *)
TextRead ==
  /\ job = "line" => LineTaken(st)
  /\ job = "names" => NamesTaken(st)
  /\ job = "headers" => HeadersFound(st)
  /\ job = "decode" => UriDecoded(st)
  /\ job = "dates" => DateTrue(st)
  /\ job = "split" => LineSplit(st) /\ LineTrimmed(st)
  /\ job = "number" => NumberPrinted(st)
  /\ job = "search" => SearchFound(st)
  /\ job = "encode" => BytesBack(st)
  /\ job = "decode64" => TextDecoded(st)
(* What Plugins says of loading plugins, asking them and handing them      *)
(* events.                                                                 *)
PluginsAsked ==
  /\ job = "plugins" =>
       /\ LoadedWell(st.list, st.transport)
       /\ LET reg == mk_plugin_read_config(st.list, st.transport).reg IN
          StagesRun(reg) /\ EventsOffered(reg)
  /\ job = "stage 30" =>
       TakenOnce(mk_plugin_read_config(st.list, st.transport).reg, st.input, st.list)
=============================================================================
