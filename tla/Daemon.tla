-------------------------------- MODULE Daemon --------------------------------
(***************************************************************************)
(* The life of the process: main() of the daemon (monkey.c) or the calls   *)
(* of a program that uses the library (mk_lib.c), the plugins they load    *)
(* (mk_plugin.c), the worker threads they launch (mk_server.c,             *)
(* mk_scheduler.c), the clock thread (module Clock), the logger plugin and *)
(* its thread (module Logger), and the signals that end it (mk_signals.c). *)
(*                                                                         *)
(* A worker answers one request at a time, here in two steps, because an   *)
(* answer and its log line hold on to the clock's published text until     *)
(* they are written.  What else a worker does is in the other modules.     *)
(***************************************************************************)
EXTENDS Clock, Logger

CONSTANTS
  Workers,       \* worker threads
  LoadOrder,     \* the plugins of plugins.load, in their order
  MaxSignals,    \* bound: signals
  MaxLives       \* bound: mklib_init() calls

ASSUME DaemonAssumption ==
  /\ IsFiniteSet(Workers) /\ Workers # {} /\ "none" \notin Workers
  /\ LoadOrder \in Seq({"liana", "logger", "other"})
  /\ MaxSignals \in Nat /\ MaxLives \in Nat \ {0}

(* pc: where the main thread is.  plugins: config->plugins, and prctx the  *)
(* ones whose process hook has run.  wid: the static counter of            *)
(* mk_sched_register_thread(); slots: sched_list, the worker of each entry *)
(* and whether it reported; outside: workers that registered behind the    *)
(* end of sched_list.  wk: the state of a worker, its thread data, and the *)
(* date it holds.                                                          *)
VARIABLES mode, pc, next, plugins, prctx, pidfile, wid, slots, outside, wk, todo, signals, life

mainVars   == <<mode, pc, next, plugins, prctx, pidfile, signals, life>>
workerVars == <<wid, slots, outside, wk, todo>>
vars == <<mode, pc, next, plugins, prctx, pidfile, signals, life,
          wid, slots, outside, wk, todo, clk, log>>

None == "none"
NoDate  == [kind |-> "none", buf |-> NoBuffer]
OldDate == [kind |-> "old", buf |-> NoBuffer]   \* another one was published since
NewWorker == [st |-> "none", data |-> {}, date |-> NoDate]
NWorkers  == Cardinality(Workers)
EmptyList(n) == [i \in 1 .. n |-> [w |-> None, ready |-> FALSE]]

Init ==
  /\ mode \in {"daemon", "library"}
  /\ pc = "configure" /\ next = 1 /\ plugins = <<>> /\ prctx = {} /\ pidfile = FALSE
  /\ wid = 1 /\ slots = <<>> /\ outside = {}
  /\ wk = [w \in Workers |-> NewWorker]
  /\ todo = {}
  /\ signals = 0 /\ life = 0
  /\ ClockInit /\ LoggerInit

Goes(from, to) == pc = from /\ pc' = to
-----------------------------------------------------------------------------
(* main() of the daemon.  exit(EXIT_FAILURE) is the pc "exited".           *)

(* mk_config_start_configure(), mk_sched_init(), mk_plugin_init().         *)
Configure ==
  /\ mode = "daemon" /\ pc = "configure"
  /\ \/ pc' = "exited" /\ UNCHANGED slots
     \/ pc' = "load" /\ slots' = EmptyList(NWorkers)
  /\ UNCHANGED <<mode, next, plugins, prctx, pidfile, signals, life,
                 wid, outside, wk, todo, clk, log>>

(* mk_plugin_read_config(), one line: the plugin is loaded, initialised    *)
(* and registered, or it is not.                                           *)
LoadPlugin ==
  /\ Goes("load", "load") /\ next <= Len(LoadOrder)
  /\ plugins' \in {plugins, Append(plugins, LoadOrder[next])}
  /\ next' = next + 1
  /\ UNCHANGED <<mode, prctx, pidfile, signals, life, workerVars, clk, log>>

(* Without the transport layer it exits; mk_plugin_preworker_calls() and   *)
(* mk_socket_server(), which exits when it cannot listen.                  *)
Listen ==
  /\ pc = "load" /\ next > Len(LoadOrder)
  /\ \/ pc' = "exited"
     \/ "liana" \in ToSet(plugins) /\ pc' = "pid"
  /\ next' = 1
  /\ UNCHANGED <<mode, plugins, prctx, pidfile, signals, life, workerVars, clk, log>>

(* mk_utils_set_daemon() and mk_utils_register_pid(), which exits when the *)
(* file cannot be written or locked.                                       *)
RegisterPid ==
  /\ pc = "pid"
  /\ \/ pc' = "exited" /\ UNCHANGED pidfile
     \/ pc' = "clock" /\ pidfile' = TRUE
  /\ UNCHANGED <<mode, next, plugins, prctx, signals, life, workerVars, clk, log>>

(* mk_clock_sequential_init() and the thread; mk_thread_keys_init(),       *)
(* mk_user_set_uidgid() and mk_config_sanity_check() do not fail.          *)
StartClock ==
  /\ Goes("clock", "prctx") /\ SequentialInit
  /\ UNCHANGED <<mode, next, plugins, prctx, pidfile, signals, life, workerVars, log>>

(* mk_plugin_core_process(), one plugin; then mk_server_launch_workers().  *)
Prctx ==
  /\ pc = "prctx"
  /\ IF next <= Len(plugins)
     THEN /\ pc' = pc /\ next' = next + 1
          /\ prctx' = prctx \cup {plugins[next]}
          /\ log' = IF plugins[next] = "logger" THEN LoggerPrctx(log) ELSE log
          /\ UNCHANGED <<workerVars, clk>>
     ELSE /\ pc' = "launch" /\ next' = 1
          /\ todo' = CHOOSE s \in SUBSET Workers : Cardinality(s) = Len(slots)
          /\ UNCHANGED <<prctx, wid, slots, outside, wk, clk, log>>
  /\ UNCHANGED <<mode, plugins, pidfile, signals, life>>

(* mk_sched_launch_thread(): the epoll descriptor or the thread may not be *)
(* created; the caller does not look.                                      *)
Launch ==
  /\ pc = "launch"
  /\ IF todo = {}
     THEN pc' = "barrier" /\ UNCHANGED <<todo, wk>>
     ELSE LET w == CHOOSE x \in todo : TRUE
          IN /\ pc' = pc /\ todo' = todo \ {w}
             /\ \E st \in {"created", "failed"} : wk' = [wk EXCEPT ![w] = [NewWorker EXCEPT !.st = st]]
  /\ UNCHANGED <<mode, next, plugins, prctx, pidfile, signals, life, wid, slots, outside, clk, log>>

(* Mutant: it waits until the workers are registered, not until they are   *)
(* ready.                                                                  *)
BarrierRegistered ==
  /\ Goes("barrier", "loop")
  /\ \A i \in 1 .. Len(slots) : slots[i].w # None
  /\ UNCHANGED <<mode, next, plugins, prctx, pidfile, signals, life, workerVars, clk, log>>

(* The loop under mutex_worker_init that counts the workers which are      *)
(* ready, in main() and in mklib_start().                                  *)
Barrier ==
  /\ Goes("barrier", "loop")
  /\ \A i \in 1 .. Len(slots) : slots[i].ready
  /\ UNCHANGED <<mode, next, plugins, prctx, pidfile, signals, life, workerVars, clk, log>>

(* Nothing runs any more once the process has ended.                       *)
ThreadsEnd ==
  /\ wk' = [w \in Workers |-> NewWorker]
  /\ clk' = [clk EXCEPT !.at = "off"]
  /\ log' = [log EXCEPT !.at = "off"]
  /\ UNCHANGED <<wid, slots, outside, todo>>

(* SIGTERM, SIGINT or SIGHUP: mk_signal_exit() ignores the next ones,      *)
(* removes the pid file, calls the exit hooks and ends the process.  The   *)
(* logger's hook walks targets_list; before its process hook made that     *)
(* list the walk faults, and the handler of the fault ends the thread the  *)
(* signal came to, main or clock.                                          *)
Faults == "logger" \in ToSet(plugins) /\ ~log.targets

Signal ==
  /\ mode = "daemon" /\ pc \notin {"exited", "dead"} /\ signals < MaxSignals
  /\ signals' = signals + 1
  /\ pidfile' = FALSE
  /\ \/ /\ ~Faults \/ clk.at = "off"
        /\ pc' = "exited" /\ ThreadsEnd
     \/ /\ Faults /\ clk.at # "off"
        /\ \/ pc' = "dead" /\ UNCHANGED clk
           \/ clk' = [clk EXCEPT !.at = "off"] /\ pc' = pc
        /\ UNCHANGED <<workerVars, log>>
  /\ UNCHANGED <<mode, next, plugins, prctx, life>>
-----------------------------------------------------------------------------
(* The library                                                             *)

(* mklib_init(): without the transport layer it returns NULL, and          *)
(* mk_socket_server() exits when it cannot listen.  mk_sched_init() makes  *)
(* a new sched_list; wid goes on from where it was.                        *)
LibInit ==
  /\ mode = "library" /\ pc = "configure" /\ life < MaxLives
  /\ life' = life + 1
  /\ \/ pc' = "exited" /\ UNCHANGED <<plugins, slots, clk>>
     \/ /\ pc' = "stopped" /\ plugins' = <<"liana">> /\ SequentialInit
        /\ slots' = EmptyList(1)
  /\ prctx' = {} /\ next' = 1
  /\ UNCHANGED <<mode, pidfile, signals, wid, outside, wk, todo, log>>

(* mklib_config() with MKC_WORKERS.                                        *)
LibConfig ==
  /\ mode = "library" /\ pc = "stopped"
  /\ \E n \in 1 .. NWorkers : slots' = EmptyList(n)
  /\ UNCHANGED <<mainVars, wid, outside, wk, todo, clk, log>>

(* mklib_start(): process hooks, threads and barrier as in main().         *)
LibStart ==
  /\ mode = "library" /\ Goes("stopped", "prctx")
  /\ UNCHANGED <<mode, next, plugins, prctx, pidfile, signals, life, workerVars, clk, log>>

(* mklib_stop(): the workers are cancelled (they are gone, or go at the    *)
(* next system call), the plugins and the configuration are freed.         *)
LibStop ==
  /\ mode = "library" /\ Goes("loop", "configure")
  /\ plugins' = <<>> /\ slots' = <<>>
  /\ wk' = [w \in Workers |-> NewWorker]
  /\ UNCHANGED <<mode, next, prctx, pidfile, signals, life, wid, outside, todo, clk, log>>
-----------------------------------------------------------------------------
(* A worker: mk_sched_launch_worker_loop()                                 *)

Alive == pc # "exited"

(* mk_sched_register_thread() under mutex_sched_init.  An index behind the *)
(* end of sched_list is memory of somebody else.                           *)
WorkerRegisters(w) ==
  /\ Alive /\ wk[w].st = "created"
  /\ wk' = [wk EXCEPT ![w].st = "registered"]
  /\ wid' = wid + 1
  /\ IF wid \in DOMAIN slots
     THEN slots' = [slots EXCEPT ![wid].w = w] /\ UNCHANGED outside
     ELSE outside' = outside \cup {w} /\ UNCHANGED slots
  /\ UNCHANGED <<mainVars, todo, clk, log>>

(* mk_plugin_core_thread(): the thread hook of every plugin.               *)
WorkerContext(w) ==
  /\ Alive /\ wk[w].st = "registered"
  /\ wk' = [wk EXCEPT ![w].st = "context", ![w].data = ToSet(plugins)]
  /\ UNCHANGED <<mainVars, wid, slots, outside, todo, clk, log>>

(* Mutant: the entry of the worker that registered last is marked.         *)
WorkerReadyLast(w) ==
  /\ Alive /\ wk[w].st = "context"
  /\ wk' = [wk EXCEPT ![w].st = "idle"]
  /\ slots' = [i \in DOMAIN slots |-> IF i = wid - 1 THEN [slots[i] EXCEPT !.ready = TRUE]
                                                     ELSE slots[i]]
  /\ UNCHANGED <<mainVars, wid, outside, todo, clk, log>>

(* mk_epoll_init() reports under mutex_worker_init.                        *)
WorkerReady(w) ==
  /\ Alive /\ wk[w].st = "context"
  /\ wk' = [wk EXCEPT ![w].st = "idle"]
  /\ slots' = [i \in DOMAIN slots |-> IF slots[i].w = w THEN [slots[i] EXCEPT !.ready = TRUE]
                                                       ELSE slots[i]]
  /\ UNCHANGED <<mainVars, wid, outside, todo, clk, log>>

Hold(k) == [kind |-> k, buf |-> clk.cur[k]]

(* mk_server_loop() or mklib_run() hands a client to the epoll set of an   *)
(* entry of sched_list; its worker answers, and mk_header_send() puts      *)
(* header_current_time into the answer.                                    *)
WorkerAnswers(w) ==
  /\ pc = "loop" /\ wk[w].st = "idle" /\ Len(log.class) < MaxLines
  /\ \E i \in DOMAIN slots : slots[i].w = w
  /\ wk' = [wk EXCEPT ![w].st = "answer", ![w].date = Hold("header")]
  /\ UNCHANGED <<mainVars, wid, slots, outside, todo, clk, log>>

(* The answer is written; stage 40 puts log_current_time into the line.    *)
(* Nothing is logged when the client's address is gone.                    *)
WorkerSent(w) ==
  /\ Alive /\ wk[w].st = "answer"
  /\ \/ wk' = [wk EXCEPT ![w].st = "idle", ![w].date = NoDate]
     \/ /\ "logger" \in ToSet(plugins)
        /\ wk' = [wk EXCEPT ![w].st = "line", ![w].date = Hold("log")]
  /\ UNCHANGED <<mainVars, wid, slots, outside, todo, clk, log>>

WorkerLogs(w) ==
  /\ Alive /\ wk[w].st = "line" /\ Len(log.class) < MaxLines
  /\ \E c \in Pipes : log' = Stage40(log, c)
  /\ wk' = [wk EXCEPT ![w].st = "idle", ![w].date = NoDate]
  /\ UNCHANGED <<mainVars, wid, slots, outside, todo, clk>>
-----------------------------------------------------------------------------
(* The clock and the logger threads                                        *)

Overtaken(k) == [w \in Workers |-> IF wk[w].date.kind = k
                                  THEN [wk[w] EXCEPT !.date = OldDate] ELSE wk[w]]

Clocks ==
  /\ Alive
  /\ \/ ClockWakes /\ log' = Tick(log) /\ UNCHANGED wk
     \/ ClockSetsLog /\ wk' = Overtaken("log") /\ UNCHANGED log
     \/ ClockSetsHeader /\ wk' = Overtaken("header") /\ UNCHANGED log
  /\ UNCHANGED <<mainVars, wid, slots, outside, todo>>

LoggerWaits   == Alive /\ LoggerWait /\ UNCHANGED <<mainVars, workerVars, clk>>
LoggerFlushes == Alive /\ (\E p \in Pipes : LoggerEvent(p)) /\ UNCHANGED <<mainVars, workerVars, clk>>
LoggerDrains  == Alive /\ LoggerDrain /\ UNCHANGED <<mainVars, workerVars, clk>>

Main   == Configure \/ LoadPlugin \/ Listen \/ RegisterPid \/ StartClock \/ Prctx \/ Launch \/ Barrier
Work(w) == \/ WorkerRegisters(w) \/ WorkerContext(w) \/ WorkerReady(w)
           \/ WorkerSent(w) \/ WorkerLogs(w)
LogThread == LoggerWaits \/ LoggerFlushes \/ LoggerDrains

Next ==
  \/ Main \/ Signal
  \/ LibInit \/ LibConfig \/ LibStart \/ LibStop
  \/ \E w \in Workers : Work(w) \/ WorkerAnswers(w)
  \/ Clocks \/ LogThread

(* Threads that can run do run; nothing makes clients, signals or the      *)
(* program that uses the library act.                                      *)
Spec ==
  /\ Init /\ [][Next]_vars
  /\ WF_vars(Main) /\ WF_vars(Clocks) /\ WF_vars(LogThread)
  /\ \A w \in Workers : WF_vars(Work(w))
-----------------------------------------------------------------------------
(* The variables have their types, and a pipe never holds more than fits.  *)
TypeOK ==
  /\ ClockTypeOK /\ LoggerTypeOK
  /\ pc \in {"configure", "load", "pid", "clock", "prctx", "launch", "barrier", "loop",
             "stopped", "exited", "dead"}
  /\ wid \in 1 .. MaxLives * NWorkers + 1 /\ outside \subseteq Workers
  /\ \A w \in Workers :
       wk[w].st \in {"none", "created", "failed", "registered", "context", "idle", "answer", "line"}

(* Once the server accepts clients, every entry of sched_list belongs to   *)
(* a worker of its own that has the thread data of every plugin, whose     *)
(* process hooks have all run: no client is handed to a worker that is not *)
(* set up.                                                                 *)
WorkersReady ==
  pc = "loop" =>
    /\ \A i, j \in DOMAIN slots : slots[i].w = slots[j].w => i = j
    /\ \A i \in DOMAIN slots :
         /\ slots[i].w \in Workers
         /\ wk[slots[i].w].st \in {"idle", "answer", "line"}
         /\ wk[slots[i].w].data = prctx /\ prctx = ToSet(plugins)

(* The date a worker holds while it builds an answer or a log line is not  *)
(* being rewritten, unless another one was published since it took it: the *)
(* two buffers protect a worker for a tick of the clock.                   *)
DatesWhole ==
  \A w \in Workers :
    LET d == wk[w].date
    IN d.kind \in Kinds => clk.text[d.kind][d.buf] = "whole"

(* A log holds lines of its own class only, in the order in which they     *)
(* were written, none twice; a line is missing only where a full pipe      *)
(* refused it or where it was read away because the file could not be      *)
(* opened, and only then a line has lost its beginning.                    *)
LogIntact ==
  \A p \in Pipes :
    LET s == Logged(p)
    IN /\ \A i, j \in 1 .. Len(s) : i < j => Number(s[i]) < Number(s[j])
       /\ \A i \in 1 .. Len(s) : log.class[Number(s[i])] = p
       /\ \A i \in 1 .. Len(s) : s[i] < 0 => log.fails > 0
       /\ \A x \in 1 .. Len(log.class) :
            log.class[x] = p =>
              x \in log.full \cup log.drained \cup {Number(s[i]) : i \in 1 .. Len(s)}

(* A daemon that is started, and a library that is started for the first   *)
(* time, comes to accept clients or ends, provided that every thread could *)
(* be created and that no signal came before the logger was set up.        *)
ComesUp ==
  (pc \in {"load", "prctx"} /\ life <= 1) ~>
    \/ pc \in {"loop", "exited", "dead"}
    \/ \E w \in Workers : wk[w].st = "failed"

(* A pipe that holds lines is emptied, into its file or because the file   *)
(* cannot be opened, sooner or later, as long as the clock runs and the    *)
(* process does: the flush time the two pipes share starves neither.       *)
LinesFlushed ==
  \A p \in Pipes : (log.pipe[p] # <<>>) ~> (log.pipe[p] = <<>> \/ ~Alive \/ clk.at = "off")

=============================================================================
