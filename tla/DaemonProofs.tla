----------------------------- MODULE DaemonProofs -----------------------------
(***************************************************************************)
(* Proofs about module Daemon, for any number of workers, any list of      *)
(* plugins and any number of signals and lives of the library.             *)
(***************************************************************************)
EXTENDS Daemon, FiniteSetTheorems, TLAPS

PluginNames == {"liana", "logger", "other"}
WorkerStates == {"none", "created", "failed", "registered", "context",
                 "idle", "answer", "line"}
SetUp   == {"context", "idle", "answer", "line"}    \* the thread hooks have run
Serving == {"idle", "answer", "line"}
Dates   == [kind : Kinds \cup {"none", "old"}, buf : 0 .. 2]
WorkerRecs == [st : WorkerStates, data : SUBSET PluginNames, date : Dates]
Entries == [w : Workers \cup {None}, ready : BOOLEAN]

(* The types of what the proofs are about.                                 *)
Types ==
  /\ mode \in {"daemon", "library"}
  /\ pc \in {"configure", "load", "pid", "clock", "prctx", "launch", "barrier", "loop",
             "stopped", "exited", "dead"}
  /\ next \in Nat \ {0}
  /\ plugins \in Seq(PluginNames)
  /\ wid \in Nat \ {0}
  /\ slots \in Seq(Entries)
  /\ wk \in [Workers -> WorkerRecs]
  /\ ClockTypeOK

(* No worker exists before the main thread launches it.                    *)
Early == {"configure", "load", "pid", "clock", "prctx", "stopped"}

(* How far the main thread is: which threads exist, which hooks have run,  *)
(* and that the times were set before anybody could read them.             *)
MainInv ==
  /\ pc \in Early => \A w \in Workers : wk[w] = NewWorker
  /\ pc \in Early => \A i \in DOMAIN slots : slots[i] = [w |-> None, ready |-> FALSE]
  /\ pc = "launch" => \A w \in todo \cap Workers : wk[w] = NewWorker
  /\ pc \in {"load", "pid", "clock", "stopped"} => prctx = {}
  /\ (mode = "daemon" /\ pc = "configure") => prctx = {}
  /\ pc \in {"configure", "pid", "clock", "stopped", "launch", "barrier", "loop"} => next = 1
  /\ pc = "prctx" => prctx = {plugins[i] : i \in {j \in DOMAIN plugins : j < next}}
  /\ pc \in {"launch", "barrier", "loop"} => prctx = ToSet(plugins)
  /\ (pc \in {"prctx", "stopped", "launch", "barrier", "loop", "dead"} \/ clk.at # "off") =>
       clk.cur \in [Kinds -> Buffers]

(* An entry of sched_list and its worker agree while the process lives.    *)
EntryInv ==
  /\ Alive => \A i \in DOMAIN slots :
       /\ slots[i].w \in Workers => wk[slots[i].w].st \notin {"none", "created", "failed"}
       /\ slots[i].ready => slots[i].w \in Workers /\ wk[slots[i].w].st \in Serving
  /\ \A i, j \in DOMAIN slots :
       slots[i].w \in Workers /\ slots[i].w = slots[j].w => i = j
  /\ \A i \in DOMAIN slots : i >= wid => slots[i].w = None
  /\ \A w \in Workers : wk[w].st \in SetUp => wk[w].data = ToSet(plugins)

(* The states of the clock, and that what it has published is whole.       *)
Texts       == [Kinds -> [Buffers -> {"empty", "whole", "torn"}]]
ClockStates == [at : {"off", "sleep", "log", "header"}, cur : [Kinds -> 0 .. 2], text : Texts]
Whole == \A k \in Kinds : clk.cur[k] \in Buffers => clk.text[k][clk.cur[k]] = "whole"

(* The published buffer is whole, and a date that was not overtaken is in  *)
(* the published buffer.                                                   *)
DateInv ==
  /\ Whole
  /\ \A w \in Workers : wk[w].date.kind \in Kinds =>
       /\ wk[w].date.buf = clk.cur[wk[w].date.kind]
       /\ clk.cur[wk[w].date.kind] \in Buffers
  /\ \A w \in Workers : wk[w].st # "none" => clk.cur \in [Kinds -> Buffers]

(* Once it accepts clients every worker has reported.                      *)
LoopInv == pc = "loop" => \A i \in DOMAIN slots : slots[i].ready

(* The inductive invariant; LoopInv is inductive relative to it.           *)
IInv == Types /\ MainInv /\ EntryInv /\ DateInv

(* A leaf goes to Zenon first; one that needs arithmetic names SMT.        *)
USE ZenonT(10), SMTT(20)

-----------------------------------------------------------------------------
(* The records                                                             *)

(* The list mk_sched_init() makes: every entry is free and not ready.      *)
LEMMA EmptyListType ==
  ASSUME NEW n \in Nat
  PROVE  /\ EmptyList(n) \in Seq(Entries)
         /\ DOMAIN EmptyList(n) = 1 .. n
         /\ \A i \in 1 .. n : EmptyList(n)[i] = [w |-> None, ready |-> FALSE]
  BY SMTT(20) DEF EmptyList, Entries

(* The number of workers is a natural number.                              *)
LEMMA NWorkersType == NWorkers \in Nat
  BY DaemonAssumption, FS_CardinalityType DEF NWorkers

(* sched_list is a list of entries.                                        *)
LEMMA EntryType ==
  ASSUME slots \in Seq(Entries)
  PROVE  /\ DOMAIN slots = 1 .. Len(slots) /\ Len(slots) \in Nat
         /\ \A i \in DOMAIN slots : slots[i] \in Entries
  BY SMTT(20)

(* What mk_sched_register_thread() and mk_epoll_init() make of an entry.   *)
LEMMA EntrySteps ==
  ASSUME NEW e \in Entries, NEW v \in Workers
  PROVE  /\ e.w \in Workers \cup {None} /\ e.ready \in BOOLEAN
         /\ [e EXCEPT !.w = v] \in Entries
         /\ [e EXCEPT !.w = v].w = v /\ [e EXCEPT !.w = v].ready = e.ready
         /\ [e EXCEPT !.ready = TRUE] \in Entries
         /\ [e EXCEPT !.ready = TRUE].w = e.w /\ [e EXCEPT !.ready = TRUE].ready = TRUE
  BY DEF Entries

(* The record of a worker that does not exist yet.                         *)
LEMMA NewWorkerType ==
  NewWorker \in WorkerRecs /\ NewWorker.data = {} /\ NewWorker.date = NoDate /\ NewWorker.st = "none"
  BY SMTT(20) DEF NewWorker, WorkerRecs, WorkerStates, Dates, NoDate, NoBuffer

(* What a step of a worker makes of its record.                            *)
LEMMA RecordSteps ==
  ASSUME NEW r \in WorkerRecs, NEW s \in WorkerStates, NEW b \in SUBSET PluginNames, NEW d \in Dates
  PROVE  /\ [r EXCEPT !.st = s] \in WorkerRecs
         /\ [r EXCEPT !.st = s].st = s
         /\ [r EXCEPT !.st = s].data = r.data
         /\ [r EXCEPT !.st = s].date = r.date
         /\ [r EXCEPT !.st = s, !.data = b] \in WorkerRecs
         /\ [r EXCEPT !.st = s, !.data = b].st = s
         /\ [r EXCEPT !.st = s, !.data = b].data = b
         /\ [r EXCEPT !.st = s, !.data = b].date = r.date
         /\ [r EXCEPT !.st = s, !.date = d] \in WorkerRecs
         /\ [r EXCEPT !.st = s, !.date = d].st = s
         /\ [r EXCEPT !.st = s, !.date = d].data = r.data
         /\ [r EXCEPT !.st = s, !.date = d].date = d
         /\ [r EXCEPT !.date = d] \in WorkerRecs
         /\ [r EXCEPT !.date = d].st = r.st
         /\ [r EXCEPT !.date = d].data = r.data
         /\ [r EXCEPT !.date = d].date = d
  BY DEF WorkerRecs

(* A step of one worker leaves the others alone.                           *)
LEMMA OneWorker ==
  ASSUME NEW v \in Workers, NEW r \in WorkerRecs, wk \in [Workers -> WorkerRecs],
         wk' = [wk EXCEPT ![v] = r]
  PROVE  /\ wk' \in [Workers -> WorkerRecs]
         /\ wk'[v] = r
         /\ \A w \in Workers : w # v => wk'[w] = wk[w]
  OBVIOUS
-----------------------------------------------------------------------------
(* The main thread                                                         *)

(* mk_sched_init() makes a list without workers.                           *)
LEMMA ConfigureKeeps ==
  ASSUME IInv, Configure
  PROVE  IInv'
<1> USE DEF PluginNames, WorkerStates, SetUp, Serving, Dates, Entries, WorkerRecs, Kinds,
            Buffers, NoBuffer, NewWorker, NoDate, OldDate, None, Early, Alive
<1>0. \/ pc' = "exited" /\ slots' = slots
      \/ /\ pc' = "load" /\ slots' \in Seq(Entries)
         /\ \A i \in DOMAIN slots' : slots'[i] = [w |-> None, ready |-> FALSE]
  BY EmptyListType, NWorkersType DEF Configure
<1>1. Types'
  BY <1>0 DEF IInv, Types, Configure, ClockTypeOK
<1>2. MainInv'
  BY <1>0 DEF IInv, Types, MainInv, Configure
<1>3. EntryInv'
  BY <1>0, DaemonAssumption, SMTT(20) DEF IInv, Types, EntryInv, MainInv, Configure
<1>4. DateInv'
  BY DEF IInv, DateInv, Whole, Configure
<1> QED BY <1>1, <1>2, <1>3, <1>4 DEF IInv

(* A line of plugins.load adds a plugin or nothing.                        *)
LEMMA LoadPluginKeeps ==
  ASSUME IInv, LoadPlugin
  PROVE  IInv'
<1> USE DEF PluginNames, WorkerStates, SetUp, Serving, Dates, Entries, WorkerRecs, Kinds,
            Buffers, NoBuffer, NewWorker, NoDate, OldDate, None, Early, Alive
<1>0. plugins' \in Seq(PluginNames)
  <2>1. LoadOrder[next] \in PluginNames
    BY DaemonAssumption, SMTT(20) DEF LoadPlugin, IInv, Types
  <2> QED BY <2>1, SMTT(20) DEF LoadPlugin, IInv, Types
<1>1. Types'
  BY <1>0, SMTT(20) DEF IInv, Types, LoadPlugin, ClockTypeOK, Goes, workerVars
<1>2. MainInv'
  BY DEF IInv, Types, MainInv, LoadPlugin, Goes, workerVars
<1>3. EntryInv'
  BY SMTT(20) DEF IInv, Types, MainInv, EntryInv, LoadPlugin, Goes, workerVars
<1>4. DateInv'
  BY DEF IInv, DateInv, Whole, LoadPlugin, workerVars
<1> QED BY <1>1, <1>2, <1>3, <1>4 DEF IInv

(* mk_socket_server() touches nothing the invariant speaks of.             *)
LEMMA ListenKeeps ==
  ASSUME IInv, Listen
  PROVE  IInv'
<1> USE DEF PluginNames, WorkerStates, SetUp, Serving, Dates, Entries, WorkerRecs, Kinds,
            Buffers, NoBuffer, NewWorker, NoDate, OldDate, None, Early, Alive
<1>1. Types'
  BY SMTT(20) DEF IInv, Types, Listen, workerVars, ClockTypeOK
<1>2. MainInv'
  BY DEF IInv, Types, MainInv, Listen, workerVars
<1>3. EntryInv'
  BY DEF IInv, EntryInv, Listen, workerVars, MainInv
<1>4. DateInv'
  BY DEF IInv, DateInv, Whole, Listen, workerVars
<1> QED BY <1>1, <1>2, <1>3, <1>4 DEF IInv

(* Nor does the pid file.                                                  *)
LEMMA RegisterPidKeeps ==
  ASSUME IInv, RegisterPid
  PROVE  IInv'
<1> USE DEF PluginNames, WorkerStates, SetUp, Serving, Dates, Entries, WorkerRecs, Kinds,
            Buffers, NoBuffer, NewWorker, NoDate, OldDate, None, Early, Alive
<1>1. Types'
  BY DEF IInv, Types, RegisterPid, workerVars, ClockTypeOK
<1>2. MainInv'
  BY DEF IInv, Types, MainInv, RegisterPid, workerVars
<1>3. EntryInv'
  BY DEF IInv, EntryInv, RegisterPid, workerVars, MainInv
<1>4. DateInv'
  BY DEF IInv, DateInv, Whole, RegisterPid, workerVars
<1> QED BY <1>1, <1>2, <1>3, <1>4 DEF IInv

(* mk_clock_sequential_init() publishes both dates before a thread exists. *)
LEMMA StartClockKeeps ==
  ASSUME IInv, StartClock
  PROVE  IInv'
<1> USE DEF PluginNames, WorkerStates, SetUp, Serving, Dates, Entries, WorkerRecs, Kinds,
            Buffers, NoBuffer, NewWorker, NoDate, OldDate, None, Early, Alive
<1>1. Types'
  BY SMTT(20) DEF IInv, Types, StartClock, workerVars, ClockTypeOK, Goes, SequentialInit
<1>2. MainInv'
  BY SMTT(20) DEF IInv, Types, MainInv, StartClock, workerVars, Goes, SequentialInit
<1>3. EntryInv'
  BY DEF IInv, EntryInv, StartClock, workerVars, Goes, MainInv
<1>4. DateInv'
  BY SMTT(20) DEF IInv, DateInv, Whole, StartClock, workerVars, Goes, SequentialInit, MainInv, Types, ClockTypeOK
<1> QED BY <1>1, <1>2, <1>3, <1>4 DEF IInv

(* A process hook adds its plugin to those whose hook has run; behind the  *)
(* last one these are all plugins.                                         *)
LEMMA PrctxKeeps ==
  ASSUME IInv, Prctx
  PROVE  IInv'
<1> USE DEF PluginNames, WorkerStates, SetUp, Serving, Dates, Entries, WorkerRecs, Kinds,
            Buffers, NoBuffer, NewWorker, NoDate, OldDate, None, Early, Alive
<1>1. Types'
  BY SMTT(20) DEF IInv, Types, Prctx, ClockTypeOK, workerVars
<1>2. MainInv'
  <2>1. CASE next <= Len(plugins)
    <3>1. next \in DOMAIN plugins
      BY <2>1, SMTT(20) DEF IInv, Types
    <3>2. {plugins[i] : i \in {j \in DOMAIN plugins : j < next + 1}} =
            {plugins[i] : i \in {j \in DOMAIN plugins : j < next}} \cup {plugins[next]}
      BY <3>1, SMTT(20) DEF IInv, Types
    <3>3. prctx' = {plugins[i] : i \in {j \in DOMAIN plugins : j < next + 1}}
      BY <2>1, <3>2 DEF IInv, MainInv, Prctx
    <3>4. pc = "prctx" /\ pc' = pc /\ next' = next + 1 /\ plugins' = plugins /\ mode' = mode
          /\ UNCHANGED <<workerVars, clk>>
      BY <2>1 DEF Prctx
    <3> HIDE <2>1
    <3> QED BY <3>3, <3>4 DEF IInv, MainInv, workerVars
  <2>2. CASE ~(next <= Len(plugins))
    <3>1. {plugins[i] : i \in {j \in DOMAIN plugins : j < next}} = ToSet(plugins)
      BY <2>2, SMTT(20) DEF IInv, Types, ToSet
    <3>2. prctx' = ToSet(plugins')
      BY <2>2, <3>1 DEF IInv, MainInv, Prctx
    <3> QED BY <2>2, <3>2 DEF IInv, Types, MainInv, Prctx
  <2> QED BY <2>1, <2>2
<1>3. EntryInv'
  BY SMTT(20) DEF IInv, Types, MainInv, EntryInv, Prctx, workerVars
<1>4. DateInv'
  BY DEF IInv, DateInv, Whole, Prctx, workerVars
<1> QED BY <1>1, <1>2, <1>3, <1>4 DEF IInv

(* A worker is created behind the process hooks and the first date; it has *)
(* no entry yet.                                                           *)
LEMMA LaunchKeeps ==
  ASSUME IInv, Launch
  PROVE  IInv'
<1> USE DEF SetUp, Serving, Entries, Kinds,
            Buffers, NoBuffer, NoDate, OldDate, None, Early, Alive
<1>1. CASE todo = {}
  <2>1. Types'
    BY <1>1 DEF IInv, Types, Launch, ClockTypeOK
  <2>2. MainInv'
    BY <1>1 DEF IInv, MainInv, Launch
  <2>3. EntryInv'
    BY <1>1 DEF IInv, EntryInv, Launch
  <2>4. DateInv'
    BY <1>1 DEF IInv, DateInv, Whole, Launch
  <2> QED BY <2>1, <2>2, <2>3, <2>4 DEF IInv
<1>2. CASE todo # {}
  <2>1. PICK x \in todo, s \in {"created", "failed"} :
          wk' = [wk EXCEPT ![x] = [NewWorker EXCEPT !.st = s]] /\ todo' = todo \ {x}
    BY <1>2 DEF Launch
  <2>2. pc = "launch" /\ pc' = "launch" /\ UNCHANGED <<mode, next, plugins, prctx, wid, slots, clk>>
    BY <1>2 DEF Launch
  <2> DEFINE r == [NewWorker EXCEPT !.st = s]
  <2>3. r \in WorkerRecs /\ r.st = s /\ r.data = {} /\ r.date = NoDate
    <3>1. s \in WorkerStates
      BY DEF WorkerStates
    <3> HIDE DEF NoDate
    <3> QED BY <3>1, NewWorkerType DEF WorkerRecs
  <2> HIDE DEF r
  <2>4. /\ wk' \in [Workers -> WorkerRecs]
        /\ x \in Workers => wk'[x] = r
        /\ \A w \in Workers : w # x => wk'[w] = wk[w]
    BY <2>1, <2>3, Zenon DEF IInv, Types, r
  <2>5. Types'
    BY <2>2, <2>4 DEF IInv, Types, ClockTypeOK
  <2>6. MainInv'
    BY <2>1, <2>2, <2>3, <2>4, NewWorkerType DEF IInv, MainInv, WorkerRecs
  <2>7. EntryInv'
    <3>1. \A i \in DOMAIN slots : slots[i].w \in Workers => slots[i].w # x
      BY <2>1, <2>2, NewWorkerType, SMTT(20) DEF IInv, EntryInv, MainInv
    <3> QED BY <3>1, <2>2, <2>3, <2>4 DEF IInv, Types, EntryInv
  <2>8. DateInv'
    <3>1. clk.cur \in [Kinds -> Buffers]
      BY <2>2 DEF IInv, MainInv
    <3>2. \A w \in Workers : wk'[w].date = wk[w].date \/ wk'[w].date = NoDate
      BY <2>3, <2>4
    <3>3. Whole'
      BY <2>2 DEF IInv, DateInv, Whole
    <3>4. ASSUME NEW w \in Workers, wk'[w].date.kind \in Kinds
          PROVE  /\ wk'[w].date.buf = clk'.cur[wk'[w].date.kind]
                 /\ clk'.cur[wk'[w].date.kind] \in Buffers
      <4>1. wk'[w].date = wk[w].date
        BY <3>2, <3>4, SMTT(20) DEF NoDate, Kinds
      <4> QED BY <2>2, <3>4, <4>1 DEF IInv, DateInv
    <3>5. clk'.cur \in [Kinds -> Buffers]
      BY <2>2, <3>1
    <3> QED BY <3>3, <3>4, <3>5 DEF DateInv
  <2> QED BY <2>5, <2>6, <2>7, <2>8 DEF IInv
<1> QED BY <1>1, <1>2

(* The barrier changes nothing but where the main thread is.               *)
LEMMA BarrierKeeps ==
  ASSUME IInv, Barrier
  PROVE  IInv'
<1> USE DEF PluginNames, WorkerStates, SetUp, Serving, Dates, Entries, WorkerRecs, Kinds,
            Buffers, NoBuffer, NewWorker, NoDate, OldDate, None, Early, Alive
<1>1. Types'
  BY DEF IInv, Types, Barrier, workerVars, ClockTypeOK, Goes
<1>2. MainInv'
  BY DEF IInv, Types, MainInv, Barrier, workerVars, Goes
<1>3. EntryInv'
  BY DEF IInv, EntryInv, Barrier, workerVars, Goes
<1>4. DateInv'
  BY DEF IInv, DateInv, Whole, Barrier, workerVars, Goes
<1> QED BY <1>1, <1>2, <1>3, <1>4 DEF IInv

(* A signal ends the process, the main thread or the clock; none of them   *)
(* publishes a date or touches an entry.                                   *)
LEMMA SignalKeeps ==
  ASSUME IInv, Signal
  PROVE  IInv'
<1> USE DEF PluginNames, WorkerStates, SetUp, Serving, Dates, Entries, WorkerRecs, Kinds,
            Buffers, NoBuffer, NewWorker, NoDate, OldDate, None, Early, Alive
<1>1. CASE pc' = "exited" /\ ThreadsEnd
  <2>1. clk' = [clk EXCEPT !.at = "off"] /\ UNCHANGED <<mode, next, plugins, prctx, wid, slots>>
        /\ wk' = [w \in Workers |-> NewWorker]
    BY <1>1 DEF Signal, ThreadsEnd
  <2>2. Types'
    <3>1. wk' \in [Workers -> WorkerRecs]
      BY <2>1, NewWorkerType
    <3> HIDE DEF WorkerRecs, NewWorker
    <3>2. ClockTypeOK'
      BY <2>1 DEF IInv, Types, ClockTypeOK
    <3> QED BY <1>1, <2>1, <3>1, <3>2 DEF IInv, Types
  <2>3. clk'.cur = clk.cur /\ clk'.text = clk.text
    BY <2>1 DEF IInv, Types, ClockTypeOK
  <2>4. MainInv'
    BY <1>1, <2>1, <2>3, SMTT(20) DEF IInv, MainInv
  <2>5. EntryInv'
    BY <1>1, <2>1 DEF IInv, EntryInv
  <2>6. DateInv'
    BY <1>1, <2>1, <2>3 DEF IInv, DateInv, Whole
  <2> QED BY <2>2, <2>4, <2>5, <2>6 DEF IInv
<1>2. CASE pc' = "dead" /\ UNCHANGED <<clk, workerVars>> /\ clk.at # "off"
  <2>1. UNCHANGED <<mode, next, plugins, prctx, wid, slots, wk, clk>> /\ pc # "exited"
    BY <1>2 DEF Signal, workerVars
  <2>2. Types'
    BY <1>2, <2>1 DEF IInv, Types, ClockTypeOK
  <2>3. MainInv'
    BY <1>2, <2>1 DEF IInv, MainInv
  <2>4. EntryInv'
    BY <1>2, <2>1 DEF IInv, EntryInv
  <2>5. DateInv'
    BY <2>1 DEF IInv, DateInv, Whole
  <2> QED BY <2>2, <2>3, <2>4, <2>5 DEF IInv
<1>3. CASE clk' = [clk EXCEPT !.at = "off"] /\ pc' = pc /\ UNCHANGED workerVars
  <2>1. UNCHANGED <<mode, next, plugins, prctx, wid, slots, wk, todo, pc>>
    BY <1>3 DEF Signal, workerVars
  <2>2. Types'
    BY <1>3, <2>1 DEF IInv, Types, ClockTypeOK
  <2>3. clk'.cur = clk.cur /\ clk'.text = clk.text /\ clk'.at = "off"
    BY <1>3 DEF IInv, Types, ClockTypeOK
  <2>4. MainInv'
    BY <2>1, <2>3 DEF IInv, MainInv
  <2>5. EntryInv'
    BY <2>1 DEF IInv, EntryInv
  <2>6. DateInv'
    BY <2>1, <2>3 DEF IInv, DateInv, Whole
  <2> QED BY <2>2, <2>4, <2>5, <2>6 DEF IInv
<1> QED BY <1>1, <1>2, <1>3 DEF Signal
-----------------------------------------------------------------------------
(* The library                                                             *)

(* mklib_init() sets the date and makes a list without workers.            *)
LEMMA LibInitKeeps ==
  ASSUME IInv, LibInit
  PROVE  IInv'
<1> USE DEF Early, Alive
<1>a. /\ mode = "library" /\ pc = "configure" /\ prctx' = {} /\ next' = 1
      /\ UNCHANGED <<mode, wid, wk, todo>>
  BY DEF LibInit
<1>b. \A w \in Workers : wk[w] = NewWorker
  BY <1>a DEF IInv, MainInv
<1>c. \A w \in Workers : wk'[w] = NewWorker
  BY <1>a, <1>b
<1>1. CASE pc' = "exited" /\ UNCHANGED <<plugins, slots, clk>>
  <2>1. Types'
    BY <1>1, <1>a, SMTT(20) DEF IInv, Types, ClockTypeOK
  <2>2. MainInv'
    BY <1>1, <1>a DEF IInv, MainInv
  <2>3. EntryInv'
    BY <1>1, <1>a DEF IInv, EntryInv
  <2>4. DateInv'
    BY <1>1, <1>a DEF IInv, DateInv, Whole
  <2> QED BY <2>1, <2>2, <2>3, <2>4 DEF IInv
<1>2. CASE /\ pc' = "stopped" /\ plugins' = <<"liana">> /\ SequentialInit
           /\ slots' = EmptyList(1)
  <2>a. /\ slots' \in Seq(Entries)
        /\ \A i \in DOMAIN slots' : slots'[i] = [w |-> None, ready |-> FALSE]
    BY <1>2, EmptyListType
  <2>b. plugins' \in Seq(PluginNames)
    BY <1>2, SMTT(20) DEF PluginNames
  <2>c. ClockTypeOK' /\ Whole' /\ clk'.cur \in [Kinds -> Buffers]
    BY <1>2, SMTT(20) DEF SequentialInit, ClockTypeOK, Whole, Kinds, Buffers
  <2>1. Types'
    BY <1>2, <1>a, <2>a, <2>b, <2>c, SMTT(20) DEF IInv, Types
  <2>2. MainInv'
    BY <1>2, <1>a, <1>c, <2>a, <2>c DEF MainInv
  <2>3. EntryInv'
    BY <1>c, <2>a, NewWorkerType, DaemonAssumption, SMTT(20) DEF EntryInv, None, SetUp
  <2>4. DateInv'
    BY <1>c, <2>c, NewWorkerType, SMTT(20) DEF DateInv, NoDate, Kinds
  <2> QED BY <2>1, <2>2, <2>3, <2>4 DEF IInv
<1> QED BY <1>1, <1>2 DEF LibInit

(* MKC_WORKERS replaces the list before a worker exists.                   *)
LEMMA LibConfigKeeps ==
  ASSUME IInv, LibConfig
  PROVE  IInv'
<1> USE DEF Early, Alive
<1>0. /\ slots' \in Seq(Entries)
      /\ \A i \in DOMAIN slots' : slots'[i] = [w |-> None, ready |-> FALSE]
  <2>1. PICK n \in 1 .. NWorkers : slots' = EmptyList(n)
    BY DEF LibConfig
  <2> QED BY <2>1, NWorkersType, EmptyListType, SMTT(20)
<1>a. pc = "stopped" /\ UNCHANGED <<mode, pc, next, plugins, prctx, wid, wk, todo, clk>>
  BY DEF LibConfig, mainVars
<1>1. Types'
  BY <1>0, <1>a DEF IInv, Types, ClockTypeOK
<1>2. MainInv'
  BY <1>0, <1>a DEF IInv, MainInv
<1>3. EntryInv'
  <2>1. \A w \in Workers : wk'[w] = NewWorker
    BY <1>a DEF IInv, MainInv
  <2> QED BY <1>0, <2>1, NewWorkerType, DaemonAssumption, SMTT(20) DEF EntryInv, None, SetUp
<1>4. DateInv'
  BY <1>a DEF IInv, DateInv, Whole
<1> QED BY <1>1, <1>2, <1>3, <1>4 DEF IInv

(* mklib_start() goes on to the process hooks.                             *)
LEMMA LibStartKeeps ==
  ASSUME IInv, LibStart
  PROVE  IInv'
<1> USE DEF Early, Alive
<1>a. /\ pc = "stopped" /\ pc' = "prctx"
      /\ UNCHANGED <<mode, next, plugins, prctx, wid, slots, wk, todo, clk>>
  BY DEF LibStart, Goes, workerVars
<1>b. next = 1 /\ prctx = {}
  BY <1>a DEF IInv, MainInv
<1>c. {plugins[i] : i \in {j \in DOMAIN plugins : j < next}} = {}
  BY <1>b, SMTT(20) DEF IInv, Types
<1>1. Types'
  BY <1>a DEF IInv, Types, ClockTypeOK
<1>2. MainInv'
  BY <1>a, <1>b, <1>c DEF IInv, MainInv
<1>3. EntryInv'
  BY <1>a DEF IInv, EntryInv
<1>4. DateInv'
  BY <1>a DEF IInv, DateInv, Whole
<1> QED BY <1>1, <1>2, <1>3, <1>4 DEF IInv

(* mklib_stop() ends the workers and drops the plugins and the list.       *)
LEMMA LibStopKeeps ==
  ASSUME IInv, LibStop
  PROVE  IInv'
<1>a. /\ mode = "library" /\ pc = "loop" /\ pc' = "configure"
      /\ UNCHANGED <<mode, next, prctx, wid, todo, clk>>
  BY DEF LibStop, Goes
<1>b. plugins' \in Seq(PluginNames) /\ slots' \in Seq(Entries) /\ DOMAIN slots' = {}
  BY SMTT(20) DEF LibStop
<1>c. wk' \in [Workers -> WorkerRecs] /\ \A w \in Workers : wk'[w] = NewWorker
  BY NewWorkerType DEF LibStop
<1>1. Types'
  BY <1>a, <1>b, <1>c DEF IInv, Types, ClockTypeOK
<1>2. MainInv'
  BY <1>a, <1>b, <1>c DEF IInv, MainInv
<1>3. EntryInv'
  BY <1>b, <1>c, NewWorkerType DEF EntryInv, SetUp
<1>4. DateInv'
  <2>1. Whole'
    BY <1>a DEF IInv, DateInv, Whole
  <2>2. \A w \in Workers : wk'[w].date.kind \notin Kinds /\ wk'[w].st = "none"
    BY <1>c, SMTT(20) DEF NewWorker, NoDate, Kinds
  <2> QED BY <2>1, <2>2 DEF DateInv
<1> QED BY <1>1, <1>2, <1>3, <1>4 DEF IInv
-----------------------------------------------------------------------------
(* The workers                                                             *)

(* A worker that exists is not one the main thread is still to create.     *)
LEMMA WorkerExists ==
  ASSUME IInv, NEW v \in Workers, wk[v].st # "none"
  PROVE  pc \notin Early /\ (pc = "launch" => v \notin todo)
  BY NewWorkerType DEF IInv, MainInv

(* A worker registers in the entry wid, which was free, and in no other.   *)
LEMMA WorkerRegistersKeeps ==
  ASSUME IInv, NEW v \in Workers, WorkerRegisters(v)
  PROVE  IInv'
<1> USE DEF SetUp, Serving, Entries, Kinds, Buffers, None, Early, Alive
<1> DEFINE r == [wk[v] EXCEPT !.st = "registered"]
<1>a. /\ wk[v].st = "created" /\ Alive
      /\ wk' = [wk EXCEPT ![v] = r]
      /\ UNCHANGED <<mode, pc, next, plugins, prctx, todo, clk>>
  BY DEF WorkerRegisters, mainVars
<1>b. r \in WorkerRecs /\ r.st = "registered" /\ r.data = wk[v].data /\ r.date = wk[v].date
  BY DEF IInv, Types, WorkerRecs, WorkerStates
<1>c. /\ wk' \in [Workers -> WorkerRecs] /\ wk'[v] = r
      /\ \A w \in Workers : w # v => wk'[w] = wk[w]
  BY <1>a, <1>b, OneWorker DEF IInv, Types
<1> HIDE DEF r
<1>d. /\ slots' \in Seq(Entries) /\ DOMAIN slots' = DOMAIN slots
      /\ \A i \in DOMAIN slots : slots'[i].ready => slots[i].ready
      /\ \A i \in DOMAIN slots : slots'[i].w = IF i = wid THEN v ELSE slots[i].w
  <2> HIDE DEF Entries
  <2>1. DOMAIN slots = 1 .. Len(slots) /\ Len(slots) \in Nat /\ \A i \in DOMAIN slots : slots[i] \in Entries
    BY EntryType DEF IInv, Types
  <2>2. CASE wid \in DOMAIN slots
    <3> DEFINE e == [slots[wid] EXCEPT !.w = v]
    <3>1. e \in Entries /\ e.w = v /\ (e.ready => slots[wid].ready)
      <4>1. slots[wid] \in Entries
        BY <2>1, <2>2
      <4> QED BY <4>1 DEF Entries
    <3>2. slots' = [slots EXCEPT ![wid] = e]
      BY <2>2 DEF WorkerRegisters
    <3> HIDE DEF e
    <3>3. slots' \in [1 .. Len(slots) -> Entries]
      BY <2>1, <2>2, <3>1, <3>2
    <3>4. slots' \in Seq(Entries)
      BY <2>1, <3>3, SMTT(20)
    <3>5. \A i \in DOMAIN slots : slots'[i] = IF i = wid THEN e ELSE slots[i]
      BY <3>2
    <3> QED BY <2>1, <3>1, <3>3, <3>4, <3>5
  <2>3. CASE wid \notin DOMAIN slots
    BY <2>3 DEF WorkerRegisters, IInv, Types
  <2> QED BY <2>2, <2>3
<1>e. pc \notin Early /\ (pc = "launch" => v \notin todo)
  BY <1>a, WorkerExists
<1>f. \A i \in DOMAIN slots : slots[i].w # v /\ (slots[i].ready => i # wid)
  <2>1. \A i \in DOMAIN slots : slots[i].w # v
    BY <1>a DEF IInv, EntryInv
  <2>2. \A i \in DOMAIN slots : slots[i].ready => slots[i].w \in Workers
    BY <1>a DEF IInv, EntryInv
  <2>3. \A i \in DOMAIN slots : i = wid => slots[i].w = None
    BY SMTT(20) DEF IInv, Types, EntryInv
  <2>4. None \notin Workers
    BY DaemonAssumption DEF None
  <2>5. \A i \in DOMAIN slots : slots[i].ready => i # wid
    BY <2>2, <2>3, <2>4
  <2> QED BY <2>1, <2>5
<1>1. Types'
  BY <1>a, <1>c, <1>d, SMTT(20) DEF IInv, Types, ClockTypeOK, WorkerRegisters
<1>2. MainInv'
  BY <1>a, <1>c, <1>e DEF IInv, MainInv
<1>3. EntryInv'
  <2> HIDE DEF Entries
  <2>1. \A i \in DOMAIN slots' :
          slots'[i].w \in Workers => wk'[slots'[i].w].st \notin {"none", "created", "failed"}
    BY <1>a, <1>b, <1>c, <1>d, <1>f DEF IInv, EntryInv
  <2>2. \A i \in DOMAIN slots' :
          slots'[i].ready => slots'[i].w \in Workers /\ wk'[slots'[i].w].st \in Serving
    <3> SUFFICES ASSUME NEW i \in DOMAIN slots', slots'[i].ready
                 PROVE  slots'[i].w \in Workers /\ wk'[slots'[i].w].st \in Serving
      OBVIOUS
    <3>1. \/ slots'[i].w = slots[i].w /\ slots[i].ready
          \/ slots'[i].w = slots[i].w /\ slots[i].w = v /\ wk'[v].st = "idle"
      BY <1>b, <1>c, <1>d, <1>f
    <3>2. slots[i].ready => slots[i].w \in Workers /\ wk[slots[i].w].st \in Serving
      BY <1>a, <1>d DEF IInv, EntryInv
    <3> QED BY <1>a, <1>b, <1>c, <3>1, <3>2
  <2>3. \A i, j \in DOMAIN slots' :
          slots'[i].w \in Workers /\ slots'[i].w = slots'[j].w => i = j
    BY <1>d, <1>f DEF IInv, EntryInv
  <2>4. \A i \in DOMAIN slots' : i >= wid' => slots'[i].w = None
    BY <1>a, <1>d, SMTT(20) DEF IInv, Types, EntryInv, WorkerRegisters
  <2>5. \A w \in Workers : wk'[w].st \in SetUp => wk'[w].data = ToSet(plugins')
    BY <1>a, <1>b, <1>c DEF IInv, EntryInv
  <2> QED BY <2>1, <2>2, <2>3, <2>4, <2>5 DEF EntryInv
<1>4. DateInv'
  BY <1>a, <1>b, <1>c DEF IInv, DateInv, Whole
<1> QED BY <1>1, <1>2, <1>3, <1>4 DEF IInv

(* mk_plugin_core_thread() gives a worker the data of every plugin.        *)
LEMMA WorkerContextKeeps ==
  ASSUME IInv, NEW v \in Workers, WorkerContext(v)
  PROVE  IInv'
<1> USE DEF SetUp, Serving, Entries, Kinds, Buffers, None, Early, Alive
<1> DEFINE r == [wk[v] EXCEPT !.st = "context", !.data = ToSet(plugins)]
<1>a. /\ wk[v].st = "registered" /\ Alive
      /\ wk' = [wk EXCEPT ![v] = r]
      /\ UNCHANGED <<mode, pc, next, plugins, prctx, wid, slots, todo, clk>>
  BY DEF WorkerContext, mainVars
<1>b. r \in WorkerRecs /\ r.st = "context" /\ r.data = ToSet(plugins) /\ r.date = wk[v].date
  <2>1. ToSet(plugins) \in SUBSET PluginNames
    BY SMTT(20) DEF IInv, Types, ToSet
  <2> QED BY <2>1 DEF IInv, Types, WorkerRecs, WorkerStates
<1>c. /\ wk' \in [Workers -> WorkerRecs] /\ wk'[v] = r
      /\ \A w \in Workers : w # v => wk'[w] = wk[w]
  BY <1>a, <1>b, OneWorker DEF IInv, Types
<1> HIDE DEF r
<1>e. pc \notin Early /\ (pc = "launch" => v \notin todo)
  BY <1>a, WorkerExists
<1>1. Types'
  BY <1>a, <1>c DEF IInv, Types, ClockTypeOK
<1>2. MainInv'
  BY <1>a, <1>c, <1>e DEF IInv, MainInv
<1>3. EntryInv'
  BY <1>a, <1>b, <1>c DEF IInv, Types, EntryInv
<1>4. DateInv'
  BY <1>a, <1>b, <1>c DEF IInv, DateInv, Whole
<1> QED BY <1>1, <1>2, <1>3, <1>4 DEF IInv

(* A worker reports in the entry it registered, behind its thread hooks.   *)
LEMMA WorkerReadyKeeps ==
  ASSUME IInv, NEW v \in Workers, WorkerReady(v)
  PROVE  IInv'
<1> USE DEF SetUp, Serving, Entries, Kinds, Buffers, None, Early, Alive
<1> DEFINE r == [wk[v] EXCEPT !.st = "idle"]
<1>a. /\ wk[v].st = "context" /\ Alive
      /\ wk' = [wk EXCEPT ![v] = r]
      /\ UNCHANGED <<mode, pc, next, plugins, prctx, wid, todo, clk>>
  BY DEF WorkerReady, mainVars
<1>b. r \in WorkerRecs /\ r.st = "idle" /\ r.data = wk[v].data /\ r.date = wk[v].date
  BY DEF IInv, Types, WorkerRecs, WorkerStates
<1>c. /\ wk' \in [Workers -> WorkerRecs] /\ wk'[v] = r
      /\ \A w \in Workers : w # v => wk'[w] = wk[w]
  BY <1>a, <1>b, OneWorker DEF IInv, Types
<1> HIDE DEF r
<1>d. /\ slots' \in Seq(Entries) /\ DOMAIN slots' = DOMAIN slots
      /\ \A i \in DOMAIN slots : slots'[i].w = slots[i].w
      /\ \A i \in DOMAIN slots : slots'[i].ready => slots[i].ready \/ slots[i].w = v
  <2> HIDE DEF Entries
  <2>2. DOMAIN slots = 1 .. Len(slots) /\ Len(slots) \in Nat /\ \A i \in DOMAIN slots : slots[i] \in Entries
    BY EntryType DEF IInv, Types
  <2>1. \A i \in DOMAIN slots :
          /\ slots[i].ready \in BOOLEAN
          /\ [slots[i] EXCEPT !.ready = TRUE] \in Entries
          /\ [slots[i] EXCEPT !.ready = TRUE].w = slots[i].w
          /\ [slots[i] EXCEPT !.ready = TRUE].ready = TRUE
    BY <2>2, EntrySteps
  <2>3. slots' = [i \in DOMAIN slots |->
                   IF slots[i].w = v THEN [slots[i] EXCEPT !.ready = TRUE] ELSE slots[i]]
    BY DEF WorkerReady
  <2>5. slots' \in [1 .. Len(slots) -> Entries]
    BY <2>1, <2>2, <2>3
  <2>6. slots' \in Seq(Entries)
    BY <2>2, <2>5, SMTT(20)
  <2>7. \A i \in DOMAIN slots : slots'[i].w = slots[i].w
    BY <2>1, <2>3
  <2>8. \A i \in DOMAIN slots : slots'[i].ready => slots[i].ready \/ slots[i].w = v
    BY <2>1, <2>2, <2>3
  <2> QED BY <2>3, <2>6, <2>7, <2>8
<1>e. pc \notin Early /\ (pc = "launch" => v \notin todo)
  BY <1>a, WorkerExists
<1>1. Types'
  BY <1>a, <1>c, <1>d DEF IInv, Types, ClockTypeOK
<1>2. MainInv'
  BY <1>a, <1>c, <1>e DEF IInv, MainInv
<1>3. EntryInv'
  <2> HIDE DEF Entries
  <2>1. \A i \in DOMAIN slots' :
          slots'[i].w \in Workers => wk'[slots'[i].w].st \notin {"none", "created", "failed"}
    BY <1>a, <1>b, <1>c, <1>d DEF IInv, EntryInv
  <2>2. \A i \in DOMAIN slots' :
          slots'[i].ready => slots'[i].w \in Workers /\ wk'[slots'[i].w].st \in Serving
    <3> SUFFICES ASSUME NEW i \in DOMAIN slots', slots'[i].ready
                 PROVE  slots'[i].w \in Workers /\ wk'[slots'[i].w].st \in Serving
      OBVIOUS
    <3>1. \/ slots'[i].w = slots[i].w /\ slots[i].ready
          \/ slots'[i].w = slots[i].w /\ slots[i].w = v /\ wk'[v].st = "idle"
      BY <1>b, <1>c, <1>d
    <3>2. slots[i].ready => slots[i].w \in Workers /\ wk[slots[i].w].st \in Serving
      BY <1>a, <1>d DEF IInv, EntryInv
    <3> QED BY <1>a, <1>b, <1>c, <3>1, <3>2
  <2>3. \A i, j \in DOMAIN slots' :
          slots'[i].w \in Workers /\ slots'[i].w = slots'[j].w => i = j
    BY <1>d DEF IInv, EntryInv
  <2>4. \A i \in DOMAIN slots' : i >= wid' => slots'[i].w = None
    BY <1>a, <1>d DEF IInv, EntryInv
  <2>5. \A w \in Workers : wk'[w].st \in SetUp => wk'[w].data = ToSet(plugins')
    BY <1>a, <1>b, <1>c DEF IInv, EntryInv
  <2> QED BY <2>1, <2>2, <2>3, <2>4, <2>5 DEF EntryInv
<1>4. DateInv'
  BY <1>a, <1>b, <1>c DEF IInv, DateInv, Whole
<1> QED BY <1>1, <1>2, <1>3, <1>4 DEF IInv

(* A worker that takes the published date gets one of the two buffers.     *)
LEMMA HoldType ==
  ASSUME IInv, NEW v \in Workers, wk[v].st # "none", NEW k \in Kinds
  PROVE  /\ Hold(k) \in Dates /\ Hold(k).kind = k /\ Hold(k).buf = clk.cur[k]
         /\ clk.cur[k] \in Buffers
  BY DEF IInv, Types, ClockTypeOK, DateInv, Whole, Hold, Dates, Kinds, Buffers

(* A worker that serves goes on serving, with a date that is published.    *)
LEMMA ServingStep ==
  ASSUME IInv, NEW v \in Workers, wk[v].st \in Serving, Alive,
         UNCHANGED <<mode, pc, next, plugins, prctx, wid, slots, todo, clk>>,
         NEW s \in Serving, NEW d \in Dates,
         d.kind \in Kinds => d.buf = clk.cur[d.kind] /\ clk.cur[d.kind] \in Buffers,
         wk' = [wk EXCEPT ![v] = [wk[v] EXCEPT !.st = s, !.date = d]]
  PROVE  IInv'
<1> USE DEF SetUp, Serving, Entries, Kinds, Buffers, None, Early, Alive
<1> DEFINE r == [wk[v] EXCEPT !.st = s, !.date = d]
<1>b. r \in WorkerRecs /\ r.st = s /\ r.data = wk[v].data /\ r.date = d
  BY DEF IInv, Types, WorkerRecs, WorkerStates
<1>c. /\ wk' \in [Workers -> WorkerRecs] /\ wk'[v] = r
      /\ \A w \in Workers : w # v => wk'[w] = wk[w]
  BY <1>b, OneWorker DEF IInv, Types
<1> HIDE DEF r
<1>e. pc \notin Early /\ (pc = "launch" => v \notin todo)
  BY WorkerExists
<1>1. Types'
  BY <1>c DEF IInv, Types, ClockTypeOK
<1>2. MainInv'
  BY <1>c, <1>e DEF IInv, MainInv
<1>3. EntryInv'
  BY <1>b, <1>c DEF IInv, Types, EntryInv
<1>4. DateInv'
  BY <1>b, <1>c DEF IInv, DateInv, Whole
<1> QED BY <1>1, <1>2, <1>3, <1>4 DEF IInv

(* An answer takes the published header date.                              *)
LEMMA WorkerAnswersKeeps ==
  ASSUME IInv, NEW v \in Workers, WorkerAnswers(v)
  PROVE  IInv'
<1>1. wk' = [wk EXCEPT ![v] = [wk[v] EXCEPT !.st = "answer", !.date = Hold("header")]]
      /\ wk[v].st \in Serving /\ Alive /\ "answer" \in Serving
      /\ UNCHANGED <<mode, pc, next, plugins, prctx, wid, slots, todo, clk>>
  BY DEF WorkerAnswers, mainVars, Serving, Alive
<1>2. /\ Hold("header") \in Dates /\ Hold("header").kind = "header"
      /\ Hold("header").buf = clk.cur["header"] /\ clk.cur["header"] \in Buffers
  BY <1>1, HoldType DEF Kinds, Serving
<1> QED BY <1>1, <1>2, ServingStep

(* A line takes the published log date; without a line no date is held.    *)
LEMMA WorkerSentKeeps ==
  ASSUME IInv, NEW v \in Workers, WorkerSent(v)
  PROVE  IInv'
<1>1. /\ wk[v].st \in Serving /\ Alive /\ "idle" \in Serving /\ "line" \in Serving
      /\ UNCHANGED <<mode, pc, next, plugins, prctx, wid, slots, todo, clk>>
  BY DEF WorkerSent, mainVars, Serving
<1>2. CASE wk' = [wk EXCEPT ![v].st = "idle", ![v].date = NoDate]
  <2>1. wk' = [wk EXCEPT ![v] = [wk[v] EXCEPT !.st = "idle", !.date = NoDate]]
    BY <1>2
  <2>2. NoDate \in Dates /\ NoDate.kind \notin Kinds
    BY SMTT(20) DEF NoDate, Dates, NoBuffer, Kinds
  <2> QED BY <1>1, <2>1, <2>2, ServingStep
<1>3. CASE wk' = [wk EXCEPT ![v].st = "line", ![v].date = Hold("log")]
  <2>1. wk' = [wk EXCEPT ![v] = [wk[v] EXCEPT !.st = "line", !.date = Hold("log")]]
    BY <1>3
  <2>2. /\ Hold("log") \in Dates /\ Hold("log").kind = "log"
        /\ Hold("log").buf = clk.cur["log"] /\ clk.cur["log"] \in Buffers
    BY <1>1, HoldType DEF Kinds, Serving
  <2> QED BY <1>1, <2>1, <2>2, ServingStep
<1> QED BY <1>2, <1>3 DEF WorkerSent

(* A written line holds no date any more.                                  *)
LEMMA WorkerLogsKeeps ==
  ASSUME IInv, NEW v \in Workers, WorkerLogs(v)
  PROVE  IInv'
<1>1. wk' = [wk EXCEPT ![v] = [wk[v] EXCEPT !.st = "idle", !.date = NoDate]]
      /\ wk[v].st \in Serving /\ Alive /\ "idle" \in Serving
      /\ UNCHANGED <<mode, pc, next, plugins, prctx, wid, slots, todo, clk>>
  BY DEF WorkerLogs, mainVars, Serving
<1>2. NoDate \in Dates /\ NoDate.kind \notin Kinds
  BY SMTT(20) DEF NoDate, Dates, NoBuffer, Kinds
<1> QED BY <1>1, <1>2, ServingStep
-----------------------------------------------------------------------------
(* The clock and the logger                                                *)

(* Writing one buffer leaves the others alone.                             *)
LEMMA TextStep ==
  ASSUME NEW t \in Texts, NEW k \in Kinds, NEW b \in Buffers, NEW x \in {"empty", "whole", "torn"},
         NEW u, u = [t EXCEPT ![k][b] = x]
  PROVE  /\ u \in Texts
         /\ u[k][b] = x
         /\ \A l \in Kinds, c \in Buffers : l # k \/ c # b => u[l][c] = t[l][c]
  BY DEF Texts

(* _next_buffer() is one of the two buffers and not the published one.     *)
LEMMA NextBufferType ==
  ASSUME NEW k
  PROVE  NextBuffer(k) \in Buffers /\ NextBuffer(k) # clk.cur[k]
  BY SMTT(20) DEF NextBuffer, Buffers

(* The fields of the clock.                                                *)
LEMMA ClockFields ==
  ASSUME ClockTypeOK
  PROVE  /\ clk.at \in {"off", "sleep", "log", "header"} /\ clk.cur \in [Kinds -> 0 .. 2] /\ clk.text \in Texts
  BY DEF ClockTypeOK, Texts

(* Publishing a date ends the writing of its buffer and points to it.      *)
LEMMA PublishFields ==
  ASSUME ClockTypeOK, NEW k \in Kinds
  PROVE  /\ Publish(k) \in ClockStates
         /\ Publish(k).cur = [clk.cur EXCEPT ![k] = NextBuffer(k)]
         /\ Publish(k).text = [clk.text EXCEPT ![k][NextBuffer(k)] = "whole"]
<1> DEFINE b == NextBuffer(k)
<1> DEFINE t == [clk.text EXCEPT ![k][b] = "whole"]
<1> DEFINE c == [clk.cur EXCEPT ![k] = b]
<1>1. Publish(k) = [clk EXCEPT !.text = t, !.cur = c]
  BY DEF Publish
<1>2. b \in Buffers
  BY NextBufferType
<1> HIDE DEF b
<1>3. c \in [Kinds -> 0 .. 2] /\ t \in Texts
  <2>1. c \in [Kinds -> 0 .. 2]
    BY <1>2, ClockFields, SMTT(20) DEF Buffers
  <2>2. t \in Texts
    BY <1>2, ClockFields, TextStep, SMTT(20)
  <2> QED BY <2>1, <2>2
<1>4. clk \in ClockStates
  BY DEF ClockTypeOK, ClockStates, Texts
<1> HIDE DEF t, c
<1>5. /\ [clk EXCEPT !.text = t, !.cur = c] \in ClockStates
      /\ [clk EXCEPT !.text = t, !.cur = c].cur = c
      /\ [clk EXCEPT !.text = t, !.cur = c].text = t
  BY <1>3, <1>4 DEF ClockStates
<1>6. Publish(k) \in ClockStates /\ Publish(k).cur = c /\ Publish(k).text = t
  BY <1>1, <1>5
<1> QED BY <1>6 DEF t, c, b

(* A tick tears the log buffer that is not published.                      *)
LEMMA WakesFields ==
  ASSUME ClockTypeOK, ClockWakes
  PROVE  /\ clk' \in ClockStates
         /\ clk'.cur = clk.cur
         /\ clk'.text = [clk.text EXCEPT !["log"][NextBuffer("log")] = "torn"]
<1> DEFINE t == [clk.text EXCEPT !["log"][NextBuffer("log")] = "torn"]
<1>1. clk' = [clk EXCEPT !.at = "log", !.text = t]
  BY DEF ClockWakes, Tear
<1>2. t \in Texts
  BY ClockFields, NextBufferType, TextStep, SMTT(20) DEF Kinds
<1>3. clk \in ClockStates
  BY DEF ClockTypeOK, ClockStates, Texts
<1> HIDE DEF t
<1>4. clk' \in ClockStates /\ clk'.cur = clk.cur /\ clk'.text = t
  BY <1>1, <1>2, <1>3 DEF ClockStates
<1> QED BY <1>4 DEF t

(* mk_clock_log_set_time() publishes; then the other header buffer is      *)
(* torn.                                                                   *)
LEMMA SetsLogFields ==
  ASSUME ClockTypeOK, ClockSetsLog
  PROVE  /\ clk' \in ClockStates
         /\ clk'.cur = [clk.cur EXCEPT !["log"] = NextBuffer("log")]
         /\ clk'.text = [[clk.text EXCEPT !["log"][NextBuffer("log")] = "whole"]
                           EXCEPT !["header"][NextBuffer("header")] = "torn"]
<1> DEFINE p == Publish("log")
<1> DEFINE t == [p.text EXCEPT !["header"][NextBuffer("header")] = "torn"]
<1>1. clk' = [p EXCEPT !.at = "header", !.text = t]
  BY DEF ClockSetsLog
<1>2. /\ p \in ClockStates /\ p.text \in Texts
      /\ p.cur = [clk.cur EXCEPT !["log"] = NextBuffer("log")]
      /\ p.text = [clk.text EXCEPT !["log"][NextBuffer("log")] = "whole"]
  BY PublishFields DEF Kinds, ClockStates
<1>3. NextBuffer("header") \in Buffers
  BY NextBufferType
<1> HIDE DEF p
<1>4. t \in Texts
  <2>1. "header" \in Kinds /\ "torn" \in {"empty", "whole", "torn"}
    BY DEF Kinds
  <2>2. t = [p.text EXCEPT !["header"][NextBuffer("header")] = "torn"]
    OBVIOUS
  <2> HIDE DEF t
  <2> QED BY <1>2, <1>3, <2>1, <2>2, TextStep, SMTT(20)
<1> HIDE DEF t
<1>5. clk' \in ClockStates /\ clk'.cur = p.cur /\ clk'.text = t
  BY <1>1, <1>2, <1>4 DEF ClockStates
<1> QED BY <1>2, <1>5 DEF t

(* mk_clock_header_set_time() publishes.                                   *)
LEMMA SetsHeaderFields ==
  ASSUME ClockTypeOK, ClockSetsHeader
  PROVE  /\ clk' \in ClockStates
         /\ clk'.cur = [clk.cur EXCEPT !["header"] = NextBuffer("header")]
         /\ clk'.text = [clk.text EXCEPT !["header"][NextBuffer("header")] = "whole"]
<1> DEFINE p == Publish("header")
<1>1. clk' = [p EXCEPT !.at = "sleep"]
  BY DEF ClockSetsHeader
<1>2. /\ p \in ClockStates
      /\ p.cur = [clk.cur EXCEPT !["header"] = NextBuffer("header")]
      /\ p.text = [clk.text EXCEPT !["header"][NextBuffer("header")] = "whole"]
  BY PublishFields DEF Kinds
<1> HIDE DEF p
<1>3. clk' \in ClockStates /\ clk'.cur = p.cur /\ clk'.text = p.text
  BY <1>1, <1>2 DEF ClockStates
<1> QED BY <1>2, <1>3

(* Whatever the clock does, what is published is whole, and it points      *)
(* elsewhere only in the step that publishes.                              *)
LEMMA ClockStep ==
  ASSUME ClockTypeOK, Whole, ClockWakes \/ ClockSetsLog \/ ClockSetsHeader
  PROVE  /\ ClockTypeOK'
         /\ clk.at # "off"
         /\ Whole'
         /\ clk.cur \in [Kinds -> Buffers] => clk'.cur \in [Kinds -> Buffers]
         /\ ClockWakes => clk'.cur = clk.cur
         /\ ClockSetsLog => clk'.cur["header"] = clk.cur["header"]
         /\ ClockSetsHeader => clk'.cur["log"] = clk.cur["log"]
<1>0. /\ clk.cur \in [Kinds -> 0 .. 2] /\ clk.text \in Texts
      /\ \A k \in Kinds : NextBuffer(k) \in Buffers /\ NextBuffer(k) # clk.cur[k]
  BY ClockFields, NextBufferType
<1>1. CASE ClockWakes
  <2>1. ClockTypeOK' /\ clk.at = "sleep" /\ clk'.cur = clk.cur
    BY <1>1, WakesFields DEF ClockTypeOK, ClockStates, Texts, ClockWakes
  <2>2. Whole'
    <3>1. /\ \A c \in Buffers : clk'.text["header"][c] = clk.text["header"][c]
          /\ \A c \in Buffers : c # NextBuffer("log") => clk'.text["log"][c] = clk.text["log"][c]
      BY <1>0, <1>1, WakesFields, TextStep, SMTT(20) DEF Kinds
    <3> QED BY <1>0, <2>1, <3>1 DEF Whole, Kinds
  <2> QED BY <2>1, <2>2 DEF ClockSetsLog, ClockSetsHeader
<1>2. CASE ClockSetsLog
  <2>1. ClockTypeOK' /\ clk.at = "log"
    BY <1>2, SetsLogFields DEF ClockTypeOK, ClockStates, Texts, ClockSetsLog
  <2>2. clk'.cur["header"] = clk.cur["header"] /\ clk'.cur["log"] = NextBuffer("log")
        /\ (clk.cur \in [Kinds -> Buffers] => clk'.cur \in [Kinds -> Buffers])
    BY <1>0, <1>2, SetsLogFields DEF Kinds
  <2>3. Whole'
    <3> DEFINE t == [clk.text EXCEPT !["log"][NextBuffer("log")] = "whole"]
    <3>1. t \in Texts /\ t["log"][NextBuffer("log")] = "whole"
          /\ \A c \in Buffers : t["header"][c] = clk.text["header"][c]
      <4>1. "log" \in Kinds /\ "header" \in Kinds /\ "log" # "header"
        BY DEF Kinds
      <4>2. t = [clk.text EXCEPT !["log"][NextBuffer("log")] = "whole"]
        OBVIOUS
      <4> HIDE DEF t
      <4> QED BY <1>0, <4>1, <4>2, TextStep, SMTT(20)
    <3>2. clk'.text = [t EXCEPT !["header"][NextBuffer("header")] = "torn"]
      BY <1>2, SetsLogFields
    <3> HIDE DEF t
    <3>3. /\ \A c \in Buffers : clk'.text["log"][c] = t["log"][c]
          /\ \A c \in Buffers : c # NextBuffer("header") => clk'.text["header"][c] = t["header"][c]
      BY <1>0, <3>1, <3>2, TextStep, SMTT(20) DEF Kinds
    <3>4. clk'.text["log"][clk'.cur["log"]] = "whole"
      BY <1>0, <2>2, <3>1, <3>3 DEF Kinds
    <3>5. clk'.cur["header"] \in Buffers => clk'.text["header"][clk'.cur["header"]] = "whole"
      BY <1>0, <2>2, <3>1, <3>3 DEF Whole, Kinds
    <3> QED BY <3>4, <3>5 DEF Whole, Kinds
  <2> QED BY <2>1, <2>2, <2>3 DEF ClockWakes, ClockSetsHeader
<1>3. CASE ClockSetsHeader
  <2>1. ClockTypeOK' /\ clk.at = "header"
    BY <1>3, SetsHeaderFields DEF ClockTypeOK, ClockStates, Texts, ClockSetsHeader
  <2>2. clk'.cur["log"] = clk.cur["log"] /\ clk'.cur["header"] = NextBuffer("header")
        /\ (clk.cur \in [Kinds -> Buffers] => clk'.cur \in [Kinds -> Buffers])
    BY <1>0, <1>3, SetsHeaderFields DEF Kinds
  <2>3. Whole'
    <3>1. /\ \A c \in Buffers : clk'.text["log"][c] = clk.text["log"][c]
          /\ clk'.text["header"][NextBuffer("header")] = "whole"
      BY <1>0, <1>3, SetsHeaderFields, TextStep, SMTT(20) DEF Kinds
    <3> QED BY <1>0, <2>2, <3>1 DEF Whole, Kinds
  <2> QED BY <2>1, <2>2, <2>3 DEF ClockWakes, ClockSetsLog
<1> QED BY <1>1, <1>2, <1>3

(* A worker whose date is overtaken keeps all else.                        *)
LEMMA OvertakenFields ==
  ASSUME IInv, NEW k \in Kinds, wk' = Overtaken(k)
  PROVE  /\ wk' \in [Workers -> WorkerRecs]
         /\ \A w \in Workers : wk'[w].st = wk[w].st /\ wk'[w].data = wk[w].data
         /\ \A w \in Workers : wk'[w].date.kind \in Kinds => wk'[w] = wk[w] /\ wk[w].date.kind # k
         /\ \A w \in Workers : wk[w] = NewWorker => wk'[w] = NewWorker
<1>1. OldDate \in Dates /\ OldDate.kind \notin Kinds
  BY SMTT(20) DEF OldDate, Dates, Kinds, NoBuffer
<1>2. SUFFICES ASSUME NEW w \in Workers
               PROVE  /\ wk'[w] \in WorkerRecs
                      /\ wk'[w].st = wk[w].st /\ wk'[w].data = wk[w].data
                      /\ wk'[w].date.kind \in Kinds => wk'[w] = wk[w] /\ wk[w].date.kind # k
                      /\ wk[w] = NewWorker => wk'[w] = NewWorker
  BY DEF Overtaken
<1> DEFINE r == wk[w]
<1>3. r \in WorkerRecs
  BY DEF IInv, Types
<1>4. wk'[w] = IF r.date.kind = k THEN [r EXCEPT !.date = OldDate] ELSE r
  BY DEF Overtaken
<1> HIDE DEF r
<1>5. CASE r.date.kind = k
  <2>1. wk'[w] = [r EXCEPT !.date = OldDate]
    BY <1>4, <1>5
  <2>2. wk'[w] \in WorkerRecs /\ wk'[w].st = r.st /\ wk'[w].data = r.data /\ wk'[w].date = OldDate
    BY <1>1, <1>3, <2>1 DEF WorkerRecs
  <2>3. r # NewWorker
    BY <1>5, NewWorkerType, SMTT(20) DEF NoDate, Kinds
  <2> QED BY <1>1, <2>2, <2>3 DEF r
<1>6. CASE r.date.kind # k
  BY <1>3, <1>4, <1>6 DEF r
<1> QED BY <1>5, <1>6

(* The clock overtakes the dates of the kind it publishes and no other.    *)
LEMMA ClocksKeeps ==
  ASSUME IInv, Clocks
  PROVE  IInv'
<1>a. Alive /\ UNCHANGED <<mode, pc, next, plugins, prctx, wid, slots, todo>>
  BY DEF Clocks, mainVars
<1>b. /\ ClockTypeOK' /\ Whole' /\ clk.at # "off" /\ clk.cur \in [Kinds -> Buffers]
      /\ clk'.cur \in [Kinds -> Buffers]
      /\ ClockWakes => clk'.cur = clk.cur
      /\ ClockSetsLog => clk'.cur["header"] = clk.cur["header"]
      /\ ClockSetsHeader => clk'.cur["log"] = clk.cur["log"]
  BY ClockStep DEF Clocks, IInv, Types, MainInv, DateInv
<1>c. /\ wk' \in [Workers -> WorkerRecs]
      /\ \A w \in Workers : wk'[w].st = wk[w].st /\ wk'[w].data = wk[w].data
      /\ \A w \in Workers : wk'[w].date.kind \in Kinds =>
            wk'[w] = wk[w] /\ clk'.cur[wk[w].date.kind] = clk.cur[wk[w].date.kind]
      /\ \A w \in Workers : wk[w] = NewWorker => wk'[w] = NewWorker
  <2>1. CASE ClockWakes /\ UNCHANGED wk
    BY <2>1, <1>b DEF IInv, Types
  <2>2. CASE ClockSetsLog /\ wk' = Overtaken("log")
    BY <2>2, <1>b, OvertakenFields DEF Kinds
  <2>3. CASE ClockSetsHeader /\ wk' = Overtaken("header")
    BY <2>3, <1>b, OvertakenFields DEF Kinds
  <2> QED BY <2>1, <2>2, <2>3 DEF Clocks
<1>1. Types'
  BY <1>a, <1>b, <1>c DEF IInv, Types
<1>2. MainInv'
  <2>1. pc \in Early => \A w \in Workers : wk'[w] = NewWorker
    BY <1>c DEF IInv, MainInv
  <2>2. pc = "launch" => \A w \in todo \cap Workers : wk'[w] = NewWorker
    BY <1>c DEF IInv, MainInv
  <2> QED BY <1>a, <1>b, <2>1, <2>2 DEF IInv, MainInv
<1>3. EntryInv'
  BY <1>a, <1>c DEF IInv, EntryInv, Alive
<1>4. DateInv'
  <2>1. \A w \in Workers : wk'[w].date.kind \in Kinds =>
          /\ wk'[w].date.buf = clk'.cur[wk'[w].date.kind]
          /\ clk'.cur[wk'[w].date.kind] \in Buffers
    <3> SUFFICES ASSUME NEW w \in Workers, wk'[w].date.kind \in Kinds
                 PROVE  /\ wk'[w].date.buf = clk'.cur[wk'[w].date.kind]
                        /\ clk'.cur[wk'[w].date.kind] \in Buffers
      OBVIOUS
    <3>1. wk'[w] = wk[w] /\ clk'.cur[wk[w].date.kind] = clk.cur[wk[w].date.kind]
      BY <1>c
    <3> QED BY <3>1 DEF IInv, DateInv
  <2> QED BY <1>b, <2>1 DEF DateInv
<1> QED BY <1>1, <1>2, <1>3, <1>4 DEF IInv

(* A step that leaves these variables alone keeps the invariant.           *)
LEMMA NothingChanges ==
  ASSUME IInv, UNCHANGED <<mode, pc, next, plugins, prctx, wid, slots, wk, todo, clk>>
  PROVE  IInv'
<1>1. Types'
  BY DEF IInv, Types, ClockTypeOK
<1>2. MainInv'
  BY DEF IInv, MainInv
<1>3. EntryInv'
  BY DEF IInv, EntryInv, Alive
<1>4. DateInv'
  BY DEF IInv, DateInv, Whole
<1> QED BY <1>1, <1>2, <1>3, <1>4 DEF IInv

(* The logger's thread touches only its pipes and files.                   *)
LEMMA LogThreadKeeps ==
  ASSUME IInv, LogThread
  PROVE  IInv'
<1>1. UNCHANGED <<mode, pc, next, plugins, prctx, wid, slots, wk, todo, clk>>
  BY DEF LogThread, LoggerWaits, LoggerFlushes, LoggerDrains, mainVars, workerVars
<1> QED BY <1>1, NothingChanges
-----------------------------------------------------------------------------
(* The invariant and the theorems                                          *)

(* The initial states satisfy the invariant.                               *)
LEMMA InitIInv == Init => IInv
<1> SUFFICES ASSUME Init PROVE IInv
  OBVIOUS
<1> USE DEF Init
<1>1. ClockTypeOK /\ Whole
  BY SMTT(20) DEF ClockInit, ClockTypeOK, Whole, Kinds, Buffers, NoBuffer
<1>2. wk \in [Workers -> WorkerRecs] /\ \A w \in Workers : wk[w] = NewWorker
  BY NewWorkerType
<1>3. plugins \in Seq(PluginNames) /\ slots \in Seq(Entries) /\ DOMAIN slots = {}
  BY SMTT(20)
<1>4. Types
  BY <1>1, <1>2, <1>3, SMTT(20) DEF Types
<1>5. MainInv
  BY <1>2, <1>3 DEF MainInv, Early, ClockInit
<1>6. EntryInv
  BY <1>2, <1>3, NewWorkerType DEF EntryInv, SetUp
<1>7. DateInv
  BY <1>1, <1>2, NewWorkerType, SMTT(20) DEF DateInv, NoDate, Kinds
<1> QED BY <1>4, <1>5, <1>6, <1>7 DEF IInv

(* Every step of every thread keeps the invariant.                         *)
LEMMA NextIInv ==
  ASSUME IInv, [Next]_vars
  PROVE  IInv'
<1>1. CASE Main
  BY <1>1, ConfigureKeeps, LoadPluginKeeps, ListenKeeps, RegisterPidKeeps, StartClockKeeps,
     PrctxKeeps, LaunchKeeps, BarrierKeeps DEF Main
<1>2. CASE Signal
  BY <1>2, SignalKeeps
<1>3. CASE LibInit \/ LibConfig \/ LibStart \/ LibStop
  BY <1>3, LibInitKeeps, LibConfigKeeps, LibStartKeeps, LibStopKeeps
<1>4. ASSUME NEW w \in Workers, Work(w) \/ WorkerAnswers(w)
      PROVE  IInv'
  BY <1>4, WorkerRegistersKeeps, WorkerContextKeeps, WorkerReadyKeeps, WorkerSentKeeps,
     WorkerLogsKeeps, WorkerAnswersKeeps DEF Work
<1>5. CASE Clocks
  BY <1>5, ClocksKeeps
<1>6. CASE LogThread
  BY <1>6, LogThreadKeeps
<1>7. CASE UNCHANGED vars
  BY <1>7, NothingChanges DEF vars
<1> QED BY <1>1, <1>2, <1>3, <1>4, <1>5, <1>6, <1>7 DEF Next

(* Behind the barrier no entry of sched_list is taken back: mklib_stop()   *)
(* leaves the loop, and an entry that is ready is not given away.          *)
LEMMA NextLoopInv ==
  ASSUME IInv, LoopInv, [Next]_vars
  PROVE  LoopInv'
<1> SUFFICES ASSUME pc' = "loop"
             PROVE  \A i \in DOMAIN slots' : slots'[i].ready
  BY DEF LoopInv
<1>1. CASE pc # "loop"
  <2>1. Barrier
    BY <1>1 DEF Next, Main, Configure, LoadPlugin, Listen, RegisterPid, StartClock, Prctx, Launch,
       Goes, Signal, LibInit, LibConfig, LibStart, LibStop, Work, WorkerRegisters, WorkerContext,
       WorkerReady, WorkerSent, WorkerLogs, WorkerAnswers, Clocks, LogThread, LoggerWaits,
       LoggerFlushes, LoggerDrains, vars, mainVars
  <2>2. DOMAIN slots = 1 .. Len(slots)
    BY EntryType DEF IInv, Types
  <2> QED BY <2>1, <2>2 DEF Barrier, workerVars
<1>2. CASE pc = "loop"
  <2>0. \A i \in DOMAIN slots : slots[i].ready
    BY <1>2 DEF LoopInv
  <2>1. CASE slots' = slots
    BY <2>0, <2>1
  <2>2. ASSUME NEW w \in Workers, WorkerRegisters(w)
        PROVE  slots' = slots
    <3>1. \A i \in DOMAIN slots : i < wid
      <4>1. \A i \in DOMAIN slots : slots[i].w \in Workers
        BY <2>0, <2>2 DEF IInv, EntryInv, WorkerRegisters
      <4>2. DOMAIN slots = 1 .. Len(slots) /\ Len(slots) \in Nat /\ wid \in Nat
        BY EntryType DEF IInv, Types
      <4>3. \A i \in DOMAIN slots : ~(i >= wid)
        BY <4>1, DaemonAssumption, SMTT(20) DEF IInv, EntryInv, None
      <4> QED BY <4>2, <4>3, SMTT(20)
    <3>2. wid \notin DOMAIN slots
      BY <3>1, SMTT(20) DEF IInv, Types
    <3> QED BY <2>2, <3>2 DEF WorkerRegisters
  <2>3. ASSUME NEW w \in Workers, WorkerReady(w)
        PROVE  \A i \in DOMAIN slots' : slots'[i].ready
    <3>1. slots' = [i \in DOMAIN slots |-> IF slots[i].w = w THEN [slots[i] EXCEPT !.ready = TRUE]
                                                            ELSE slots[i]]
      BY <2>3 DEF WorkerReady
    <3>2. \A i \in DOMAIN slots : slots[i] \in Entries
      BY EntryType DEF IInv, Types
    <3>3. \A i \in DOMAIN slots : [slots[i] EXCEPT !.ready = TRUE].ready
      BY <2>3, <3>2, EntrySteps
    <3> QED BY <2>0, <3>1, <3>3
  <2>4. \/ slots' = slots
        \/ \E w \in Workers : WorkerRegisters(w) \/ WorkerReady(w)
    BY <1>2 DEF Next, Main, Configure, LoadPlugin, Listen, RegisterPid, StartClock, Prctx, Launch,
       Barrier, Goes, Signal, ThreadsEnd, LibInit, LibConfig, LibStart, LibStop, Work, WorkerContext,
       WorkerSent, WorkerLogs, WorkerAnswers, Clocks, LogThread, LoggerWaits,
       LoggerFlushes, LoggerDrains, vars, workerVars
  <2> QED BY <2>1, <2>2, <2>3, <2>4
<1> QED BY <1>1, <1>2

(* The two invariants hold in every behaviour.                             *)
LEMMA InvariantHolds == Spec => [](IInv /\ LoopInv)
<1>1. Init => IInv /\ LoopInv
  BY InitIInv DEF Init, LoopInv
<1>2. IInv /\ LoopInv /\ [Next]_vars => (IInv /\ LoopInv)'
  BY NextIInv, NextLoopInv
<1> QED BY <1>1, <1>2, PTL DEF Spec

(* For any number of workers and any plugins: when main() or the library   *)
(* accepts clients, every entry of sched_list belongs to a worker of its   *)
(* own, which has run the thread hooks of all plugins, behind all process  *)
(* hooks (the barrier on initialized in main() and mklib_start()).         *)
THEOREM WorkersAreReady == Spec => []WorkersReady
<1>1. IInv /\ LoopInv => WorkersReady
  <2> SUFFICES ASSUME IInv, LoopInv, pc = "loop"
               PROVE  WorkersReady
    BY DEF WorkersReady
  <2>1. \A i \in DOMAIN slots : slots[i].w \in Workers /\ wk[slots[i].w].st \in Serving
    BY DEF IInv, EntryInv, LoopInv, Alive
  <2>2. \A i, j \in DOMAIN slots : slots[i].w = slots[j].w => i = j
    BY <2>1 DEF IInv, EntryInv
  <2>3. prctx = ToSet(plugins)
    BY DEF IInv, MainInv
  <2>4. \A i \in DOMAIN slots : wk[slots[i].w].data = prctx
    BY <2>1, <2>3 DEF IInv, EntryInv, Serving, SetUp
  <2> QED BY <2>1, <2>2, <2>3, <2>4 DEF WorkersReady, Serving
<1> QED BY <1>1, InvariantHolds, PTL

(* For any number of workers: the date a worker copies into an answer or a *)
(* log line is not being rewritten by the clock thread as long as no newer *)
(* one was published (the two buffers of mk_clock.c).                      *)
THEOREM DatesAreWhole == Spec => []DatesWhole
<1>1. IInv => DatesWhole
  BY DEF IInv, DateInv, Whole, DatesWhole
<1> QED BY <1>1, InvariantHolds, PTL

===============================================================================
