-------------------------------- MODULE Logger --------------------------------
(***************************************************************************)
(* The logger plugin (plugins/logger): workers write a line per request to *)
(* a pipe of the virtual host, one for the access log and one for errors;  *)
(* a thread moves what the pipes hold to the files, when a pipe is three   *)
(* quarters full or when the flush time has passed.                        *)
(*                                                                         *)
(* One virtual host with both logs.  A line is a number; every line is     *)
(* shorter than PIPE_BUF, so that a pipe takes it whole or not at all.     *)
(***************************************************************************)
EXTENDS Integers, Sequences, FiniteSets, SequencesExt

CONSTANTS
  NHosts,        \* config->nhosts, the events the thread asks for at once
  LineSize,      \* the size of a line of either log
  PipeCap,       \* what a pipe holds
  PipeLimit,     \* buffer_limit, three quarters of it
  FlushTimeout,  \* FlushTimeout in ticks of the clock
  MaxLines,      \* bound: lines
  MaxFails       \* bound: failures to open a log file

ASSUME LoggerAssumption ==
  /\ NHosts \in Nat \ {0} /\ LineSize \in [{"access", "error"} -> Nat \ {0}]
  /\ PipeCap \in Nat \ {0} /\ PipeLimit \in 1 .. PipeCap
  /\ FlushTimeout \in Nat \ {0} /\ MaxLines \in Nat /\ MaxFails \in Nat

Pipes == {"access", "error"}
Lines == 1 .. MaxLines

(* targets: targets_list has been initialised.  pipe and file hold lines;  *)
(* a negative number is what is left of a line whose beginning is gone.    *)
(* at: where the thread is; todo: the events of this round not looked at;  *)
(* left: timeout - clk, below zero once it has passed; ago: the ticks      *)
(* since the thread read the clock; drain: the pipe being emptied because  *)
(* its file cannot be opened, and the lines it held then.  history:        *)
(* class, the log of every line; full, the lines a full pipe refused;      *)
(* drained, the lines read away; fails, the failures so far.               *)
VARIABLE log

(* FIONREAD                                                                *)
Bytes(l, p) == LineSize[p] * Len(l.pipe[p])
Number(x) == IF x < 0 THEN -x ELSE x

LoggerInit ==
  log = [targets |-> FALSE, at |-> "off", todo |-> {}, left |-> FlushTimeout, ago |-> 0,
         drain |-> [pipe |-> "access", n |-> 0],
         pipe |-> [p \in Pipes |-> <<>>], file |-> [p \in Pipes |-> <<>>],
         class |-> <<>>, full |-> {}, drained |-> {}, fails |-> 0]

LoggerTypeOK ==
  /\ log.targets \in BOOLEAN /\ log.at \in {"off", "wait", "event", "drain"}
  /\ log.todo \subseteq Pipes /\ log.fails \in 0 .. MaxFails
  /\ log.left \in -1 .. FlushTimeout /\ log.ago \in 0 .. FlushTimeout + 1
  /\ log.class \in Seq(Pipes) /\ Len(log.class) <= MaxLines
  /\ \A p \in Pipes : Bytes(log, p) <= PipeCap
  /\ log.full \subseteq Lines /\ log.drained \subseteq Lines

(* The hook _mkp_core_prctx(): the pipes, the target and the thread.       *)
LoggerPrctx(l) == [l EXCEPT !.targets = TRUE, !.at = "wait"]

(* log_current_utime moves on, as the clock does; in the middle of a round *)
(* the thread does not notice.                                             *)
Later(left, ticks) == IF left < ticks THEN -1 ELSE left - ticks
Tick(l) == IF l.at = "wait" THEN [l EXCEPT !.left = Later(@, 1)]
                            ELSE [l EXCEPT !.ago = IF @ > FlushTimeout THEN @ ELSE @ + 1]

(* Mutant: an answer with an error goes to the access log as well.         *)
TargetAccess(c) == "access"

(* Which of the target's pipes a status belongs to.                        *)
Target(c) == c

(* Mutant: the line is put into the pipe without asking for room.          *)
Stage40Unbounded(l, c) ==
  [l EXCEPT !.class = Append(@, c), !.pipe[Target(c)] = Append(@, Len(l.class) + 1)]

(* _mkp_stage_40() sends the line; nobody looks at what mk_iov_send()      *)
(* returns.                                                                *)
Stage40(l, c) ==
  LET id == Len(l.class) + 1
      p  == Target(c)
      k  == [l EXCEPT !.class = Append(@, c)]
  IN IF Bytes(l, p) + LineSize[p] > PipeCap THEN [k EXCEPT !.full = @ \cup {id}]
                                 ELSE [k EXCEPT !.pipe[p] = Append(@, id)]

(* epoll_wait(): some of the pipes that have data, at most NHosts, and the *)
(* clock is read.                                                          *)
LoggerWait ==
  /\ log.at = "wait"
  /\ \E ready \in SUBSET {p \in Pipes : log.pipe[p] # <<>>} :
       /\ Cardinality(ready) \in 1 .. NHosts
       /\ log' = [log EXCEPT !.at = "event", !.todo = ready]

Done(l, p) ==
  IF l.todo = {p} THEN [l EXCEPT !.todo = {}, !.at = "wait", !.left = Later(@, l.ago), !.ago = 0]
                  ELSE [l EXCEPT !.todo = @ \ {p}, !.at = "event"]

(* Mutant: the file gets what the pipe holds and the pipe keeps it.        *)
SpliceKeeps(l, p) == [l EXCEPT !.file[p] = @ \o l.pipe[p]]

(* splice(): what the pipe held goes to the end of the file.               *)
Splice(l, p) == [l EXCEPT !.file[p] = @ \o l.pipe[p], !.pipe[p] = <<>>]

(* Mutant: a pipe that is not full waits for ever.                         *)
WaitingAlways(p) == Bytes(log, p) < PipeLimit

(* The pipe has room and the flush time has not passed.                    *)
Waiting(p) == Bytes(log, p) < PipeLimit /\ log.left >= 0

LoggerEvent(p) ==
  /\ log.at = "event" /\ p \in log.todo
  /\ \/ Waiting(p) /\ log' = Done(log, p)
     \/ ~Waiting(p) /\ log' = Done(Splice([log EXCEPT !.left = FlushTimeout], p), p)
     \/ /\ ~Waiting(p) /\ log.fails < MaxFails
        /\ log' = [log EXCEPT !.left = FlushTimeout, !.at = "drain", !.fails = @ + 1,
                              !.drain = [pipe |-> p, n |-> Len(log.pipe[p])]]

(* Blocks of 255 bytes are read until as much is gone as there was; what   *)
(* came in between may go too, and its last line in part.                  *)
LoggerDrain ==
  /\ log.at = "drain"
  /\ LET p == log.drain.pipe
         q == log.pipe[p]
     IN \E m \in log.drain.n .. Len(q), cut \in BOOLEAN :
          LET rest == SubSeq(q, m + 1, Len(q))
          IN /\ cut => log.drain.n < Len(q) /\ rest # <<>>
             /\ log' = Done([log EXCEPT
                  !.drain.n = 0,
                  !.pipe[p] = IF cut THEN <<-Head(rest)>> \o Tail(rest) ELSE rest,
                  !.drained = @ \cup {Number(q[i]) : i \in 1 .. m}], p)

(* The lines a log holds, in its file and behind it in its pipe.           *)
Logged(p) == log.file[p] \o log.pipe[p]

=============================================================================
