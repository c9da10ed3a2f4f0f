----------------------------- MODULE LoggerProofs -----------------------------
(***************************************************************************)
(* Proofs about the logger's part of module Daemon, for any sizes of lines *)
(* and pipes, and with it the types of the whole module.                   *)
(***************************************************************************)
EXTENDS DaemonProofs

LogStates ==
  [targets : BOOLEAN, at : {"off", "wait", "event", "drain"}, todo : SUBSET Pipes,
   left : Int, ago : Int, drain : [pipe : Pipes, n : Nat],
   pipe : [Pipes -> Seq(Int)], file : [Pipes -> Seq(Int)], class : Seq(Pipes),
   full : SUBSET Nat, drained : SUBSET Nat, fails : Nat]

(* What LogIntact says of the lines s of log p, when class gives the log   *)
(* of every line, gone the ones that may be missing, and fails is not zero *)
(* once a file could not be opened; with it that s holds lines at all.     *)
Sound(s, p, class, gone, fails) ==
  /\ \A i \in 1 .. Len(s) : /\ Number(s[i]) \in 1 .. Len(class)
                            /\ class[Number(s[i])] = p
                            /\ s[i] < 0 => fails > 0
  /\ \A i, j \in 1 .. Len(s) : i < j => Number(s[i]) < Number(s[j])
  /\ \A x \in 1 .. Len(class) :
       class[x] = p => x \in gone \cup {Number(s[i]) : i \in 1 .. Len(s)}

(* The lines of both logs, and the bounds of what the logger counts.  Only *)
(* the first line of a pipe may have lost its beginning.                   *)
Content(l) ==
  \A p \in Pipes :
    /\ Sound(l.file[p] \o l.pipe[p], p, l.class, l.full \cup l.drained, l.fails)
    /\ \A i \in 2 .. Len(l.pipe[p]) : l.pipe[p][i] > 0
Bounds(l) ==
  /\ l.left \in -1 .. FlushTimeout /\ l.ago \in 0 .. FlushTimeout + 1
  /\ l.fails <= MaxFails /\ Len(l.class) <= MaxLines
  /\ l.full \subseteq 1 .. Len(l.class) /\ l.drained \subseteq 1 .. Len(l.class)
  /\ \A p \in Pipes : Bytes(l, p) <= PipeCap

(* The thread: the pipes it has still to look at hold lines, since nobody  *)
(* else takes any out, and what it found in the pipe it is reading away is *)
(* still there.                                                            *)
Thread(l) ==
  /\ l.at \in {"event", "drain"} => \A p \in l.todo : Len(l.pipe[p]) > 0
  /\ l.at = "drain" =>
       /\ l.drain.pipe \in l.todo /\ l.fails > 0
       /\ l.drain.n \in 1 .. Len(l.pipe[l.drain.pipe])

LogInv(l) == l \in LogStates /\ Content(l) /\ Bounds(l) /\ Thread(l)

(* Workers that may still take a number of mk_sched_register_thread() in   *)
(* this life of the server, and the lives whose workers may have taken one.*)
Coming == {v \in Workers : wk[v].st = "created"}
Waited == IF pc = "launch" THEN todo ELSE {}
Lives ==
  IF mode = "daemon" THEN (IF pc \in Early THEN 0 ELSE 1)
  ELSE IF pc \in {"stopped", "prctx"} THEN life - 1 ELSE life

(* A life of the server takes a number per worker at most.                 *)
CountInv ==
  /\ life \in 0 .. MaxLives /\ outside \subseteq Workers
  /\ (mode = "library" /\ pc # "configure") => life > 0
  /\ mode = "daemon" => pc # "stopped"
  /\ mode = "library" => pc \notin {"load", "pid", "clock"}
  /\ Len(slots) <= NWorkers
  /\ pc = "launch" => todo \subseteq Workers
  /\ wid + Cardinality(Coming) + Cardinality(Waited) <= Lives * NWorkers + 1

(* A leaf goes to Zenon first; one that needs arithmetic names SMT.        *)
USE ZenonT(10), SMTT(20)

-----------------------------------------------------------------------------
(* Lists of lines                                                          *)

(* The number of a line, whether or not its beginning is gone.             *)
LEMMA NumberFacts ==
  \A x \in Int : Number(x) \in Int /\ Number(-x) = Number(x)
  BY SMTT(20) DEF Number

(* A file and the pipe behind it.                                          *)
LEMMA BehindFile ==
  ASSUME NEW f \in Seq(Int), NEW q \in Seq(Int)
  PROVE  /\ f \o q \in Seq(Int) /\ Len(f \o q) = Len(f) + Len(q)
         /\ Len(f) \in Nat /\ Len(q) \in Nat
         /\ \A i \in 1 .. Len(f) : (f \o q)[i] = f[i]
         /\ \A i \in 1 .. Len(q) : (f \o q)[Len(f) + i] = q[i]
  BY SMTT(20)

(* A line put behind the pipe is behind the file and the pipe.             *)
LEMMA BehindAppend ==
  ASSUME NEW f \in Seq(Int), NEW q \in Seq(Int), NEW x \in Int
  PROVE  f \o Append(q, x) = Append(f \o q, x)
<1> DEFINE s == f \o Append(q, x)
           t == Append(f \o q, x)
<1>1. /\ s \in Seq(Int) /\ t \in Seq(Int) /\ Len(s) = Len(t) /\ Len(s) = Len(f) + Len(q) + 1
      /\ Len(f) \in Nat /\ Len(q) \in Nat
  BY SMTT(20)
<1>2. \A i \in 1 .. Len(s) : s[i] = t[i]
  BY SMTT(20)
<1> HIDE DEF s, t
<1>3. s = t
  <2>1. \A r \in Seq(Int) : r = [i \in 1 .. Len(r) |-> r[i]]
    BY SMTT(20)
  <2> QED BY <2>1, <1>1, <1>2
<1> QED BY <1>3 DEF s, t

(* A line that is written comes behind all others.                         *)
LEMMA SoundAppend ==
  ASSUME NEW s \in Seq(Int), NEW p \in Pipes, NEW class \in Seq(Pipes), NEW gone, NEW fails \in Nat,
         Sound(s, p, class, gone, fails)
  PROVE  Sound(Append(s, Len(class) + 1), p, Append(class, p), gone, fails)
<1> DEFINE t == Append(s, Len(class) + 1)
           c == Append(class, p)
<1>1. /\ t \in Seq(Int) /\ Len(t) = Len(s) + 1 /\ t[Len(s) + 1] = Len(class) + 1 /\ Len(s) \in Nat
      /\ \A i \in 1 .. Len(s) : t[i] = s[i]
  BY SMTT(20)
<1>2. /\ c \in Seq(Pipes) /\ Len(c) = Len(class) + 1 /\ c[Len(class) + 1] = p /\ Len(class) \in Nat
      /\ \A x \in 1 .. Len(class) : c[x] = class[x]
  BY SMTT(20)
<1>3. \A i \in 1 .. Len(s) : Number(s[i]) \in 1 .. Len(class) /\ class[Number(s[i])] = p
                             /\ (s[i] < 0 => fails > 0)
  BY DEF Sound
<1>4. Number(Len(class) + 1) = Len(class) + 1
  BY <1>2, SMTT(20) DEF Number
<1> HIDE DEF t, c
<1>5. \A i \in 1 .. Len(t) : /\ Number(t[i]) \in 1 .. Len(c)
                             /\ c[Number(t[i])] = p
                             /\ t[i] < 0 => fails > 0
  <2> TAKE i \in 1 .. Len(t)
  <2>1. CASE i \in 1 .. Len(s)
    BY <2>1, <1>1, <1>2, <1>3, SMTT(20)
  <2>2. CASE i = Len(s) + 1
    BY <2>2, <1>1, <1>2, <1>4, SMTT(20)
  <2> QED BY <2>1, <2>2, <1>1, SMTT(20)
<1>6. \A i, j \in 1 .. Len(t) : i < j => Number(t[i]) < Number(t[j])
  <2> SUFFICES ASSUME NEW i \in 1 .. Len(t), NEW j \in 1 .. Len(t), i < j
               PROVE  Number(t[i]) < Number(t[j])
    OBVIOUS
  <2>0. i \in 1 .. Len(s) /\ (j \in 1 .. Len(s) \/ j = Len(s) + 1)
    BY <1>1, SMTT(20)
  <2>1. CASE j \in 1 .. Len(s)
    BY <2>0, <2>1, <1>1 DEF Sound
  <2>2. CASE j = Len(s) + 1
    BY <2>0, <2>2, <1>1, <1>2, <1>3, <1>4, SMTT(20)
  <2> QED BY <2>0, <2>1, <2>2
<1>7. ASSUME NEW x \in 1 .. Len(c), c[x] = p
      PROVE  x \in gone \cup {Number(t[i]) : i \in 1 .. Len(t)}
  <2>1. CASE x \in 1 .. Len(class)
    <3>1. x \in gone \/ \E i \in 1 .. Len(s) : x = Number(s[i])
      BY <2>1, <1>2, <1>7 DEF Sound
    <3>2. \A i \in 1 .. Len(s) : i \in 1 .. Len(t) /\ t[i] = s[i]
      BY <1>1, SMTT(20)
    <3> QED BY <3>1, <3>2
  <2>2. CASE x = Len(class) + 1
    <3>1. Len(s) + 1 \in 1 .. Len(t) /\ x = Number(t[Len(s) + 1])
      BY <2>2, <1>1, <1>4, SMTT(20)
    <3> QED BY <3>1
  <2> QED BY <2>1, <2>2, <1>2, SMTT(20)
<1> QED BY <1>5, <1>6, <1>7 DEF Sound, t, c

(* A line of the other log, or one that is known to be missing.            *)
LEMMA SoundMissed ==
  ASSUME NEW s \in Seq(Int), NEW p \in Pipes, NEW class \in Seq(Pipes), NEW gone, NEW fails \in Nat,
         NEW c \in Pipes, NEW more, gone \subseteq more, c = p => Len(class) + 1 \in more,
         Sound(s, p, class, gone, fails)
  PROVE  Sound(s, p, Append(class, c), more, fails)
<1> DEFINE d == Append(class, c)
<1>1. /\ d \in Seq(Pipes) /\ Len(d) = Len(class) + 1 /\ d[Len(class) + 1] = c /\ Len(class) \in Nat
      /\ \A x \in 1 .. Len(class) : d[x] = class[x]
  BY SMTT(20)
<1>2. 1 .. Len(class) \subseteq 1 .. Len(d) /\ 1 .. Len(d) = 1 .. Len(class) \cup {Len(class) + 1}
  BY <1>1, SMTT(20)
<1> HIDE DEF d
<1>3. \A i \in 1 .. Len(s) : /\ Number(s[i]) \in 1 .. Len(d)
                             /\ d[Number(s[i])] = p
                             /\ s[i] < 0 => fails > 0
  BY <1>1, <1>2 DEF Sound
<1>4. \A i, j \in 1 .. Len(s) : i < j => Number(s[i]) < Number(s[j])
  BY DEF Sound
<1>5. ASSUME NEW x \in 1 .. Len(d), d[x] = p
      PROVE  x \in more \cup {Number(s[i]) : i \in 1 .. Len(s)}
  BY <1>1, <1>2, <1>5 DEF Sound
<1> QED BY <1>3, <1>4, <1>5 DEF Sound, d

(* A failure only ever excuses more.                                       *)
LEMMA SoundFails ==
  ASSUME NEW s, NEW p, NEW class, NEW gone, NEW fails \in Nat, Sound(s, p, class, gone, fails)
  PROVE  Sound(s, p, class, gone, fails + 1)
<1>1. fails + 1 > 0
  BY SMTT(20)
<1> QED BY <1>1 DEF Sound

(* The first m lines of the pipe are read away and noted; the next one may *)
(* lose its beginning.                                                     *)
LEMMA SoundDrained ==
  ASSUME NEW f \in Seq(Int), NEW q \in Seq(Int), NEW r \in Seq(Int), NEW m \in 0 .. Len(q),
         Len(r) = Len(q) - m, \A i \in 1 .. Len(r) : Number(r[i]) = Number(q[m + i]),
         NEW p \in Pipes, NEW class \in Seq(Pipes), NEW gone, NEW more, NEW fails \in Nat, fails > 0,
         gone \subseteq more, \A i \in 1 .. m : Number(q[i]) \in more,
         Sound(f \o q, p, class, gone, fails)
  PROVE  Sound(f \o r, p, class, more, fails)
<1> DEFINE s == f \o q
           t == f \o r
           g(i) == IF i <= Len(f) THEN i ELSE i + m
<1>1. /\ Len(s) = Len(f) + Len(q) /\ Len(t) = Len(f) + Len(r) /\ Len(f) \in Nat /\ Len(q) \in Nat
      /\ \A i \in 1 .. Len(f) : s[i] = f[i] /\ t[i] = f[i]
      /\ \A i \in 1 .. Len(q) : s[Len(f) + i] = q[i]
      /\ \A i \in 1 .. Len(r) : t[Len(f) + i] = r[i]
  BY BehindFile
<1> HIDE DEF s, t
<1>2. ASSUME NEW i \in 1 .. Len(t)
      PROVE  g(i) \in 1 .. Len(s) /\ Number(t[i]) = Number(s[g(i)])
  <2>1. CASE i <= Len(f)
    BY <2>1, <1>1, SMTT(20)
  <2>2. CASE ~(i <= Len(f))
    <3> DEFINE k == i - Len(f)
    <3>1. k \in 1 .. Len(r) /\ m + k \in 1 .. Len(q) /\ Len(f) + k = i /\ Len(f) + (m + k) = g(i)
      BY <2>2, <1>1, SMTT(20)
    <3>2. t[Len(f) + k] = r[k] /\ s[Len(f) + (m + k)] = q[m + k]
      BY <3>1, <1>1
    <3>3. g(i) \in 1 .. Len(s)
      BY <3>1, <1>1, SMTT(20)
    <3> HIDE DEF k, g
    <3> QED BY <3>1, <3>2, <3>3
  <2> QED BY <2>1, <2>2
<1>3. \A i, j \in 1 .. Len(t) : i < j => g(i) < g(j)
  BY <1>1, SMTT(20)
<1>4. ASSUME NEW k \in 1 .. Len(s)
      PROVE  (\E i \in 1 .. Len(t) : k = g(i)) \/ Number(s[k]) \in more
  <2>1. CASE k <= Len(f)
    <3>1. k \in 1 .. Len(t) /\ k = g(k)
      BY <2>1, <1>1, SMTT(20)
    <3> QED BY <3>1
  <2>2. CASE k > Len(f) /\ k <= Len(f) + m
    <3>1. k - Len(f) \in 1 .. m /\ k - Len(f) \in 1 .. Len(q) /\ Len(f) + (k - Len(f)) = k
      BY <2>2, <1>1, SMTT(20)
    <3>2. s[k] = q[k - Len(f)]
      BY <3>1, <1>1
    <3> QED BY <3>1, <3>2
  <2>3. CASE k > Len(f) + m
    <3>1. k - m \in 1 .. Len(t) /\ k = g(k - m)
      BY <2>3, <1>1, SMTT(20)
    <3> QED BY <3>1
  <2> QED BY <2>1, <2>2, <2>3, <1>1, SMTT(20)
<1> HIDE DEF g
<1>5. /\ \A i \in 1 .. Len(s) : Number(s[i]) \in 1 .. Len(class) /\ class[Number(s[i])] = p
      /\ \A i, j \in 1 .. Len(s) : i < j => Number(s[i]) < Number(s[j])
      /\ \A x \in 1 .. Len(class) :
           class[x] = p => x \in gone \cup {Number(s[i]) : i \in 1 .. Len(s)}
  BY DEF Sound, s
<1>6. \A i \in 1 .. Len(t) : Number(t[i]) \in 1 .. Len(class) /\ class[Number(t[i])] = p
  BY <1>2, <1>5
<1>7. \A i, j \in 1 .. Len(t) : i < j => Number(t[i]) < Number(t[j])
  BY <1>2, <1>3, <1>5
<1>8. ASSUME NEW x \in 1 .. Len(class), class[x] = p
      PROVE  x \in more \cup {Number(t[i]) : i \in 1 .. Len(t)}
  <2>1. x \in more \/ \E k \in 1 .. Len(s) : x = Number(s[k])
    BY <1>5, <1>8
  <2>2. ASSUME NEW k \in 1 .. Len(s), x = Number(s[k])
        PROVE  x \in more \/ \E i \in 1 .. Len(t) : x = Number(t[i])
    BY <2>2, <1>2, <1>4
  <2> QED BY <2>1, <2>2
<1> QED BY <1>6, <1>7, <1>8 DEF Sound, t

-----------------------------------------------------------------------------
(* The logger's operations keep its invariant                              *)

(* Nothing but the lines, their classes and the losses matters to Content. *)
LEMMA ContentKept ==
  ASSUME NEW l, NEW k, Content(l), k.pipe = l.pipe, k.file = l.file, k.class = l.class,
         k.full = l.full, k.drained = l.drained, k.fails = l.fails
  PROVE  Content(k)
  BY DEF Content

(* log_current_utime may pass the flush time, by one tick or by several.   *)
LEMMA LaterType ==
  \A left \in -1 .. FlushTimeout, ticks \in 0 .. FlushTimeout + 1 :
    Later(left, ticks) \in -1 .. FlushTimeout
  BY LoggerAssumption, SMTT(20) DEF Later

(* _mkp_core_prctx() starts the thread.                                    *)
LEMMA PrctxLog ==
  ASSUME NEW l, LogInv(l)
  PROVE  LogInv(LoggerPrctx(l))
<1> DEFINE k == LoggerPrctx(l)
<1>1. /\ k \in LogStates /\ k.at = "wait"
      /\ k.left = l.left /\ k.ago = l.ago /\ k.pipe = l.pipe /\ k.file = l.file
      /\ k.class = l.class /\ k.full = l.full /\ k.drained = l.drained /\ k.fails = l.fails
  BY DEF LoggerPrctx, LogInv, LogStates
<1> HIDE DEF k
<1>2. Content(k)
  BY <1>1, ContentKept DEF LogInv
<1>3. Bounds(k)
  BY <1>1 DEF Bounds, Bytes, LogInv
<1>4. Thread(k)
  BY <1>1 DEF Thread
<1> QED BY <1>1, <1>2, <1>3, <1>4 DEF LogInv, k

(* The thread ends with the process.                                       *)
LEMMA OffLog ==
  ASSUME NEW l, LogInv(l)
  PROVE  LogInv([l EXCEPT !.at = "off"])
<1> DEFINE k == [l EXCEPT !.at = "off"]
<1>1. /\ k \in LogStates /\ k.at = "off"
      /\ k.left = l.left /\ k.ago = l.ago /\ k.pipe = l.pipe /\ k.file = l.file
      /\ k.class = l.class /\ k.full = l.full /\ k.drained = l.drained /\ k.fails = l.fails
  BY DEF LogInv, LogStates
<1> HIDE DEF k
<1>2. Content(k)
  BY <1>1, ContentKept DEF LogInv
<1>3. Bounds(k)
  BY <1>1 DEF Bounds, Bytes, LogInv
<1>4. Thread(k)
  BY <1>1 DEF Thread
<1> QED BY <1>1, <1>2, <1>3, <1>4 DEF LogInv, k

(* The clock moves on.                                                     *)
LEMMA TickLog ==
  ASSUME NEW l, LogInv(l)
  PROVE  LogInv(Tick(l))
<1> DEFINE k == Tick(l)
<1>0. /\ 1 \in 0 .. FlushTimeout + 1
      /\ \A a \in 0 .. FlushTimeout + 1 :
           (IF a > FlushTimeout THEN a ELSE a + 1) \in 0 .. FlushTimeout + 1
  BY LoggerAssumption, SMTT(20)
<1>1. Later(l.left, 1) \in -1 .. FlushTimeout /\ Later(l.left, 1) \in Int
  <2>1. Later(l.left, 1) \in -1 .. FlushTimeout
    BY <1>0, LaterType DEF LogInv, Bounds
  <2> QED BY <2>1, LoggerAssumption, SMTT(20)
<1>2. (IF l.ago > FlushTimeout THEN l.ago ELSE l.ago + 1) \in 0 .. FlushTimeout + 1 \cap Int
  <2>1. \A a \in 0 .. FlushTimeout + 1 : a \in Int
    BY SMTT(20)
  <2> QED BY <1>0, <2>1 DEF LogInv, Bounds
<1>3. /\ k \in LogStates /\ k.at = l.at /\ k.todo = l.todo /\ k.drain = l.drain
      /\ k.left \in -1 .. FlushTimeout /\ k.ago \in 0 .. FlushTimeout + 1
      /\ k.pipe = l.pipe /\ k.file = l.file
      /\ k.class = l.class /\ k.full = l.full /\ k.drained = l.drained /\ k.fails = l.fails
  <2>1. CASE l.at = "wait"
    BY <2>1, <1>1 DEF Tick, LogInv, LogStates, Bounds
  <2>2. CASE l.at # "wait"
    <3> DEFINE a == IF l.ago > FlushTimeout THEN l.ago ELSE l.ago + 1
    <3>1. k = [l EXCEPT !.ago = a]
      BY <2>2 DEF Tick
    <3>2. a \in 0 .. FlushTimeout + 1 /\ a \in Int
      BY <1>2
    <3> HIDE DEF a, k
    <3> QED BY <3>1, <3>2 DEF LogInv, LogStates, Bounds
  <2> QED BY <2>1, <2>2
<1> HIDE DEF k
<1>4. Content(k)
  BY <1>3, ContentKept DEF LogInv
<1>5. Bounds(k)
  BY <1>3 DEF Bounds, Bytes, LogInv
<1>6. Thread(k)
  BY <1>3 DEF Thread, LogInv
<1> QED BY <1>3, <1>4, <1>5, <1>6 DEF LogInv, k

(* What a pipe holds, in bytes, against what is left when lines go.        *)
LEMMA FewerBytes ==
  ASSUME NEW p \in Pipes, NEW m \in Nat, NEW n \in Nat, m <= n
  PROVE  /\ LineSize[p] * m <= LineSize[p] * n
         /\ LineSize[p] * (n + 1) = LineSize[p] * n + LineSize[p]
<1>1. LineSize[p] \in Nat
  BY LoggerAssumption DEF Pipes
<1>2. PICK d \in Nat : n = m + d
  <2>1. n - m \in Nat /\ n = m + (n - m)
    BY SMTT(20)
  <2> QED BY <2>1
<1>3. \A a, b, c \in Nat : a * (b + c) = a * b + a * c /\ a * c \in Nat /\ a * b \in Nat /\ a * 1 = a
  BY SMTT(20)
<1>4. LineSize[p] * n = LineSize[p] * m + LineSize[p] * d /\ LineSize[p] * d \in Nat /\ LineSize[p] * m \in Nat
  BY <1>1, <1>2, <1>3
<1>5. LineSize[p] * (n + 1) = LineSize[p] * n + LineSize[p]
  <2>1. \A a, b \in Nat : a * (b + 1) = a * b + a
    BY SMTT(20)
  <2> QED BY <2>1, <1>1
<1>6. \A a, b \in Nat : a <= a + b
  BY SMTT(20)
<1> QED BY <1>4, <1>5, <1>6

(* A round over one of the pipes ends: the next one, or epoll_wait() and   *)
(* the clock.                                                              *)
LEMMA DoneLog ==
  ASSUME NEW l \in LogStates, NEW p \in l.todo, Content(l), Bounds(l),
         \A q \in l.todo \ {p} : Len(l.pipe[q]) > 0
  PROVE  LogInv(Done(l, p))
<1> DEFINE k == Done(l, p)
<1>1. Later(l.left, l.ago) \in -1 .. FlushTimeout /\ Later(l.left, l.ago) \in Int
  <2>1. Later(l.left, l.ago) \in -1 .. FlushTimeout
    BY LaterType DEF Bounds
  <2> QED BY <2>1, LoggerAssumption, SMTT(20)
<1>2. 0 \in 0 .. FlushTimeout + 1
  BY LoggerAssumption, SMTT(20)
<1>3. /\ k \in LogStates
      /\ k.left \in -1 .. FlushTimeout /\ k.ago \in 0 .. FlushTimeout + 1
      /\ k.pipe = l.pipe /\ k.file = l.file
      /\ k.class = l.class /\ k.full = l.full /\ k.drained = l.drained /\ k.fails = l.fails
      /\ k.at \in {"wait", "event"} /\ k.todo = l.todo \ {p}
  <2>1. CASE l.todo = {p}
    <3>1. k = [l EXCEPT !.todo = {}, !.at = "wait", !.left = Later(l.left, l.ago), !.ago = 0]
      BY <2>1 DEF Done
    <3>2. l.todo \ {p} = {} /\ {} \in SUBSET Pipes /\ 0 \in Int
      BY <2>1, SMTT(20)
    <3> HIDE DEF k
    <3>3. /\ k \in LogStates /\ k.left = Later(l.left, l.ago) /\ k.ago = 0
          /\ k.pipe = l.pipe /\ k.file = l.file
          /\ k.class = l.class /\ k.full = l.full /\ k.drained = l.drained /\ k.fails = l.fails
          /\ k.at = "wait" /\ k.todo = {}
      BY <3>1, <3>2, <1>1 DEF LogStates
    <3> QED BY <3>2, <3>3, <1>1, <1>2
  <2>2. CASE l.todo # {p}
    <3>1. k = [l EXCEPT !.todo = l.todo \ {p}, !.at = "event"]
      BY <2>2 DEF Done
    <3>2. l.left \in -1 .. FlushTimeout /\ l.ago \in 0 .. FlushTimeout + 1
      BY DEF Bounds
    <3> HIDE DEF k
    <3> QED BY <3>1, <3>2 DEF LogStates
  <2> QED BY <2>1, <2>2
<1> HIDE DEF k
<1>4. Content(k)
  BY <1>3, ContentKept
<1>5. Bounds(k)
  BY <1>3 DEF Bounds, Bytes
<1>6. Thread(k)
  BY <1>3 DEF Thread
<1> QED BY <1>3, <1>4, <1>5, <1>6 DEF LogInv, k

(* _mkp_stage_40() puts a line behind all others of its pipe, or the pipe  *)
(* refuses it.                                                             *)
LEMMA Stage40Log ==
  ASSUME NEW l, LogInv(l), NEW c \in Pipes, Len(l.class) < MaxLines
  PROVE  LogInv(Stage40(l, c))
<1> DEFINE k  == Stage40(l, c)
           id == Len(l.class) + 1
           fits == ~(Bytes(l, c) + LineSize[c] > PipeCap)
<1>0. /\ l \in LogStates /\ l.class \in Seq(Pipes) /\ l.pipe \in [Pipes -> Seq(Int)]
      /\ l.file \in [Pipes -> Seq(Int)] /\ l.fails \in Nat
      /\ l.full \subseteq 1 .. Len(l.class) /\ l.drained \subseteq 1 .. Len(l.class)
  BY DEF LogInv, LogStates, Bounds
<1>1. /\ id \in Nat /\ id \in Int /\ Len(l.class) \in Nat /\ id \in 1 .. id
      /\ Append(l.class, c) \in Seq(Pipes)
      /\ Len(Append(l.class, c)) = id /\ 1 .. Len(l.class) \subseteq 1 .. id /\ id <= MaxLines
  BY <1>0, LoggerAssumption, SMTT(20)
<1>2. /\ k \in LogStates /\ k.at = l.at /\ k.todo = l.todo /\ k.drain = l.drain
      /\ k.left = l.left /\ k.ago = l.ago /\ k.file = l.file /\ k.drained = l.drained
      /\ k.fails = l.fails /\ k.class = Append(l.class, c)
      /\ k.pipe = IF fits THEN [l.pipe EXCEPT ![c] = Append(l.pipe[c], id)] ELSE l.pipe
      /\ k.full = IF fits THEN l.full ELSE l.full \cup {id}
  <2>1. CASE fits
    <3> DEFINE q == [l.pipe EXCEPT ![c] = Append(l.pipe[c], id)]
    <3>1. k = [l EXCEPT !.class = Append(l.class, c), !.pipe = q]
      BY <2>1, <1>0 DEF Stage40, Target, LogStates
    <3>2. q \in [Pipes -> Seq(Int)]
      <4>1. Append(l.pipe[c], id) \in Seq(Int)
        BY <1>0, <1>1, SMTT(20)
      <4> QED BY <4>1, <1>0
    <3> HIDE DEF k, id, fits
    <3>3. /\ k \in LogStates /\ k.at = l.at /\ k.todo = l.todo /\ k.drain = l.drain
          /\ k.left = l.left /\ k.ago = l.ago /\ k.file = l.file /\ k.drained = l.drained
          /\ k.fails = l.fails /\ k.class = Append(l.class, c) /\ k.pipe = q /\ k.full = l.full
      <4> HIDE DEF q
      <4> QED BY <3>1, <3>2, <1>0, <1>1 DEF LogStates
    <3> QED BY <3>3, <2>1
  <2>2. CASE ~fits
    <3>1. k = [l EXCEPT !.class = Append(l.class, c), !.full = l.full \cup {id}]
      BY <2>2, <1>0 DEF Stage40, Target, LogStates
    <3>2. l.full \cup {id} \in SUBSET Nat
      BY <1>0, <1>1 DEF LogStates
    <3> HIDE DEF k, id, fits
    <3> QED BY <3>1, <3>2, <2>2, <1>0, <1>1 DEF LogStates
  <2> QED BY <2>1, <2>2
<1> HIDE DEF k
<1>3. \A p \in Pipes : /\ p # c => k.pipe[p] = l.pipe[p]
                       /\ k.pipe[c] = IF fits THEN Append(l.pipe[c], id) ELSE l.pipe[c]
  BY <1>0, <1>2
<1>4. \A p \in Pipes : Len(l.pipe[p]) <= Len(k.pipe[p]) /\ Len(l.pipe[p]) \in Nat /\ Len(k.pipe[p]) \in Nat
  <2> TAKE p \in Pipes
  <2>1. l.pipe[p] \in Seq(Int) /\ l.pipe[c] \in Seq(Int)
    BY <1>0
  <2>2. \A q \in Seq(Int) : Len(q) \in Nat /\ Len(q) <= Len(q) /\ Len(Append(q, id)) \in Nat
                            /\ Len(q) <= Len(Append(q, id))
    BY <1>1, SMTT(20)
  <2> QED BY <1>3, <2>1, <2>2
<1>5. Content(k)
  <2> SUFFICES ASSUME NEW p \in Pipes
               PROVE  /\ Sound(k.file[p] \o k.pipe[p], p, k.class, k.full \cup k.drained, k.fails)
                      /\ \A i \in 2 .. Len(k.pipe[p]) : k.pipe[p][i] > 0
    BY DEF Content
  <2>0. /\ l.pipe[p] \in Seq(Int) /\ l.file[p] \in Seq(Int) /\ l.file[p] \o l.pipe[p] \in Seq(Int)
        /\ Sound(l.file[p] \o l.pipe[p], p, l.class, l.full \cup l.drained, l.fails)
        /\ \A i \in 2 .. Len(l.pipe[p]) : l.pipe[p][i] > 0
    BY <1>0, BehindFile DEF LogInv, Content
  <2>1. CASE p = c /\ fits
    <3>1. k.pipe[p] = Append(l.pipe[p], id) /\ k.full = l.full
      BY <2>1, <1>2, <1>3
    <3>2. l.file[p] \o Append(l.pipe[p], id) = Append(l.file[p] \o l.pipe[p], id)
      BY <2>0, <1>1, BehindAppend
    <3>3. Sound(Append(l.file[p] \o l.pipe[p], id), p, Append(l.class, p), l.full \cup l.drained, l.fails)
      BY <2>0, <1>0, SoundAppend
    <3>4. \A i \in 2 .. Len(k.pipe[p]) : k.pipe[p][i] > 0
      <4>1. \A q \in Seq(Int) : (\A i \in 2 .. Len(q) : q[i] > 0) =>
                                \A i \in 2 .. Len(Append(q, id)) : Append(q, id)[i] > 0
        BY <1>1, SMTT(20)
      <4> QED BY <4>1, <3>1, <2>0
    <3> QED BY <3>1, <3>2, <3>3, <3>4, <2>1, <1>2
  <2>2. CASE ~(p = c /\ fits)
    <3>1. k.pipe[p] = l.pipe[p]
      BY <2>2, <1>3
    <3>2. l.full \cup l.drained \subseteq k.full \cup k.drained
      BY <1>2
    <3>3. c = p => Len(l.class) + 1 \in k.full \cup k.drained
      BY <2>2, <1>2
    <3>4. Sound(l.file[p] \o l.pipe[p], p, Append(l.class, c), k.full \cup k.drained, l.fails)
      BY <2>0, <1>0, <3>2, <3>3, SoundMissed
    <3> QED BY <3>1, <3>4, <2>0, <1>2
  <2> QED BY <2>1, <2>2
<1>6. Bounds(k)
  <2>1. ASSUME NEW p \in Pipes
        PROVE  Bytes(k, p) <= PipeCap
    <3>1. CASE p = c /\ fits
      <4>1. k.pipe[p] = Append(l.pipe[p], id) /\ l.pipe[p] \in Seq(Int)
        BY <3>1, <1>0, <1>3
      <4>2. Len(k.pipe[p]) = Len(l.pipe[p]) + 1 /\ Len(l.pipe[p]) \in Nat
        BY <4>1, <1>1, SMTT(20)
      <4>3. LineSize[p] * (Len(l.pipe[p]) + 1) = LineSize[p] * Len(l.pipe[p]) + LineSize[p]
        <5>1. Len(l.pipe[p]) <= Len(l.pipe[p])
          BY <4>2, SMTT(20)
        <5> QED BY <4>2, <5>1, FewerBytes
      <4>4. Bytes(k, p) = Bytes(l, p) + LineSize[p]
        BY <4>2, <4>3 DEF Bytes
      <4>5. Bytes(l, p) \in Int /\ LineSize[p] \in Int
        <5>1. LineSize[p] \in Nat
          BY LoggerAssumption DEF Pipes
        <5> QED BY <5>1, <4>2, SMTT(20) DEF Bytes
      <4>6. \A a, b \in Int : ~(a + b > PipeCap) => a + b <= PipeCap
        BY LoggerAssumption, SMTT(20)
      <4> QED BY <3>1, <4>4, <4>5, <4>6
    <3>2. CASE ~(p = c /\ fits)
      <4>1. k.pipe[p] = l.pipe[p]
        BY <3>2, <1>3
      <4> QED BY <4>1 DEF Bytes, LogInv, Bounds
    <3> QED BY <3>1, <3>2
  <2>2. k.full \subseteq 1 .. Len(k.class) /\ k.drained \subseteq 1 .. Len(k.class)
    BY <1>0, <1>1, <1>2
  <2> QED BY <2>1, <2>2, <1>1, <1>2 DEF Bounds, LogInv
<1>7. Thread(k)
  <2>1. k.at \in {"event", "drain"} => \A p \in k.todo : Len(k.pipe[p]) > 0
    <3> SUFFICES ASSUME k.at \in {"event", "drain"}, NEW p \in k.todo
                 PROVE  Len(k.pipe[p]) > 0
      OBVIOUS
    <3>1. p \in Pipes /\ Len(l.pipe[p]) > 0
      BY <1>2 DEF LogInv, Thread, LogStates
    <3> QED BY <3>1, <1>4, SMTT(20)
  <2>2. ASSUME k.at = "drain"
        PROVE  /\ k.drain.pipe \in k.todo /\ k.fails > 0
               /\ k.drain.n \in 1 .. Len(k.pipe[k.drain.pipe])
    <3>1. /\ l.drain.pipe \in l.todo /\ l.fails > 0 /\ l.drain.pipe \in Pipes
          /\ l.drain.n \in 1 .. Len(l.pipe[l.drain.pipe])
      BY <2>2, <1>2 DEF LogInv, Thread, LogStates
    <3>2. \A a, b, n \in Nat : a <= b /\ n \in 1 .. a => n \in 1 .. b
      BY SMTT(20)
    <3>3. l.drain.n \in Nat
      BY <1>0 DEF LogStates
    <3> QED BY <3>1, <3>2, <3>3, <1>2, <1>4
  <2> QED BY <2>1, <2>2 DEF Thread
<1> QED BY <1>2, <1>5, <1>6, <1>7 DEF LogInv, k

(* epoll_wait() reports pipes that hold something.                         *)
LEMMA WaitLog ==
  ASSUME LogInv(log), LoggerWait
  PROVE  LogInv(log')
<1>1. PICK ready \in SUBSET {p \in Pipes : log.pipe[p] # <<>>} :
        log' = [log EXCEPT !.at = "event", !.todo = ready]
  BY DEF LoggerWait
<1>2. /\ log' \in LogStates /\ log'.at = "event" /\ log'.todo = ready
      /\ log'.left = log.left /\ log'.ago = log.ago /\ log'.pipe = log.pipe
      /\ log'.file = log.file /\ log'.class = log.class /\ log'.full = log.full
      /\ log'.drained = log.drained /\ log'.fails = log.fails
  BY <1>1 DEF LogInv, LogStates
<1>3. Content(log')
  BY <1>2, ContentKept DEF LogInv
<1>4. Bounds(log')
  BY <1>2 DEF Bounds, Bytes, LogInv
<1>5. \A p \in ready : Len(log.pipe[p]) > 0
  <2>1. \A p \in ready : log.pipe[p] \in Seq(Int) /\ log.pipe[p] # <<>>
    BY DEF LogInv, LogStates
  <2>2. \A q \in Seq(Int) : q # <<>> => Len(q) > 0
    BY SMTT(20)
  <2> QED BY <2>1, <2>2
<1>6. Thread(log')
  BY <1>2, <1>5 DEF Thread
<1> QED BY <1>2, <1>3, <1>4, <1>6 DEF LogInv

(* splice() moves the lines of a pipe to the end of its file.              *)
LEMMA SpliceLog ==
  ASSUME NEW p \in log.todo, LogInv(log), log.at = "event"
  PROVE  LogInv(Done(Splice([log EXCEPT !.left = FlushTimeout], p), p))
<1> DEFINE l == [log EXCEPT !.left = FlushTimeout]
           f == [log.file EXCEPT ![p] = log.file[p] \o log.pipe[p]]
           q == [log.pipe EXCEPT ![p] = <<>>]
           k == Splice(l, p)
<1>0. /\ log \in LogStates /\ log.pipe \in [Pipes -> Seq(Int)] /\ log.file \in [Pipes -> Seq(Int)]
      /\ p \in Pipes
  BY DEF LogInv, LogStates
<1>1. /\ FlushTimeout \in Int /\ FlushTimeout \in -1 .. FlushTimeout
  BY LoggerAssumption, SMTT(20)
<1>2. /\ l \in LogStates /\ l.left = FlushTimeout /\ l.ago = log.ago /\ l.todo = log.todo
      /\ l.pipe = log.pipe /\ l.file = log.file
      /\ l.class = log.class /\ l.full = log.full /\ l.drained = log.drained /\ l.fails = log.fails
  BY <1>0, <1>1 DEF LogStates
<1>3. f \in [Pipes -> Seq(Int)] /\ q \in [Pipes -> Seq(Int)]
  <2>1. log.file[p] \o log.pipe[p] \in Seq(Int)
    BY <1>0, BehindFile
  <2>2. <<>> \in Seq(Int)
    BY SMTT(20)
  <2> QED BY <2>1, <2>2, <1>0
<1> HIDE DEF l
<1>4. k = [l EXCEPT !.file = f, !.pipe = q]
  BY <1>2 DEF Splice, LogStates
<1> HIDE DEF k
<1>5. /\ k \in LogStates /\ k.left = l.left /\ k.ago = l.ago /\ k.todo = l.todo
      /\ k.pipe = q /\ k.file = f
      /\ k.class = l.class /\ k.full = l.full /\ k.drained = l.drained /\ k.fails = l.fails
  <2> HIDE DEF f, q
  <2> QED BY <1>2, <1>3, <1>4 DEF LogStates
<1>6. /\ k.pipe[p] = <<>> /\ k.file[p] = log.file[p] \o log.pipe[p]
      /\ \A x \in Pipes : x # p => k.pipe[x] = log.pipe[x] /\ k.file[x] = log.file[x]
  BY <1>0, <1>5
<1> HIDE DEF f, q
<1>7. Content(k)
  <2> SUFFICES ASSUME NEW x \in Pipes
               PROVE  /\ Sound(k.file[x] \o k.pipe[x], x, k.class, k.full \cup k.drained, k.fails)
                      /\ \A i \in 2 .. Len(k.pipe[x]) : k.pipe[x][i] > 0
    BY DEF Content
  <2>0. /\ Sound(log.file[x] \o log.pipe[x], x, log.class, log.full \cup log.drained, log.fails)
        /\ \A i \in 2 .. Len(log.pipe[x]) : log.pipe[x][i] > 0
    BY DEF LogInv, Content
  <2>1. CASE x = p
    <3>1. \A s \in Seq(Int) : s \o <<>> = s
      BY SMTT(20)
    <3>2. \A i \in 2 .. Len(<<>>) : <<>>[i] > 0
      BY SMTT(20)
    <3>3. log.file[p] \o log.pipe[p] \in Seq(Int)
      BY <1>0, BehindFile
    <3> QED BY <2>0, <2>1, <3>1, <3>2, <3>3, <1>2, <1>5, <1>6
  <2>2. CASE x # p
    BY <2>0, <2>2, <1>2, <1>5, <1>6
  <2> QED BY <2>1, <2>2
<1>8. Bounds(k)
  <2>1. ASSUME NEW x \in Pipes
        PROVE  Bytes(k, x) <= PipeCap
    <3>1. CASE x = p
      <4>1. Bytes(k, x) = LineSize[x] * 0
        <5>1. Len(<<>>) = 0
          BY SMTT(20)
        <5> QED BY <3>1, <5>1, <1>6 DEF Bytes
      <4>2. LineSize[x] \in Nat
        BY LoggerAssumption DEF Pipes
      <4> QED BY <4>1, <4>2, LoggerAssumption, SMTT(20)
    <3>2. CASE x # p
      BY <3>2, <1>6 DEF Bytes, LogInv, Bounds
    <3> QED BY <3>1, <3>2
  <2> QED BY <2>1, <1>1, <1>2, <1>5 DEF Bounds, LogInv
<1>9. \A x \in k.todo \ {p} : Len(k.pipe[x]) > 0
  BY <1>0, <1>2, <1>5, <1>6 DEF LogInv, Thread, LogStates
<1> QED BY <1>2, <1>5, <1>7, <1>8, <1>9, DoneLog DEF k, l

(* A pipe the thread looks at waits, is moved to its file, or is about to  *)
(* be read away because the file cannot be opened.                         *)
LEMMA EventLog ==
  ASSUME NEW p \in Pipes, LogInv(log), LoggerEvent(p)
  PROVE  LogInv(log')
<1>0. /\ p \in log.todo /\ log.at = "event" /\ log \in LogStates
      /\ \A x \in log.todo : Len(log.pipe[x]) > 0
  BY DEF LoggerEvent, LogInv, Thread
<1>1. CASE log' = Done(log, p)
  BY <1>0, <1>1, DoneLog DEF LogInv
<1>2. CASE log' = Done(Splice([log EXCEPT !.left = FlushTimeout], p), p)
  BY <1>0, <1>2, SpliceLog
<1>3. CASE /\ log.fails < MaxFails
           /\ log' = [log EXCEPT !.left = FlushTimeout, !.at = "drain", !.fails = @ + 1,
                                 !.drain = [pipe |-> p, n |-> Len(log.pipe[p])]]
  <2> DEFINE d == [pipe |-> p, n |-> Len(log.pipe[p])]
  <2>1. /\ FlushTimeout \in Int /\ FlushTimeout \in -1 .. FlushTimeout
    BY LoggerAssumption, SMTT(20)
  <2>2. /\ log.fails \in Nat /\ log.fails + 1 \in Nat /\ log.fails + 1 > 0
        /\ log.fails + 1 <= MaxFails
    BY <1>0, <1>3, LoggerAssumption, SMTT(20) DEF LogStates
  <2>3. Len(log.pipe[p]) \in Nat /\ Len(log.pipe[p]) \in 1 .. Len(log.pipe[p])
    <3>1. log.pipe[p] \in Seq(Int)
      BY <1>0 DEF LogStates
    <3> QED BY <3>1, <1>0, SMTT(20)
  <2>4. d \in [pipe : Pipes, n : Nat] /\ d.pipe = p /\ d.n = Len(log.pipe[p])
    BY <2>3
  <2>5. log' = [log EXCEPT !.left = FlushTimeout, !.at = "drain", !.fails = log.fails + 1, !.drain = d]
    BY <1>3
  <2> HIDE DEF d
  <2>6. /\ log' \in LogStates /\ log'.at = "drain" /\ log'.todo = log.todo /\ log'.drain = d
        /\ log'.left = FlushTimeout /\ log'.ago = log.ago /\ log'.pipe = log.pipe
        /\ log'.file = log.file /\ log'.class = log.class /\ log'.full = log.full
        /\ log'.drained = log.drained /\ log'.fails = log.fails + 1
    BY <1>0, <2>1, <2>2, <2>4, <2>5 DEF LogStates
  <2>7. Content(log')
    <3> SUFFICES ASSUME NEW x \in Pipes
                 PROVE  /\ Sound(log'.file[x] \o log'.pipe[x], x, log'.class,
                                 log'.full \cup log'.drained, log'.fails)
                        /\ \A i \in 2 .. Len(log'.pipe[x]) : log'.pipe[x][i] > 0
      BY DEF Content
    <3> QED BY <2>2, <2>6, SoundFails DEF LogInv, Content
  <2>8. Bounds(log')
    BY <2>1, <2>2, <2>6 DEF Bounds, Bytes, LogInv
  <2>9. Thread(log')
    BY <1>0, <2>2, <2>3, <2>4, <2>6 DEF Thread
  <2> QED BY <2>6, <2>7, <2>8, <2>9 DEF LogInv
<1> QED BY <1>1, <1>2, <1>3 DEF LoggerEvent

(* Blocks are read from a pipe whose file cannot be opened: m lines go, as *)
(* many as it held or more, and the next one may lose its beginning.       *)
LEMMA DrainLog ==
  ASSUME LogInv(log), LoggerDrain
  PROVE  LogInv(log')
<1> DEFINE p == log.drain.pipe
           q == log.pipe[p]
           rest(m) == SubSeq(q, m + 1, Len(q))
           left(m, cut) == IF cut THEN <<-Head(rest(m))>> \o Tail(rest(m)) ELSE rest(m)
           gone(m) == {Number(q[i]) : i \in 1 .. m}
<1>0. /\ log \in LogStates /\ p \in log.todo /\ p \in Pipes /\ log.fails > 0 /\ log.fails \in Nat
      /\ log.drain.n \in 1 .. Len(q) /\ \A x \in log.todo : Len(log.pipe[x]) > 0
      /\ log.pipe \in [Pipes -> Seq(Int)] /\ log.file \in [Pipes -> Seq(Int)] /\ q \in Seq(Int)
      /\ log.drained \in SUBSET Nat /\ log.class \in Seq(Pipes)
  BY DEF LoggerDrain, LogInv, Thread, LogStates
<1>1. PICK m \in log.drain.n .. Len(q), cut \in BOOLEAN :
        /\ cut => rest(m) # <<>>
        /\ log' = Done([log EXCEPT !.drain.n = 0, !.pipe[p] = left(m, cut), !.drained = @ \cup gone(m)], p)
  BY DEF LoggerDrain
<1> DEFINE r == left(m, cut)
<1>2. /\ m \in 1 .. Len(q) /\ m \in 0 .. Len(q) /\ Len(q) \in Nat /\ m \in Nat
      /\ rest(m) \in Seq(Int) /\ Len(rest(m)) = Len(q) - m
      /\ \A i \in 1 .. Len(q) - m : rest(m)[i] = q[m + i]
  BY <1>0, SMTT(20)
<1>3. /\ r \in Seq(Int) /\ Len(r) = Len(q) - m
      /\ \A i \in 1 .. Len(r) : r[i] = rest(m)[i] \/ (i = 1 /\ r[i] = -rest(m)[i])
  <2>1. CASE cut
    <3> DEFINE t == rest(m)
    <3>1. t \in Seq(Int) /\ t # <<>>
      BY <2>1, <1>1, <1>2
    <3> HIDE DEF t
    <3>2. /\ <<-Head(t)>> \o Tail(t) \in Seq(Int) /\ Len(<<-Head(t)>> \o Tail(t)) = Len(t)
          /\ \A i \in 1 .. Len(t) : \/ (<<-Head(t)>> \o Tail(t))[i] = t[i]
                                    \/ (i = 1 /\ (<<-Head(t)>> \o Tail(t))[i] = -t[i])
      BY <3>1, SMTT(20)
    <3> QED BY <2>1, <3>2, <1>2 DEF t
  <2>2. CASE ~cut
    BY <2>2, <1>2
  <2> QED BY <2>1, <2>2
<1> HIDE DEF left, rest
<1>4. \A i \in 1 .. Len(r) : Number(r[i]) = Number(q[m + i])
  <2> TAKE i \in 1 .. Len(r)
  <2>1. rest(m)[i] = q[m + i] /\ m + i \in 1 .. Len(q)
    BY <1>2, <1>3, SMTT(20)
  <2>2. q[m + i] \in Int
    BY <2>1, <1>0, SMTT(20)
  <2> QED BY <2>1, <2>2, <1>3, NumberFacts
<1>5. gone(m) \subseteq 1 .. Len(log.class) /\ gone(m) \subseteq Nat
  <2>1. \A i \in 1 .. Len(log.file[p] \o q) : Number((log.file[p] \o q)[i]) \in 1 .. Len(log.class)
    BY <1>0 DEF LogInv, Content, Sound
  <2>2. \A i \in 1 .. m : Len(log.file[p]) + i \in 1 .. Len(log.file[p] \o q)
                          /\ (log.file[p] \o q)[Len(log.file[p]) + i] = q[i]
    <3>1. log.file[p] \in Seq(Int)
      BY <1>0
    <3>2. /\ Len(log.file[p] \o q) = Len(log.file[p]) + Len(q) /\ Len(log.file[p]) \in Nat
          /\ \A i \in 1 .. Len(q) : (log.file[p] \o q)[Len(log.file[p]) + i] = q[i]
      BY <1>0, <3>1, BehindFile
    <3>3. \A a, b \in Nat : \A n \in 1 .. b : \A i \in 1 .. n : i \in 1 .. b /\ a + i \in 1 .. a + b
      BY SMTT(20)
    <3>4. \A i \in 1 .. m : i \in 1 .. Len(q) /\ Len(log.file[p]) + i \in 1 .. Len(log.file[p]) + Len(q)
      BY <3>2, <3>3, <1>2
    <3> QED BY <3>2, <3>4
  <2>3. \A i \in 1 .. m : Number(q[i]) \in 1 .. Len(log.class)
    BY <2>1, <2>2
  <2>4. 1 .. Len(log.class) \subseteq Nat
    BY SMTT(20)
  <2> QED BY <2>3, <2>4
<1> DEFINE k == [log EXCEPT !.drain.n = 0, !.pipe[p] = r, !.drained = @ \cup gone(m)]
           P == [log.pipe EXCEPT ![p] = r]
           d == [log.drain EXCEPT !.n = 0]
           D == log.drained \cup gone(m)
<1>6. P \in [Pipes -> Seq(Int)] /\ P[p] = r /\ \A x \in Pipes : x # p => P[x] = log.pipe[x]
  BY <1>0, <1>3
<1>7. d \in [pipe : Pipes, n : Nat]
  <2>1. log.drain \in [pipe : Pipes, n : Nat] /\ 0 \in Nat
    BY <1>0, SMTT(20) DEF LogStates
  <2> QED BY <2>1
<1>8. D \in SUBSET Nat
  BY <1>0, <1>5
<1>9. k = [log EXCEPT !.drain = d, !.pipe = P, !.drained = D]
  BY <1>0 DEF LogStates
<1> HIDE DEF k
<1>10. /\ k \in LogStates /\ k.at = log.at /\ k.todo = log.todo
       /\ k.left = log.left /\ k.ago = log.ago /\ k.pipe = P
       /\ k.file = log.file /\ k.class = log.class /\ k.full = log.full
       /\ k.drained = D /\ k.fails = log.fails
  <2> HIDE DEF P, d, D
  <2> QED BY <1>0, <1>6, <1>7, <1>8, <1>9 DEF LogStates
<1>11. Content(k)
  <2> SUFFICES ASSUME NEW x \in Pipes
               PROVE  /\ Sound(k.file[x] \o k.pipe[x], x, k.class, k.full \cup k.drained, k.fails)
                      /\ \A i \in 2 .. Len(k.pipe[x]) : k.pipe[x][i] > 0
    BY DEF Content
  <2> DEFINE old == log.full \cup log.drained
             new == log.full \cup D
  <2>0. /\ Sound(log.file[x] \o log.pipe[x], x, log.class, old, log.fails)
        /\ \A i \in 2 .. Len(log.pipe[x]) : log.pipe[x][i] > 0
        /\ log.file[x] \in Seq(Int) /\ log.pipe[x] \in Seq(Int)
    BY <1>0 DEF LogInv, Content
  <2>1. old \subseteq new
    OBVIOUS
  <2>2. CASE x = p
    <3>1. \A i \in 1 .. m : Number(q[i]) \in new
      OBVIOUS
    <3> HIDE DEF old, new, r, gone
    <3>2. Sound(log.file[x] \o r, x, log.class, new, log.fails)
      <4>1. /\ log.file[p] \in Seq(Int) /\ q \in Seq(Int) /\ r \in Seq(Int) /\ m \in 0 .. Len(q)
            /\ Len(r) = Len(q) - m /\ (\A i \in 1 .. Len(r) : Number(r[i]) = Number(q[m + i]))
            /\ Sound(log.file[p] \o q, p, log.class, old, log.fails)
        BY <2>0, <2>2, <1>2, <1>3, <1>4
      <4> HIDE DEF q, p
      <4> QED BY <4>1, <2>1, <2>2, <3>1, <1>0, SoundDrained
    <3>3. \A i \in 2 .. Len(r) : r[i] > 0
      <4> TAKE i \in 2 .. Len(r)
      <4>1. i \in 1 .. Len(r) /\ i # 1 /\ m + i \in 2 .. Len(q)
        BY <1>2, <1>3, SMTT(20)
      <4>2. r[i] = q[m + i]
        BY <4>1, <1>2, <1>3
      <4> QED BY <4>1, <4>2, <2>0, <2>2
    <3> QED BY <3>2, <3>3, <2>2, <1>6, <1>10 DEF new
  <2>3. CASE x # p
    <3>1. Sound(log.file[x] \o log.pipe[x], x, log.class, new, log.fails)
      BY <2>0, <2>1 DEF Sound
    <3> QED BY <3>1, <2>0, <2>3, <1>6, <1>10
  <2> QED BY <2>2, <2>3
<1>12. Bounds(k)
  <2>1. ASSUME NEW x \in Pipes
        PROVE  Bytes(k, x) <= PipeCap
    <3>1. CASE x = p
      <4>1. Len(r) \in Nat /\ Len(q) \in Nat /\ Len(r) <= Len(q)
        BY <1>2, <1>3, SMTT(20)
      <4> HIDE DEF r
      <4>2. LineSize[p] * Len(r) <= LineSize[p] * Len(q)
        BY <4>1, <1>0, FewerBytes
      <4>3. Bytes(k, x) = LineSize[p] * Len(r) /\ Bytes(log, p) = LineSize[p] * Len(q)
        BY <3>1, <1>6, <1>10 DEF Bytes
      <4>4. Bytes(log, p) <= PipeCap
        BY <1>0 DEF LogInv, Bounds
      <4>5. \A a, b \in Nat : a * b \in Int
        BY SMTT(20)
      <4>6. LineSize[p] \in Nat
        BY <1>0, LoggerAssumption DEF Pipes
      <4>7. \A a, b \in Int : a <= b /\ b <= PipeCap => a <= PipeCap
        BY LoggerAssumption, SMTT(20)
      <4> QED BY <4>1, <4>2, <4>3, <4>4, <4>5, <4>6, <4>7
    <3>2. CASE x # p
      BY <3>2, <1>6, <1>10 DEF Bytes, LogInv, Bounds
    <3> QED BY <3>1, <3>2
  <2>2. D \subseteq 1 .. Len(log.class)
    BY <1>5 DEF LogInv, Bounds
  <2> QED BY <2>1, <2>2, <1>10 DEF Bounds, LogInv
<1>13. \A x \in k.todo \ {p} : Len(k.pipe[x]) > 0
  BY <1>0, <1>6, <1>10 DEF LogStates
<1> HIDE DEF p, q, r, gone, P, d, D
<1>14. log' = Done(k, p) /\ p \in k.todo
  BY <1>0, <1>1, <1>10 DEF k, r
<1> QED BY <1>10, <1>11, <1>12, <1>13, <1>14, DoneLog

-----------------------------------------------------------------------------
(* Every step of the process                                               *)

(* The pipes and files start empty.                                        *)
LEMMA InitLog == LoggerInit => LogInv(log)
<1> SUFFICES ASSUME LoggerInit
             PROVE  LogInv(log)
  OBVIOUS
<1>1. /\ FlushTimeout \in Int /\ FlushTimeout \in -1 .. FlushTimeout
      /\ 0 \in Int /\ 0 \in Nat /\ 0 \in 0 .. FlushTimeout + 1 /\ 0 <= MaxFails /\ 0 <= MaxLines
      /\ Len(<<>>) = 0 /\ <<>> \in Seq(Int) /\ <<>> \in Seq(Pipes) /\ <<>> \o <<>> = <<>>
      /\ 1 .. 0 = {} /\ 2 .. 0 = {}
  BY LoggerAssumption, SMTT(20)
<1>2. /\ log \in LogStates /\ log.at = "off" /\ log.left = FlushTimeout /\ log.ago = 0
      /\ log.pipe = [p \in Pipes |-> <<>>] /\ log.file = [p \in Pipes |-> <<>>]
      /\ log.class = <<>> /\ log.full = {} /\ log.drained = {} /\ log.fails = 0
  <2>1. "access" \in Pipes
    BY DEF Pipes
  <2> QED BY <1>1, <2>1 DEF LoggerInit, LogStates
<1>3. Content(log)
  <2> SUFFICES ASSUME NEW p \in Pipes
               PROVE  /\ Sound(<<>>, p, <<>>, log.full \cup log.drained, log.fails)
                      /\ \A i \in 2 .. Len(<<>>) : <<>>[i] > 0
    BY <1>1, <1>2 DEF Content
  <2> QED BY <1>1 DEF Sound
<1>4. Bounds(log)
  <2>1. ASSUME NEW p \in Pipes
        PROVE  Bytes(log, p) <= PipeCap
    <3>1. Bytes(log, p) = LineSize[p] * 0
      BY <1>1, <1>2 DEF Bytes
    <3>2. LineSize[p] \in Nat
      BY LoggerAssumption DEF Pipes
    <3> QED BY <3>1, <3>2, LoggerAssumption, SMTT(20)
  <2> QED BY <2>1, <1>1, <1>2 DEF Bounds
<1>5. Thread(log)
  BY <1>2 DEF Thread
<1> QED BY <1>2, <1>3, <1>4, <1>5 DEF LogInv

(* What a step does to the log is one of the operations above.             *)
LEMMA LogSteps ==
  ASSUME [Next]_vars
  PROVE  \/ log' = log
         \/ log' = LoggerPrctx(log) \/ log' = Tick(log) \/ log' = [log EXCEPT !.at = "off"]
         \/ Len(log.class) < MaxLines /\ \E c \in Pipes : log' = Stage40(log, c)
         \/ LoggerWait \/ (\E p \in Pipes : LoggerEvent(p)) \/ LoggerDrain
<1>1. CASE Main \/ Signal
  BY <1>1 DEF Main, Configure, LoadPlugin, Listen, RegisterPid, StartClock, Prctx, Launch, Barrier,
     Signal, ThreadsEnd
<1>2. CASE LibInit \/ LibConfig \/ LibStart \/ LibStop
  BY <1>2 DEF LibInit, LibConfig, LibStart, LibStop
<1>3. ASSUME NEW v \in Workers, Work(v) \/ WorkerAnswers(v)
      PROVE  \/ log' = log
             \/ Len(log.class) < MaxLines /\ \E c \in Pipes : log' = Stage40(log, c)
  BY <1>3 DEF Work, WorkerRegisters, WorkerContext, WorkerReady, WorkerSent, WorkerLogs, WorkerAnswers
<1>4. CASE Clocks \/ LogThread
  BY <1>4 DEF Clocks, LogThread, LoggerWaits, LoggerFlushes, LoggerDrains
<1>5. CASE UNCHANGED vars
  BY <1>5 DEF vars
<1> QED BY <1>1, <1>2, <1>3, <1>4, <1>5 DEF Next

(* The logger's invariant holds in every behaviour.                        *)
LEMMA LogInvHolds == Spec => []LogInv(log)
<1>1. Init => LogInv(log)
  BY InitLog DEF Init
<1>2. LogInv(log) /\ [Next]_vars => LogInv(log)'
  BY LogSteps, PrctxLog, TickLog, OffLog, Stage40Log, WaitLog, EventLog, DrainLog
<1> QED BY <1>1, <1>2, PTL DEF Spec

(* For any number of workers, any sizes of the lines and the pipes, and    *)
(* any number of failures to open a file: the access log and the error log *)
(* hold lines of their own class only, in the order _mkp_stage_40() wrote  *)
(* them, none twice, and a line is missing or cut only where a full pipe   *)
(* refused it or where it was read away (plugins/logger/logger.c).         *)
THEOREM LogIsIntact == Spec => []LogIntact
<1>1. LogInv(log) => LogIntact
  BY DEF LogInv, Content, Sound, LogIntact, Logged
<1> QED BY <1>1, LogInvHolds, PTL

-----------------------------------------------------------------------------
(* The numbers mk_sched_register_thread() gives out                        *)

(* There are as many workers to launch as sched_list has entries.          *)
LEMMA SomeWorkers ==
  ASSUME NEW n \in Nat, n <= NWorkers
  PROVE  \E s \in SUBSET Workers : Cardinality(s) = n
<1>1. PICK f : f \in Bijection(1 .. NWorkers, Workers)
  BY DaemonAssumption, FS_CardinalityType DEF NWorkers, ExistsBijection
<1> DEFINE s == {f[i] : i \in 1 .. n}
           g == [i \in 1 .. n |-> f[i]]
<1>2. 1 .. n \subseteq 1 .. NWorkers
  BY NWorkersType, SMTT(20)
<1>3. f \in [1 .. NWorkers -> Workers] /\ \A a, b \in 1 .. NWorkers : f[a] = f[b] => a = b
  BY <1>1 DEF Bijection, Injection, IsInjective
<1>4. s \in SUBSET Workers
  BY <1>2, <1>3
<1>5. g \in Bijection(1 .. n, s)
  <2>1. g \in [1 .. n -> s]
    OBVIOUS
  <2>2. \A a, b \in 1 .. n : g[a] = g[b] => a = b
    BY <1>2, <1>3
  <2>3. \A t \in s : \E a \in 1 .. n : g[a] = t
    OBVIOUS
  <2> HIDE DEF g, s
  <2> QED BY <2>1, <2>2, <2>3 DEF Bijection, Injection, IsInjective, Surjection
<1> HIDE DEF s, g
<1>6. IsFiniteSet(1 .. n) /\ Cardinality(1 .. n) = n
  BY FS_Interval, SMTT(20)
<1>7. Cardinality(s) = n
  BY <1>5, <1>6, FS_Bijection DEF ExistsBijection
<1> QED BY <1>4, <1>7

(* The sets are finite.                                                    *)
LEMMA CountTypes ==
  ASSUME Types, CountInv
  PROVE  /\ IsFiniteSet(Coming) /\ IsFiniteSet(Waited)
         /\ Cardinality(Coming) \in Nat /\ Cardinality(Waited) \in Nat
         /\ wid \in Nat /\ Lives \in Nat /\ NWorkers \in Nat
<1>1. Coming \in SUBSET Workers /\ Waited \in SUBSET Workers
  BY DEF Coming, Waited, CountInv
<1>2. IsFiniteSet(Coming) /\ IsFiniteSet(Waited)
  BY <1>1, DaemonAssumption, FS_Subset
<1>3. Lives \in Nat
  <2>1. life \in Nat
    BY DaemonAssumption, SMTT(20) DEF CountInv
  <2>2. (mode = "library" /\ pc # "configure") => life - 1 \in Nat
    BY <2>1, SMTT(20) DEF CountInv
  <2>3. mode \in {"daemon", "library"}
    BY DEF Types
  <2>4. 0 \in Nat /\ 1 \in Nat
    BY SMTT(20)
  <2>5. CASE mode = "daemon"
    BY <2>4, <2>5 DEF Lives
  <2>6. CASE mode = "library"
    BY <2>1, <2>2, <2>6 DEF Lives
  <2> QED BY <2>3, <2>5, <2>6
<1> QED BY <1>2, <1>3, FS_CardinalityType, NWorkersType DEF Types

(* A step that gives out no number and waits for no more workers.          *)
LEMMA CountQuiet ==
  ASSUME Types, CountInv, wid' = wid, Coming' \subseteq Coming, Waited' \subseteq Waited,
         Lives' \in Nat, Lives <= Lives'
  PROVE  wid' + Cardinality(Coming') + Cardinality(Waited') <= Lives' * NWorkers + 1
<1>1. /\ Cardinality(Coming') <= Cardinality(Coming) /\ Cardinality(Waited') <= Cardinality(Waited)
      /\ Cardinality(Coming') \in Nat /\ Cardinality(Waited') \in Nat
  BY CountTypes, FS_Subset, FS_CardinalityType
<1>2. \A a, b, n \in Nat : a <= b => a * n <= b * n /\ a * n \in Nat /\ b * n \in Nat
  <2> SUFFICES ASSUME NEW a \in Nat, NEW b \in Nat, NEW n \in Nat, a <= b
               PROVE  a * n <= b * n /\ a * n \in Nat /\ b * n \in Nat
    OBVIOUS
  <2>1. PICK d \in Nat : b = a + d
    <3>1. b - a \in Nat /\ b = a + (b - a)
      BY SMTT(20)
    <3> QED BY <3>1
  <2>2. (a + d) * n = a * n + d * n /\ a * n \in Nat /\ d * n \in Nat
    BY SMTT(20)
  <2> QED BY <2>1, <2>2, SMTT(20)
<1>3. Lives * NWorkers <= Lives' * NWorkers /\ Lives * NWorkers \in Nat /\ Lives' * NWorkers \in Nat
  BY <1>2, CountTypes
<1>4. wid + Cardinality(Coming) + Cardinality(Waited) <= Lives * NWorkers + 1
  BY DEF CountInv
<1>5. \A x, c, t, d, u, m, n \in Nat :
        x + c + t <= m + 1 /\ d <= c /\ u <= t /\ m <= n => x + d + u <= n + 1
  BY SMTT(20)
<1> QED BY <1>1, <1>3, <1>4, <1>5, CountTypes

(* The steps of the main thread, of the signals and of the library that    *)
(* give out no number and launch nobody.                                   *)
LEMMA CountMain ==
  ASSUME IInv, CountInv,
         \/ Configure \/ LoadPlugin \/ Listen \/ RegisterPid \/ StartClock \/ Barrier
         \/ Signal \/ LibInit \/ LibConfig \/ LibStart \/ LibStop
  PROVE  CountInv'
<1>1. wid' = wid /\ todo' = todo /\ outside' = outside /\ mode' = mode /\ (pc' = "launch" => pc = "launch")
  BY DEF Configure, LoadPlugin, Listen, RegisterPid, StartClock, Barrier, Signal, ThreadsEnd,
     LibInit, LibConfig, LibStart, LibStop, Goes, workerVars, mainVars
<1>2. Waited' \subseteq Waited
  BY <1>1 DEF Waited
<1>3. wk' = wk \/ wk' = [v \in Workers |-> NewWorker]
  BY DEF Configure, LoadPlugin, Listen, RegisterPid, StartClock, Barrier, Signal, ThreadsEnd,
     LibInit, LibConfig, LibStart, LibStop, workerVars
<1>4. Coming' \subseteq Coming
  BY <1>3, NewWorkerType DEF Coming
<1>5. /\ life' \in 0 .. MaxLives
      /\ (mode' = "library" /\ pc' # "configure") => life' > 0
      /\ mode' = "daemon" => pc' # "stopped"
      /\ mode' = "library" => pc' \notin {"load", "pid", "clock"}
  <2>1. /\ life \in 0 .. MaxLives
        /\ (mode = "library" /\ pc # "configure") => life > 0
        /\ mode = "daemon" => pc # "stopped"
        /\ mode = "library" => pc \notin {"load", "pid", "clock"}
    BY DEF CountInv
  <2>2. CASE LibInit
    <3>1. life' = life + 1 /\ life < MaxLives /\ mode = "library" /\ mode' = mode
          /\ pc' \in {"exited", "stopped"}
      BY <2>2 DEF LibInit
    <3> QED BY <2>1, <3>1, DaemonAssumption, SMTT(20)
  <2>3. CASE ~LibInit
    <3>1. life' = life
      BY <2>3 DEF Configure, LoadPlugin, Listen, RegisterPid, StartClock, Barrier, Signal,
         LibConfig, LibStart, LibStop, mainVars
    <3>2. \/ mode = "daemon" /\ pc' # "stopped"
          \/ mode = "library" /\ pc # "configure" /\ pc' \notin {"load", "pid", "clock"}
      BY <2>1, <2>3 DEF Configure, LoadPlugin, Listen, RegisterPid, StartClock, Barrier, Signal,
         LibConfig, LibStart, LibStop, Goes, mainVars, IInv, Types
    <3> QED BY <2>1, <3>1, <3>2, <1>1
  <2> QED BY <2>2, <2>3
<1>6. Len(slots') <= NWorkers
  <2>1. \/ slots' = slots \/ slots' = <<>> \/ \E n \in 1 .. NWorkers : slots' = EmptyList(n)
    <3>1. 1 \in 1 .. NWorkers /\ NWorkers \in 1 .. NWorkers
      <4>1. NWorkers # 0
        BY DaemonAssumption, FS_EmptySet DEF NWorkers
      <4> QED BY <4>1, NWorkersType, SMTT(20)
    <3> QED BY <3>1 DEF Configure, LoadPlugin, Listen, RegisterPid, StartClock, Barrier, Signal,
         ThreadsEnd, LibInit, LibConfig, LibStart, LibStop, workerVars
  <2>2. ASSUME NEW n \in 1 .. NWorkers
        PROVE  Len(EmptyList(n)) <= NWorkers
    <3>1. n \in Nat /\ n <= NWorkers
      BY NWorkersType, SMTT(20)
    <3>2. EmptyList(n) \in Seq(Entries) /\ DOMAIN EmptyList(n) = 1 .. n
      BY <3>1, EmptyListType
    <3>3. Len(EmptyList(n)) = n
      BY <3>1, <3>2, SMTT(20)
    <3> QED BY <3>1, <3>3
  <2>3. Len(<<>>) <= NWorkers
    BY NWorkersType, SMTT(20)
  <2> QED BY <2>1, <2>2, <2>3 DEF CountInv
<1>7. Lives' \in Nat /\ Lives <= Lives'
  <2>0. Lives \in Nat /\ Lives <= Lives /\ 0 <= 1 /\ 1 <= 1 /\ 0 <= 0 /\ 0 \in Nat /\ 1 \in Nat
    <3>1. Lives \in Nat
      BY CountTypes DEF IInv
    <3> QED BY <3>1, SMTT(20)
  <2>1. CASE mode = "daemon"
    <3>1. pc \notin Early => pc' \notin Early
      BY <2>1 DEF Early, Configure, LoadPlugin, Listen, RegisterPid, StartClock, Barrier, Signal,
         LibInit, LibConfig, LibStart, LibStop, Goes, mainVars
    <3> QED BY <2>0, <2>1, <3>1, <1>1 DEF Lives
  <2>2. CASE mode = "library"
    <3>1. life \in Nat /\ (pc # "configure" => life > 0)
      BY <2>2, DaemonAssumption, SMTT(20) DEF CountInv
    <3>2. CASE LibInit
      <4>1. life' = life + 1 /\ pc = "configure" /\ mode' = "library"
        BY <2>2, <3>2 DEF LibInit
      <4>2. Lives = life /\ (Lives' = life' - 1 \/ Lives' = life')
        <5>1. pc' \in {"stopped", "prctx"} => Lives' = life' - 1
          BY <4>1 DEF Lives
        <5>2. pc' \notin {"stopped", "prctx"} => Lives' = life'
          BY <4>1 DEF Lives
        <5>3. Lives = life
          BY <2>2, <4>1 DEF Lives
        <5> QED BY <5>1, <5>2, <5>3
      <4> QED BY <3>1, <4>1, <4>2, SMTT(20)
    <3>3. CASE ~LibInit
      <4>1. life' = life /\ mode' = "library"
            /\ (pc' \in {"stopped", "prctx"} => pc \in {"stopped", "prctx"})
        BY <2>2, <3>3 DEF CountInv, Configure, LoadPlugin, Listen, RegisterPid, StartClock, Barrier,
           Signal, LibConfig, LibStart, LibStop, Goes, mainVars
      <4>2. pc' \in {"stopped", "prctx"} => Lives' = Lives
        BY <2>2, <4>1 DEF Lives
      <4>3. pc' \notin {"stopped", "prctx"} => Lives' = life /\ (Lives = life \/ Lives = life - 1)
        BY <2>2, <4>1 DEF Lives
      <4> QED BY <2>0, <3>1, <4>2, <4>3, SMTT(20)
    <3> QED BY <3>2, <3>3
  <2> QED BY <2>1, <2>2 DEF IInv, Types
<1>8. wid' + Cardinality(Coming') + Cardinality(Waited') <= Lives' * NWorkers + 1
  BY <1>1, <1>2, <1>4, <1>7, CountQuiet DEF IInv
<1>9. outside' \subseteq Workers /\ (pc' = "launch" => todo' \subseteq Workers)
  BY <1>1 DEF CountInv
<1> QED BY <1>5, <1>6, <1>8, <1>9 DEF CountInv

(* mk_plugin_core_process(), and mk_server_launch_workers() once every     *)
(* plugin was called: a new life, with a thread per entry of sched_list.   *)
LEMMA CountPrctx ==
  ASSUME IInv, CountInv, Prctx
  PROVE  CountInv'
<1>0. /\ pc = "prctx" /\ UNCHANGED <<mode, life, wid, slots, outside, wk>>
      /\ Lives \in Nat /\ NWorkers \in Nat /\ wid \in Nat
  BY CountTypes DEF Prctx, workerVars, IInv
<1>1. CASE next <= Len(plugins)
  <2>1. pc' = pc /\ UNCHANGED <<mode, life, wid, slots, outside, wk, todo>>
    BY <1>1 DEF Prctx, workerVars
  <2> QED BY <2>1 DEF CountInv, Coming, Waited, Lives
<1>2. CASE ~(next <= Len(plugins))
  <2>1. pc' = "launch" /\ todo' = CHOOSE s \in SUBSET Workers : Cardinality(s) = Len(slots)
    BY <1>2 DEF Prctx
  <2>2. todo' \in SUBSET Workers
    <3>1. Len(slots) \in Nat /\ Len(slots) <= NWorkers
      BY EntryType DEF IInv, Types, CountInv
    <3>2. \E s \in SUBSET Workers : Cardinality(s) = Len(slots)
      BY <3>1, SomeWorkers
    <3> QED BY <2>1, <3>2
  <2>3. Cardinality(Waited') <= NWorkers /\ Cardinality(Waited') \in Nat
    BY <2>1, <2>2, DaemonAssumption, FS_Subset, FS_CardinalityType DEF Waited, NWorkers
  <2>4. Coming = {} /\ Coming' = {}
    <3>1. \A v \in Workers : wk[v].st = "none"
      BY <1>0, NewWorkerType DEF IInv, MainInv, Early
    <3> QED BY <3>1, <1>0 DEF Coming
  <2>5. Waited = {}
    BY <1>0 DEF Waited
  <2>6. wid <= Lives * NWorkers + 1
    <3>1. wid + 0 + 0 <= Lives * NWorkers + 1
      BY <2>4, <2>5, FS_EmptySet DEF CountInv
    <3> QED BY <3>1, <1>0, SMTT(20)
  <2>7. Lives' = Lives + 1
    <3>1. CASE mode = "daemon"
      <4>1. Lives = 0 /\ Lives' = 1
        BY <3>1, <1>0, <2>1 DEF Lives, Early
      <4> QED BY <4>1, SMTT(20)
    <3>2. CASE mode = "library"
      <4>1. Lives = life - 1 /\ Lives' = life
        BY <3>2, <1>0, <2>1 DEF Lives
      <4>2. life \in Int
        BY SMTT(20) DEF CountInv
      <4> QED BY <4>1, <4>2, SMTT(20)
    <3> QED BY <3>1, <3>2 DEF IInv, Types
  <2>8. wid' + Cardinality(Coming') + Cardinality(Waited') <= Lives' * NWorkers + 1
    <3>1. \A x, m, n, t \in Nat : x <= m * n + 1 /\ t <= n => x + 0 + t <= (m + 1) * n + 1
      <4> SUFFICES ASSUME NEW x \in Nat, NEW m \in Nat, NEW n \in Nat, NEW t \in Nat,
                          x <= m * n + 1, t <= n
                   PROVE  x + 0 + t <= (m + 1) * n + 1
        OBVIOUS
      <4>1. (m + 1) * n = m * n + n /\ m * n \in Nat
        BY SMTT(20)
      <4> QED BY <4>1, SMTT(20)
    <3>2. Cardinality(Coming') = 0
      BY <2>4, FS_EmptySet
    <3>3. wid' + 0 + Cardinality(Waited') <= (Lives + 1) * NWorkers + 1
      BY <3>1, <1>0, <2>3, <2>6
    <3> QED BY <3>2, <3>3, <2>7
  <2> QED BY <1>0, <2>1, <2>2, <2>8 DEF CountInv
<1> QED BY <1>1, <1>2

(* mk_sched_launch_thread(): one worker less to launch, one more to come.  *)
LEMMA CountLaunch ==
  ASSUME IInv, CountInv, Launch
  PROVE  CountInv'
<1>0. pc = "launch" /\ UNCHANGED <<mode, life, wid, slots, outside>>
  BY DEF Launch
<1>1. /\ IsFiniteSet(Coming) /\ IsFiniteSet(Waited)
      /\ Cardinality(Coming) \in Nat /\ Cardinality(Waited) \in Nat
      /\ wid \in Nat /\ Lives \in Nat /\ NWorkers \in Nat
  BY CountTypes DEF IInv
<1>2. CASE todo = {}
  <2>1. pc' = "barrier" /\ UNCHANGED <<todo, wk>>
    BY <1>2 DEF Launch
  <2>2. Coming' \subseteq Coming /\ Waited' \subseteq Waited /\ Lives' = Lives /\ Lives <= Lives
    <3>1. Lives <= Lives
      BY <1>1, SMTT(20)
    <3> QED BY <3>1, <2>1, <1>0, <1>2 DEF Coming, Waited, Lives, Early
  <2>3. wid' + Cardinality(Coming') + Cardinality(Waited') <= Lives' * NWorkers + 1
    BY <1>0, <1>1, <2>2, CountQuiet DEF IInv
  <2> QED BY <1>0, <2>1, <2>3 DEF CountInv
<1>3. CASE todo # {}
  <2>1. PICK x \in todo, s \in {"created", "failed"} :
          /\ wk' = [wk EXCEPT ![x] = [NewWorker EXCEPT !.st = s]]
          /\ todo' = todo \ {x} /\ pc' = "launch"
    BY <1>0, <1>3 DEF Launch
  <2>2. Waited = todo /\ Waited' = todo \ {x} /\ Lives' = Lives
    BY <1>0, <2>1 DEF Waited, Lives
  <2>3. Coming' \subseteq Coming \cup {x}
    <3>1. \A v \in Workers : v # x => wk'[v] = wk[v]
      BY <2>1 DEF IInv, Types
    <3> QED BY <3>1 DEF Coming
  <2>4. Cardinality(Waited') = Cardinality(Waited) - 1
    BY <1>1, <2>2, FS_RemoveElement
  <2>5. Cardinality(Coming') <= Cardinality(Coming) + 1 /\ Cardinality(Coming') \in Nat
    <3>1. /\ IsFiniteSet(Coming \cup {x})
          /\ \/ Cardinality(Coming \cup {x}) = Cardinality(Coming)
             \/ Cardinality(Coming \cup {x}) = Cardinality(Coming) + 1
      BY <1>1, FS_AddElement
    <3>2. Cardinality(Coming') <= Cardinality(Coming \cup {x}) /\ Cardinality(Coming') \in Nat
      BY <2>3, <3>1, FS_Subset, FS_CardinalityType
    <3> QED BY <1>1, <3>1, <3>2, SMTT(20)
  <2>6. \A a, c, t, d, m \in Nat : a + c + t <= m + 1 /\ d <= c + 1 => a + d + (t - 1) <= m + 1
    BY SMTT(20)
  <2>7. Lives * NWorkers \in Nat
    BY <1>1, SMTT(20)
  <2>8. wid + Cardinality(Coming') + (Cardinality(Waited) - 1) <= Lives * NWorkers + 1
    <3>1. wid + Cardinality(Coming) + Cardinality(Waited) <= Lives * NWorkers + 1
      BY DEF CountInv
    <3> QED BY <3>1, <1>1, <2>5, <2>6, <2>7
  <2> QED BY <1>0, <2>1, <2>2, <2>4, <2>8 DEF CountInv
<1> QED BY <1>2, <1>3

(* mk_sched_register_thread() under mutex_sched_init takes a number.       *)
LEMMA CountRegisters ==
  ASSUME IInv, CountInv, NEW v \in Workers, WorkerRegisters(v)
  PROVE  CountInv'
<1>0. /\ UNCHANGED <<mode, life, pc, todo>> /\ wid' = wid + 1
      /\ wk' = [wk EXCEPT ![v].st = "registered"] /\ wk[v].st = "created"
      /\ outside' \in {outside, outside \cup {v}}
  BY DEF WorkerRegisters, mainVars
<1>1. /\ IsFiniteSet(Coming) /\ Cardinality(Coming) \in Nat /\ Cardinality(Waited) \in Nat
      /\ wid \in Nat /\ Lives \in Nat /\ NWorkers \in Nat
  BY CountTypes DEF IInv
<1>2. Coming' = Coming \ {v} /\ v \in Coming
  <2>1. wk'[v].st = "registered" /\ \A x \in Workers : x # v => wk'[x] = wk[x]
    BY <1>0 DEF IInv, Types, WorkerRecs
  <2> QED BY <2>1, <1>0 DEF Coming
<1>3. Cardinality(Coming') = Cardinality(Coming) - 1
  BY <1>1, <1>2, FS_RemoveElement
<1>4. Waited' = Waited /\ Lives' = Lives
  BY <1>0 DEF Waited, Lives
<1>5. Len(slots') = Len(slots)
  <2>1. slots' = slots \/ slots' = [slots EXCEPT ![wid].w = v]
    BY DEF WorkerRegisters
  <2>2. \A e : slots' = [slots EXCEPT ![wid] = e] => Len(slots') = Len(slots)
    BY SMTT(20) DEF IInv, Types
  <2> QED BY <2>1, <2>2
<1>6. wid' + Cardinality(Coming') + Cardinality(Waited') <= Lives' * NWorkers + 1
  <2>1. \A a, c, t \in Nat : (a + 1) + (c - 1) + t = a + c + t
    BY SMTT(20)
  <2>2. wid' + Cardinality(Coming') + Cardinality(Waited') = wid + Cardinality(Coming) + Cardinality(Waited)
    BY <2>1, <1>0, <1>1, <1>3, <1>4
  <2> QED BY <2>2, <1>4 DEF CountInv
<1> QED BY <1>0, <1>4, <1>5, <1>6 DEF CountInv

(* Everything else a thread does: no number, no worker to come.            *)
LEMMA CountOthers ==
  ASSUME IInv, CountInv, UNCHANGED <<mode, pc, life, wid, outside, todo>>,
         wk' \in [Workers -> WorkerRecs],
         \A v \in Workers : wk'[v].st = "created" <=> wk[v].st = "created",
         Len(slots') = Len(slots)
  PROVE  CountInv'
<1>1. Coming' = Coming /\ Waited' = Waited /\ Lives' = Lives
  BY DEF Coming, Waited, Lives
<1> QED BY <1>1 DEF CountInv

(* A step of a worker behind its registration, of the clock and of the     *)
(* logger is one of those.                                                 *)
LEMMA CountThreads ==
  ASSUME IInv, IInv', CountInv,
         \/ \E v \in Workers : \/ WorkerContext(v) \/ WorkerReady(v) \/ WorkerAnswers(v)
                               \/ WorkerSent(v) \/ WorkerLogs(v)
         \/ Clocks \/ LogThread \/ UNCHANGED vars
  PROVE  CountInv'
<1>0. wk \in [Workers -> WorkerRecs] /\ wk' \in [Workers -> WorkerRecs]
  BY DEF IInv, Types
<1>1. UNCHANGED <<mode, pc, life, wid, outside, todo>>
  BY DEF WorkerContext, WorkerReady, WorkerAnswers, WorkerSent, WorkerLogs, Clocks, LogThread,
     LoggerWaits, LoggerFlushes, LoggerDrains, vars, mainVars, workerVars
<1>2. Len(slots') = Len(slots)
  <2>1. CASE slots' = slots
    BY <2>1
  <2>2. ASSUME NEW v \in Workers, WorkerReady(v)
        PROVE  Len(slots') = Len(slots)
    <3>1. slots' \in Seq(Entries) /\ slots \in Seq(Entries)
      BY DEF IInv, Types
    <3>2. DOMAIN slots' = DOMAIN slots
      BY <2>2 DEF WorkerReady
    <3> QED BY <3>1, <3>2, SMTT(20)
  <2> QED BY <2>1, <2>2 DEF WorkerContext, WorkerAnswers, WorkerSent, WorkerLogs, Clocks, LogThread,
     LoggerWaits, LoggerFlushes, LoggerDrains, vars, workerVars
<1>3. ASSUME NEW x \in Workers
      PROVE  wk'[x].st = "created" <=> wk[x].st = "created"
  <2>1. CASE wk' = wk
    BY <2>1
  <2>2. ASSUME NEW v \in Workers,
               \/ WorkerContext(v) \/ WorkerReady(v) \/ WorkerAnswers(v)
               \/ WorkerSent(v) \/ WorkerLogs(v)
        PROVE  wk'[x].st = "created" <=> wk[x].st = "created"
    <3>1. CASE x # v
      BY <2>2, <3>1, <1>0 DEF WorkerContext, WorkerReady, WorkerAnswers, WorkerSent, WorkerLogs
    <3>2. CASE x = v
      <4>1. wk[v].st \in {"registered", "context", "idle", "answer", "line"}
        BY <2>2 DEF WorkerContext, WorkerReady, WorkerAnswers, WorkerSent, WorkerLogs
      <4>2. wk'[v].st \in {"context", "idle", "answer", "line"}
        BY <2>2, <1>0 DEF WorkerContext, WorkerReady, WorkerAnswers, WorkerSent, WorkerLogs, WorkerRecs
      <4> QED BY <3>2, <4>1, <4>2
    <3> QED BY <3>1, <3>2
  <2>3. ASSUME NEW k \in Kinds, wk' = Overtaken(k)
        PROVE  wk'[x].st = "created" <=> wk[x].st = "created"
    <3>1. wk'[x] = wk[x] \/ wk'[x] = [wk[x] EXCEPT !.date = OldDate]
      BY <2>3 DEF Overtaken
    <3> QED BY <3>1, <1>0 DEF WorkerRecs
  <2>4. \/ wk' = wk \/ (\E k \in Kinds : wk' = Overtaken(k))
        \/ \E v \in Workers : \/ WorkerContext(v) \/ WorkerReady(v) \/ WorkerAnswers(v)
                              \/ WorkerSent(v) \/ WorkerLogs(v)
    BY DEF Clocks, LogThread, LoggerWaits, LoggerFlushes, LoggerDrains, vars, workerVars, Kinds
  <2> QED BY <2>1, <2>2, <2>3, <2>4
<1> QED BY <1>0, <1>1, <1>2, <1>3, CountOthers

(* The count holds in every behaviour.                                     *)
LEMMA CountHolds == Spec => [](IInv /\ CountInv)
<1>1. Init => IInv /\ CountInv
  <2> SUFFICES ASSUME Init
               PROVE  CountInv
    BY InitIInv
  <2>1. \A v \in Workers : wk[v].st # "created"
    BY NewWorkerType DEF Init
  <2>2. Coming = {} /\ Waited = {} /\ (Lives = 0 \/ Lives = life)
    BY <2>1 DEF Init, Coming, Waited, Lives, Early
  <2>3. Lives = 0
    BY <2>2 DEF Init
  <2>4. Cardinality({}) = 0
    BY FS_EmptySet
  <2>5. wid + Cardinality(Coming) + Cardinality(Waited) <= Lives * NWorkers + 1
    <3>1. 1 + 0 + 0 <= 0 * NWorkers + 1
      BY NWorkersType, SMTT(20)
    <3> QED BY <3>1, <2>2, <2>3, <2>4 DEF Init
  <2>6. 0 \in 0 .. MaxLives /\ Len(<<>>) <= NWorkers
    BY DaemonAssumption, NWorkersType, SMTT(20)
  <2> QED BY <2>5, <2>6 DEF Init, CountInv
<1>2. IInv /\ CountInv /\ [Next]_vars => (IInv /\ CountInv)'
  <2> SUFFICES ASSUME IInv, CountInv, [Next]_vars
               PROVE  CountInv'
    BY NextIInv
  <2>0. IInv'
    BY NextIInv
  <2>1. CASE Main \/ Signal \/ LibInit \/ LibConfig \/ LibStart \/ LibStop
    BY <2>1, CountMain, CountPrctx, CountLaunch DEF Main
  <2>2. ASSUME NEW v \in Workers, WorkerRegisters(v)
        PROVE  CountInv'
    BY <2>2, CountRegisters
  <2>3. CASE \/ \E v \in Workers : \/ WorkerContext(v) \/ WorkerReady(v) \/ WorkerAnswers(v)
                                   \/ WorkerSent(v) \/ WorkerLogs(v)
             \/ Clocks \/ LogThread \/ UNCHANGED vars
    BY <2>0, <2>3, CountThreads
  <2> QED BY <2>1, <2>2, <2>3 DEF Next, Work
<1> QED BY <1>1, <1>2, PTL DEF Spec

(* For any number of workers and lives of the library: the variables have  *)
(* their types; no pipe of the logger ever holds more than fits, and the   *)
(* static counter of mk_sched_register_thread() grows by one per worker of *)
(* a life of the server at most.                                           *)
THEOREM TypeOKHolds == Spec => []TypeOK
<1>1. LogInv(log) /\ IInv /\ CountInv => TypeOK
  <2> SUFFICES ASSUME LogInv(log), IInv, CountInv
               PROVE  TypeOK
    OBVIOUS
  <2>1. LoggerTypeOK
    <3>1. log.fails \in 0 .. MaxFails
      BY LoggerAssumption, SMTT(20) DEF LogInv, LogStates, Bounds
    <3>2. 1 .. Len(log.class) \subseteq Lines
      <4>1. log.class \in Seq(Pipes) /\ Len(log.class) <= MaxLines
        BY DEF LogInv, LogStates, Bounds
      <4> QED BY <4>1, LoggerAssumption, SMTT(20) DEF Lines
    <3> QED BY <3>1, <3>2 DEF LogInv, LogStates, Bounds, LoggerTypeOK
  <2>2. wid \in 1 .. MaxLives * NWorkers + 1
    <3>1. /\ Cardinality(Coming) \in Nat /\ Cardinality(Waited) \in Nat
          /\ wid \in Nat \ {0} /\ Lives \in Nat /\ NWorkers \in Nat
      BY CountTypes DEF IInv, Types
    <3>2. Lives <= MaxLives
      <4>1. life \in Int /\ life <= MaxLives /\ 0 <= MaxLives /\ 1 <= MaxLives
        BY DaemonAssumption, SMTT(20) DEF CountInv
      <4>2. Lives \in {0, 1, life, life - 1}
        BY DEF Lives
      <4> QED BY <4>1, <4>2, DaemonAssumption, SMTT(20)
    <3>3. wid + Cardinality(Coming) + Cardinality(Waited) <= Lives * NWorkers + 1
      BY DEF CountInv
    <3>4. PICK d \in Nat : MaxLives = Lives + d
      <4>1. MaxLives - Lives \in Nat /\ MaxLives = Lives + (MaxLives - Lives)
        BY <3>1, <3>2, DaemonAssumption, SMTT(20)
      <4> QED BY <4>1
    <3>5. (Lives + d) * NWorkers = Lives * NWorkers + d * NWorkers
          /\ Lives * NWorkers \in Nat /\ d * NWorkers \in Nat
      <4>1. \A a, b, n \in Nat : (a + b) * n = a * n + b * n /\ a * n \in Nat /\ b * n \in Nat
        BY SMTT(20)
      <4> QED BY <4>1, <3>1
    <3>6. \A x \in Nat \ {0} : \A c, t, m, n \in Nat : x + c + t <= m + 1 => x \in 1 .. (m + n) + 1
      BY SMTT(20)
    <3> QED BY <3>1, <3>3, <3>4, <3>5, <3>6
  <2>3. \A v \in Workers :
          wk[v].st \in {"none", "created", "failed", "registered", "context", "idle", "answer", "line"}
    BY DEF IInv, Types, WorkerRecs, WorkerStates
  <2> QED BY <2>1, <2>2, <2>3 DEF IInv, Types, CountInv, TypeOK
<1> QED BY <1>1, LogInvHolds, CountHolds, PTL

===============================================================================
