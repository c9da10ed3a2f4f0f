-------------------------- MODULE SchedulerProofs --------------------------
(***************************************************************************)
(* Proofs about the scheduler for any number of workers, descriptors and   *)
(* connections and any capacity.                                           *)
(***************************************************************************)
EXTENDS Scheduler, FiniteSetTheorems, TLAPS

-----------------------------------------------------------------------------
(* The epoll loop is calling mk_sched_remove_client() exactly when it has  *)
(* sockets to remove, and none of them has an event left in the batch.  A  *)
(* timeout sweep comes after all events of the batch.                      *)
BatchDone(w) == \A fd \in Fds : batch[w][fd] = "none"

LoopOf(w) ==
  /\ step[w] \in {"wait", "events", "sessions", "rearm"} => todo[w] = <<>>
  /\ step[w] \in {"sessions", "rearm"} => BatchDone(w)
  /\ step[w] \in {"del", "close", "unlink"} /\ ret[w] # "events" => BatchDone(w)
  /\ step[w] \in {"del", "close", "unlink"} =>
       /\ todo[w] # <<>>
       /\ \A i \in 1 .. Len(todo[w]) : batch[w][todo[w][i]] = "none"

LoopInv == \A w \in Workers : LoopOf(w)

(* The main thread's local view of the loads is never below the truth:     *)
(* while it looks, the workers can only lower them.                        *)
MainInv ==
  /\ mpc # "accept" => remote_fd \in Fds
  /\ mpc = "scan" => /\ idx \in Workers
                     /\ idx > 0 => accepted[target] - closed[target] <= cur
  /\ mpc = "add" => accepted[target] - closed[target] < Capacity

(* A worker's load covers its clients and stays within its capacity, and   *)
(* the av_queue holds the entries that are not in the busy_queue.          *)
LoadInv(w) ==
  /\ Clients(w) <= Admitted(w)
  /\ Admitted(w) <= Capacity
  /\ avail[w] = Capacity - Cardinality(Busy(w))

(* The inductive invariant.                                                *)
IInv == TypeOK /\ LoopInv /\ MainInv /\ \A w \in Workers : LoadInv(w)

(* A leaf goes to Zenon first; one that needs arithmetic names SMT.        *)
USE ZenonT(10), SMTT(20)

-----------------------------------------------------------------------------
LEMMA OrdersAreSequences ==
  ASSUME NEW S \in SUBSET Fds
  PROVE  Orders(S) \subseteq Seq(Fds)
<1>1. IsFiniteSet(S)
  BY SchedulerAssumption, FS_Subset
<1>2. Cardinality(S) \in Nat
  BY <1>1, FS_CardinalityType
<1> QED
  BY <1>2, SMTT(20) DEF Orders

LEMMA InitTypeOK == Init => TypeOK
  BY SchedulerAssumption, SMTT(20)
  DEF Init, TypeOK, MainType, CounterType, KernelType, LoopType, QueueType,
      Workers, Modes, Events, ConnStatus, Sessions, NoSession, SessionStatus,
      Closed

(* Frame facts: a part of the state that does not change keeps its type.   *)
LEMMA TypeFrames ==
  /\ MainType /\ UNCHANGED mainVars => MainType'
  /\ CounterType /\ UNCHANGED <<accepted, closed>> => CounterType'
  /\ KernelType /\ UNCHANGED kernelVars => KernelType'
  /\ LoopType /\ UNCHANGED loopVars => LoopType'
  /\ QueueType /\ UNCHANGED queueVars => QueueType'
  BY DEF MainType, CounterType, KernelType, LoopType, QueueType, mainVars,
         kernelVars, loopVars, queueVars

LEMMA KernelCloseType ==
  ASSUME KernelType, NEW fd \in Fds, KernelClose(fd)
  PROVE  KernelType'
  BY SchedulerAssumption, SMTT(20) DEF KernelType, KernelClose, Modes, Closed

LEMMA MainTypeOK == TypeOK /\ MainInv /\ Main => TypeOK'
<1> SUFFICES ASSUME TypeOK, MainInv, Main PROVE TypeOK'
  OBVIOUS
<1> USE SchedulerAssumption DEF Workers
<1>1. CASE Accept
  <2>1. MainType' /\ CounterType'
    BY <1>1, SMTT(20) DEF Accept, TypeOK, MainType, CounterType
  <2>2. KernelType'
    BY <1>1, SMTT(20) DEF Accept, TypeOK, MainType, KernelType
  <2> QED
    BY <1>1, <2>1, <2>2, TypeFrames DEF Accept, TypeOK
<1>2. CASE ScanWorker
  <2>1. Load(idx) \in Int
    BY <1>2, SMTT(20) DEF ScanWorker, MainInv, TypeOK, MainType, CounterType, Load
  <2>2. MainType'
    BY <1>2, <2>1, SMTT(20) DEF ScanWorker, MainInv, TypeOK, MainType, Verdict
  <2> QED
    BY <1>2, <2>2, TypeFrames DEF ScanWorker, TypeOK
<1>3. CASE EpollAdd
  <2>1. MainType' /\ KernelType'
    BY <1>3 DEF EpollAdd, MainInv, TypeOK, MainType, KernelType, Modes
  <2> QED
    BY <1>3, <2>1, TypeFrames DEF EpollAdd, TypeOK
<1>4. CASE EpollAddFails
  <2>1. MainType'
    BY <1>4 DEF EpollAddFails, TypeOK, MainType
  <2> QED
    BY <1>4, <2>1, TypeFrames DEF EpollAddFails, TypeOK
<1>5. CASE CountAccepted
  <2>1. MainType' /\ CounterType'
    BY SMTT(30), <1>5 DEF CountAccepted, NextClient, TypeOK, MainType, CounterType
  <2> QED
    BY <1>5, <2>1, TypeFrames DEF CountAccepted, TypeOK
<1>6. CASE Drop
  <2>1. MainType'
    BY <1>6, SMTT(20) DEF Drop, NextClient, TypeOK, MainType
  <2>2. KernelType'
    BY <1>6, KernelCloseType DEF Drop, MainInv, TypeOK
  <2> QED
    BY <1>6, <2>1, <2>2, TypeFrames DEF Drop, TypeOK
<1> QED
  BY <1>1, <1>2, <1>3, <1>4, <1>5, <1>6 DEF Main

(* The socket mk_sched_remove_client() is working on.                      *)
LEMMA HeadOfTodo ==
  ASSUME TypeOK, LoopInv, NEW w \in Workers, step[w] \in {"del", "close", "unlink"}
  PROVE  /\ Head(todo[w]) \in Fds
         /\ batch[w][Head(todo[w])] = "none"
         /\ Tail(todo[w]) \in Seq(Fds)
         /\ Len(Tail(todo[w])) = Len(todo[w]) - 1
         /\ \A i \in 1 .. Len(Tail(todo[w])) : batch[w][Tail(todo[w])[i]] = "none"
<1>1. /\ todo[w] \in Seq(Fds) /\ todo[w] # <<>>
      /\ \A i \in 1 .. Len(todo[w]) : batch[w][todo[w][i]] = "none"
  BY DEF TypeOK, LoopType, LoopInv, LoopOf
<1>2. /\ Head(todo[w]) = todo[w][1] /\ 1 \in 1 .. Len(todo[w])
      /\ Tail(todo[w]) \in Seq(Fds) /\ Len(Tail(todo[w])) = Len(todo[w]) - 1
      /\ \A i \in 1 .. Len(Tail(todo[w])) :
           Tail(todo[w])[i] = todo[w][i + 1] /\ i + 1 \in 1 .. Len(todo[w])
  BY <1>1, SMTT(20)
<1> QED
  BY <1>1, <1>2, SMTT(20)

LEMMA TakeEventType ==
  ASSUME TypeOK, NEW w \in Workers, NEW fd \in Fds, NEW e, TakeEvent(w, fd, e)
  PROVE  /\ batch' \in [Workers -> [Fds -> Events]]
         /\ Continue => LoopType'
  BY DEF TypeOK, LoopType, TakeEvent, Events, Continue

LEMMA RemoveType ==
  ASSUME TypeOK, NEW w \in Workers, NEW fds \in Seq(Fds),
         NEW back \in {"events", "sessions", "rearm"}, Remove(w, fds, back),
         batch' \in [Workers -> [Fds -> Events]]
  PROVE  LoopType'
  BY DEF TypeOK, LoopType, Remove

LEMMA HandleEventTypeOK ==
  ASSUME TypeOK, NEW w \in Workers, NEW fd \in Fds, HandleEvent(w, fd)
  PROVE  TypeOK'
<1> USE SchedulerAssumption
<1>0. <<fd>> \in Seq(Fds) /\ <<fd, fd>> \in Seq(Fds)
  BY SMTT(20)
<1>s. CurrentSession(w, fd) \in Sessions
  BY SMTT(20) DEF TypeOK, QueueType, KernelType, CurrentSession, Sessions, SessionStatus
<1>n. NoSession \in Sessions
  BY SMTT(20) DEF NoSession, Sessions, SessionStatus, Closed
<1>k. \A mode \in Modes : ChangeMode(w, fd, mode) /\ UNCHANGED file => KernelType'
  BY SMTT(20) DEF TypeOK, KernelType, ChangeMode
<1>1. CASE RegisterClient(w, fd)
  <2>1. QueueType'
    BY <1>1, SMTT(20) DEF RegisterClient, TypeOK, QueueType, ConnStatus
  <2> QED
    BY <1>1, <2>1, TakeEventType, TypeFrames DEF RegisterClient, TypeOK
<1>2. CASE RejectClient(w, fd)
  BY <1>0, <1>2, TakeEventType, RemoveType, TypeFrames DEF RejectClient, TypeOK
<1>3. CASE ReadMore(w, fd)
  <2>1. QueueType'
    BY <1>3, <1>s DEF ReadMore, TypeOK, QueueType
  <2> QED
    BY <1>3, <2>1, TakeEventType, TypeFrames DEF ReadMore, TypeOK
<1>4. CASE ReadComplete(w, fd)
  <2>1. \A status \in {"COMPLETED", CurrentSession(w, fd).status} :
          [CurrentSession(w, fd) EXCEPT !.status = status] \in Sessions
    BY <1>s DEF Sessions, SessionStatus
  <2>2. PICK s \in Sessions : cs' = [cs EXCEPT ![w][fd] = s]
    BY <1>4, <2>1 DEF ReadComplete
  <2>4. QueueType'
    BY <1>4, <2>2 DEF ReadComplete, TypeOK, QueueType
  <2>3. KernelType'
    BY <1>4, <1>k DEF ReadComplete, Modes
  <2> QED
    BY <1>4, <2>3, <2>4, TakeEventType, TypeFrames DEF ReadComplete, TypeOK
<1>5. CASE ReadClose(w, fd)
  <2>1. QueueType'
    BY <1>5, <1>n DEF ReadClose, DropSession, TypeOK, QueueType
  <2> QED
    BY <1>0, <1>5, <2>1, TakeEventType, RemoveType, TypeFrames DEF ReadClose, TypeOK
<1>6. CASE WriteMore(w, fd)
  <2>1. QueueType'
    BY <1>6 DEF WriteMore, StartWrite, TypeOK, QueueType, ConnStatus
  <2> QED
    BY <1>6, <2>1, TakeEventType, TypeFrames DEF WriteMore, StartWrite, TypeOK
<1>7. CASE WriteKeepAlive(w, fd)
  <2>1. [status |-> "INCOMPLETE", left |-> KATimeout, id |-> cs[w][fd].id] \in Sessions
    BY DEF TypeOK, QueueType, Sessions, SessionStatus
  <2>2. QueueType'
    BY <1>7, <2>1 DEF WriteKeepAlive, StartWrite, TypeOK, QueueType, ConnStatus
  <2>3. KernelType'
    BY <1>7, <1>k DEF WriteKeepAlive, Modes
  <2> QED
    BY <1>7, <2>2, <2>3, TakeEventType, TypeFrames DEF WriteKeepAlive, StartWrite, TypeOK
<1>8. CASE WriteClose(w, fd)
  <2>1. QueueType'
    BY <1>8, <1>n DEF WriteClose, StartWrite, DropSession, TypeOK, QueueType, ConnStatus
  <2> QED
    BY <1>0, <1>8, <2>1, TakeEventType, RemoveType, TypeFrames
    DEF WriteClose, StartWrite, TypeOK
<1>9. CASE ConnError(w, fd)
  <2>1. QueueType'
    BY <1>9, <1>n DEF ConnError, DropSession, TypeOK, QueueType
  <2> QED
    BY <1>0, <1>9, <2>1, TakeEventType, RemoveType, TypeFrames DEF ConnError, TypeOK
<1> QED
  BY <1>1, <1>2, <1>3, <1>4, <1>5, <1>6, <1>7, <1>8, <1>9 DEF HandleEvent

LEMMA WorkerTypeOK ==
  ASSUME TypeOK, LoopInv, NEW w \in Workers, Worker(w)
  PROVE  TypeOK'
<1> USE SchedulerAssumption
<1>0. step[w] \in {"del", "close", "unlink"} =>
        /\ Head(todo[w]) \in Fds
        /\ Tail(todo[w]) \in Seq(Fds)
  BY HeadOfTodo
<1>1. CASE EpollWait(w)
  <2>1. LoopType'
    BY <1>1 DEF EpollWait, TypeOK, LoopType
  <2> QED
    BY <1>1, <2>1, TypeFrames DEF EpollWait, TypeOK
<1>2. CASE \E fd \in Fds : HandleEvent(w, fd)
  BY <1>2, HandleEventTypeOK
<1>3. CASE RemoveEpollDel(w)
  <2>1. KernelType' /\ LoopType'
    BY <1>0, <1>3 DEF RemoveEpollDel, TypeOK, KernelType, LoopType, Modes
  <2> QED
    BY <1>3, <2>1, TypeFrames DEF RemoveEpollDel, TypeOK
<1>4. CASE RemoveClose(w)
  <2>1. KernelType'
    BY <1>0, <1>4, KernelCloseType DEF RemoveClose, TypeOK
  <2>2. LoopType'
    BY <1>4 DEF RemoveClose, TypeOK, LoopType
  <2> QED
    BY <1>4, <2>1, <2>2, TypeFrames DEF RemoveClose, TypeOK
<1>5. CASE RemoveUnlink(w)
  <2>1. LoopType'
    BY <1>0, <1>5 DEF RemoveUnlink, TypeOK, LoopType
  <2>a. CASE conn[w][Head(todo[w])] = "none"
    <3>1. UNCHANGED <<closed, conn, arrive, avail>>
      BY <1>5, <2>a DEF RemoveUnlink, ReleaseEntry
    <3> QED
      BY <1>5, <2>1, <3>1 DEF RemoveUnlink, TypeOK, MainType, KernelType, CounterType,
                              QueueType, mainVars, kernelVars
  <2>b. CASE conn[w][Head(todo[w])] # "none"
    <3>h. PICK fd \in Fds : fd = Head(todo[w])
      BY <1>0, <1>5 DEF RemoveUnlink
    <3>r. /\ closed' = [closed EXCEPT ![w] = @ + 1]
          /\ conn' = [conn EXCEPT ![w][fd] = "none"]
          /\ arrive' = [arrive EXCEPT ![w][fd] = 0]
          /\ avail' = [avail EXCEPT ![w] = @ + 1]
          /\ UNCHANGED <<accepted, cs, fds_timeout>>
      BY <1>5, <2>b, <3>h DEF RemoveUnlink, ReleaseEntry
    <3>1. CounterType'
      BY <3>r, SMTT(20) DEF TypeOK, CounterType
    <3>2. QueueType'
      BY <3>r, SMTT(20) DEF TypeOK, QueueType, ConnStatus
    <3> QED
      BY <1>5, <2>1, <3>1, <3>2, TypeFrames DEF RemoveUnlink, TypeOK
  <2> QED
    BY <2>a, <2>b
<1>6. CASE CheckPending(w)
  <2>1. PICK fds \in Orders(PendingExpired(w)) : Remove(w, fds, "sessions")
    BY <1>6 DEF CheckPending
  <2>2. fds \in Seq(Fds)
    BY <2>1, OrdersAreSequences DEF PendingExpired
  <2> QED
    BY <1>6, <2>1, <2>2, RemoveType, TypeFrames DEF CheckPending, TypeOK, LoopType
<1>7. CASE CheckIncomplete(w)
  <2>1. PICK fds \in Orders(IncompleteExpired(w)) : Remove(w, fds, "rearm")
    BY <1>7 DEF CheckIncomplete
  <2>2. fds \in Seq(Fds)
    BY <2>1, OrdersAreSequences DEF IncompleteExpired
  <2>3. NoSession \in Sessions
    BY SMTT(20) DEF NoSession, Sessions, SessionStatus, Closed
  <2>4. QueueType'
    BY <1>7, <2>3 DEF CheckIncomplete, TypeOK, QueueType
  <2> QED
    BY <1>7, <2>1, <2>2, <2>4, RemoveType, TypeFrames DEF CheckIncomplete, TypeOK, LoopType
<1>8. CASE Rearm(w)
  <2>1. LoopType' /\ QueueType'
    BY <1>8 DEF Rearm, TypeOK, LoopType, QueueType
  <2> QED
    BY <1>8, <2>1, TypeFrames DEF Rearm, TypeOK
<1>9. CASE NoSweep(w)
  <2>1. LoopType'
    BY <1>9 DEF NoSweep, TypeOK, LoopType
  <2> QED
    BY <1>9, <2>1, TypeFrames DEF NoSweep, TypeOK
<1> QED
  BY <1>1, <1>2, <1>3, <1>4, <1>5, <1>6, <1>7, <1>8, <1>9 DEF Worker

LEMMA TickTypeOK == TypeOK /\ Tick => TypeOK'
<1> SUFFICES ASSUME TypeOK, Tick PROVE TypeOK'
  OBVIOUS
<1>1. \A n \in Nat : Minus1(n) \in Nat
  BY SMTT(20) DEF Minus1
<1>2. \A s \in Sessions : [s EXCEPT !.left = Minus1(@)] \in Sessions
  BY <1>1 DEF Sessions
<1>3. QueueType'
  BY <1>1, <1>2 DEF Tick, TypeOK, QueueType
<1> QED
  BY <1>3, TypeFrames DEF Tick, TypeOK

-----------------------------------------------------------------------------
(* The weight of a worker: entries B of its busy_queue, the socket C being *)
(* closed, the sockets O it watches or has events for.                     *)
Weight(B, C, O) == Cardinality((B \ C) \cup O) + Cardinality(B \cap C)

LEMMA SubsetCardinality ==
  ASSUME NEW S \in SUBSET Fds
  PROVE  /\ IsFiniteSet(S)
         /\ Cardinality(S) \in Nat
         /\ \A T \in SUBSET S : Cardinality(T) \in Nat /\ Cardinality(T) <= Cardinality(S)
<1>1. \A T \in SUBSET Fds : IsFiniteSet(T)
  BY SchedulerAssumption, FS_Subset
<1> QED
  BY <1>1, FS_Subset, FS_CardinalityType

LEMMA AddOneCardinality ==
  ASSUME NEW S \in SUBSET Fds, NEW x \in Fds
  PROVE  /\ x \notin S => Cardinality(S \cup {x}) = Cardinality(S) + 1
         /\ x \in S => Cardinality(S \ {x}) = Cardinality(S) - 1
  BY SubsetCardinality, FS_AddElement, FS_RemoveElement

LEMMA WeightMonotone ==
  ASSUME NEW B \in SUBSET Fds, NEW C \in SUBSET Fds, NEW O \in SUBSET Fds,
         NEW P \in SUBSET O
  PROVE  /\ Weight(B, C, O) \in Nat
         /\ Weight(B, C, P) <= Weight(B, C, O)
<1>1. (B \ C) \cup P \in SUBSET ((B \ C) \cup O)
  OBVIOUS
<1>2. /\ Cardinality((B \ C) \cup P) \in Nat
      /\ Cardinality((B \ C) \cup O) \in Nat
      /\ Cardinality(B \cap C) \in Nat
      /\ Cardinality((B \ C) \cup P) <= Cardinality((B \ C) \cup O)
  BY <1>1, SubsetCardinality
<1> QED
  BY <1>2, SMTT(20) DEF Weight

LEMMA WeightWatchOne ==
  ASSUME NEW B \in SUBSET Fds, NEW C \in SUBSET Fds, NEW O \in SUBSET Fds,
         NEW x \in Fds
  PROVE  Weight(B, C, O \cup {x}) <= Weight(B, C, O) + 1
<1>1. CASE x \in (B \ C) \cup O
  <2>1. (B \ C) \cup (O \cup {x}) = (B \ C) \cup O
    BY <1>1
  <2>2. Weight(B, C, O \cup {x}) = Weight(B, C, O)
    BY <2>1 DEF Weight
  <2>3. Weight(B, C, O) \in Nat
    BY WeightMonotone
  <2> QED
    BY <2>2, <2>3, SMTT(20)
<1>2. CASE x \notin (B \ C) \cup O
  <2>1. (B \ C) \cup (O \cup {x}) = ((B \ C) \cup O) \cup {x}
    OBVIOUS
  <2>2. Cardinality(((B \ C) \cup O) \cup {x}) = Cardinality((B \ C) \cup O) + 1
    BY <1>2, AddOneCardinality
  <2>3. Cardinality((B \ C) \cup O) \in Nat /\ Cardinality(B \cap C) \in Nat
    BY SubsetCardinality
  <2> QED
    BY <2>1, <2>2, <2>3, SMTT(20) DEF Weight
<1> QED
  BY <1>1, <1>2

LEMMA WeightStartClosing ==
  ASSUME NEW B \in SUBSET Fds, NEW O \in SUBSET Fds, NEW x \in Fds
  PROVE  Weight(B, {x}, O \ {x}) <= Weight(B, {}, O)
<1> DEFINE S == (B \ {}) \cup O
<1>1. (B \ {x}) \cup (O \ {x}) = S \ {x}
  OBVIOUS
<1>2. B \cap {} = {} /\ Cardinality({}) = 0
  BY FS_EmptySet
<1>3. Cardinality(S) \in Nat /\ Cardinality(S \ {x}) \in Nat
      /\ Cardinality(S \ {x}) <= Cardinality(S)
  BY SubsetCardinality
<1>4. CASE x \in B
  <2>1. B \cap {x} = {x}
    BY <1>4
  <2>2. Cardinality({x}) = 1
    BY FS_Singleton
  <2>3. Cardinality(S \ {x}) = Cardinality(S) - 1
    BY <1>4, AddOneCardinality
  <2>4. Weight(B, {x}, O \ {x}) = Cardinality(S \ {x}) + 1
    BY <1>1, <2>1, <2>2 DEF Weight
  <2>5. Weight(B, {}, O) = Cardinality(S) + 0
    BY <1>2 DEF Weight
  <2> QED
    BY <1>3, <2>3, <2>4, <2>5, SMTT(20)
<1>5. CASE x \notin B
  <2>1. B \cap {x} = {}
    BY <1>5
  <2>2. Weight(B, {x}, O \ {x}) = Cardinality(S \ {x}) + 0
    BY <1>1, <1>2, <2>1 DEF Weight
  <2>3. Weight(B, {}, O) = Cardinality(S) + 0
    BY <1>2 DEF Weight
  <2> QED
    BY <1>3, <2>2, <2>3, SMTT(20)
<1> QED
  BY <1>4, <1>5

LEMMA WeightUnlink ==
  ASSUME NEW B \in SUBSET Fds, NEW O \in SUBSET Fds, NEW x \in Fds
  PROVE  /\ x \in B => Weight(B \ {x}, {}, O) = Weight(B, {x}, O) - 1
         /\ x \notin B => Weight(B, {}, O) = Weight(B, {x}, O)
<1>1. /\ ((B \ {x}) \ {}) \cup O = (B \ {x}) \cup O
      /\ (B \ {x}) \cap {} = {}
      /\ x \in B => B \cap {x} = {x}
      /\ x \notin B => (B \ {}) = B \ {x} /\ B \cap {x} = {} /\ B \cap {} = {}
  OBVIOUS
<1>2. Cardinality({}) = 0 /\ Cardinality({x}) = 1
  BY FS_EmptySet, FS_Singleton
<1>3. Cardinality((B \ {x}) \cup O) \in Nat
  BY SubsetCardinality
<1>4. CASE x \in B
  <2>1. Weight(B, {x}, O) = Cardinality((B \ {x}) \cup O) + 1
    BY <1>1, <1>2, <1>4 DEF Weight
  <2>2. Weight(B \ {x}, {}, O) = Cardinality((B \ {x}) \cup O) + 0
    BY <1>1, <1>2 DEF Weight
  <2> QED
    BY <1>3, <1>4, <2>1, <2>2, SMTT(20)
<1>5. CASE x \notin B
  BY <1>1, <1>5 DEF Weight
<1> QED
  BY <1>4, <1>5

LEMMA WeightRegister ==
  ASSUME NEW B \in SUBSET Fds, NEW O \in SUBSET Fds, NEW P \in SUBSET O, NEW x \in O
  PROVE  Weight(B \cup {x}, {}, P) <= Weight(B, {}, O)
<1>1. ((B \cup {x}) \ {}) \cup P \in SUBSET ((B \ {}) \cup O)
  OBVIOUS
<1>2. (B \cup {x}) \cap {} = {} /\ B \cap {} = {}
  OBVIOUS
<1>3. /\ Cardinality(((B \cup {x}) \ {}) \cup P) \in Nat
      /\ Cardinality((B \ {}) \cup O) \in Nat
      /\ Cardinality(((B \cup {x}) \ {}) \cup P) <= Cardinality((B \ {}) \cup O)
  BY <1>1, SubsetCardinality
<1> QED
  BY <1>2, <1>3, FS_EmptySet, SMTT(20) DEF Weight

LEMMA WeightOfEntries ==
  ASSUME NEW B \in SUBSET Fds, NEW C \in SUBSET Fds
  PROVE  Weight(B, C, {}) = Cardinality(B)
<1>1. IsFiniteSet(B \ C) /\ IsFiniteSet(B \cap C)
  BY SubsetCardinality
<1>2. /\ (B \ C) \cap (B \cap C) = {}
      /\ (B \ C) \cup (B \cap C) = B
      /\ (B \ C) \cup {} = B \ C
  OBVIOUS
<1>3. Cardinality(B) = Cardinality(B \ C) + Cardinality(B \cap C) - 0
  BY <1>1, <1>2, FS_Union, FS_EmptySet, SMTT(20)
<1> QED
  BY <1>2, <1>3, SubsetCardinality, SMTT(20) DEF Weight

-----------------------------------------------------------------------------
Others(w) == Watched(w) \cup Queued(w)

LEMMA ClientsAreWeight ==
  ASSUME NEW w \in Workers
  PROVE  /\ Clients(w) = Weight(Busy(w), Closing(w), Others(w))
         /\ Clients(w)' = Weight(Busy(w)', Closing(w)', Others(w)')
<1>1. (Busy(w) \ Closing(w)) \cup Watched(w) \cup Queued(w)
        = (Busy(w) \ Closing(w)) \cup Others(w)
  BY DEF Others
<1>2. ((Busy(w) \ Closing(w)) \cup Watched(w) \cup Queued(w))'
        = (Busy(w)' \ Closing(w)') \cup Others(w)'
  BY DEF Others
<1> QED
  BY <1>1, <1>2 DEF Clients, Weight

LEMMA SetTypes ==
  ASSUME TypeOK, LoopInv, NEW w \in Workers
  PROVE  /\ Busy(w) \in SUBSET Fds /\ Closing(w) \in SUBSET Fds
         /\ Others(w) \in SUBSET Fds
         /\ Admitted(w) \in Int
         /\ Cardinality(Busy(w)) \in Nat
         /\ Clients(w) \in Nat
         /\ Clients(w) >= Cardinality(Busy(w))
<1>1. Busy(w) \in SUBSET Fds /\ Others(w) \in SUBSET Fds
  BY DEF Busy, Others, Watched, Queued
<1>2. Closing(w) \in SUBSET Fds
  BY SMTT(20) DEF Closing, TypeOK, LoopType, LoopInv, LoopOf
<1>3. Admitted(w) \in Int
  BY SMTT(20) DEF Admitted, TypeOK, CounterType
<1>4. Cardinality(Busy(w)) \in Nat
  BY <1>1, SubsetCardinality
<1>5. Clients(w) \in Nat
  BY <1>1, <1>2, WeightMonotone, ClientsAreWeight
<1>6. Clients(w) >= Cardinality(Busy(w))
  <2>1. {} \in SUBSET Others(w)
    OBVIOUS
  <2>2. Weight(Busy(w), Closing(w), {}) <= Clients(w)
    BY <1>1, <1>2, <2>1, WeightMonotone, ClientsAreWeight
  <2> QED
    BY <1>1, <1>2, <1>4, <1>5, <2>2, WeightOfEntries
<1> QED
  BY <1>1, <1>2, <1>3, <1>4, <1>5, <1>6

(* A step that only takes sockets away from what a worker watches or has   *)
(* events for.                                                             *)
LEMMA LoadFrame ==
  ASSUME TypeOK, LoopInv, NEW v \in Workers, LoadInv(v),
         Admitted(v)' = Admitted(v), avail'[v] = avail[v],
         Busy(v)' = Busy(v), Closing(v)' = Closing(v),
         Others(v)' \subseteq Others(v)
  PROVE  LoadInv(v)'
<1>1. Weight(Busy(v), Closing(v), Others(v)') <= Weight(Busy(v), Closing(v), Others(v))
      /\ Weight(Busy(v), Closing(v), Others(v)') \in Nat
  BY SetTypes, WeightMonotone
<1> QED
  BY <1>1, SetTypes, ClientsAreWeight, SMTT(20) DEF LoadInv

(* The load of a worker whose busy_queue gains d entries.                  *)
LEMMA StepToLoad ==
  ASSUME TypeOK, LoopInv, NEW w \in Workers, LoadInv(w),
         Clients(w)' \in Int, Clients(w)' - Admitted(w)' <= Clients(w) - Admitted(w),
         Admitted(w)' \in Int, Admitted(w)' <= Admitted(w),
         avail'[w] \in Int, Cardinality(Busy(w)') \in Int,
         avail'[w] + Cardinality(Busy(w)') = avail[w] + Cardinality(Busy(w))
  PROVE  LoadInv(w)'
<1>1. Clients(w) \in Int /\ Admitted(w) \in Int /\ Cardinality(Busy(w)) \in Int
  BY SetTypes, SMTT(20)
<1>2. /\ Clients(w) <= Admitted(w) /\ Admitted(w) <= Capacity
      /\ avail[w] = Capacity - Cardinality(Busy(w))
  BY DEF LoadInv
<1>3. Capacity \in Int
  BY SchedulerAssumption, SMTT(20)
<1>4. Clients(w)' <= Admitted(w)' /\ Admitted(w)' <= Capacity
  BY <1>1, <1>2, <1>3, SMTT(20)
<1>5. avail'[w] = Capacity - Cardinality(Busy(w)')
  <2>1. avail[w] + Cardinality(Busy(w)) = Capacity
    BY <1>1, <1>2, <1>3, SMTT(20)
  <2> QED
    BY <1>3, <2>1, SMTT(20)
<1> QED
  BY <1>4, <1>5 DEF LoadInv

LEMMA MainLoad ==
  ASSUME IInv, Main, NEW v \in Workers
  PROVE  LoadInv(v)'
<1> USE SchedulerAssumption DEF IInv
<1>1. /\ Busy(v)' = Busy(v) /\ Closing(v)' = Closing(v) /\ Queued(v)' = Queued(v)
      /\ avail'[v] = avail[v]
  BY DEF Main, Accept, ScanWorker, EpollAdd, EpollAddFails, CountAccepted, Drop,
         Busy, Closing, Queued, loopVars, queueVars
<1>2. CASE Accept \/ ScanWorker \/ EpollAddFails
  <2>1. Watched(v)' = Watched(v)
    BY <1>2 DEF Accept, ScanWorker, EpollAddFails, Watched, kernelVars
  <2>2. Admitted(v)' = Admitted(v)
    BY <1>2 DEF Accept, ScanWorker, EpollAddFails, Verdict, Admitted
  <2> QED
    BY <1>1, <2>1, <2>2, LoadFrame DEF Others
<1>3. CASE EpollAdd
  <2>0. remote_fd \in Fds /\ target \in Workers
    BY <1>3 DEF EpollAdd, MainInv, TypeOK, MainType
  <2>1. CASE v # target
    <3>1. Watched(v)' = Watched(v)
      BY <1>3, <2>0, <2>1 DEF EpollAdd, Watched, TypeOK, KernelType
    <3>2. Admitted(v)' = Admitted(v)
      BY <1>3, <2>1 DEF EpollAdd, Admitted
    <3> QED
      BY <1>1, <3>1, <3>2, LoadFrame DEF Others
  <2>2. CASE v = target
    <3>1. Watched(v)' = Watched(v) \cup {remote_fd}
      BY <1>3, <2>0, <2>2 DEF EpollAdd, Watched, TypeOK, KernelType
    <3>2. Others(v)' = Others(v) \cup {remote_fd}
      BY <1>1, <3>1 DEF Others
    <3>3. /\ Admitted(v)' = Admitted(v) + 1
          /\ Admitted(v)' <= Capacity
      BY <1>3, <2>2, SMTT(20) DEF EpollAdd, Admitted, MainInv, TypeOK, CounterType
    <3>4. Clients(v)' <= Clients(v) + 1
      BY <1>1, <2>0, <3>2, SetTypes, ClientsAreWeight, WeightWatchOne
    <3>5. Clients(v)' \in Nat
      <4>1. Others(v)' \in SUBSET Fds
        BY DEF Others, Watched, Queued
      <4> QED
        BY <1>1, <4>1, SetTypes, ClientsAreWeight, WeightMonotone
    <3>6. /\ Clients(v) <= Admitted(v) /\ Admitted(v) <= Capacity
          /\ avail[v] = Capacity - Cardinality(Busy(v))
          /\ Admitted(v) \in Int /\ Clients(v) \in Int
      BY SetTypes, SMTT(20) DEF LoadInv
    <3>7. Clients(v)' <= Admitted(v)'
      BY <3>3, <3>4, <3>5, <3>6, SMTT(20)
    <3> QED
      BY <1>1, <3>3, <3>6, <3>7 DEF LoadInv
  <2> QED
    BY <2>1, <2>2
<1>4. CASE CountAccepted
  <2>1. Watched(v)' = Watched(v)
    BY <1>4 DEF CountAccepted, Watched, kernelVars
  <2>2. Admitted(v)' = Admitted(v)
    BY <1>4, SMTT(20) DEF CountAccepted, NextClient, Admitted, TypeOK, MainType, CounterType
  <2> QED
    BY <1>1, <2>1, <2>2, LoadFrame DEF Others
<1>5. CASE Drop
  <2>1. Watched(v)' \subseteq Watched(v)
    BY <1>5 DEF Drop, KernelClose, Watched, TypeOK, KernelType, MainInv
  <2>2. Admitted(v)' = Admitted(v)
    BY <1>5 DEF Drop, NextClient, Admitted
  <2> QED
    BY <1>1, <2>1, <2>2, LoadFrame DEF Others
<1> QED
  BY <1>2, <1>3, <1>4, <1>5 DEF Main

(* Handling an event adds no socket to an epoll set.                       *)
LEMMA HandleInterest ==
  ASSUME TypeOK, NEW w \in Workers, NEW fd \in Fds, HandleEvent(w, fd),
         NEW v \in Workers, NEW g \in Fds, interest[v][g] = "none"
  PROVE  interest'[v][g] = "none"
<1>1. interest' = interest \/ ChangeMode(w, fd, "WRITE") \/ ChangeMode(w, fd, "READ")
  BY Zenon DEF HandleEvent, RegisterClient, RejectClient, ReadMore, ReadComplete, ReadClose,
         WriteMore, WriteKeepAlive, WriteClose, ConnError, kernelVars
<1>2. interest \in [Workers -> [Fds -> Modes]]
  BY DEF TypeOK, KernelType
<1>3. ASSUME NEW m, ChangeMode(w, fd, m) PROVE interest'[v][g] = "none"
  BY <1>2, <1>3 DEF ChangeMode
<1> QED
  BY <1>1, <1>3

(* Handling an event that is not a registration: no entry changes hands.   *)
LEMMA HandleLoad ==
  ASSUME IInv, NEW w \in Workers, NEW fd \in Fds, HandleEvent(w, fd),
         NEW v \in Workers
  PROVE  LoadInv(v)'
<1> USE SchedulerAssumption DEF IInv
<1>0. TakeEvent(w, fd, batch[w][fd])
  BY DEF HandleEvent, RegisterClient, RejectClient, ReadMore, ReadComplete, ReadClose,
         WriteMore, WriteKeepAlive, WriteClose, ConnError, StartWrite, TakeEvent
<1>1. Queued(v)' \subseteq Queued(v)
  BY <1>0 DEF TakeEvent, Queued, TypeOK, LoopType
<1>2. Watched(v)' \subseteq Watched(v)
  BY HandleInterest DEF Watched
<1>3. Admitted(v)' = Admitted(v)
  BY DEF HandleEvent, RegisterClient, RejectClient, ReadMore, ReadComplete, ReadClose,
         WriteMore, WriteKeepAlive, WriteClose, ConnError, mainVars, Admitted
<1>4. Closing(v)' = Closing(v)
  <2>1. Continue \/ \E fds : Remove(w, fds, "events")
    BY DEF HandleEvent, RegisterClient, RejectClient, ReadMore, ReadComplete, ReadClose,
           WriteMore, WriteKeepAlive, WriteClose, ConnError
  <2>2. step[w] = "events"
    BY <1>0 DEF TakeEvent
  <2>3. CASE Continue
    BY <2>3 DEF Continue, Closing
  <2>4. CASE \E fds : Remove(w, fds, "events")
    BY <2>2, <2>4 DEF Remove, Closing, TypeOK, LoopType
  <2> QED
    BY <2>1, <2>3, <2>4
<1>5. CASE ~RegisterClient(w, fd) \/ v # w
  <2>1. Busy(v)' = Busy(v) /\ avail'[v] = avail[v]
    <3>1. CASE RegisterClient(w, fd)
      BY <1>5, <3>1 DEF RegisterClient, Busy, TypeOK, QueueType
    <3>2. CASE ~RegisterClient(w, fd)
      <4>1. /\ avail' = avail
            /\ conn' = conn \/ StartWrite(w, fd)
        BY Zenon, <3>2 DEF HandleEvent, RejectClient, ReadMore, ReadComplete, ReadClose,
             WriteMore, WriteKeepAlive, WriteClose, ConnError, queueVars
      <4>2. ASSUME StartWrite(w, fd)
            PROVE  \A g \in Fds : conn'[v][g] = "none" <=> conn[v][g] = "none"
        BY <4>2 DEF StartWrite, TypeOK, QueueType
      <4> QED
        BY <4>1, <4>2 DEF Busy
    <3> QED
      BY <3>1, <3>2
  <2> QED
    BY <1>1, <1>2, <1>3, <1>4, <2>1, LoadFrame DEF Others
<1>6. CASE RegisterClient(w, fd) /\ v = w
  <2>0. fd \notin Busy(w) /\ fd \in Others(w) /\ Closing(w) = {}
    BY <1>6 DEF RegisterClient, TakeEvent, Busy, Others, Queued, Closing
  <2>1. Busy(w)' = Busy(w) \cup {fd}
    BY <1>6 DEF RegisterClient, Busy, TypeOK, QueueType
  <2>2. avail'[w] = avail[w] - 1
    BY <1>6 DEF RegisterClient, TypeOK, QueueType
  <2>3. Cardinality(Busy(w)') = Cardinality(Busy(w)) + 1
    BY <2>0, <2>1, SetTypes, AddOneCardinality
  <2>4. Others(w)' \in SUBSET Others(w)
    BY <1>1, <1>2, <1>6 DEF Others
  <2>5. Clients(w)' <= Clients(w)
    BY <1>4, <1>6, <2>0, <2>1, <2>4, SetTypes, ClientsAreWeight, WeightRegister, SMTT(20)
  <2>6. Clients(w)' \in Nat
    <3>1. Busy(w)' \in SUBSET Fds /\ Others(w)' \in SUBSET Fds
      BY <2>1, <2>4, SetTypes
    <3> QED
      BY <1>4, <1>6, <3>1, SetTypes, ClientsAreWeight, WeightMonotone
  <2> QED
    <3>1. /\ Admitted(w)' = Admitted(w) /\ Admitted(w) \in Int
          /\ Clients(w) \in Int /\ LoadInv(w)
      BY <1>3, <1>6, SetTypes, SMTT(20)
    <3>2. Clients(w)' - Admitted(w)' <= Clients(w) - Admitted(w)
      BY <2>5, <2>6, <3>1, SMTT(20)
    <3> QED
      <4>1. avail[w] \in Int /\ Cardinality(Busy(w)) \in Int
        BY SetTypes, SMTT(20) DEF TypeOK, QueueType
      <4>2. avail'[w] \in Int /\ Cardinality(Busy(w)') \in Int
        BY <2>2, <2>3, <4>1, SMTT(20)
      <4>3. avail'[w] + Cardinality(Busy(w)') = avail[w] + Cardinality(Busy(w))
        BY <2>2, <2>3, <4>1, SMTT(20)
      <4>4. Clients(w)' \in Int /\ Admitted(w)' \in Int /\ Admitted(w)' <= Admitted(w)
        BY <2>6, <3>1, SMTT(20)
      <4> QED
        BY <1>6, <3>1, <3>2, <4>2, <4>3, <4>4, StepToLoad
<1> QED
  BY <1>5, <1>6

LEMMA WorkerLoad ==
  ASSUME IInv, NEW w \in Workers, Worker(w), NEW v \in Workers
  PROVE  LoadInv(v)'
<1> USE SchedulerAssumption DEF IInv
<1>1. CASE EpollWait(w)
  <2>1. Queued(v)' \subseteq Others(v)
    BY <1>1 DEF EpollWait, Ready, Queued, Watched, Others, TypeOK, LoopType, KernelType, Modes
  <2>2. /\ Watched(v)' = Watched(v) /\ Busy(v)' = Busy(v) /\ avail'[v] = avail[v]
        /\ Admitted(v)' = Admitted(v)
    BY <1>1 DEF EpollWait, Watched, Busy, Admitted, mainVars, kernelVars, queueVars
  <2>3. Closing(v)' = Closing(v)
    BY <1>1 DEF EpollWait, Closing, TypeOK, LoopType
  <2> QED
    BY <2>1, <2>2, <2>3, LoadFrame DEF Others
<1>2. CASE \E fd \in Fds : HandleEvent(w, fd)
  BY <1>2, HandleLoad
<1>3. CASE RemoveEpollDel(w)
  <2>0. PICK h \in Fds : h = Head(todo[w])
    BY <1>3, HeadOfTodo DEF RemoveEpollDel
  <2>1. /\ Queued(v)' = Queued(v) /\ Busy(v)' = Busy(v) /\ avail'[v] = avail[v]
        /\ Admitted(v)' = Admitted(v)
    BY <1>3 DEF RemoveEpollDel, Queued, Busy, Admitted, mainVars, queueVars
  <2>2. CASE v # w
    <3>1. Watched(v)' = Watched(v)
      BY <1>3, <2>2 DEF RemoveEpollDel, Watched, TypeOK, KernelType
    <3>2. Closing(v)' = Closing(v)
      BY <1>3, <2>2 DEF RemoveEpollDel, Closing, TypeOK, LoopType
    <3> QED
      BY <2>1, <3>1, <3>2, LoadFrame DEF Others
  <2>3. CASE v = w
    <3>1. Watched(w)' = Watched(w) \ {h}
      BY <1>3, <2>0 DEF RemoveEpollDel, Watched, TypeOK, KernelType
    <3>2. h \notin Queued(w)
      BY <1>3, <2>0, HeadOfTodo DEF RemoveEpollDel, Queued
    <3>3. Others(w)' = Others(w) \ {h}
      BY <2>1, <2>3, <3>1, <3>2 DEF Others
    <3>4. Closing(w) = {} /\ Closing(w)' = {h}
      BY <1>3, <2>0 DEF RemoveEpollDel, Closing, TypeOK, LoopType
    <3>5. Clients(w)' <= Clients(w)
      <4>1. Clients(w)' = Weight(Busy(w), {h}, Others(w) \ {h})
        BY <2>1, <2>3, <3>3, <3>4, ClientsAreWeight
      <4>2. Clients(w) = Weight(Busy(w), {}, Others(w))
        BY <3>4, ClientsAreWeight
      <4>3. Busy(w) \in SUBSET Fds /\ Others(w) \in SUBSET Fds
        BY SetTypes
      <4> QED
        BY <4>1, <4>2, <4>3, WeightStartClosing
    <3>6. Clients(w)' \in Nat
      <4>1. Others(w)' \in SUBSET Fds /\ {h} \in SUBSET Fds
        BY <3>3, SetTypes
      <4>2. Clients(w)' = Weight(Busy(w), {h}, Others(w)')
        BY <2>1, <2>3, <3>4, ClientsAreWeight
      <4>3. Busy(w) \in SUBSET Fds
        BY SetTypes
      <4> QED
        BY <4>1, <4>2, <4>3, WeightMonotone
    <3>7. /\ Clients(w) <= Admitted(w) /\ Admitted(w) <= Capacity
          /\ avail[w] = Capacity - Cardinality(Busy(w))
          /\ Admitted(w) \in Int /\ Clients(w) \in Int
      BY SetTypes, SMTT(20) DEF LoadInv
    <3>8. Clients(w)' <= Admitted(w)
      BY <3>5, <3>6, <3>7, SMTT(20)
    <3> QED
      BY <2>1, <2>3, <3>7, <3>8 DEF LoadInv
  <2> QED
    BY <2>2, <2>3
<1>4. CASE RemoveClose(w)
  <2>0. Head(todo[w]) \in Fds
    BY <1>4, HeadOfTodo DEF RemoveClose
  <2>1. /\ Queued(v)' = Queued(v) /\ Busy(v)' = Busy(v) /\ avail'[v] = avail[v]
        /\ Admitted(v)' = Admitted(v)
    BY <1>4 DEF RemoveClose, Queued, Busy, Admitted, mainVars, queueVars
  <2>2. Watched(v)' \subseteq Watched(v)
    BY <1>4, <2>0 DEF RemoveClose, KernelClose, Watched, TypeOK, KernelType
  <2>3. Closing(v)' = Closing(v)
    BY <1>4 DEF RemoveClose, Closing, TypeOK, LoopType
  <2> QED
    BY <2>1, <2>2, <2>3, LoadFrame DEF Others
<1>5. CASE RemoveUnlink(w)
  <2>0. PICK h \in Fds : h = Head(todo[w])
    BY <1>5, HeadOfTodo DEF RemoveUnlink
  <2>1. Others(v)' = Others(v)
    BY <1>5 DEF RemoveUnlink, Others, Queued, Watched, kernelVars
  <2>2. CASE v # w
    <3>1. Closing(v)' = Closing(v)
      BY <1>5, <2>2 DEF RemoveUnlink, Closing, TypeOK, LoopType
    <3>2. /\ Busy(v)' = Busy(v) /\ avail'[v] = avail[v]
          /\ Admitted(v)' = Admitted(v)
      BY <1>5, <2>0, <2>2 DEF RemoveUnlink, ReleaseEntry, Busy, Admitted, mainVars, TypeOK,
                        QueueType, CounterType
    <3> QED
      BY <2>1, <3>1, <3>2, LoadFrame
  <2>3. CASE v = w
    <3>1. Closing(w) = {h} /\ Closing(w)' = {}
      BY <1>5, <2>0 DEF RemoveUnlink, Closing, TypeOK, LoopType
    <3>2. CASE conn[w][h] = "none"
      <4>1. h \notin Busy(w)
        BY <3>2 DEF Busy
      <4>2. UNCHANGED <<closed, conn, avail>>
        BY <1>5, <2>0, <3>2 DEF RemoveUnlink, ReleaseEntry
      <4>3. Busy(w)' = Busy(w) /\ Admitted(w)' = Admitted(w)
        BY <1>5, <4>2 DEF RemoveUnlink, Busy, Admitted, mainVars
      <4>4. Clients(w)' = Clients(w)
        BY <2>1, <2>3, <3>1, <4>1, <4>3, SetTypes, ClientsAreWeight, WeightUnlink, SMTT(20)
      <4> QED
        BY <2>3, <4>2, <4>3, <4>4 DEF LoadInv
    <3>3. CASE conn[w][h] # "none"
      <4>1. h \in Busy(w)
        BY <3>3 DEF Busy
      <4>2. /\ closed' = [closed EXCEPT ![w] = @ + 1]
            /\ conn' = [conn EXCEPT ![w][h] = "none"]
            /\ avail' = [avail EXCEPT ![w] = @ + 1]
        BY <1>5, <2>0, <3>3 DEF RemoveUnlink, ReleaseEntry
      <4>3. Busy(w)' = Busy(w) \ {h}
        BY <4>2 DEF Busy, TypeOK, QueueType
      <4>4. Admitted(w)' = Admitted(w) - 1 /\ avail'[w] = avail[w] + 1
        <5>1. /\ closed'[w] = closed[w] + 1 /\ closed[w] \in Int /\ accepted[w] \in Int
              /\ avail'[w] = avail[w] + 1
          BY <4>2, SMTT(20) DEF TypeOK, CounterType, QueueType
        <5>2. accepted' = accepted /\ mpc' = mpc /\ target' = target
          BY <1>5 DEF RemoveUnlink, mainVars
        <5>3. CASE mpc = "count" /\ target = w
          BY <5>1, <5>2, <5>3, SMTT(20) DEF Admitted
        <5>4. CASE ~(mpc = "count" /\ target = w)
          BY <5>1, <5>2, <5>4, SMTT(20) DEF Admitted
        <5> QED
          BY <5>1, <5>3, <5>4
      <4>5. Clients(w)' = Clients(w) - 1
        BY <2>1, <2>3, <3>1, <4>1, <4>3, SetTypes, ClientsAreWeight, WeightUnlink, SMTT(20)
      <4>6. Cardinality(Busy(w)') = Cardinality(Busy(w)) - 1
        BY <4>1, <4>3, SetTypes, AddOneCardinality
      <4>7. /\ Admitted(w) \in Int /\ Clients(w) \in Int /\ LoadInv(w)
            /\ avail[w] \in Int /\ Cardinality(Busy(w)) \in Int
        BY SetTypes, SMTT(20) DEF TypeOK, QueueType
      <4>8. Clients(w)' \in Int /\ Admitted(w)' \in Int /\ Admitted(w)' <= Admitted(w)
        BY <4>4, <4>5, <4>7, SMTT(20)
      <4>9. Clients(w)' - Admitted(w)' <= Clients(w) - Admitted(w)
        BY <4>4, <4>5, <4>7, SMTT(20)
      <4>10. avail'[w] \in Int /\ Cardinality(Busy(w)') \in Int
        BY <4>4, <4>6, <4>7, SMTT(20)
      <4>11. avail'[w] + Cardinality(Busy(w)') = avail[w] + Cardinality(Busy(w))
        BY <4>4, <4>6, <4>7, SMTT(20)
      <4> QED
        BY <2>3, <4>7, <4>8, <4>9, <4>10, <4>11, StepToLoad
    <3> QED
      BY <3>2, <3>3
  <2> QED
    BY <2>2, <2>3
<1>6. CASE CheckPending(w) \/ CheckIncomplete(w) \/ Rearm(w) \/ NoSweep(w)
  <2>1. /\ Busy(v)' = Busy(v) /\ avail'[v] = avail[v] /\ Others(v)' = Others(v)
        /\ Admitted(v)' = Admitted(v)
    BY <1>6 DEF CheckPending, CheckIncomplete, Rearm, NoSweep, Busy, Others, Watched,
                Queued, Admitted, mainVars, kernelVars, queueVars
  <2>2. Closing(v)' = Closing(v)
    BY <1>6 DEF CheckPending, CheckIncomplete, Rearm, NoSweep, Remove, Closing, TypeOK,
                LoopType
  <2> QED
    BY <2>1, <2>2, LoadFrame
<1> QED
  BY <1>1, <1>2, <1>3, <1>4, <1>5, <1>6 DEF Worker

LEMMA StutterLoad ==
  ASSUME IInv, Tick \/ UNCHANGED vars, NEW v \in Workers
  PROVE  LoadInv(v)'
<1>1. /\ Busy(v)' = Busy(v) /\ avail'[v] = avail[v] /\ Others(v)' = Others(v)
      /\ Admitted(v)' = Admitted(v) /\ Closing(v)' = Closing(v)
  BY DEF Tick, vars, Busy, Others, Watched, Queued, Admitted, Closing, mainVars,
         kernelVars, loopVars, queueVars
<1> QED
  BY <1>1, LoadFrame DEF IInv

-----------------------------------------------------------------------------
(* A step of one worker leaves the loops of the others alone.              *)
LEMMA LoopOthers ==
  ASSUME LoopInv, NEW w \in Workers, LoopOf(w)',
         \A v \in Workers \ {w} : /\ step'[v] = step[v] /\ todo'[v] = todo[v]
                                  /\ batch'[v] = batch[v] /\ ret'[v] = ret[v]
  PROVE  LoopInv'
<1>1. ASSUME NEW v \in Workers \ {w} PROVE LoopOf(v)'
  <2>1. /\ step'[v] = step[v] /\ todo'[v] = todo[v]
        /\ batch'[v] = batch[v] /\ ret'[v] = ret[v]
    OBVIOUS
  <2>2. LoopOf(v)
    BY DEF LoopInv
  <2> QED
    BY <2>1, <2>2 DEF LoopOf, BatchDone
<1> QED
  BY <1>1 DEF LoopInv

(* An order of a set of sockets is empty or starts the removal of sockets  *)
(* that have no event left when the batch is done.                         *)
LEMMA RemoveLoop ==
  ASSUME TypeOK, LoopInv, NEW w \in Workers, NEW fds \in Seq(Fds),
         NEW back \in {"events", "sessions", "rearm"}, Remove(w, fds, back),
         \A i \in 1 .. Len(fds) : batch'[w][fds[i]] = "none",
         \A v \in Workers \ {w} : batch'[v] = batch[v],
         back = "events" \/ BatchDone(w)'
  PROVE  LoopInv'
<1>1. \A v \in Workers \ {w} : /\ step'[v] = step[v] /\ todo'[v] = todo[v]
                               /\ batch'[v] = batch[v] /\ ret'[v] = ret[v]
  BY DEF Remove, TypeOK, LoopType
<1>2. /\ todo'[w] = fds /\ step'[w] = IF fds = <<>> THEN back ELSE "del"
      /\ fds # <<>> => ret'[w] = back
  BY DEF Remove, TypeOK, LoopType
<1>3. LoopOf(w)'
  <2>1. CASE fds = <<>>
    BY <1>2, <2>1 DEF LoopOf
  <2>2. CASE fds # <<>>
    BY <1>2, <2>2 DEF LoopOf
  <2> QED
    BY <2>1, <2>2
<1> QED
  BY <1>1, <1>3, LoopOthers

LEMMA MainLoop == LoopInv /\ (Main \/ Tick \/ UNCHANGED vars) => LoopInv'
  BY SMTT(20) DEF LoopInv, LoopOf, BatchDone, Main, Accept, ScanWorker, EpollAdd, EpollAddFails, CountAccepted, Drop,
         Tick, vars, loopVars

LEMMA WorkerLoop ==
  ASSUME TypeOK, LoopInv, NEW w \in Workers, Worker(w)
  PROVE  LoopInv'
<1>1. CASE EpollWait(w) \/ Rearm(w) \/ NoSweep(w)
  <2>1. /\ step[w] \in {"wait", "rearm", "events"} /\ step'[w] \in {"wait", "events"}
        /\ todo' = todo
        /\ \A v \in Workers \ {w} : /\ step'[v] = step[v] /\ batch'[v] = batch[v]
                                     /\ ret'[v] = ret[v]
    BY <1>1 DEF EpollWait, Rearm, NoSweep, TypeOK, LoopType
  <2>2. LoopOf(w)'
    BY <2>1 DEF LoopInv, LoopOf
  <2> QED
    BY <2>1, <2>2, LoopOthers
<1>2. CASE \E fd \in Fds : HandleEvent(w, fd)
  <2>1. PICK fd \in Fds : HandleEvent(w, fd)
    BY <1>2
  <2>2. TakeEvent(w, fd, batch[w][fd])
    BY <2>1 DEF HandleEvent, RegisterClient, RejectClient, ReadMore, ReadComplete, ReadClose,
           WriteMore, WriteKeepAlive, WriteClose, ConnError, StartWrite, TakeEvent
  <2>3. /\ batch'[w][fd] = "none" /\ step[w] = "events"
        /\ \A v \in Workers \ {w} : batch'[v] = batch[v]
    BY <2>2 DEF TakeEvent, TypeOK, LoopType
  <2>4. Continue \/ Remove(w, <<fd>>, "events") \/ Remove(w, <<fd, fd>>, "events")
    BY <2>1 DEF HandleEvent, RegisterClient, RejectClient, ReadMore, ReadComplete, ReadClose,
           WriteMore, WriteKeepAlive, WriteClose, ConnError
  <2>5. CASE Continue
    <3>1. step' = step /\ ret' = ret /\ todo' = todo
      BY <2>5 DEF Continue
    <3>2. LoopOf(w)'
      BY <2>3, <3>1 DEF LoopInv, LoopOf
    <3> QED
      BY <2>3, <3>1, <3>2, LoopOthers
  <2>6. CASE Remove(w, <<fd>>, "events")
    <3>1. <<fd>> \in Seq(Fds) /\ \A i \in 1 .. Len(<<fd>>) : <<fd>>[i] = fd
      BY SMTT(20)
    <3> QED
      BY <2>3, <2>6, <3>1, RemoveLoop
  <2>7. CASE Remove(w, <<fd, fd>>, "events")
    <3>1. <<fd, fd>> \in Seq(Fds) /\ \A i \in 1 .. Len(<<fd, fd>>) : <<fd, fd>>[i] = fd
      BY SMTT(20)
    <3> QED
      BY <2>3, <2>7, <3>1, RemoveLoop
  <2> QED
    BY <2>4, <2>5, <2>6, <2>7
<1>3. CASE RemoveEpollDel(w) \/ RemoveClose(w)
  BY <1>3, SMTT(20) DEF RemoveEpollDel, RemoveClose, LoopInv, LoopOf, BatchDone, TypeOK, LoopType
<1>4. CASE RemoveUnlink(w)
  <2>1. /\ todo'[w] = Tail(todo[w]) /\ batch' = batch
        /\ step'[w] = IF Len(todo[w]) = 1 THEN ret[w] ELSE "del"
        /\ ret'[w] = IF Len(todo[w]) = 1 THEN "events" ELSE ret[w]
        /\ \A v \in Workers \ {w} :
             step'[v] = step[v] /\ todo'[v] = todo[v] /\ ret'[v] = ret[v]
    BY <1>4 DEF RemoveUnlink, TypeOK, LoopType
  <2>2. /\ Tail(todo[w]) \in Seq(Fds)
        /\ Len(Tail(todo[w])) = Len(todo[w]) - 1
        /\ \A i \in 1 .. Len(Tail(todo[w])) : batch[w][Tail(todo[w])[i]] = "none"
    BY <1>4, HeadOfTodo DEF RemoveUnlink
  <2>3. Len(todo[w]) \in Nat /\ (Tail(todo[w]) = <<>> <=> Len(todo[w]) = 1)
    <3>1. \A q \in Seq(Fds) : Len(q) \in Nat /\ (q = <<>> <=> Len(q) = 0)
      BY SMTT(20)
    <3>2. todo[w] \in Seq(Fds)
      BY DEF TypeOK, LoopType
    <3>3. Len(todo[w]) \in Nat
      BY <3>1, <3>2
    <3>4. Tail(todo[w]) = <<>> <=> Len(Tail(todo[w])) = 0
      BY <2>2, <3>1
    <3> QED
      BY <2>2, <3>3, <3>4, SMTT(20)
  <2>4. ret[w] \in {"events", "sessions", "rearm"}
    BY DEF TypeOK, LoopType
  <2>5. ret[w] # "events" => BatchDone(w)
    BY <1>4 DEF RemoveUnlink, LoopInv, LoopOf
  <2>6. \A v \in Workers : BatchDone(v)' <=> BatchDone(v)
    BY <2>1 DEF BatchDone
  <2>7. step'[w] \in {"wait", "events", "sessions", "rearm"} => todo'[w] = <<>>
    BY <2>1, <2>3, <2>4
  <2>8. step'[w] \in {"sessions", "rearm"} => BatchDone(w)'
    BY <2>1, <2>4, <2>5, <2>6
  <2>9. step'[w] \in {"del", "close", "unlink"} /\ ret'[w] # "events" => BatchDone(w)'
    BY <2>1, <2>4, <2>5, <2>6
  <2>10. step'[w] \in {"del", "close", "unlink"} =>
           /\ todo'[w] # <<>>
           /\ \A i \in 1 .. Len(todo'[w]) : batch'[w][todo'[w][i]] = "none"
    <3>1. CASE Len(todo[w]) = 1
      BY <2>1, <2>4, <3>1
    <3>2. CASE Len(todo[w]) # 1
      BY <2>1, <2>2, <2>3, <3>2
    <3> QED
      BY <3>1, <3>2
  <2>11. LoopOf(w)'
    BY <2>7, <2>8, <2>9, <2>10 DEF LoopOf
  <2> QED
    BY <2>1, <2>11, LoopOthers
<1>5. CASE CheckPending(w)
  <2>1. PICK fds \in Orders(PendingExpired(w)) : Remove(w, fds, "sessions")
    BY <1>5 DEF CheckPending
  <2>2. fds \in Seq(Fds)
    BY <2>1, OrdersAreSequences DEF PendingExpired
  <2>3. \A i \in 1 .. Len(fds) : batch'[w][fds[i]] = "none"
    BY <1>5, <2>2, SMTT(20) DEF CheckPending
  <2>4. BatchDone(w)'
    BY <1>5 DEF CheckPending, BatchDone
  <2> QED
    BY <1>5, <2>1, <2>2, <2>3, <2>4, RemoveLoop DEF CheckPending
<1>6. CASE CheckIncomplete(w)
  <2>1. PICK fds \in Orders(IncompleteExpired(w)) : Remove(w, fds, "rearm")
    BY <1>6 DEF CheckIncomplete
  <2>2. fds \in Seq(Fds)
    BY <2>1, OrdersAreSequences DEF IncompleteExpired
  <2>4. BatchDone(w)'
    BY <1>6 DEF CheckIncomplete, BatchDone, LoopInv, LoopOf
  <2>3. \A i \in 1 .. Len(fds) : batch'[w][fds[i]] = "none"
    <3>1. \A i \in 1 .. Len(fds) : fds[i] \in Fds
      BY <2>2, SMTT(20)
    <3> QED
      BY <2>4, <3>1 DEF BatchDone
  <2> QED
    BY <1>6, <2>1, <2>2, <2>3, <2>4, RemoveLoop DEF CheckIncomplete
<1> QED
  BY <1>1, <1>2, <1>3, <1>4, <1>5, <1>6 DEF Worker

LEMMA NextMainInv == IInv /\ [Next]_vars => MainInv'
<1> SUFFICES ASSUME IInv, [Next]_vars PROVE MainInv'
  OBVIOUS
<1> USE SchedulerAssumption DEF IInv
<1>0. \A w \in Workers : closed[w] <= accepted[w] \/ mpc = "count"
  <2> SUFFICES ASSUME NEW w \in Workers, mpc # "count" PROVE closed[w] <= accepted[w]
    OBVIOUS
  <2>1. 0 <= Admitted(w)
    BY SetTypes, SMTT(20) DEF LoadInv
  <2> QED
    BY <2>1, SMTT(20) DEF Admitted, TypeOK, CounterType
<1>1. CASE Accept
  BY <1>1, SMTT(20) DEF Accept, MainInv, Workers
<1>2. CASE ScanWorker
  <2>1. mpc = "scan" /\ idx \in Workers /\ target \in Workers
    BY <1>2 DEF ScanWorker, MainInv, TypeOK, MainType
  <2>2. Load(idx) = accepted[idx] - closed[idx] /\ Load(idx) \in Int /\ cur \in Int
    BY <1>0, <2>1, SMTT(20) DEF Load, TypeOK, CounterType, MainType
  <2>3. idx > 0 => accepted[target] - closed[target] <= cur
    BY <2>1 DEF MainInv
  <2> DEFINE load == Load(idx)
             lowest == idx = 0 \/ load < cur
             best == IF lowest THEN load ELSE cur
             last == idx = NWorkers - 1 \/ (lowest /\ load = 0)
  <2>4. /\ accepted' = accepted /\ closed' = closed
        /\ target' = IF lowest THEN idx ELSE target
        /\ idx' = IF last THEN 0 ELSE idx + 1
        /\ cur' = IF last THEN 0 ELSE best
        /\ mpc' = IF idx = 0 /\ load = 0 THEN "add"
                  ELSE IF last THEN Verdict(best) ELSE "scan"
    BY <1>2 DEF ScanWorker
  <2>8. best \in Int /\ accepted[target'] - closed[target'] <= best
    <3>1. CASE lowest
      BY <2>2, <2>4, <3>1, SMTT(20)
    <3>2. CASE ~lowest
      <4>1. idx > 0
        BY <2>1, <3>2, SMTT(20) DEF Workers
      <4> QED
        BY <2>2, <2>3, <2>4, <3>2, <4>1
    <3> QED
      BY <3>1, <3>2
  <2>9. accepted[target'] - closed[target'] \in Int
    BY <2>1, <2>4, SMTT(20) DEF TypeOK, CounterType
  <2>5. CASE mpc' = "scan"
    <3>1. ~last
      BY <2>4, <2>5 DEF Verdict
    <3>2. idx' = idx + 1 /\ idx + 1 \in Workers /\ cur' = best
      BY <2>1, <2>4, <3>1, SMTT(20) DEF Workers
    <3> QED
      BY <1>2, <2>4, <2>5, <2>8, <3>2 DEF ScanWorker, MainInv
  <2>6. CASE mpc' = "add"
    <3>1. best < Capacity
      <4>1. CASE idx = 0 /\ load = 0
        BY <4>1, SMTT(20)
      <4>2. CASE ~(idx = 0 /\ load = 0)
        BY <2>4, <2>6, <2>8, <4>2, SMTT(20) DEF Verdict
      <4> QED
        BY <4>1, <4>2
    <3>2. accepted[target'] - closed[target'] < Capacity
      <4> HIDE DEF best
      <4> QED
        BY <2>8, <2>9, <3>1, SMTT(20)
    <3> QED
      BY <1>2, <2>4, <2>6, <3>2 DEF ScanWorker, MainInv
  <2>7. mpc' \in {"scan", "add", "drop"} /\ remote_fd' \in Fds
    BY <1>2 DEF ScanWorker, Verdict, MainInv
  <2> QED
    BY <2>5, <2>6, <2>7 DEF MainInv
<1>3. CASE EpollAdd \/ EpollAddFails
  BY <1>3 DEF EpollAdd, EpollAddFails, MainInv
<1>4. CASE CountAccepted \/ Drop
  BY <1>4 DEF CountAccepted, Drop, NextClient, MainInv
<1>5. CASE Tick \/ UNCHANGED vars
  BY <1>5 DEF Tick, vars, mainVars, MainInv
<1>6. CASE \E w \in Workers : Worker(w)
  <2>1. PICK w \in Workers : Worker(w)
    BY <1>6
  <2>2. UNCHANGED mainVars /\ accepted' = accepted
    BY <2>1 DEF Worker, EpollWait, HandleEvent, RegisterClient, RejectClient, ReadMore,
      ReadComplete, ReadClose, WriteMore, WriteKeepAlive, WriteClose, ConnError,
      RemoveEpollDel, RemoveClose, RemoveUnlink, CheckPending, CheckIncomplete, Rearm,
      NoSweep
  <2>3. closed' = closed \/ closed' = [closed EXCEPT ![w] = @ + 1]
    BY <2>1 DEF Worker, EpollWait, HandleEvent, RegisterClient, RejectClient, ReadMore,
      ReadComplete, ReadClose, WriteMore, WriteKeepAlive, WriteClose, ConnError,
      RemoveEpollDel, RemoveClose, RemoveUnlink, ReleaseEntry, CheckPending,
      CheckIncomplete, Rearm, NoSweep
  <2>4. \A v \in Workers : /\ closed[v] \in Nat /\ closed'[v] \in Nat
                           /\ closed[v] <= closed'[v] /\ accepted[v] \in Nat
    BY <2>3, SMTT(20) DEF TypeOK, CounterType
  <2>5. target \in Workers /\ cur \in Int
    BY DEF TypeOK, MainType
  <2> QED
    BY SMTT(30), <2>2, <2>4, <2>5 DEF MainInv, mainVars
<1> QED
  BY <1>1, <1>2, <1>3, <1>4, <1>5, <1>6 DEF Next, Main

LEMMA InitIInv == Init => IInv
<1> SUFFICES ASSUME Init PROVE IInv
  OBVIOUS
<1> USE SchedulerAssumption
<1>1. TypeOK
  BY InitTypeOK
<1>2. LoopInv /\ MainInv
  BY DEF Init, LoopInv, LoopOf, MainInv
<1>3. ASSUME NEW w \in Workers PROVE LoadInv(w)
  <2>1. Busy(w) = {} /\ Watched(w) = {} /\ Queued(w) = {} /\ Closing(w) = {}
    BY DEF Init, Busy, Watched, Queued, Closing
  <2>2. Clients(w) = 0 + 0
    BY <2>1, FS_EmptySet DEF Clients
  <2>3. Admitted(w) = 0 - 0 + 0 /\ avail[w] = Capacity
    BY DEF Init, Admitted
  <2> QED
    BY <2>1, <2>2, <2>3, FS_EmptySet, SMTT(20) DEF LoadInv
<1> QED
  BY <1>1, <1>2, <1>3 DEF IInv

LEMMA NextIInv == IInv /\ [Next]_vars => IInv'
<1> SUFFICES ASSUME IInv, [Next]_vars PROVE IInv'
  OBVIOUS
<1>1. MainInv'
  BY NextMainInv
<1>2. TypeOK'
  <2>1. CASE UNCHANGED vars
    BY <2>1, TypeFrames DEF IInv, vars, TypeOK
  <2> QED
    BY <2>1, MainTypeOK, WorkerTypeOK, TickTypeOK DEF IInv, Next
<1>3. LoopInv'
  BY MainLoop, WorkerLoop DEF IInv, Next
<1>4. \A v \in Workers : LoadInv(v)'
  BY MainLoad, WorkerLoad, StutterLoad DEF Next
<1> QED
  BY <1>1, <1>2, <1>3, <1>4 DEF IInv

(* The inductive invariant holds in every reachable state.                 *)
THEOREM SchedulerInvariant == Spec => []IInv
  BY InitIInv, NextIInv, PTL DEF Spec

(* Every variable of the scheduler keeps its type.                         *)
THEOREM SchedulerTypes == Spec => []TypeOK
  BY SchedulerInvariant, PTL DEF IInv

(* The load the main thread balances by covers every socket a worker still *)
(* has to deal with.                                                       *)
THEOREM LoadCoversClientsHolds == Spec => []LoadCoversClients
<1>1. IInv => LoadCoversClients
  BY DEF IInv, LoadInv, LoadCoversClients
<1> QED
  BY <1>1, SchedulerInvariant, PTL

(* mk_sched_register_client() never finds the av_queue empty.              *)
THEOREM AvailableEntryHolds == Spec => []AvailableEntry
<1>1. ASSUME IInv, NEW w \in Workers, NEW fd \in Fds,
             batch[w][fd] = "IN", conn[w][fd] = "none"
      PROVE  avail[w] > 0
  <2> USE SchedulerAssumption DEF IInv
  <2> DEFINE B == Busy(w)
             C == Closing(w)
  <2>1. fd \in Others(w) /\ fd \notin B /\ fd \notin B \ C
    BY <1>1 DEF Others, Queued, Busy
  <2>2. {fd} \in SUBSET Others(w) /\ B \ C \in SUBSET Fds
    BY <1>1, <2>1, SetTypes
  <2>3. Weight(B, C, {fd}) <= Clients(w) /\ Weight(B, C, {fd}) \in Nat
    BY <1>1, <2>2, SetTypes, ClientsAreWeight, WeightMonotone
  <2>4. Weight(B, C, {fd}) = Weight(B, C, {}) + 1
    <3>1. Cardinality((B \ C) \cup {fd}) = Cardinality(B \ C) + 1
      BY <2>1, <2>2, AddOneCardinality
    <3>2. (B \ C) \cup {} = B \ C
      OBVIOUS
    <3>3. Cardinality(B \ C) \in Nat /\ Cardinality(B \cap C) \in Nat
      BY <1>1, SetTypes, SubsetCardinality
    <3>4. Weight(B, C, {fd}) = Cardinality((B \ C) \cup {fd}) + Cardinality(B \cap C)
      BY DEF Weight
    <3>5. Weight(B, C, {}) = Cardinality(B \ C) + Cardinality(B \cap C)
      BY <3>2 DEF Weight
    <3>6. \A a, b, c \in Nat : a = b + 1 => a + c = (b + c) + 1
      BY SMTT(20)
    <3>7. Cardinality((B \ C) \cup {fd}) \in Nat
      BY <3>1, <3>3, SMTT(20)
    <3> QED
      BY <3>1, <3>3, <3>4, <3>5, <3>6, <3>7, SMTT(20)
  <2>5. Weight(B, C, {}) = Cardinality(B) /\ Cardinality(B) \in Nat
    BY <1>1, WeightOfEntries, SetTypes
  <2>6. /\ Clients(w) <= Admitted(w) /\ Admitted(w) <= Capacity
        /\ avail[w] = Capacity - Cardinality(B)
    BY <1>1 DEF LoadInv
  <2>7. Clients(w) \in Int /\ Admitted(w) \in Int
    BY <1>1, SetTypes, SMTT(20)
  <2>8. Cardinality(B) + 1 <= Clients(w)
    BY <2>3, <2>4, <2>5
  <2> QED
    BY <2>5, <2>6, <2>7, <2>8, SMTT(20)
<1>2. IInv => AvailableEntry
  BY <1>1 DEF IInv, LoadInv, AvailableEntry
<1> QED
  BY <1>2, SchedulerInvariant, PTL

(* The unsigned difference _next_target() computes does not wrap around.   *)
THEOREM LoadNeverWrapsHolds == Spec => []LoadNeverWraps
<1>1. ASSUME IInv, mpc = "scan", NEW w \in Workers
      PROVE  closed[w] <= accepted[w]
  <2>1. 0 <= Admitted(w)
    BY <1>1, SetTypes, SMTT(20) DEF IInv, LoadInv
  <2> QED
    BY <1>1, <2>1, SMTT(20) DEF Admitted, IInv, TypeOK, CounterType
<1>2. IInv => LoadNeverWraps
  BY <1>1 DEF LoadNeverWraps
<1> QED
  BY <1>2, SchedulerInvariant, PTL

-----------------------------------------------------------------------------
(* The scheduler implements its promise: a worker is never given more than *)
(* its capacity and gives back only what it was given.                     *)
LEMMA WorkerReleases ==
  ASSUME IInv, NEW w \in Workers, Worker(w)
  PROVE  /\ UNCHANGED <<mpc, target, accepted>>
         /\ \/ UNCHANGED closed
            \/ closed' = [closed EXCEPT ![w] = @ + 1] /\ Admitted(w) > 0
<1>1. UNCHANGED <<mpc, target, accepted>>
  BY DEF Worker, EpollWait, HandleEvent, RegisterClient, RejectClient, ReadMore,
    ReadComplete, ReadClose, WriteMore, WriteKeepAlive, WriteClose, ConnError,
    RemoveEpollDel, RemoveClose, RemoveUnlink, CheckPending, CheckIncomplete, Rearm,
    NoSweep, mainVars
<1>2. CASE RemoveUnlink(w)
  <2>1. PICK h \in Fds : h = Head(todo[w])
    BY <1>2, HeadOfTodo DEF RemoveUnlink, IInv
  <2>2. CASE conn[w][h] = "none"
    BY <1>1, <1>2, <2>1, <2>2 DEF RemoveUnlink, ReleaseEntry
  <2>3. CASE conn[w][h] # "none"
    <3>1. h \in Busy(w)
      BY <2>3 DEF Busy
    <3>2. Cardinality(Busy(w)) # 0
      BY <3>1, SetTypes, SubsetCardinality, FS_EmptySet DEF IInv
    <3>3. Admitted(w) > 0
      BY <3>2, SetTypes, SMTT(20) DEF IInv, LoadInv
    <3> QED
      BY <1>1, <1>2, <2>1, <2>3, <3>3 DEF RemoveUnlink, ReleaseEntry
  <2> QED
    BY <2>2, <2>3
<1>3. CASE ~RemoveUnlink(w)
  BY <1>1, <1>3 DEF Worker, EpollWait, HandleEvent, RegisterClient, RejectClient, ReadMore,
    ReadComplete, ReadClose, WriteMore, WriteKeepAlive, WriteClose, ConnError,
    RemoveEpollDel, RemoveClose, CheckPending, CheckIncomplete, Rearm, NoSweep
<1> QED
  BY <1>2, <1>3

THEOREM SchedulerImplementsAdmission == Spec => AdmissionControl
<1> DEFINE adm == [w \in Workers |-> Admitted(w)]
<1>1. Init => Promise!Init
  BY SMTT(20) DEF Init, Promise!Init, Admitted, Workers
<1>2. ASSUME IInv, IInv', [Next]_vars PROVE [Promise!Next]_adm
  <2> USE SchedulerAssumption DEF IInv
  <2>t. \A w \in Workers : Admitted(w) \in Int /\ Admitted(w)' <= Capacity
    BY <1>2, SetTypes DEF LoadInv
  <2>1. CASE EpollAdd
    <3>0. PICK t \in Workers : t = target
      BY <1>2 DEF TypeOK, MainType
    <3>1. Admitted(t)' = Admitted(t) + 1
      BY <1>2, <2>1, <3>0, SMTT(20) DEF EpollAdd, Admitted, TypeOK, CounterType
    <3>2. \A w \in Workers \ {t} : Admitted(w)' = Admitted(w)
      BY <2>1, <3>0 DEF EpollAdd, Admitted
    <3>3. adm' = [adm EXCEPT ![t] = @ + 1]
      BY <3>1, <3>2
    <3>4. Admitted(t) < Capacity
      BY <2>t, <3>1, SMTT(20)
    <3> QED
      BY <3>3, <3>4 DEF Promise!Next, Promise!Admit, Workers
  <2>2. CASE \E w \in Workers : Worker(w)
    <3>1. PICK w \in Workers : Worker(w)
      BY <2>2
    <3>2. UNCHANGED <<mpc, target, accepted>>
      BY <1>2, <3>1, WorkerReleases
    <3>3. CASE UNCHANGED closed
      BY <3>2, <3>3 DEF Admitted
    <3>4. CASE closed' = [closed EXCEPT ![w] = @ + 1] /\ Admitted(w) > 0
      <4>1. Admitted(w)' = Admitted(w) - 1
        BY <1>2, <3>2, <3>4, SMTT(20) DEF Admitted, TypeOK, CounterType
      <4>2. \A v \in Workers \ {w} : Admitted(v)' = Admitted(v)
        BY <1>2, <3>2, <3>4 DEF Admitted, TypeOK, CounterType
      <4>3. adm' = [adm EXCEPT ![w] = @ - 1]
        BY <4>1, <4>2
      <4> QED
        BY <3>4, <4>3 DEF Promise!Next, Promise!Release, Workers
    <3> QED
      BY <1>2, <3>1, <3>3, <3>4, WorkerReleases
  <2>3. CASE ~EpollAdd /\ ~(\E w \in Workers : Worker(w))
    <3>1. \A w \in Workers : Admitted(w)' = Admitted(w)
      <4> SUFFICES ASSUME NEW w \in Workers PROVE Admitted(w)' = Admitted(w)
        OBVIOUS
      <4>1. CASE CountAccepted
        <5>1. mpc = "count" /\ mpc' = "accept" /\ closed' = closed /\ target \in Workers
          BY <1>2, <4>1 DEF CountAccepted, NextClient, TypeOK, MainType
        <5>2. accepted \in [Workers -> Nat] /\ accepted' = [accepted EXCEPT ![target] = @ + 1]
          BY <1>2, <4>1 DEF CountAccepted, TypeOK, CounterType
        <5>3. closed[w] \in Nat /\ accepted[w] \in Nat
          BY <1>2 DEF TypeOK, CounterType
        <5> QED
          BY <5>1, <5>2, <5>3, SMTT(20) DEF Admitted
      <4>2. CASE Accept \/ ScanWorker \/ EpollAddFails \/ Drop \/ Tick \/ UNCHANGED vars
        <5>1. accepted' = accepted /\ closed' = closed
          BY <4>2 DEF Accept, ScanWorker, EpollAddFails, Drop, Tick, vars
        <5>2. (mpc = "count" /\ mpc' = "count" /\ target' = target)
                \/ (mpc # "count" /\ mpc' # "count")
          BY <4>2 DEF Accept, ScanWorker, Verdict, EpollAddFails, Drop, NextClient, Tick, vars,
             mainVars
        <5> QED
          BY <5>1, <5>2 DEF Admitted
      <4> QED
        BY <1>2, <2>3, <4>1, <4>2 DEF Next, Main
    <3> QED
      BY <3>1
  <2> QED
    BY <2>1, <2>2, <2>3
<1> QED
  BY <1>1, <1>2, SchedulerInvariant, PTL DEF Spec, AdmissionControl, Promise!Spec

-----------------------------------------------------------------------------
(* SingleOwner is inductive together with the fact that epoll sets hold    *)
(* open sockets only.                                                      *)
OwnerInv ==
  /\ SingleOwner
  /\ \A w \in Workers, fd \in Fds : interest[w][fd] # "none" => file[fd] # Closed

(* Steps that add nothing to an epoll set and leave what is open and what  *)
(* is being assigned as it is.                                             *)
LEMMA OwnerFrame ==
  ASSUME OwnerInv, UNCHANGED <<mpc, remote_fd, file>>,
         \A w \in Workers, fd \in Fds : interest'[w][fd] # "none" => interest[w][fd] # "none",
         mpc # "accept" => remote_fd \in Fds
  PROVE  OwnerInv'
  BY DEF OwnerInv, SingleOwner

LEMMA OwnerClose ==
  ASSUME TypeOK, OwnerInv, NEW fd \in Fds, KernelClose(fd),
         mpc' \in {"scan", "add", "drop"} =>
           mpc = mpc' /\ remote_fd' = remote_fd /\ remote_fd \in Fds
  PROVE  OwnerInv'
<1>1. \A w \in Workers, g \in Fds :
        interest'[w][g] = IF g = fd THEN "none" ELSE interest[w][g]
  BY DEF KernelClose, TypeOK, KernelType
<1>2. \A g \in Fds : file'[g] = IF g = fd THEN Closed ELSE file[g]
  BY DEF KernelClose, TypeOK, KernelType
<1>3. \A w \in Workers, g \in Fds : interest'[w][g] # "none" =>
        interest[w][g] # "none" /\ file'[g] = file[g]
  BY <1>1, <1>2
<1>4. mpc' \in {"scan", "add", "drop"} => \A w \in Workers : interest'[w][remote_fd'] = "none"
  <2> SUFFICES ASSUME mpc' \in {"scan", "add", "drop"}, NEW w \in Workers
               PROVE  interest'[w][remote_fd'] = "none"
    OBVIOUS
  <2>1. interest[w][remote_fd] = "none"
    BY DEF OwnerInv, SingleOwner
  <2> QED
    BY <1>1, <2>1
<1>5. \A v, w \in Workers, g \in Fds :
        interest'[v][g] # "none" /\ interest'[w][g] # "none" => v = w
  BY <1>3 DEF OwnerInv, SingleOwner
<1>6. \A w \in Workers, g \in Fds : interest'[w][g] # "none" => file'[g] # Closed
  BY <1>3 DEF OwnerInv
<1> QED
  BY <1>4, <1>5, <1>6 DEF OwnerInv, SingleOwner

LEMMA NextOwner == IInv /\ OwnerInv /\ [Next]_vars => OwnerInv'
<1> SUFFICES ASSUME IInv, OwnerInv, [Next]_vars PROVE OwnerInv'
  OBVIOUS
<1> USE DEF IInv
<1>0. mpc # "accept" => remote_fd \in Fds
  BY DEF MainInv
<1>1. CASE Accept
  <2>1. PICK fd \in Fds : /\ file[fd] = Closed /\ remote_fd' = fd
                          /\ file' = [file EXCEPT ![fd] = served + 1]
    BY <1>1 DEF Accept
  <2>2. \A g \in Fds : file'[g] = Closed => file[g] = Closed
    BY <2>1 DEF TypeOK, KernelType, MainType, Closed
  <2>3. interest' = interest /\ \A w \in Workers : interest[w][fd] = "none"
    BY <1>1, <2>1 DEF Accept, OwnerInv
  <2> QED
    BY <2>1, <2>2, <2>3 DEF OwnerInv, SingleOwner
<1>2. CASE ScanWorker \/ EpollAddFails
  <2>1. /\ mpc \in {"scan", "add"}
        /\ UNCHANGED <<remote_fd, file, interest>>
    BY <1>2 DEF ScanWorker, EpollAddFails, kernelVars
  <2> QED
    BY <2>1 DEF OwnerInv, SingleOwner
<1>3. CASE EpollAdd
  <2>1. /\ mpc = "add" /\ mpc' = "count" /\ file' = file /\ file[remote_fd] # Closed
        /\ remote_fd \in Fds /\ target \in Workers
        /\ \A w \in Workers, fd \in Fds :
             interest'[w][fd] = IF w = target /\ fd = remote_fd THEN "READ"
                                ELSE interest[w][fd]
    BY <1>0, <1>3 DEF EpollAdd, TypeOK, MainType, KernelType
  <2>2. \A w \in Workers : interest[w][remote_fd] = "none"
    BY <2>1 DEF OwnerInv, SingleOwner
  <2>3. ASSUME NEW v \in Workers, NEW w \in Workers, NEW fd \in Fds,
               interest'[v][fd] # "none", interest'[w][fd] # "none"
        PROVE  v = w
    <3>1. CASE fd = remote_fd
      <4>1. v = target /\ w = target
        BY <2>1, <2>2, <2>3, <3>1
      <4> QED
        BY <4>1
    <3>2. CASE fd # remote_fd
      <4>1. interest[v][fd] # "none" /\ interest[w][fd] # "none"
        BY <2>1, <2>3, <3>2
      <4> QED
        BY <4>1 DEF OwnerInv, SingleOwner
    <3> QED
      BY <3>1, <3>2
  <2>4. ASSUME NEW w \in Workers, NEW fd \in Fds, interest'[w][fd] # "none"
        PROVE  file'[fd] # Closed
    <3>1. fd = remote_fd \/ interest[w][fd] # "none"
      BY <2>1, <2>4
    <3> QED
      BY <2>1, <3>1 DEF OwnerInv
  <2> QED
    BY <2>1, <2>3, <2>4 DEF OwnerInv, SingleOwner
<1>4. CASE CountAccepted
  BY <1>4 DEF CountAccepted, NextClient, kernelVars, OwnerInv, SingleOwner
<1>5. CASE Drop
  <2>1. mpc' = "accept" /\ KernelClose(remote_fd) /\ remote_fd \in Fds
    BY <1>0, <1>5 DEF Drop, NextClient
  <2>2. PICK fd \in Fds : fd = remote_fd
    BY <2>1
  <2> QED
    BY <2>1, <2>2, OwnerClose
<1>6. CASE Tick \/ UNCHANGED vars
  BY <1>0, <1>6, OwnerFrame DEF Tick, vars, mainVars, kernelVars
<1>7. CASE \E w \in Workers : Worker(w)
  <2>1. PICK w \in Workers : Worker(w)
    BY <1>7
  <2>2. UNCHANGED <<mpc, remote_fd>>
    BY <2>1 DEF Worker, EpollWait, HandleEvent, RegisterClient, RejectClient, ReadMore,
      ReadComplete, ReadClose, WriteMore, WriteKeepAlive, WriteClose, ConnError,
      RemoveEpollDel, RemoveClose, RemoveUnlink, CheckPending, CheckIncomplete, Rearm,
      NoSweep, mainVars
  <2>3. CASE RemoveClose(w)
    <3>1. PICK fd \in Fds : fd = Head(todo[w])
      BY <2>3, HeadOfTodo DEF RemoveClose
    <3> QED
      BY <1>0, <2>2, <2>3, <3>1, OwnerClose DEF RemoveClose
  <2>4. CASE ~RemoveClose(w)
    <3>1. UNCHANGED file
      BY <2>1, <2>4 DEF Worker, EpollWait, HandleEvent, RegisterClient, RejectClient, ReadMore,
        ReadComplete, ReadClose, WriteMore, WriteKeepAlive, WriteClose, ConnError,
        RemoveEpollDel, RemoveUnlink, CheckPending, CheckIncomplete, Rearm, NoSweep,
        kernelVars
    <3>2. \A v \in Workers, fd \in Fds : interest'[v][fd] # "none" => interest[v][fd] # "none"
      <4>1. CASE RemoveEpollDel(w)
        BY <4>1, HeadOfTodo DEF RemoveEpollDel, TypeOK, KernelType
      <4>2. CASE \E fd \in Fds : HandleEvent(w, fd)
        BY <4>2, HandleInterest
      <4>3. CASE EpollWait(w) \/ RemoveUnlink(w) \/ CheckPending(w) \/ CheckIncomplete(w)
                 \/ Rearm(w) \/ NoSweep(w)
        BY <4>3 DEF EpollWait, RemoveUnlink, CheckPending, CheckIncomplete, Rearm, NoSweep,
          kernelVars
      <4> QED
        BY <2>1, <2>4, <4>1, <4>2, <4>3 DEF Worker
    <3> QED
      BY <1>0, <2>2, <3>1, <3>2, OwnerFrame
  <2> QED
    BY <2>3, <2>4
<1> QED
  BY <1>1, <1>2, <1>3, <1>4, <1>5, <1>6, <1>7 DEF Next, Main

(* No socket is ever in the epoll sets of two workers.                     *)
THEOREM SingleOwnerHolds == Spec => []SingleOwner
<1>1. Init => OwnerInv
  BY SMTT(20) DEF Init, OwnerInv, SingleOwner
<1>2. OwnerInv => SingleOwner
  BY DEF OwnerInv
<1> QED
  BY <1>1, <1>2, NextOwner, SchedulerInvariant, PTL DEF Spec
=============================================================================
