---------------------------- MODULE FastCGISetup ----------------------------
(***************************************************************************)
(* What the FastCGI plugin prepares before the workers start, and the      *)
(* tables that it prepares: the locations and servers of fastcgi.conf      *)
(* (fcgi_config.c), the connections of a server shared out among the       *)
(* threads (fcgi_fd_matrix_create()), the requests of a thread with their  *)
(* FastCGI identifiers (fcgi_context_list_init(), request_list_init()) and *)
(* the cache in front of them (request_cache_add() and others).            *)
(***************************************************************************)
EXTENDS Integers, Sequences, FiniteSets, FiniteSetsExt, SequencesExt, TLC

CONSTANTS
  ServerSets,     \* sequences of [name, max_connections]
  LocationSets,   \* sequences of ServerNames, each a sequence of tokens
  WorkerCounts,   \* config->workers
  FdLimits,       \* RLIMIT_NOFILE
  CacheRequests,  \* size of the request list in front of which the cache is
  CacheFds,       \* descriptors of clients
  CacheSize,      \* REQ_CACHE_SIZE
  MaxCounter      \* bound: the counter of a cache entry

U16(n) == n % 2 ^ 16

-----------------------------------------------------------------------------
(* fastcgi.conf.  ServerNames is a sequence of names, " " and ",".         *)

Separators == {" ", ","}

(* fcgi_config_read_location(): the array has room for one name more than  *)
(* there are spaces.  Every server of a name that is listed is entered.    *)
Slots(names) == 1 + Len(SelectSeq(names, LAMBDA t : t = " "))
ServerIds(servers, names) ==
  FlattenSeq([k \in DOMAIN names |->
    IF names[k] \in Separators THEN <<>>
    ELSE SelectSeq([i \in DOMAIN servers |-> i],
                   LAMBDA i : servers[i].name = names[k])])

Location(servers, names) ==
  [server_ids |-> ServerIds(servers, names), slots |-> Slots(names)]

(* fcgi_validate_conf(); used_servers[] are of type uint8_t.               *)
UsedServers(locs, i) ==
  LET used(l) == {k \in DOMAIN locs[l].server_ids : locs[l].server_ids[k] = i}
  IN MapThenSumSet(LAMBDA l : Cardinality(used(l)), DOMAIN locs) % 256
fcgi_validate_conf(servers, locs) ==
  /\ Len(servers) > 0 /\ Len(locs) > 0
  /\ \A l \in ToSet(locs) : Len(l.server_ids) > 0
  /\ \A i \in DOMAIN servers : UsedServers(locs, i) < 2

(* fcgi_config_read(): a location without a known server is an error.      *)
fcgi_config_read(servers, names) ==
  LET locs == [l \in DOMAIN names |-> Location(servers, names[l])] IN
  [ok |-> fcgi_validate_conf(servers, locs), servers |-> servers, locs |-> locs]

-----------------------------------------------------------------------------
(* Connections.  A matrix maps <<thread, server>> to a number.             *)

Sum(n, F(_)) == FoldLeft(LAMBDA s, i : s + F(i), 0, [i \in 1 .. n |-> i])

(* distribute_conns_normal(): the next server begins with the thread after *)
(* the one where the last server ended.                                    *)
distribute_conns_normal(conf, m, l, threads) ==
  LET ids == conf.locs[l].server_ids
      max(k) == conf.servers[ids[k]].max_connections
      clock(k) == Sum(k - 1, max) % threads
      share(t, k) == Cardinality({c \in 0 .. max(k) - 1 :
                                    (clock(k) + c) % threads = t})
      own(s) == {k \in DOMAIN ids : ids[k] = s}
  IN [ts \in DOMAIN m |->
        m[ts] + MapThenSumSet(LAMBDA k : share(ts[1], k), own(ts[2]))]

distribute_conns_fallback(conf, m, l, threads) ==
  LET ids == conf.locs[l].server_ids IN
  [ts \in DOMAIN m |->
     IF ids[(ts[1] % Len(ids)) + 1] = ts[2] THEN 1 ELSE m[ts]]

CountedAs(srv) == IF srv.max_connections > 0 THEN srv.max_connections ELSE 1
LocFdCount(conf, l) ==
  LET ids == conf.locs[l].server_ids
      count(k) == CountedAs(conf.servers[ids[k]])
  IN Sum(Len(ids), count)

RECURSIVE Distributed(_, _, _, _)
Distributed(conf, m, l, threads) ==
  IF l > Len(conf.locs) THEN m
  ELSE Distributed(conf,
         IF LocFdCount(conf, l) < threads
         THEN distribute_conns_fallback(conf, m, l, threads)
         ELSE distribute_conns_normal(conf, m, l, threads),
         l + 1, threads)
fcgi_fd_matrix_create(conf, threads) ==
  Distributed(conf, [ts \in (0 .. threads - 1) \X DOMAIN conf.servers |-> 0],
              1, threads)

(* fcgi_fd_list_init(): the connections of a thread, server after server,  *)
(* each with the last location that lists its server.                      *)
LocationOf(conf, s) ==
  Max({0} \cup {l \in DOMAIN conf.locs : s \in ToSet(conf.locs[l].server_ids)})
fcgi_fd_list_init(conf, m, t) ==
  FlattenSeq([s \in DOMAIN conf.servers |->
    [j \in 1 .. m[t, s] |-> [server |-> s, location |-> LocationOf(conf, s)]]])

(* The connections are shared out as configured: all of a server's         *)
(* max_connections are there and no more, or one for each thread if there  *)
(* are fewer of them than threads.  Every thread can reach the application *)
(* of every location, unless a server without MaxConnections was counted   *)
(* as one and then given none.  The names fit into the array, provided     *)
(* that no two of them are separated by a comma alone and no two servers   *)
(* have the same name.                                                     *)
ConnectionsShared(conf, threads) ==
  LET m == fcgi_fd_matrix_create(conf, threads)
      lists == [t \in 0 .. threads - 1 |-> fcgi_fd_list_init(conf, m, t)]
      all(s) == MapThenSumSet(LAMBDA t : m[t, s], 0 .. threads - 1)
      max(s) == conf.servers[s].max_connections
      mine(t, l) == {i \in DOMAIN lists[t] : lists[t][i].location = l}
      fallback(l) == LocFdCount(conf, l) < threads
  IN conf.ok =>
     \A l \in DOMAIN conf.locs :
       LET ids == conf.locs[l].server_ids
           configured(k) == max(ids[k]) IN
       /\ ~ fallback(l) => \A s \in ToSet(ids) : all(s) = max(s)
       /\ fallback(l) => \A t \in 0 .. threads - 1 : Cardinality(mine(t, l)) = 1
       /\ \/ \A t \in 0 .. threads - 1 : mine(t, l) # {}
          \/ Sum(Len(ids), configured) < threads /\ ~ fallback(l)
NamesFit(servers, names) ==
  \/ Len(ServerIds(servers, names)) <= Slots(names)
  \/ \E i \in DOMAIN names : names[i] = "," /\ i < Len(names) /\ names[i + 1] # " "
  \/ \E i, j \in DOMAIN servers : i # j /\ servers[i].name = servers[j].name

-----------------------------------------------------------------------------
(* Identifiers.                                                            *)

(* mk_server_worker_capacity(); avl is an unsigned int.                    *)
mk_server_worker_capacity(max, nworkers) ==
  LET avl == max - (3 + 1 + nworkers + 1 + 2) IN
  IF avl >= 0 THEN (avl \div 2) \div nworkers
  ELSE (2 ^ 30 - 1 + 2 ^ 30 - ((0 - avl - 1) \div 2)) \div nworkers

Pow2 == {2 ^ k : k \in 0 .. 15}
next_power_of_2(v) ==
  IF U16(v) = 0 \/ U16(v) > 2 ^ 15 THEN 0 ELSE Min({p \in Pow2 : p >= U16(v)})

request_list_init(capacity, thread_id) ==
  [size |-> capacity, id_offset |-> U16(1 + capacity * thread_id)]
request_list_index_of(rl, index) == U16(rl.id_offset + index)
request_list_get(rl, req_id) ==
  LET index == U16(req_id - rl.id_offset) IN
  IF req_id >= rl.id_offset /\ index < rl.size THEN index ELSE -1

(* A package finds the request that it answers: request_list_get() undoes  *)
(* request_list_index_of(), and no request has identifier 0, which belongs *)
(* to the connection; but where the identifiers of the threads run through *)
(* all 16 bits, the last request of a list has that identifier.  A thread  *)
(* has at least as many requests as the server gives it connections, as    *)
(* long as their number fits into 16 bits; and two descriptors for each of *)
(* them fit under the limit, unless it is below what the server needs for  *)
(* itself.                                                                 *)
RequestsIdentified(max, workers) ==
  LET wanted == mk_server_worker_capacity(max, workers)
      capacity == next_power_of_2(wanted) IN
  /\ max >= 7 + workers => 2 * wanted * workers + 7 + workers <= max
  /\ capacity > 0 /\ wanted < 2 ^ 16 => capacity >= wanted
  /\ capacity = 0 <=> U16(wanted) = 0 \/ U16(wanted) > 2 ^ 15
  /\ capacity > 0 =>
       \A t \in 0 .. workers - 1 :
         LET rl == request_list_init(capacity, t) IN
         \A index \in {0, 1, capacity \div 2, capacity - 2, capacity - 1}
                        \cap 0 .. capacity - 1 :
           LET id == request_list_index_of(rl, index) IN
           \/ id > 0 /\ request_list_get(rl, id) = index
           \/ index = capacity - 1 /\ U16(capacity * (t + 1)) = 0

-----------------------------------------------------------------------------
(* The cache in front of the request list.  fds: the descriptor of every   *)
(* request, -1 if it has none.                                             *)

NoRequest == 0
request_cache_init ==
  [fds |-> [r \in 1 .. CacheRequests |-> -1], clock_hand |-> 0, found |-> <<>>,
   entries |-> [i \in 0 .. CacheSize - 1 |->
                  [req |-> NoRequest, fd |-> -1, counter |-> 0]]]

(* request_cache_add(): up to CacheSize looks, every one of them at entry  *)
(* 1, whatever i is.  Each look takes one from its counter, or enters.     *)
request_cache_add(c, r) ==
  LET e == c.entries[1] IN
  IF e.counter < CacheSize
  THEN [c EXCEPT !.entries[1] = [req |-> r, fd |-> c.fds[r], counter |-> 1],
                 !.clock_hand = (@ + e.counter + 1) % CacheSize]
  ELSE [c EXCEPT !.entries[1].counter = @ - CacheSize]

InOrder(n, clock) == [k \in 1 .. n |-> (clock + k) % n]

request_cache_hit(c, r) ==
  LET order == InOrder(CacheSize, c.clock_hand)
      k == SelectInSeq(order, LAMBDA i : c.entries[i].req = r) IN
  IF k = 0 THEN request_cache_add(c, r)
  ELSE [c EXCEPT !.entries[order[k]].fd = c.fds[r],
                 !.entries[order[k]].counter = @ + 1]

(* request_cache_search(): an entry of the descriptor whose request has    *)
(* another one by now is dropped, and the list is searched; its clock hand *)
(* is at 0 here.  found is the descriptor and what was found for it.       *)
Found(c, fd, r) == [c EXCEPT !.found = <<fd, r>>]

ScanList(c, fd) ==
  LET order == InOrder(CacheRequests, 0)
      k == SelectInSeq(order, LAMBDA i : c.fds[i + 1] = fd) IN
  IF k = 0 THEN Found(c, fd, NoRequest)
  ELSE Found(request_cache_add(c, order[k] + 1), fd, order[k] + 1)

request_list_get_by_fd_Trusts(c, fd) ==
  LET order == InOrder(CacheSize, c.clock_hand)
      k == SelectInSeq(order, LAMBDA i : c.entries[i].fd = fd) IN
  IF k = 0 THEN ScanList(c, fd)
  ELSE Found([c EXCEPT !.entries[order[k]].counter = @ + 1], fd,
             c.entries[order[k]].req)
request_list_get_by_fd(c, fd) ==
  LET order == InOrder(CacheSize, c.clock_hand)
      k == SelectInSeq(order, LAMBDA i : c.entries[i].fd = fd) IN
  IF k = 0 THEN ScanList(c, fd)
  ELSE LET e == c.entries[order[k]] IN
       IF c.fds[e.req] = fd
       THEN Found([c EXCEPT !.entries[order[k]].counter = @ + 1], fd, e.req)
       ELSE ScanList([c EXCEPT !.entries[order[k]].counter = 0,
                               !.entries[order[k]].fd = -1], fd)

(* request_assign(), request_reset() and the calls that look requests up.  *)
CacheSteps(c) ==
  LET idle == [c EXCEPT !.found = <<>>] IN
  {s \in
    {[idle EXCEPT !.fds[r] = fd] :
       r \in {x \in 1 .. CacheRequests : c.fds[x] = -1}, fd \in CacheFds}
    \cup {[idle EXCEPT !.fds[r] = -1] :
            r \in {x \in 1 .. CacheRequests : c.fds[x] # -1}}
    \cup {request_cache_hit(idle, r) : r \in 1 .. CacheRequests}
    \cup {request_list_get_by_fd(c, fd) : fd \in CacheFds}
   : \A i \in 0 .. CacheSize - 1 : s.entries[i].counter <= MaxCounter}

(* The cache changes nothing but the time it takes: a request that has the *)
(* descriptor is found whenever there is one, also right after it was      *)
(* assigned, and nothing is found when its request was recycled.           *)
CacheTransparent(c) ==
  c.found # <<>> =>
    IF \E r \in 1 .. CacheRequests : c.fds[r] = c.found[1]
    THEN c.found[2] # NoRequest /\ c.fds[c.found[2]] = c.found[1]
    ELSE c.found[2] = NoRequest

=============================================================================
