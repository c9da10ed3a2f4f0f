---------------------------- MODULE RequestSteps ----------------------------
(***************************************************************************)
(* The inductive invariant of the life of a connection, for any number of  *)
(* requests of any kinds, any size of the receive buffer and of the file,  *)
(* and any keep-alive limit.                                               *)
(*                                                                         *)
(* The invariant comes in three layers.  Core holds for every client: the  *)
(* types, the receive buffer, how the phase of the connection and the      *)
(* session agree, and what has been announced to the plugins.  Single      *)
(* holds for a client that does not pipeline: at most one end of a header  *)
(* is under way, so the list of requests has one element.  Patient holds   *)
(* for a client that waits for its answers: the counter of the session     *)
(* says which request the buffer holds and which ones were answered.       *)
(*                                                                         *)
(* Every step has one of seven shapes (StepShape), and each layer is shown *)
(* to survive each shape; the third layer is in RequestProofs.             *)
(***************************************************************************)
EXTENDS Request, FiniteSetTheorems, WellFoundedInduction, TLAPS

Methods == {"unknown", "get", "post"}
Serving == {"write", "sleep"}
Phases  == {"new", "read", "write", "sleep", "closed", "failed"}
Alive   == {"new", "read", "write", "sleep"}

Sessions == [alive : {TRUE}, body : Seq(TokenType), size : Nat, pos : Nat,
             method : Methods, counter : Nat, status : {"incomplete", "completed"},
             list : Seq(SrType)]

-----------------------------------------------------------------------------
(* Core                                                                    *)

NetTypes == /\ limit \in MaxRequestSizes /\ client \in Clients /\ nsent \in 0 .. Requests
            /\ fin \in BOOLEAN /\ rest \in Seq(TokenType) /\ wire \in Seq(TokenType)

(* The buffer of a session: the end of the header is in it once found, and *)
(* the method is the one of the first bytes.                               *)
Buffered(c, lim) == /\ c.size >= Chunk /\ c.size < lim
                    /\ Len(c.body) <= c.size
                    /\ c.pos > 0 => c.pos <= Len(c.body) /\ c.body[c.pos].part = "end"
                    /\ c.method = IF c.pos = 0 THEN "unknown" ELSE Method(c.body[1])

(* The session and the phase of the connection, md.                        *)
InStep(md, c, nd) ==
  /\ md = "new" => c = NoSession
  /\ md \notin Serving => nd = 0 /\ (c \in Sessions => c.list = <<>>)
  /\ md = "read" /\ c \in Sessions => c.status = "incomplete"
  /\ md \in Serving => /\ c \in Sessions /\ c.pos > 0
                       /\ nd > 0 => c.list # <<>> /\ nd <= Len(c.list) + 1
  /\ md = "sleep" => nd > 0 /\ nd <= Len(c.list) /\ c.list[nd].bts < 0

Listed(c) == IF c \in Sessions THEN {c.list[n].req : n \in DOMAIN c.list} ELSE {}

(* What was sent and announced, and the files that are open.               *)
Reported(md, c, rp, en, cl, fl) ==
  /\ md = "new" => \A i \in Ids : rp[i] = 0
  /\ c \in Sessions => \A n \in DOMAIN c.list : c.list[n].bts >= 0 => rp[c.list[n].req] > 0
  /\ md \in Alive => cl = 0 /\ \A i \in Ids : en[i] > 0 => rp[i] > 0
  /\ md \notin Alive /\ (\E i \in Ids : rp[i] > 0) => cl > 0
  /\ md = "failed" \/ fl \ {Lost} \subseteq Listed(c)

(* A POST that announces too much: the session stays incomplete while it   *)
(* is refused, and no file is opened for it.                               *)
Refused(md, c, fl) ==
  md \in Serving /\ c.status = "incomplete" =>
    /\ md = "write" /\ c.method = "post" /\ c.body[1].kind = "huge" /\ fl \subseteq {Lost}
    /\ c.list # <<>> => /\ Len(c.list) = 1
                        /\ c.list[1].method = "post" /\ c.list[1].kind = "huge"

Core(lim, md, c, nd, rp, en, cl, fl) ==
  /\ md \in Phases /\ nd \in Nat
  /\ c = NoSession \/ (c \in Sessions /\ Buffered(c, lim))
  /\ rp \in [Ids -> 0 .. 2] /\ en \in [Ids -> 0 .. 2] /\ cl \in 0 .. 2
  /\ fl \subseteq Ids \cup {Lost}
  /\ InStep(md, c, nd)
  /\ Reported(md, c, rp, en, cl, fl)
  /\ Refused(md, c, fl)

-----------------------------------------------------------------------------
(* A client that does not pipeline                                         *)

HasEnd(s) == \E j \in DOMAIN s : s[j].part = "end"
OneEnd(s) == \A i, j \in DOMAIN s : s[i].part = "end" /\ s[j].part = "end" => i = j
Until(s, n) == \A j \in DOMAIN s : s[j].req <= n

Body(c) == IF c \in Sessions THEN c.body ELSE <<>>

(* No token is of a request that was not begun, and none of those is       *)
(* answered.  This holds for every client.                                 *)
Begun(c, w, rs, ns, rp) ==
  /\ Until(Body(c), ns) /\ Until(w, ns) /\ Until(rs, ns)
  /\ c \in Sessions => Until(c.list, ns)
  /\ \A i \in Ids : i > ns => rp[i] = 0

(* At most one end of a header is on its way to the parser; none is, once  *)
(* the last request has been answered.                                     *)
OneHeader(md, c, w, rs, ns, rp) ==
  /\ OneEnd(w) /\ OneEnd(rs) /\ ~ (HasEnd(w) /\ HasEnd(rs))
  /\ md \in {"new", "read"} =>
       OneEnd(Body(c)) /\ (HasEnd(Body(c)) => ~ HasEnd(w) /\ ~ HasEnd(rs))
  /\ (ns > 0 => rp[ns] > 0) =>
       ~ HasEnd(w) /\ ~ HasEnd(rs) /\ (md \in {"new", "read"} => ~ HasEnd(Body(c)))

(* So the list has one request, whose file is open once it was processed.  *)
OneRequest(md, c, nd, w, rs, ns, fl) ==
  md \in Serving =>
    /\ \A j \in 1 .. c.pos - 1 : c.body[j].part # "end"
    /\ c.body[1].req = ns => ~ HasEnd(w) /\ ~ HasEnd(rs)
    /\ Len(c.list) <= 1
    /\ c.list = <<>> => fl = {}
    /\ c.list # <<>> => /\ c.list[1].req = c.body[1].req
                        /\ nd <= 1 /\ c.list[1].bts < 0 => fl = {}

Single(md, c, nd, w, rs, ns, rp, fl) ==
  /\ Lost \notin fl
  /\ md \in Alive => OneHeader(md, c, w, rs, ns, rp) /\ OneRequest(md, c, nd, w, rs, ns, fl)

-----------------------------------------------------------------------------
(* A client that waits for its answers                                     *)

Tok(i, k, j) == [req |-> i, kind |-> k, part |-> Parts[k][j]]

(* What the client has not sent of a POST that was refused.                *)
Leftover(s) == s = <<>> \/ (Len(s) = 1 /\ s[1].kind = "huge" /\ s[1].part = "data")

(* Request i, of kind k, lies in the buffer, on the wire and with the      *)
(* client; the content of a refused POST may have been given up.           *)
Laid(b, w, rs, i, k) ==
  /\ \/ Len(b) + Len(w) + Len(rs) = Len(Parts[k])
     \/ k = "huge" /\ rs = <<>> /\ Len(b) + Len(w) = 2
  /\ \A j \in 1 .. Len(b) : b[j] = Tok(i, k, j)
  /\ \A j \in 1 .. Len(w) : w[j] = Tok(i, k, Len(b) + j) /\ ~ Leftover(<<w[j]>>)
  /\ \A j \in 1 .. Len(rs) : rs[j] = Tok(i, k, Len(b) + Len(w) + j)

OnItsWay(b, w, rs, i) == \E k \in Kinds : Laid(b, w, rs, i, k)

Counter(c) == IF c \in Sessions THEN c.counter ELSE 0

InTurn(c, rp) ==
  /\ Counter(c) <= MaxKeepAlive
  /\ \A i \in Ids : /\ i <= Counter(c) => rp[i] > 0
                    /\ i > Counter(c) + 1 => rp[i] = 0

Waiting(c, w, rs, ns, rp) ==
  /\ \A i \in Ids : i = Counter(c) + 1 => rp[i] = 0
  /\ \/ ns = Counter(c) /\ Body(c) = <<>> /\ w = <<>> /\ Leftover(rs)
     \/ ns = Counter(c) + 1 /\ OnItsWay(Body(c), w, rs, ns)

Answering(c, nd, w, rs, ns, rp, en) ==
  LET i == c.counter + 1 IN
  /\ c.body[1].req = i
  /\ \/ ns = i /\ w = <<>> /\ Leftover(rs)
     \/ ns = i + 1 /\ nd = 2 /\ c.list[1].bts <= 0 /\ OnItsWay(<<>>, w, rs, ns)
  /\ nd <= 1 => en[i] = 0
  /\ nd > 1 => rp[i] > 0
  /\ c.list = <<>> => rp[i] = 0
  /\ c.list # <<>> => /\ nd <= 1 /\ c.list[1].bts < 0 => rp[i] = 0
                      /\ c.list[1].bts = 0 => nd = 2

Patient(md, c, nd, w, rs, ns, rp, en) ==
  /\ \A i \in Ids : en[i] <= 1 /\ (rp[i] > 0 => i <= MaxKeepAlive + 1)
  /\ md \in Alive => InTurn(c, rp)
  /\ md \in {"new", "read"} => Waiting(c, w, rs, ns, rp)
  /\ md \in Serving => Answering(c, nd, w, rs, ns, rp, en)

CoreInv    == NetTypes /\ Core(limit, mode, cs, node, replies, ended, closes, files)
BegunInv   == Begun(cs, wire, rest, nsent, replies)
SingleInv  == client # "pipelining" => Single(mode, cs, node, wire, rest, nsent, replies, files)
PatientInv == client = "patient" => Patient(mode, cs, node, wire, rest, nsent, replies, ended)

IInv == CoreInv /\ BegunInv /\ SingleInv /\ PatientInv

(* A leaf goes to Zenon first; one that needs arithmetic names SMT.        *)
USE ZenonT(10), SMTT(20)

-----------------------------------------------------------------------------
(* Numbers                                                                 *)

(* A set of naturals has a least element.                                  *)
LEMMA LeastOf ==
  ASSUME NEW S \in SUBSET Nat, S # {}
  PROVE  \E x \in S : \A y \in S : x <= y
<1> DEFINE R == OpToRel(<, Nat)
<1>1. R = {x \in Nat \X Nat : x[1] < x[2]}
  BY DEF OpToRel
<1>2. IsWellFoundedOn(R, Nat)
  BY NatLessThanWellFounded
<1> HIDE DEF R
<1>3. PICK x \in S : \A y \in S : ~ (<<y, x>> \in R)
  BY <1>2, WFMin
<1>4. ASSUME NEW y \in S, y < x PROVE FALSE
  <2>1. <<y, x>> \in Nat \X Nat /\ <<y, x>>[1] < <<y, x>>[2]
    BY <1>4
  <2> QED BY <1>1, <1>3, <2>1
<1> QED BY <1>4, SMTT(20)

(* The element with the fewest above it is the largest.                    *)
LEMMA LargestOf ==
  ASSUME NEW S \in SUBSET Nat, S # {}, IsFiniteSet(S)
  PROVE  \E x \in S : \A y \in S : y <= x
<1> DEFINE U(x) == {y \in S : y > x}
           C == {Cardinality(U(x)) : x \in S}
<1>1. \A x \in S : IsFiniteSet(U(x)) /\ Cardinality(U(x)) \in Nat
  <2> SUFFICES ASSUME NEW x \in S PROVE IsFiniteSet(U(x)) /\ Cardinality(U(x)) \in Nat
    OBVIOUS
  <2>1. U(x) \in SUBSET S
    OBVIOUS
  <2> HIDE DEF U
  <2>2. IsFiniteSet(U(x))
    BY <2>1, FS_Subset
  <2> QED BY <2>2, FS_CardinalityType
<1>2. C \in SUBSET Nat /\ C # {}
  BY <1>1
<1>3. PICK m \in C : \A k \in C : m <= k
  <2> HIDE DEF C
  <2> QED BY <1>2, LeastOf
<1>4. PICK x \in S : m = Cardinality(U(x))
  BY <1>3
<1>5. ASSUME NEW y \in S, y > x PROVE FALSE
  <2>1. U(y) \in SUBSET U(x) /\ y \in U(x) /\ y \notin U(y)
    <3>1. \A z \in S : z > y => z > x
      BY <1>5, SMTT(20)
    <3>2. ~ (y > y)
      BY SMTT(20)
    <3> QED BY <1>5, <3>1, <3>2
  <2>2. Cardinality(U(y)) \in C
    OBVIOUS
  <2>3. Cardinality(U(x)) <= Cardinality(U(y))
    BY <1>3, <1>4, <2>2
  <2> HIDE DEF U, C
  <2>4. Cardinality(U(y)) <= Cardinality(U(x))
        /\ (Cardinality(U(x)) = Cardinality(U(y)) => U(x) = U(y))
    BY <1>1, <2>1, FS_Subset
  <2>5. Cardinality(U(x)) = Cardinality(U(y))
    BY <1>1, <2>3, <2>4, SMTT(20)
  <2> QED BY <2>1, <2>4, <2>5
<1> QED BY <1>5, SMTT(20)

(* The choice of the largest limit finds one.                              *)
LEMMA OversizeIsLargest ==
  Oversize \in MaxRequestSizes /\ \A m \in MaxRequestSizes : m <= Oversize
<1>1. MaxRequestSizes \in SUBSET Nat /\ MaxRequestSizes # {} /\ IsFiniteSet(MaxRequestSizes)
  BY RequestAssumption
<1> QED BY <1>1, LargestOf DEF Oversize

(* What the assumption on the constants says of the sizes.                 *)
LEMMA Sizes ==
  /\ Chunk \in Nat /\ Chunk > 0 /\ FileSize \in Nat /\ FileSize > 0
  /\ MaxKeepAlive \in Nat /\ Requests \in Nat
  /\ Oversize \in Nat /\ \A m \in MaxRequestSizes : m \in Nat /\ Chunk < m /\ m <= Oversize
BY RequestAssumption, OversizeIsLargest, SMTT(20)

(* The n-th element of a set of positions is one of it.                    *)
LEMMA NthIn ==
  ASSUME NEW p \in Nat, NEW S \in SUBSET (1 .. p), NEW n \in 1 .. Cardinality(S)
  PROVE  Nth(S, n) \in S
<1> DEFINE Below(k) == {l \in S : l < k}
           K == {k \in Nat : Cardinality(Below(k)) >= n}
<1>0. \A l \in S : l \in Nat /\ l >= 1 /\ l <= p
  BY SMTT(20)
<1>1. IsFiniteSet(S) /\ Cardinality(S) \in Nat
  <2>1. IsFiniteSet(1 .. p)
    BY FS_Interval, SMTT(20)
  <2>2. IsFiniteSet(S)
    BY <2>1, FS_Subset
  <2> QED BY <2>2, FS_CardinalityType
<1>2. ASSUME NEW k \in Nat PROVE IsFiniteSet(Below(k)) /\ Cardinality(Below(k)) \in Nat
  <2>1. Below(k) \in SUBSET S
    OBVIOUS
  <2> HIDE DEF Below
  <2>2. IsFiniteSet(Below(k))
    BY <1>1, <2>1, FS_Subset
  <2> QED BY <2>2, FS_CardinalityType
<1>3. p + 1 \in K
  <2>1. Below(p + 1) = S
    <3>1. \A l \in S : l < p + 1
      BY <1>0, SMTT(20)
    <3> QED BY <3>1
  <2> QED BY <1>1, <2>1, SMTT(20)
<1>4. PICK k \in K : \A l \in K : k <= l
  <2>1. K \in SUBSET Nat /\ K # {}
    BY <1>3
  <2> HIDE DEF K
  <2> QED BY <2>1, LeastOf
<1>5. k # 0
  <2>1. Below(0) = {}
    <3>1. \A l \in S : ~ (l < 0)
      BY <1>0, SMTT(20)
    <3> QED BY <3>1
  <2>2. Cardinality(Below(0)) = 0
    BY <2>1, FS_EmptySet
  <2>3. ASSUME k = 0 PROVE FALSE
    <3>1. Cardinality(Below(0)) >= n
      BY <1>4, <2>3
    <3> QED BY <2>2, <3>1, SMTT(20)
  <2> QED BY <2>3
<1>6. PICK j : j = k - 1
  OBVIOUS
<1>7. j \in Nat /\ j + 1 = k /\ k \in Nat
  BY <1>4, <1>5, <1>6, SMTT(20)
<1>8. Cardinality(Below(j)) < n
  <2>1. j \notin K
    BY <1>4, <1>7, SMTT(20)
  <2> QED BY <1>2, <1>7, <2>1, SMTT(20)
<1>9. Below(k) = IF j \in S THEN Below(j) \cup {j} ELSE Below(j)
  <2>1. \A l \in S : l < k <=> l < j \/ l = j
    BY <1>0, <1>7, SMTT(20)
  <2> QED BY <2>1
<1>10. j \notin Below(j) /\ Cardinality(Below(k)) >= n
  BY <1>4, <1>7, SMTT(20)
<1>11. IsFiniteSet(Below(j)) /\ Cardinality(Below(j)) \in Nat
  BY <1>2, <1>7
<1> HIDE DEF Below, K
<1>12. j \in S /\ Cardinality(Below(j)) = n - 1
  <2>1. CASE j \in S
    <3>1. Cardinality(Below(k)) = Cardinality(Below(j)) + 1
      BY <1>9, <1>10, <1>11, <2>1, FS_AddElement
    <3> QED BY <1>1, <1>8, <1>10, <1>11, <2>1, <3>1, SMTT(20)
  <2>2. CASE j \notin S
    BY <1>8, <1>9, <1>10, <1>11, <2>2, SMTT(20)
  <2> QED BY <2>1, <2>2
<1>13. \E i \in S : Cardinality({l \in S : l < i}) = n - 1
  BY <1>12 DEF Below
<1> QED BY <1>13 DEF Nth

-----------------------------------------------------------------------------
(* Sessions                                                                *)

(* The absent session is told from a session by its first field.           *)
LEMMA NoSessionIsNone ==
  /\ NoSession \notin Sessions /\ ~ NoSession.alive
  /\ \A c \in Sessions : c.alive
<1>1. ~ NoSession.alive
  BY DEF NoSession
<1>2. \A c \in Sessions : c.alive
  BY DEF Sessions
<1> QED BY <1>1, <1>2

(* mk_session_create() makes an empty session with one chunk of buffer.    *)
LEMMA NewSessionFields ==
  ASSUME limit \in MaxRequestSizes
  PROVE  /\ NewSession \in Sessions /\ Buffered(NewSession, limit)
         /\ NewSession.body = <<>> /\ NewSession.counter = 0 /\ NewSession.list = <<>>
         /\ NewSession.status = "incomplete"
<1>1. Chunk \in Nat /\ Chunk < limit
  BY Sizes
<1>2. NewSession \in Sessions
  BY <1>1, SMTT(20) DEF NewSession, Sessions, Methods
<1>3. /\ NewSession.size = Chunk /\ NewSession.pos = 0 /\ NewSession.method = "unknown"
      /\ NewSession.body = <<>> /\ NewSession.counter = 0 /\ NewSession.list = <<>>
      /\ NewSession.status = "incomplete"
  BY DEF NewSession
<1>4. Buffered(NewSession, limit)
  BY <1>1, <1>3, SMTT(20) DEF Buffered
<1> QED BY <1>2, <1>3, <1>4

(* The session mk_conn_read() works on.                                    *)
LEMMA SessionFields ==
  ASSUME CoreInv
  PROVE  /\ Session \in Sessions /\ Buffered(Session, limit)
         /\ Session.body = Body(cs) /\ Session.counter = Counter(cs)
         /\ mode = "read" => Session.list = <<>> /\ Session.status = "incomplete"
<1>1. limit \in MaxRequestSizes /\ (cs = NoSession \/ (cs \in Sessions /\ Buffered(cs, limit)))
      /\ InStep(mode, cs, node)
  BY DEF CoreInv, NetTypes, Core
<1>2. CASE cs = NoSession
  <2>1. Session = NewSession /\ cs \notin Sessions
    BY <1>2, NoSessionIsNone DEF Session
  <2> QED BY <1>1, <2>1, NewSessionFields DEF Body, Counter
<1>3. CASE cs \in Sessions
  <2>1. Session = cs /\ Buffered(cs, limit)
    BY <1>1, <1>3, NoSessionIsNone DEF Session
  <2>2. mode = "read" => cs.list = <<>> /\ cs.status = "incomplete"
    BY <1>1, <1>3 DEF InStep, Serving
  <2> QED BY <1>3, <2>1, <2>2 DEF Body, Counter
<1> QED BY <1>1, <1>2, <1>3

(* Enlarging a full buffer makes room and loses nothing.                   *)
LEMMA GrownFields ==
  ASSUME NEW c \in Sessions, Buffered(c, limit), limit \in MaxRequestSizes,
         Full(c) => NewSizeAllowed(c)
  PROVE  /\ Grown(c) \in Sessions /\ Buffered(Grown(c), limit)
         /\ Len(Grown(c).body) < Grown(c).size
         /\ Grown(c).body = c.body /\ Grown(c).counter = c.counter /\ Grown(c).list = c.list
         /\ Grown(c).status = c.status
<1>1. Chunk \in Nat /\ Chunk > 0 /\ limit \in Nat
  BY Sizes
<1>2. c.size \in Nat /\ Len(c.body) \in Nat
  BY SMTT(20) DEF Sessions
<1>3. CASE Full(c)
  <2>1. /\ Grown(c) \in Sessions
        /\ Grown(c).body = c.body /\ Grown(c).counter = c.counter /\ Grown(c).list = c.list
        /\ Grown(c).status = c.status /\ Grown(c).size = c.size + Chunk
        /\ Grown(c).pos = c.pos /\ Grown(c).method = c.method
    <3>1. PICK z \in Nat : z = c.size + Chunk
      BY <1>1, <1>2, SMTT(20)
    <3>2. Grown(c) = [c EXCEPT !.size = z]
      BY <1>3, <3>1 DEF Grown
    <3> QED BY <3>1, <3>2 DEF Sessions
  <2>2. c.size + Chunk < limit
    BY <1>3 DEF NewSizeAllowed
  <2>3. Buffered(Grown(c), limit) /\ Len(c.body) < c.size + Chunk
    BY <1>1, <1>2, <2>1, <2>2, SMTT(20) DEF Buffered
  <2> QED BY <2>1, <2>3
<1>4. CASE ~ Full(c)
  <2>1. Grown(c) = c /\ Len(c.body) < c.size
    BY <1>2, <1>4, SMTT(20) DEF Grown, Full
  <2> QED BY <2>1
<1> QED BY <1>3, <1>4

Fill(c, s) == [c EXCEPT !.body = @ \o s]

(* What is read is put behind what the buffer holds.                       *)
LEMMA FillFields ==
  ASSUME NEW c \in Sessions, Buffered(c, limit), NEW s \in Seq(TokenType),
         Len(c.body) + Len(s) <= c.size
  PROVE  /\ Fill(c, s) \in Sessions /\ Buffered(Fill(c, s), limit)
         /\ Fill(c, s).body = c.body \o s /\ Fill(c, s).counter = c.counter
         /\ Fill(c, s).list = c.list /\ Fill(c, s).status = c.status
<1>1. c.body \in Seq(TokenType) /\ c.pos \in Nat
  BY DEF Sessions
<1>2. PICK b : b = c.body \o s
  OBVIOUS
<1>3. b \in Seq(TokenType) /\ Len(b) = Len(c.body) + Len(s)
      /\ \A j \in 1 .. Len(c.body) : b[j] = c.body[j]
  BY <1>1, <1>2, SMTT(20)
<1>4. /\ Fill(c, s) \in Sessions /\ Fill(c, s).body = b /\ Fill(c, s).counter = c.counter
      /\ Fill(c, s).list = c.list /\ Fill(c, s).status = c.status
      /\ Fill(c, s).pos = c.pos /\ Fill(c, s).method = c.method /\ Fill(c, s).size = c.size
  BY <1>2, <1>3 DEF Fill, Sessions
<1>5. c.pos > 0 => c.pos \in 1 .. Len(c.body) /\ 1 \in 1 .. Len(c.body)
  BY <1>1, SMTT(20) DEF Buffered
<1>6. c.pos > 0 => b[c.pos] = c.body[c.pos] /\ b[1] = c.body[1] /\ c.pos <= Len(b)
  <2>1. Len(b) \in Nat /\ Len(c.body) \in Nat /\ Len(s) \in Nat
    BY <1>1, <1>3, SMTT(20)
  <2> QED BY <1>1, <1>3, <1>5, <2>1, SMTT(20)
<1>7. Buffered(Fill(c, s), limit)
  <2>1. Len(b) <= c.size
    BY <1>3
  <2>2. c.method = IF c.pos = 0 THEN "unknown" ELSE Method(b[1])
    BY <1>1, <1>6, SMTT(20) DEF Buffered
  <2>3. c.size >= Chunk /\ c.size < limit
        /\ (c.pos > 0 => c.pos <= Len(b) /\ b[c.pos].part = "end")
    BY <1>6 DEF Buffered
  <2> QED BY <1>4, <2>1, <2>2, <2>3 DEF Buffered
<1> QED BY <1>2, <1>4, <1>7

(* The end of the header is found in the buffer, where it is.              *)
LEMMA PosEndIn ==
  ASSUME NEW c \in Sessions, Buffered(c, limit)
  PROVE  /\ PosEnd(c) \in Nat /\ PosEnd(c) <= Len(c.body)
         /\ PosEnd(c) > 0 => c.body[PosEnd(c)].part = "end"
         /\ c.pos > 0 => PosEnd(c) = c.pos
         /\ PosEnd(c) = 0 => c.pos = 0 /\ Ends(c.body) = {}
<1>1. c.body \in Seq(TokenType) /\ c.pos \in Nat /\ Len(c.body) \in Nat
  BY SMTT(20) DEF Sessions
<1>2. CASE c.pos > 0
  <2>1. PosEnd(c) = c.pos
    BY <1>2 DEF PosEnd
  <2> QED BY <1>1, <1>2, <2>1, SMTT(20) DEF Buffered
<1>3. CASE c.pos = 0 /\ Ends(c.body) = {}
  <2>1. PosEnd(c) = 0
    BY <1>3 DEF PosEnd
  <2> QED BY <1>1, <1>3, <2>1, SMTT(20)
<1>4. CASE c.pos = 0 /\ Ends(c.body) # {}
  <2>1. PosEnd(c) = IF c.body[Len(c.body)].part = "end" THEN Len(c.body)
                    ELSE CHOOSE j \in Ends(c.body) : \A l \in Ends(c.body) : j <= l
    BY <1>4, SMTT(20) DEF PosEnd
  <2>2. Ends(c.body) \in SUBSET Nat
        /\ \A j \in Ends(c.body) : j \in 1 .. Len(c.body) /\ c.body[j].part = "end"
    BY <1>1, SMTT(20) DEF Ends
  <2>3. \E j \in Ends(c.body) : \A l \in Ends(c.body) : j <= l
    BY <1>4, <2>2, LeastOf
  <2>4. CASE c.body[Len(c.body)].part = "end"
    <3>1. PosEnd(c) = Len(c.body)
      BY <2>1, <2>4
    <3>2. Len(c.body) # 0
      BY <1>4, <2>2, SMTT(20)
    <3> QED BY <1>1, <1>4, <2>4, <3>1, <3>2, SMTT(20)
  <2>5. CASE c.body[Len(c.body)].part # "end"
    <3>1. PosEnd(c) \in Ends(c.body)
      BY <2>1, <2>3, <2>5
    <3>2. PosEnd(c) \in 1 .. Len(c.body) /\ c.body[PosEnd(c)].part = "end"
      BY <2>2, <3>1
    <3> QED BY <1>1, <1>4, <3>2, SMTT(20)
  <2> QED BY <2>4, <2>5
<1> QED BY <1>1, <1>2, <1>3, <1>4, SMTT(20)

(* mk_http_pending_request() has found a whole request in the buffer.      *)
Taken(c, lim) ==
  /\ c.pos > 0
  /\ c.method = "post" =>
       LET len == ContentLength[c.body[1].kind] IN
         \/ len >= lim
         \/ IF c.pos = Len(c.body) THEN len <= 0 ELSE Len(c.body) - c.pos >= len
  /\ c.status = "incomplete" => c.method = "post" /\ c.body[1].kind = "huge"

(* Only the kind that announces too much is too large.                     *)
LEMMA OnlyHugeTooLarge ==
  ASSUME limit \in MaxRequestSizes, NEW t, Method(t) = "post", ContentLength[t.kind] >= limit
  PROVE  t.kind = "huge"
<1>1. t.kind \in {"post", "nolen", "huge"}
  BY DEF Method, Posts, ContentLength
<1>2. ContentLength["post"] = 1 /\ ContentLength["nolen"] = -1
  BY DEF ContentLength
<1>3. limit \in Nat /\ limit > 1
  BY Sizes, SMTT(20)
<1> QED BY <1>1, <1>2, <1>3, SMTT(20)

(* Looking for the end of the header sets the position and the method      *)
(* only.                                                                   *)
LEMMA PendingFields ==
  ASSUME limit \in MaxRequestSizes, NEW c \in Sessions, Buffered(c, limit)
  PROVE  LET d == PendingRequest(c) IN
         /\ d \in Sessions /\ Buffered(d, limit)
         /\ d.body = c.body /\ d.counter = c.counter /\ d.list = c.list
         /\ ~ Arrived(c) => d.status = c.status
         /\ Arrived(c) => Taken(d, limit)
<1> DEFINE d == PendingRequest(c)
           p == PosEnd(c)
           m == FirstMethod(c)
<1>1. /\ p \in Nat /\ p <= Len(c.body) /\ (p > 0 => c.body[p].part = "end")
      /\ (c.pos > 0 => p = c.pos) /\ (p = 0 => c.pos = 0)
  BY PosEndIn
<1>2. c.pos \in Nat /\ c.method \in Methods /\ c.status \in {"incomplete", "completed"}
      /\ c.body \in Seq(TokenType) /\ Len(c.body) \in Nat
  BY SMTT(20) DEF Sessions
<1>3. p > 0 => m = Method(c.body[1]) /\ m \in Methods
  <2>1. Method(c.body[1]) \in Methods
    BY DEF Method, Methods
  <2> QED BY <1>2, <2>1 DEF Buffered, FirstMethod
<1>4. CASE p = 0
  <2>1. d = c /\ ~ Arrived(c)
    BY <1>4, SMTT(20) DEF PendingRequest, Arrived
  <2> QED BY <2>1
<1>5. CASE p # 0
  <2>1. PICK st \in {"incomplete", "completed"} :
          /\ st = IF Arrived(c) /\ ~ (m = "post" /\ TooLarge(c)) THEN "completed" ELSE c.status
    BY <1>2
  <2>2. d = [c EXCEPT !.pos = p, !.method = m, !.status = st]
    BY <1>5, <2>1 DEF PendingRequest
  <2>3. m \in Methods /\ m = Method(c.body[1]) /\ p > 0
    BY <1>1, <1>3, <1>5, SMTT(20)
  <2> HIDE DEF d, p, m
  <2>4. d \in Sessions /\ d.pos = p /\ d.method = m /\ d.status = st /\ d.body = c.body
        /\ d.counter = c.counter /\ d.list = c.list /\ d.size = c.size
    BY <1>1, <2>2, <2>3 DEF Sessions
  <2>5. Buffered(d, limit)
    BY <1>1, <2>3, <2>4, SMTT(20) DEF Buffered
  <2>6. ~ Arrived(c) => d.status = c.status
    BY <2>1, <2>4
  <2>7. Arrived(c) /\ st = "incomplete" => m = "post" /\ c.body[1].kind = "huge"
    <3>1. Arrived(c) /\ st = "incomplete" => m = "post" /\ ContentLength[c.body[1].kind] >= limit
      BY <2>1 DEF TooLarge
    <3> QED BY <2>3, <3>1, OnlyHugeTooLarge
  <2>8. Arrived(c) => Taken(d, limit)
    BY <2>3, <2>4, <2>7 DEF Arrived, Taken, TooLarge, PostArrived, p, m
  <2> QED BY <2>4, <2>5, <2>6, <2>8 DEF d
<1> QED BY <1>4, <1>5

-----------------------------------------------------------------------------
(* The steps of the worker, by what they do to the connection              *)

PutList(c, l) == [c EXCEPT !.list = l]
PutSr(c, n, sr) == [c EXCEPT !.list[n] = sr]

(* Replacing the list of requests changes nothing else.                    *)
LEMMA PutListFields ==
  ASSUME NEW c \in Sessions, NEW l \in Seq(SrType)
  PROVE  LET d == PutList(c, l) IN
         /\ d \in Sessions /\ d.list = l
         /\ d.body = c.body /\ d.size = c.size /\ d.pos = c.pos /\ d.method = c.method
         /\ d.counter = c.counter /\ d.status = c.status
BY DEF PutList, Sessions

(* Writing one request of the list changes no other.                       *)
LEMMA PutSrFields ==
  ASSUME NEW c \in Sessions, NEW n \in 1 .. Len(c.list), NEW sr \in SrType
  PROVE  LET d == PutSr(c, n, sr) IN
         /\ d \in Sessions /\ Len(d.list) = Len(c.list) /\ d.list[n] = sr
         /\ \A m \in 1 .. Len(c.list) : m # n => d.list[m] = c.list[m]
         /\ d.body = c.body /\ d.size = c.size /\ d.pos = c.pos /\ d.method = c.method
         /\ d.counter = c.counter /\ d.status = c.status
<1>1. c.list \in Seq(SrType)
  BY DEF Sessions
<1>2. PICK l : l = [c.list EXCEPT ![n] = sr]
  OBVIOUS
<1>3. l \in Seq(SrType) /\ Len(l) = Len(c.list) /\ l[n] = sr
      /\ \A m \in 1 .. Len(c.list) : m # n => l[m] = c.list[m]
  BY <1>1, <1>2, SMTT(20)
<1>4. PutSr(c, n, sr) = PutList(c, l)
  BY <1>2 DEF PutSr, PutList
<1> QED BY <1>3, <1>4, PutListFields, SMTT(20)

(* mk_request_ka_next() empties the session and counts the request.        *)
LEMMA KaNextFields ==
  ASSUME NEW c \in Sessions
  PROVE  LET d == KaNext(c) IN
         /\ d \in Sessions /\ d.list = <<>> /\ d.body = <<>> /\ d.size = c.size /\ d.pos = 0
         /\ d.method = "unknown" /\ d.counter = c.counter + 1 /\ d.status = "incomplete"
<1>1. PICK k \in Nat : k = c.counter + 1
  <2>1. c.counter \in Nat
    BY DEF Sessions
  <2> QED BY <2>1, SMTT(20)
<1>2. KaNext(c) = [c EXCEPT !.body = <<>>, !.pos = 0, !.method = "unknown", !.list = <<>>,
                            !.counter = k, !.status = "incomplete"]
  BY <1>1 DEF KaNext
<1>3. <<>> \in Seq(TokenType) /\ <<>> \in Seq(SrType)
  BY SMTT(20)
<1>4. KaNext(c) \in Sessions
  <2>1. PICK b \in Seq(TokenType), l \in Seq(SrType) : b = <<>> /\ l = <<>>
    BY <1>3
  <2>2. KaNext(c) = [alive |-> TRUE, body |-> b, size |-> c.size, pos |-> 0,
                     method |-> "unknown", counter |-> k, status |-> "incomplete", list |-> l]
    BY <1>2, <2>1 DEF Sessions
  <2>3. c.size \in Nat /\ "unknown" \in Methods
    BY DEF Sessions, Methods
  <2> QED BY <2>2, <2>3, SMTT(20) DEF Sessions
<1> QED BY <1>1, <1>2, <1>4 DEF Sessions

(* A counter of one request goes up, to two at most.                       *)
LEMMA MoreFields ==
  ASSUME NEW f \in [Ids -> 0 .. 2], NEW i \in Ids
  PROVE  /\ More(f, i) \in [Ids -> 0 .. 2]
         /\ More(f, i)[i] = IF f[i] = 0 THEN 1 ELSE 2
         /\ \A j \in Ids : j # i => More(f, i)[j] = f[j]
BY SMTT(20) DEF More

(* Request i, and no other, has been answered.                             *)
Answered(rp, rq, i) ==
  rq \in [Ids -> 0 .. 2] /\ rq[i] > 0 /\ \A j \in Ids : j # i => rq[j] = rp[j]

(* The request the worker is at; and it has not been processed.            *)
AtRequest(i) ==
  \/ mode = "read" /\ Body(cs) # <<>> /\ i = Body(cs)[1].req
  \/ mode \in Serving /\ node \in 1 .. Len(cs.list) /\ i = cs.list[node].req
Unanswered(i) == AtRequest(i) /\ (mode \in Serving => cs.list[node].bts < 0)

(* Every way to end the connection.                                        *)
Closing ==
  /\ mode \in Alive /\ mode' \in {"closed", "failed"} /\ node' = 0
  /\ UNCHANGED <<limit, client, nsent, fin>>
  /\ wire' \in {wire, <<>>} /\ rest' \in {rest, <<>>}
  /\ cs' = NoSession \/ (cs' = cs /\ (cs \in Sessions => cs.list = <<>>))
  /\ closes' \in {1, 2} \/ (mode = "new" /\ closes' = closes /\ replies' = replies)
  /\ replies' = replies \/ \E i \in Ids : Unanswered(i) /\ Answered(replies, replies', i)
  /\ ended' = ended \/ \E i \in Ids : AtRequest(i) /\ ended' = More(ended, i)
  /\ files' \subseteq Ids \cup {Lost} /\ (mode' = "failed" \/ files' \subseteq {Lost})
  /\ Lost \in files' => Lost \in files \/ \E i \in files \ {Lost} : Unanswered(i)

(* Some tokens go from the wire w to the end of the buffer b.              *)
Moved(b, w, b2, w2) ==
  \E k \in 0 .. Len(w) :
    /\ Len(b2) = Len(b) + k /\ Len(w2) = Len(w) - k
    /\ \A j \in 1 .. Len(b) : b2[j] = b[j]
    /\ \A j \in 1 .. k : b2[Len(b) + j] = w[j]
    /\ \A j \in 1 .. Len(w2) : w2[j] = w[k + j]

(* The buffer is examined, after some tokens were read into it.            *)
Reading ==
  /\ mode = "read" /\ mode' \in {"read", "write"} /\ node = 0 /\ node' = 0
  /\ UNCHANGED <<limit, client, nsent, rest, fin, replies, ended, closes, files>>
  /\ cs' \in Sessions /\ Buffered(cs', limit) /\ cs'.list = <<>> /\ cs'.counter = Counter(cs)
  /\ mode' = "read" => cs'.status = "incomplete"
  /\ mode' = "write" => Taken(cs', limit)
  /\ wire' \in Seq(TokenType) /\ Moved(Body(cs), wire, cs'.body, wire')

(* The list that mk_request_parse() makes of a buffer.                     *)
Fresh(c, l) ==
  /\ \A n \in DOMAIN l : l[n].bts = -1 /\ \E j \in 1 .. Len(c.body) : l[n].req = c.body[j].req
  /\ l[1].req = c.body[1].req
  /\ l[1].method = c.method /\ l[1].kind = c.body[1].kind
  /\ (\A j \in 1 .. c.pos - 1 : c.body[j].part # "end") => Len(l) = 1
  /\ c.method = "post" => Len(l) = 1

(* A write event begins with the first request of the list.                *)
Parsing ==
  /\ mode = "write" /\ mode' = "write" /\ node = 0 /\ node' = 1
  /\ UNCHANGED <<netVars, outVars>>
  /\ \E l \in Seq(SrType) : /\ cs' = PutList(cs, l) /\ l # <<>>
                            /\ l = cs.list \/ (cs.list = <<>> /\ Fresh(cs, l))

(* A request of the list is processed, or more of its answer is sent.      *)
Serve ==
  /\ mode = "write" /\ mode' \in Serving /\ node \in 1 .. Len(cs.list)
  /\ UNCHANGED <<netVars, closes>>
  /\ \E sr \in SrType :
       /\ sr.req = cs.list[node].req /\ sr.kind = cs.list[node].kind
       /\ sr.method = cs.list[node].method /\ cs' = PutSr(cs, node, sr)
       /\ \/ replies' = replies /\ cs.list[node].bts >= 0
          \/ replies' = replies /\ mode' = "sleep"
          \/ Answered(replies, replies', sr.req) /\ mode' = "write" /\ cs.list[node].bts < 0
       /\ \/ /\ mode' = "sleep" /\ node' = node /\ ended' = ended /\ files' = files
             /\ sr.bts < 0 /\ cs.list[node].bts < 0
          \/ mode' = "write" /\ node' = 0 /\ ended' = ended /\ sr.bts > 0
          \/ mode' = "write" /\ node' = node + 1 /\ ended' = More(ended, sr.req)
       /\ files' \subseteq files \cup {sr.req, Lost}
       /\ Lost \in files' => Lost \in files \/ (cs.list[node].bts < 0 /\ sr.req \in files)
       /\ sr.method = "post" /\ sr.kind = "huge" => files' = files /\ mode' = "write"

(* The connection is kept for the next request.                            *)
Again ==
  /\ mode \in Serving /\ mode' = "read" /\ node' = 0
  /\ UNCHANGED <<netVars, ended, closes>>
  /\ cs.list # <<>> /\ cs.counter < MaxKeepAlive /\ cs' = KaNext(cs)
  /\ files' = files \ Listed(cs)
  /\ \/ mode = "write" /\ node = Len(cs.list) + 1 /\ replies' = replies
     \/ mode = "sleep" /\ Answered(replies, replies', cs.list[node].req)

(* What CoreInv says, for the steps below.                                 *)
LEMMA CoreFacts ==
  ASSUME CoreInv
  PROVE  /\ limit \in MaxRequestSizes /\ wire \in Seq(TokenType) /\ rest \in Seq(TokenType)
         /\ cs = NoSession \/ (cs \in Sessions /\ Buffered(cs, limit))
         /\ mode \in Phases /\ node \in Nat
         /\ replies \in [Ids -> 0 .. 2] /\ ended \in [Ids -> 0 .. 2] /\ closes \in 0 .. 2
         /\ files \subseteq Ids \cup {Lost} /\ Lost \notin Ids
         /\ mode = "failed" \/ files \ {Lost} \subseteq Listed(cs)
         /\ mode \notin Serving => node = 0 /\ Listed(cs) = {} /\ (cs \in Sessions => cs.list = <<>>)
         /\ mode \in Serving => cs \in Sessions /\ cs.pos > 0
         /\ mode = "new" => cs = NoSession
<1>1. Lost \notin Ids
  BY SMTT(20) DEF Lost, Ids
<1>2. NetTypes /\ Core(limit, mode, cs, node, replies, ended, closes, files)
  BY DEF CoreInv
<1>3. InStep(mode, cs, node) /\ Reported(mode, cs, replies, ended, closes, files)
  BY <1>2 DEF Core
<1>4. mode = "failed" \/ files \ {Lost} \subseteq Listed(cs)
  BY <1>3 DEF Reported
<1>5. mode \notin Serving => node = 0 /\ (cs \in Sessions => cs.list = <<>>)
  BY <1>3 DEF InStep
<1>6. mode \notin Serving => Listed(cs) = {}
  BY <1>5, SMTT(20) DEF Listed
<1>7. (mode \in Serving => cs \in Sessions /\ cs.pos > 0) /\ (mode = "new" => cs = NoSession)
  BY <1>3 DEF InStep
<1> QED BY <1>1, <1>2, <1>4, <1>5, <1>6, <1>7 DEF NetTypes, Core

(* The request the worker is at is one of the list.                        *)
LEMMA NodeFacts ==
  ASSUME CoreInv, mode = "sleep" \/ AtNode
  PROVE  /\ mode \in Serving /\ node \in 1 .. Len(cs.list) /\ cs \in Sessions
         /\ Sr = cs.list[node] /\ Sr \in SrType /\ Sr.req \in Ids
         /\ mode = "sleep" => Sr.bts < 0
         /\ AtRequest(Sr.req) /\ (Sr.bts < 0 => Unanswered(Sr.req))
         /\ Sr.req \in Listed(cs) /\ Listed(cs) = {cs.list[n].req : n \in DOMAIN cs.list}
<1>1. mode \in Serving
  BY DEF AtNode, Serving
<1>2. cs \in Sessions /\ node \in Nat
  BY <1>1, CoreFacts
<1>3. cs.list \in Seq(SrType)
  BY <1>2 DEF Sessions
<1>4. mode = "sleep" => node > 0 /\ node <= Len(cs.list) /\ cs.list[node].bts < 0
  BY DEF CoreInv, Core, InStep
<1>5. node \in 1 .. Len(cs.list)
  BY <1>2, <1>3, <1>4, SMTT(20) DEF AtNode
<1>6. Sr = cs.list[node] /\ Sr \in SrType /\ Sr.req \in Ids
  <2>1. cs.list[node] \in SrType
    BY <1>3, <1>5, SMTT(20)
  <2> QED BY <2>1 DEF Sr, SrType
<1>7. AtRequest(Sr.req) /\ (Sr.bts < 0 => Unanswered(Sr.req))
  BY <1>1, <1>5, <1>6 DEF AtRequest, Unanswered
<1>8. Listed(cs) = {cs.list[n].req : n \in DOMAIN cs.list}
  BY <1>2 DEF Listed
<1>9. Sr.req \in Listed(cs)
  <2>1. node \in DOMAIN cs.list
    BY <1>3, <1>5, SMTT(20)
  <2> QED BY <1>6, <1>8, <2>1
<1> QED BY <1>1, <1>2, <1>4, <1>5, <1>6, <1>7, <1>8, <1>9

(* Stage 50 is announced at least once.                                    *)
LEMMA Stage50Values == closes \in 0 .. 2 => Stage50 \in {1, 2}
BY DEF Stage50

(* A connection that is refused is closed.                                 *)
LEMMA RefuseShape ==
  ASSUME CoreInv, Refuse PROVE Closing
<1>1. /\ mode = "new" /\ mode' = "closed" /\ node = 0 /\ cs = NoSession /\ cs \notin Sessions
      /\ files \subseteq {Lost}
  BY CoreFacts, NoSessionIsNone DEF Refuse, Serving
<1>2. /\ wire' = <<>> /\ rest' = <<>> /\ UNCHANGED <<limit, client, nsent, fin, cs, node>>
      /\ UNCHANGED <<replies, ended, closes, files>>
  BY DEF Refuse, outVars
<1> QED BY <1>1, <1>2 DEF Closing, Alive

(* The buffer is full, and there is a first token in it.                   *)
LEMMA FullBody ==
  ASSUME CoreInv, Readable, Full(Session)
  PROVE  Unanswered(Session.body[1].req) /\ Session.body[1].req \in Ids
<1>1. Session \in Sessions /\ Buffered(Session, limit) /\ Session.body = Body(cs)
  BY SessionFields
<1>2. Session.body \in Seq(TokenType) /\ Len(Session.body) \in Nat
  BY <1>1, SMTT(20) DEF Sessions
<1>3. Len(Session.body) >= 1
  <2>1. Session.size >= Chunk /\ Len(Session.body) >= Session.size /\ Session.size \in Nat
    BY <1>1 DEF Full, Buffered, Sessions
  <2>2. Chunk \in Nat /\ Chunk > 0
    BY Sizes
  <2> QED BY <1>2, <2>1, <2>2, SMTT(20)
<1>4. Session.body # <<>> /\ Session.body[1] \in TokenType
  BY <1>2, <1>3, SMTT(20)
<1>5. mode = "read"
  BY DEF Readable
<1> QED BY <1>1, <1>4, <1>5 DEF Unanswered, AtRequest, TokenType, Serving

(* A request that does not fit the buffer closes the connection.           *)
LEMMA PrematureShape ==
  ASSUME CoreInv, Readable, Full(Session), NEW how, PrematureClose(Session, how),
         \/ how = "closed" /\ files' = files
         \/ how = "failed" /\ files' \in {files, files \cup {Session.body[1].req}}
  PROVE  Closing
<1>1. PICK i \in Ids : i = Session.body[1].req /\ Unanswered(i) /\ AtRequest(i)
  BY FullBody DEF Unanswered
<1>2. /\ replies' = More(replies, i) /\ ended' = More(ended, i) /\ mode' = how /\ closes' = 2
      /\ wire' = <<>> /\ rest' = <<>> /\ cs' = NoSession
      /\ UNCHANGED <<limit, client, nsent, fin, node>>
  BY <1>1 DEF PrematureClose, SessionRemove
<1>3. /\ mode = "read" /\ node = 0 /\ replies \in [Ids -> 0 .. 2]
      /\ files \subseteq {Lost} /\ Lost \notin Ids
  BY CoreFacts DEF Readable, Serving
<1>4. Answered(replies, replies', i)
  BY <1>2, <1>3, MoreFields, SMTT(20) DEF Answered
<1>5. files' \subseteq Ids \cup {Lost} /\ (mode' = "failed" \/ files' \subseteq {Lost})
      /\ (Lost \in files' => Lost \in files)
  BY <1>1, <1>2, <1>3
<1> QED BY <1>1, <1>2, <1>3, <1>4, <1>5 DEF Closing, Alive

(* So does one for which there is no memory.                               *)
LEMMA ReadFailsShape ==
  ASSUME CoreInv, ReadTooLarge \/ ReadNoMemory PROVE Closing
<1>1. CASE ReadTooLarge
  BY <1>1, PrematureShape DEF ReadTooLarge
<1>2. CASE ReadNoMemory
  BY <1>2, PrematureShape DEF ReadNoMemory
<1> QED BY <1>1, <1>2

(* Steps that close the connection and leave the answers as they are.      *)
Drops == /\ mode \in Alive /\ mode' \in {"closed", "failed"} /\ node' = 0
         /\ UNCHANGED <<limit, client, nsent, fin, replies, ended>>
         /\ wire' \in {wire, <<>>} /\ rest' \in {rest, <<>>} /\ closes' = Stage50
         /\ cs' = NoSession \/ (cs' = cs /\ (cs \in Sessions => cs.list = <<>>))
         /\ \/ files' = files /\ (mode' = "failed" \/ Listed(cs) = {})
            \/ files' = files \ Listed(cs)

(* A client that goes away closes the connection.                          *)
LEMMA DropsShape == ASSUME CoreInv, Drops PROVE Closing
<1>1. closes' \in {1, 2}
  BY CoreFacts, Stage50Values DEF Drops
<1>2. /\ files \subseteq Ids \cup {Lost} /\ (mode = "failed" \/ files \ {Lost} \subseteq Listed(cs))
  BY CoreFacts
<1>3. files' \subseteq Ids \cup {Lost} /\ (mode' = "failed" \/ files' \subseteq {Lost})
      /\ (Lost \in files' => Lost \in files)
  BY <1>2 DEF Drops, Alive
<1> QED BY <1>1, <1>3 DEF Drops, Closing

(* A read of zero bytes closes the connection.                             *)
LEMMA ReadClosedShape == ASSUME CoreInv, ReadClosed PROVE Closing
<1>1. mode = "read" /\ node = 0 /\ Listed(cs) = {}
  BY CoreFacts DEF ReadClosed, Readable, Serving
<1>2. Drops
  BY <1>1 DEF ReadClosed, SessionRemove, RemoveClient, Drops, Alive
<1> QED BY <1>2, DropsShape

(* An error event or the timeout closes the connection.                    *)
LEMMA ConnErrorShape == ASSUME CoreInv, ConnError PROVE Closing
<1>1. Drops
  BY DEF ConnError, SessionRemove, RemoveClient, Drops, Alive
<1> QED BY <1>1, DropsShape

(* A session that can expire has no open file: it has no list of requests, *)
(* or the one request in it is refused.                                    *)
LEMMA TimeoutShape == ASSUME CoreInv, Timeout PROVE Closing
<1>1. /\ mode \in {"read", "write"} /\ node = 0 /\ node' = 0 /\ mode' = "closed"
      /\ wire' = <<>> /\ rest' = <<>> /\ closes' = Stage50
      /\ UNCHANGED <<limit, client, nsent, fin, replies, ended, files>>
  BY DEF Timeout, Pending, RemoveClient
<1>2. /\ cs = NoSession \/ cs \in Sessions
      /\ files \subseteq Ids \cup {Lost} /\ files \ {Lost} \subseteq Listed(cs)
      /\ mode = "read" => (cs \in Sessions => cs.list = <<>>) /\ Listed(cs) = {}
      /\ mode = "write" => cs \in Sessions
  BY <1>1, CoreFacts DEF Serving
<1>3. /\ cs' = NoSession \/ (cs' = cs /\ (cs \in Sessions => cs.list = <<>>))
      /\ files \subseteq {Lost}
  <2>1. CASE Pending /\ cs' = cs
    <3>1. cs \in Sessions => cs.list = <<>>
      BY <1>2, <2>1 DEF Pending
    <3>2. Listed(cs) = {}
      BY <3>1, SMTT(20) DEF Listed
    <3> QED BY <1>2, <2>1, <3>1, <3>2
  <2>2. CASE cs.alive /\ cs.status = "incomplete" /\ cs' = NoSession
    <3>1. Refused(mode, cs, files)
      BY DEF CoreInv, Core
    <3>2. mode = "write" => files \subseteq {Lost}
      BY <2>2, <3>1 DEF Refused, Serving
    <3> QED BY <1>1, <1>2, <2>2, <3>2
  <2> QED BY <2>1, <2>2 DEF Timeout, SessionRemove
<1>4. closes' \in {1, 2}
  BY <1>1, CoreFacts, Stage50Values
<1> QED BY <1>1, <1>2, <1>3, <1>4 DEF Closing, Alive

(* After a read the session waits for more, or for its write event.        *)
LEMMA AfterReadShape ==
  ASSUME limit \in MaxRequestSizes, mode = "read",
         NEW c \in Sessions, Buffered(c, limit), c.list = <<>>, c.status = "incomplete",
         AfterRead(c)
  PROVE  \/ /\ mode' \in {"read", "write"} /\ closes' = closes
            /\ cs' \in Sessions /\ Buffered(cs', limit) /\ cs'.list = <<>>
            /\ cs'.body = c.body /\ cs'.counter = c.counter
            /\ mode' = "read" => cs'.status = "incomplete"
            /\ mode' = "write" => Taken(cs', limit)
         \/ mode' = "closed" /\ cs' = NoSession /\ closes' = Stage50
<1>1. PICK d : d = PendingRequest(c)
  OBVIOUS
<1>2. /\ d \in Sessions /\ Buffered(d, limit)
      /\ d.body = c.body /\ d.counter = c.counter /\ d.list = c.list
      /\ ~ Arrived(c) => d.status = c.status
      /\ Arrived(c) => Taken(d, limit)
  BY <1>1, PendingFields
<1>3. CASE Arrived(c) /\ cs' = d /\ mode' = "write" /\ closes' = closes
  BY <1>2, <1>3
<1>4. CASE ~ Arrived(c) /\ cs' = d /\ mode' = mode /\ closes' = closes
  BY <1>2, <1>4
<1>5. CASE mode' = "closed" /\ cs' = NoSession /\ closes' = Stage50
  BY <1>5
<1> QED BY <1>1, <1>3, <1>4, <1>5 DEF AfterRead, SessionRemove

(* Nothing is read.                                                        *)
LEMMA MovedNothing ==
  ASSUME NEW b \in Seq(TokenType), NEW w \in Seq(TokenType)
  PROVE  Moved(b, w, b, w)
<1>1. Len(b) \in Nat /\ Len(w) \in Nat /\ 0 \in 0 .. Len(w)
  BY SMTT(20)
<1>2. /\ Len(b) = Len(b) + 0 /\ Len(w) = Len(w) - 0
      /\ \A j \in 1 .. Len(w) : w[j] = w[0 + j]
  BY <1>1, SMTT(20)
<1>3. \A j \in 1 .. 0 : b[Len(b) + j] = w[j]
  BY SMTT(20)
<1> QED BY <1>1, <1>2, <1>3 DEF Moved

(* The first k tokens of the wire are read.                                *)
LEMMA MovedSome ==
  ASSUME NEW b \in Seq(TokenType), NEW w \in Seq(TokenType), NEW k \in 0 .. Len(w)
  PROVE  /\ SubSeq(w, 1, k) \in Seq(TokenType) /\ Len(SubSeq(w, 1, k)) = k
         /\ SubSeq(w, k + 1, Len(w)) \in Seq(TokenType)
         /\ Moved(b, w, b \o SubSeq(w, 1, k), SubSeq(w, k + 1, Len(w)))
<1>1. PICK s, w2, b2 : /\ s = SubSeq(w, 1, k) /\ w2 = SubSeq(w, k + 1, Len(w)) /\ b2 = b \o s
  OBVIOUS
<1>2. Len(b) \in Nat /\ Len(w) \in Nat /\ k \in Nat /\ k <= Len(w)
  BY SMTT(20)
<1>3. s \in Seq(TokenType) /\ Len(s) = k /\ \A j \in 1 .. k : s[j] = w[j]
  BY <1>1, <1>2, SMTT(20)
<1>4. w2 \in Seq(TokenType) /\ Len(w2) = Len(w) - k /\ \A j \in 1 .. Len(w2) : w2[j] = w[k + j]
  BY <1>1, <1>2, SMTT(20)
<1>5. Len(b2) = Len(b) + k /\ (\A j \in 1 .. Len(b) : b2[j] = b[j])
      /\ \A j \in 1 .. k : b2[Len(b) + j] = w[j]
  <2>1. b2 = b \o s
    BY <1>1
  <2>2. Len(b2) = Len(b) + Len(s) /\ Len(s) = k
    <3>1. s \in Seq(TokenType) /\ Len(s) = k
      BY <1>3
    <3>2. Len(b \o s) = Len(b) + Len(s)
      BY <3>1, SMTT(20)
    <3> QED BY <2>1, <3>1, <3>2
  <2>3. \A j \in 1 .. Len(b) : b2[j] = b[j]
    BY <1>2, <1>3, <2>1, SMTT(20)
  <2>4. ASSUME NEW j \in 1 .. k PROVE b2[Len(b) + j] = w[j]
    <3>1. PICK i \in Nat : i = Len(b) + j
      BY <1>2, SMTT(20)
    <3>2. i \in 1 .. Len(b) + Len(s) /\ i > Len(b) /\ i - Len(b) = j
      BY <1>2, <2>2, <3>1, SMTT(20)
    <3>3. b2[i] = s[i - Len(b)]
      BY <1>2, <1>3, <2>1, <3>2, SMTT(20)
    <3> QED BY <1>3, <3>1, <3>2, <3>3
  <2> QED BY <2>2, <2>3, <2>4
<1>6. Moved(b, w, b2, w2)
  BY <1>4, <1>5 DEF Moved
<1> QED BY <1>1, <1>3, <1>4, <1>6

(* A session that can read has room in its buffer.                         *)
LEMMA ReadFacts ==
  ASSUME CoreInv, Readable, CanRead
  PROVE  LET c == Grown(Session) IN
         /\ mode = "read" /\ node = 0 /\ Listed(cs) = {}
         /\ limit \in MaxRequestSizes /\ wire \in Seq(TokenType)
         /\ c \in Sessions /\ Buffered(c, limit) /\ c.list = <<>> /\ c.status = "incomplete"
         /\ c.body = Body(cs) /\ c.counter = Counter(cs) /\ Len(c.body) < c.size
<1>1. /\ mode = "read" /\ node = 0 /\ Listed(cs) = {}
      /\ limit \in MaxRequestSizes /\ wire \in Seq(TokenType)
  BY CoreFacts DEF Readable, Serving
<1>2. /\ Session \in Sessions /\ Buffered(Session, limit)
      /\ Session.body = Body(cs) /\ Session.counter = Counter(cs)
      /\ Session.list = <<>> /\ Session.status = "incomplete"
  BY <1>1, SessionFields
<1> QED BY <1>1, <1>2, GrownFields DEF CanRead

(* mk_conn_read() examines the buffer or closes the connection.            *)
LEMMA ReadShape == ASSUME CoreInv, Read PROVE Reading \/ Closing
<1>1. PICK c : c = Grown(Session)
  OBVIOUS
<1>2. /\ mode = "read" /\ node = 0 /\ Listed(cs) = {}
      /\ limit \in MaxRequestSizes /\ wire \in Seq(TokenType)
      /\ c \in Sessions /\ Buffered(c, limit) /\ c.list = <<>> /\ c.status = "incomplete"
      /\ c.body = Body(cs) /\ c.counter = Counter(cs) /\ Len(c.body) < c.size
  BY <1>1, ReadFacts DEF Read
<1>3. c.body \in Seq(TokenType) /\ c.size \in Nat /\ Len(c.body) \in Nat /\ Len(wire) \in Nat
  BY <1>2, SMTT(20) DEF Sessions
<1>4. PICK k : k = IF Len(wire) < c.size - Len(c.body) THEN Len(wire) ELSE c.size - Len(c.body)
  OBVIOUS
<1>5. k \in 0 .. Len(wire) /\ Len(c.body) + k <= c.size
  BY <1>2, <1>3, <1>4, SMTT(20)
<1>6. PICK s, w2 : s = SubSeq(wire, 1, k) /\ w2 = SubSeq(wire, k + 1, Len(wire))
  OBVIOUS
<1>7. s \in Seq(TokenType) /\ Len(s) = k /\ w2 \in Seq(TokenType)
      /\ Moved(c.body, wire, c.body \o s, w2)
  BY <1>2, <1>3, <1>5, <1>6, MovedSome
<1>8. PICK d : d = Fill(c, s)
  OBVIOUS
<1>9. /\ d \in Sessions /\ Buffered(d, limit) /\ d.body = c.body \o s
      /\ d.counter = c.counter /\ d.list = <<>> /\ d.status = "incomplete"
  BY <1>2, <1>5, <1>7, <1>8, FillFields
<1>10. /\ AfterRead(d)
       /\ wire' = IF mode' = "closed" THEN <<>> ELSE w2
       /\ rest' = IF mode' = "closed" THEN <<>> ELSE rest
       /\ UNCHANGED <<limit, client, nsent, fin, node, replies, ended, files>>
  BY <1>1, <1>4, <1>6, <1>8 DEF Read, Fill
<1>11. CASE mode' = "closed" /\ cs' = NoSession /\ closes' = Stage50
  <2>1. Drops
    BY <1>2, <1>10, <1>11 DEF Drops, Alive
  <2> QED BY <2>1, DropsShape
<1>12. CASE /\ mode' \in {"read", "write"} /\ closes' = closes
            /\ cs' \in Sessions /\ Buffered(cs', limit) /\ cs'.list = <<>>
            /\ cs'.body = d.body /\ cs'.counter = d.counter
            /\ mode' = "read" => cs'.status = "incomplete"
            /\ mode' = "write" => Taken(cs', limit)
  <2>1. wire' = w2 /\ rest' = rest /\ node' = 0
    BY <1>2, <1>10, <1>12
  <2>2. wire' \in Seq(TokenType) /\ Moved(Body(cs), wire, cs'.body, wire')
        /\ cs'.counter = Counter(cs)
    BY <1>2, <1>7, <1>9, <1>12, <2>1
  <2> QED BY <1>2, <1>10, <1>12, <2>1, <2>2 DEF Reading
<1> QED BY <1>2, <1>9, <1>10, <1>11, <1>12, AfterReadShape

(* So does a read event that finds nothing to read.                        *)
LEMMA ReadAgainShape == ASSUME CoreInv, ReadAgain PROVE Reading \/ Closing
<1>1. PICK d : d = Grown(Session)
  OBVIOUS
<1>2. /\ mode = "read" /\ node = 0 /\ Listed(cs) = {}
      /\ limit \in MaxRequestSizes /\ wire \in Seq(TokenType)
      /\ d \in Sessions /\ Buffered(d, limit) /\ d.list = <<>> /\ d.status = "incomplete"
      /\ d.body = Body(cs) /\ d.counter = Counter(cs)
  BY <1>1, ReadFacts DEF ReadAgain
<1>3. Moved(d.body, wire, d.body, wire)
  <2>1. d.body \in Seq(TokenType)
    BY <1>2 DEF Sessions
  <2> QED BY <1>2, <2>1, MovedNothing
<1>4. /\ AfterRead(d) /\ wire' = wire /\ rest' = rest
      /\ UNCHANGED <<limit, client, nsent, fin, node, replies, ended, files>>
  BY <1>1 DEF ReadAgain, netVars
<1>5. CASE mode' = "closed" /\ cs' = NoSession /\ closes' = Stage50
  <2>1. Drops
    BY <1>2, <1>4, <1>5 DEF Drops, Alive
  <2> QED BY <2>1, DropsShape
<1>6. CASE /\ mode' \in {"read", "write"} /\ closes' = closes
           /\ cs' \in Sessions /\ Buffered(cs', limit) /\ cs'.list = <<>>
           /\ cs'.body = d.body /\ cs'.counter = d.counter
           /\ mode' = "read" => cs'.status = "incomplete"
           /\ mode' = "write" => Taken(cs', limit)
  <2>1. wire' \in Seq(TokenType) /\ Moved(Body(cs), wire, cs'.body, wire')
        /\ cs'.counter = Counter(cs) /\ node' = 0
    BY <1>2, <1>3, <1>4, <1>6
  <2> QED BY <1>2, <1>4, <1>6, <2>1 DEF Reading
<1> QED BY <1>2, <1>4, <1>5, <1>6, AfterReadShape

(* A request split from the buffer has not been processed.                 *)
LEMMA BlockFields ==
  ASSUME NEW t \in TokenType
  PROVE  Block(t) \in SrType /\ Block(t).req = t.req /\ Block(t).kind = t.kind /\ Block(t).bts = -1
<1>1. -1 \in -1 .. FileSize
  BY Sizes, SMTT(20)
<1>2. Method(t) \in Methods /\ t.req \in Ids /\ t.kind \in Kinds
  BY DEF Method, Methods, TokenType
<1> QED BY <1>1, <1>2 DEF Block, SrType, Methods

(* Neither has the first one.                                              *)
LEMMA FirstBlockFields ==
  ASSUME NEW c \in Sessions, NEW t \in TokenType, t = c.body[1]
  PROVE  /\ FirstBlock(c) \in SrType /\ FirstBlock(c).req = t.req /\ FirstBlock(c).kind = t.kind
         /\ FirstBlock(c).bts = -1 /\ FirstBlock(c).method = c.method
<1>1. PICK x : x = Block(t)
  OBVIOUS
<1>2. x \in SrType /\ x.req = t.req /\ x.kind = t.kind /\ x.bts = -1
  BY <1>1, BlockFields
<1>3. c.method \in Methods
  BY DEF Sessions
<1>4. FirstBlock(c) = [x EXCEPT !.method = c.method]
  BY <1>1 DEF FirstBlock
<1> QED BY <1>2, <1>3, <1>4 DEF SrType, Methods

(* The requests found in the buffer are one more than the headers that end *)
(* before the last.                                                        *)
LEMMA StartsFacts ==
  ASSUME NEW c \in Sessions, c.pos > 0
  PROVE  /\ Starts(c) \in SUBSET (1 .. c.pos) /\ Cardinality(Starts(c)) \in Nat
         /\ Cardinality(Starts(c)) >= 1
         /\ (\A j \in 1 .. c.pos - 1 : c.body[j].part # "end") => Cardinality(Starts(c)) = 1
<1>1. c.pos \in Nat
  BY DEF Sessions
<1>2. Starts(c) \in SUBSET (1 .. c.pos) /\ 1 \in Starts(c)
  BY <1>1, SMTT(20) DEF Starts
<1>3. IsFiniteSet(Starts(c))
  <2>1. IsFiniteSet(1 .. c.pos)
    BY <1>1, FS_Interval, SMTT(20)
  <2> QED BY <1>2, <2>1, FS_Subset
<1>4. Cardinality(Starts(c)) \in Nat /\ Cardinality(Starts(c)) # 0
  BY <1>2, <1>3, FS_CardinalityType, FS_EmptySet
<1>5. ASSUME \A j \in 1 .. c.pos - 1 : c.body[j].part # "end" PROVE Cardinality(Starts(c)) = 1
  <2>1. \A j \in 2 .. c.pos : c.body[j - 1].part # "end"
    BY <1>1, <1>5, SMTT(20)
  <2>2. Starts(c) = {1}
    BY <2>1 DEF Starts
  <2> QED BY <2>2, FS_Singleton
<1> QED BY <1>2, <1>4, <1>5, SMTT(20)

(* mk_request_parse() makes a list with at least one request.              *)
LEMMA ParsedFields ==
  ASSUME NEW c \in Sessions, Buffered(c, limit), c.pos > 0
  PROVE  /\ Parsed(c) \in Seq(SrType) /\ Parsed(c) # <<>>
         /\ ParseOK(Parsed(c)) => Fresh(c, Parsed(c))
<1>1. c.body \in Seq(TokenType) /\ c.pos \in 1 .. Len(c.body) /\ c.pos \in Nat /\ c.counter \in Nat
  BY SMTT(20) DEF Sessions, Buffered
<1>2. PICK l, t : l = Parsed(c) /\ t = c.body[1]
  OBVIOUS
<1>3. t \in TokenType /\ 1 \in 1 .. Len(c.body)
  BY <1>1, <1>2, SMTT(20)
<1>4. PICK f : f = FirstBlock(c)
  OBVIOUS
<1>5. f \in SrType /\ f.req = t.req /\ f.kind = t.kind /\ f.bts = -1 /\ f.method = c.method
  BY <1>2, <1>3, <1>4, FirstBlockFields
<1>6. /\ l \in Seq(SrType) /\ Len(l) \in Nat /\ Len(l) >= 1 /\ l[1] = f
      /\ \A n \in 1 .. Len(l) : l[n].bts = -1 /\ \E j \in 1 .. Len(c.body) : l[n].req = c.body[j].req
      /\ (\A j \in 1 .. c.pos - 1 : c.body[j].part # "end") => Len(l) = 1
  <2>1. CASE c.counter = 0
    <3>1. l = <<f>>
      BY <1>2, <1>4, <2>1 DEF Parsed
    <3>2. l \in Seq(SrType) /\ Len(l) = 1 /\ l[1] = f
      BY <1>5, <3>1, SMTT(20)
    <3>3. \A n \in 1 .. Len(l) : l[n] = f
      BY <3>1, SMTT(20)
    <3>4. l[1].req = c.body[1].req
      BY <1>2, <1>5, <3>2
    <3> QED BY <1>2, <1>3, <1>5, <3>2, <3>3, SMTT(20)
  <2>2. CASE c.counter # 0
    <3>1. PICK m : m = Cardinality(Starts(c))
      OBVIOUS
    <3>2. m \in Nat /\ m >= 1 /\ Starts(c) \in SUBSET (1 .. c.pos)
          /\ ((\A j \in 1 .. c.pos - 1 : c.body[j].part # "end") => m = 1)
      BY <3>1, StartsFacts
    <3>3. l = [n \in 1 .. m |-> IF n = 1 THEN f ELSE Block(c.body[Nth(Starts(c), n)])]
      BY <1>2, <1>4, <2>2, <3>1 DEF Parsed
    <3>4. ASSUME NEW n \in 1 .. m, n # 1
          PROVE  /\ Block(c.body[Nth(Starts(c), n)]) \in SrType
                 /\ Block(c.body[Nth(Starts(c), n)]).bts = -1
                 /\ \E j \in 1 .. Len(c.body) : Block(c.body[Nth(Starts(c), n)]).req = c.body[j].req
      <4>1. Nth(Starts(c), n) \in Starts(c)
        BY <1>1, <3>1, <3>2, NthIn
      <4>2. PICK j \in 1 .. Len(c.body) : j = Nth(Starts(c), n)
        BY <1>1, <3>2, <4>1, SMTT(20)
      <4>3. c.body[j] \in TokenType
        BY <1>1, SMTT(20)
      <4> QED BY <4>2, <4>3, BlockFields
    <3>5. \A n \in 1 .. m : l[n] = IF n = 1 THEN f ELSE Block(c.body[Nth(Starts(c), n)])
      BY <3>3
    <3>6. \A n \in 1 .. m : l[n] \in SrType /\ l[n].bts = -1
                            /\ \E j \in 1 .. Len(c.body) : l[n].req = c.body[j].req
      BY <1>2, <1>3, <1>5, <3>4, <3>5
    <3>7. l \in Seq(SrType) /\ Len(l) = m
      <4>1. l \in [1 .. m -> SrType]
        BY <3>3, <3>6
      <4> QED BY <3>2, <4>1, SMTT(20)
    <3>8. l[1] = f
      BY <3>2, <3>5, SMTT(20)
    <3> QED BY <3>2, <3>6, <3>7, <3>8
  <2> QED BY <2>1, <2>2
<1>7. ASSUME ParseOK(l), c.method = "post" PROVE Len(l) = 1
  <2>1. l[1].method = "post" /\ 1 \in DOMAIN l
    BY <1>5, <1>6, <1>7, SMTT(20)
  <2>2. ~ (Len(l) > 1)
    BY <1>7, <2>1 DEF ParseOK
  <2>3. PICK m \in Nat : m = Len(l) /\ m >= 1 /\ ~ (m > 1)
    BY <1>6, <2>2
  <2> QED BY <2>3, SMTT(20)
<1>8. l # <<>>
  BY <1>6, SMTT(20)
<1>9. ParseOK(l) => Fresh(c, l)
  <2>1. l[1].req = c.body[1].req /\ l[1].method = c.method /\ l[1].kind = c.body[1].kind
    BY <1>2, <1>5, <1>6
  <2>2. \A n \in DOMAIN l : l[n].bts = -1 /\ \E j \in 1 .. Len(c.body) : l[n].req = c.body[j].req
    BY <1>6, SMTT(20)
  <2> QED BY <1>6, <1>7, <2>1, <2>2 DEF Fresh
<1> QED BY <1>2, <1>6, <1>8, <1>9

(* The first write event of a request builds the list or closes the        *)
(* connection.                                                             *)
LEMMA WriteEventShape == ASSUME CoreInv, WriteEvent PROVE Parsing \/ Closing
<1>1. /\ mode = "write" /\ node = 0 /\ cs \in Sessions /\ cs.pos > 0 /\ Buffered(cs, limit)
      /\ cs.list \in Seq(SrType)
  <2>1. mode = "write" /\ node = 0
    BY DEF WriteEvent
  <2>2. cs \in Sessions /\ cs.pos > 0 /\ (cs = NoSession \/ Buffered(cs, limit))
    BY <2>1, CoreFacts DEF Serving
  <2> QED BY <2>1, <2>2, NoSessionIsNone DEF Sessions
<1>2. PICK l : l = IF cs.list = <<>> THEN Parsed(cs) ELSE cs.list
  OBVIOUS
<1>3. l \in Seq(SrType) /\ l # <<>>
      /\ (cs.list # <<>> => l = cs.list)
      /\ (cs.list = <<>> /\ ParseOK(l) => Fresh(cs, l))
  BY <1>1, <1>2, ParsedFields
<1>4. CASE /\ cs.list # <<>> \/ ParseOK(l)
           /\ cs' = [cs EXCEPT !.list = l] /\ node' = 1
           /\ UNCHANGED <<netVars, mode, outVars>>
  <2>1. cs' = PutList(cs, l) /\ (l = cs.list \/ (cs.list = <<>> /\ Fresh(cs, l)))
    BY <1>3, <1>4 DEF PutList
  <2>2. UNCHANGED <<netVars, outVars>> /\ mode' = mode
    BY <1>4
  <2> QED BY <1>1, <1>3, <1>4, <2>1, <2>2 DEF Parsing
<1>5. CASE /\ cs.list = <<>> /\ ~ ParseOK(l)
           /\ files' = FreeList(l) /\ CloseSession /\ UNCHANGED <<replies, ended>>
  <2>1. /\ mode' = "closed" /\ node' = 0 /\ cs' = NoSession /\ closes' = Stage50
        /\ wire' = <<>> /\ rest' = <<>>
        /\ UNCHANGED <<limit, client, nsent, fin, replies, ended>>
    BY <1>5 DEF CloseSession, SessionRemove, RemoveClient
  <2>2. Listed(cs) = {}
    BY <1>5, SMTT(20) DEF Listed
  <2>3. files \subseteq Ids \cup {Lost} /\ files \ {Lost} \subseteq Listed(cs)
    BY <1>1, CoreFacts
  <2>4. files' \subseteq files
    BY <1>5 DEF FreeList
  <2>5. closes' \in {1, 2}
    BY <2>1, CoreFacts, Stage50Values
  <2> QED BY <1>1, <2>1, <2>2, <2>3, <2>4, <2>5 DEF Closing, Alive
<1> QED BY <1>2, <1>4, <1>5 DEF WriteEvent

(* sr is the request at the node as the step leaves it, and open the files *)
(* that are open then.                                                     *)
Serves(sr, open) ==
  /\ AtNode /\ sr \in SrType /\ sr.req = Sr.req /\ sr.kind = Sr.kind /\ sr.method = Sr.method
  /\ open \subseteq files \cup {sr.req, Lost}
  /\ Lost \in open => Lost \in files \/ (Sr.bts < 0 /\ sr.req \in files)
  /\ sr.method = "post" /\ sr.kind = "huge" => open = files
  /\ \/ replies' = replies /\ Sr.bts >= 0
     \/ Answered(replies, replies', sr.req) /\ Sr.bts < 0

(* The end of one request leads to the next of the list or closes.         *)
LEMMA EndNodeShape ==
  ASSUME CoreInv, NEW sr, NEW open, Serves(sr, open), EndNode(sr, open)
  PROVE  Serve \/ Closing
<1>1. mode = "write" /\ AtNode /\ sr \in SrType /\ sr.req = Sr.req
  BY DEF Serves, AtNode
<1>2. /\ node \in 1 .. Len(cs.list) /\ cs \in Sessions /\ Sr = cs.list[node]
      /\ Sr.req \in Ids /\ AtRequest(Sr.req) /\ (Sr.bts < 0 => Unanswered(Sr.req))
      /\ Sr.req \in Listed(cs) /\ Listed(cs) = {cs.list[n].req : n \in DOMAIN cs.list}
  BY <1>1, NodeFacts
<1>3. ended' = More(ended, sr.req)
  BY DEF EndNode
<1>4. CASE /\ cs' = [cs EXCEPT !.list[node] = sr] /\ node' = node + 1 /\ files' = open
           /\ UNCHANGED <<netVars, mode, closes>>
  <2>1. cs' = PutSr(cs, node, sr) /\ mode' = "write" /\ UNCHANGED <<netVars, closes>>
    BY <1>1, <1>4 DEF PutSr
  <2>2. /\ sr.kind = cs.list[node].kind /\ sr.method = cs.list[node].method
        /\ \/ replies' = replies /\ cs.list[node].bts >= 0
           \/ Answered(replies, replies', sr.req) /\ cs.list[node].bts < 0
        /\ files' \subseteq files \cup {sr.req, Lost}
        /\ Lost \in files' => Lost \in files \/ (cs.list[node].bts < 0 /\ sr.req \in files)
        /\ sr.method = "post" /\ sr.kind = "huge" => files' = files
    BY <1>2, <1>4 DEF Serves
  <2>3. Serve
    BY <1>1, <1>2, <1>3, <1>4, <2>1, <2>2 DEF Serve, Serving
  <2> QED BY <2>3
<1>5. CASE /\ files' = open \ {cs.list[n].req : n \in DOMAIN cs.list}
           /\ CloseSession
  <2>1. /\ mode' = "closed" /\ closes' = Stage50 /\ wire' = <<>> /\ rest' = <<>> /\ node' = 0
        /\ cs' = NoSession /\ UNCHANGED <<limit, client, nsent, fin>>
    BY <1>5 DEF CloseSession, SessionRemove, RemoveClient
  <2>2. closes' \in {1, 2}
    BY <2>1, CoreFacts, Stage50Values
  <2>3. files \subseteq Ids \cup {Lost} /\ files \ {Lost} \subseteq Listed(cs) /\ Lost \notin Ids
    BY <1>1, CoreFacts
  <2>4. files' \subseteq {Lost}
        /\ (Lost \in files' => Lost \in files \/ (Sr.bts < 0 /\ Sr.req \in files))
    BY <1>1, <1>2, <1>5, <2>3 DEF Serves
  <2>5. replies' = replies \/ (Unanswered(Sr.req) /\ Answered(replies, replies', Sr.req))
    BY <1>1, <1>2 DEF Serves
  <2>6. Lost \in files' => Lost \in files \/ \E i \in files \ {Lost} : Unanswered(i)
    BY <1>2, <2>3, <2>4
  <2>7. \E i \in Ids : AtRequest(i) /\ ended' = More(ended, i)
    BY <1>1, <1>2, <1>3
  <2>8. replies' = replies \/ \E i \in Ids : Unanswered(i) /\ Answered(replies, replies', i)
    BY <1>2, <2>5
  <2> QED BY <1>1, <2>1, <2>2, <2>4, <2>6, <2>7, <2>8 DEF Closing, Alive
<1> QED BY <1>4, <1>5 DEF EndNode

(* mk_http_send_file(), for a request with data left.                      *)
LEMMA SendFileShape ==
  ASSUME CoreInv, NEW sr, NEW open, Serves(sr, open), sr.bts > 0,
         NEW k \in 0 .. sr.bts, SendFile(sr, open, k)
  PROVE  Serve \/ Closing
<1>1. mode = "write" /\ AtNode /\ sr \in SrType /\ sr.req = Sr.req
  BY DEF Serves, AtNode
<1>2. /\ node \in 1 .. Len(cs.list) /\ cs \in Sessions /\ Sr = cs.list[node]
  BY <1>1, NodeFacts
<1>3. PICK b : b = sr.bts - k
  OBVIOUS
<1>4. b \in -1 .. FileSize
  BY <1>1, <1>3, Sizes, SMTT(20) DEF SrType
<1>5. PICK left : left = [sr EXCEPT !.bts = b]
  OBVIOUS
<1>6. /\ left \in SrType /\ left.req = sr.req /\ left.kind = sr.kind /\ left.method = sr.method
      /\ left.bts = b
  BY <1>1, <1>4, <1>5 DEF SrType
<1>7. Serves(left, open)
  BY <1>6 DEF Serves
<1>8. CASE b > 0
  <2>1. Wait(left) /\ files' = open
    BY <1>3, <1>5, <1>6, <1>8 DEF SendFile
  <2>2. cs' = PutSr(cs, node, left) /\ mode' = "write" /\ node' = 0 /\ ended' = ended
        /\ UNCHANGED <<netVars, closes>>
    BY <1>1, <2>1 DEF Wait, PutSr
  <2>3. /\ left.req = cs.list[node].req /\ left.kind = cs.list[node].kind
        /\ left.method = cs.list[node].method
        /\ \/ replies' = replies /\ cs.list[node].bts >= 0
           \/ Answered(replies, replies', left.req) /\ cs.list[node].bts < 0
        /\ files' \subseteq files \cup {left.req, Lost}
        /\ Lost \in files' => Lost \in files \/ (cs.list[node].bts < 0 /\ left.req \in files)
        /\ left.method = "post" /\ left.kind = "huge" => files' = files
    BY <1>2, <1>7, <2>1 DEF Serves
  <2>4. Serve
    BY <1>1, <1>2, <1>6, <1>8, <2>2, <2>3 DEF Serve, Serving
  <2> QED BY <2>4
<1>9. CASE ~ (b > 0)
  <2>1. EndNode(left, open)
    BY <1>3, <1>5, <1>6, <1>9 DEF SendFile
  <2> QED BY <1>7, <2>1, EndNodeShape
<1> QED BY <1>8, <1>9

(* EXIT_ABORT closes the connection.                                       *)
LEMMA AbortShape ==
  ASSUME CoreInv, AtNode, AbortNode,
         replies' = replies \/ (Sr.bts < 0 /\ replies' = More(replies, Sr.req))
  PROVE  Closing
<1>1. /\ node \in 1 .. Len(cs.list) /\ cs \in Sessions /\ Sr.req \in Ids /\ AtRequest(Sr.req)
      /\ (Sr.bts < 0 => Unanswered(Sr.req)) /\ mode = "write"
      /\ Listed(cs) = {cs.list[n].req : n \in DOMAIN cs.list}
  BY NodeFacts DEF AtNode
<1>2. /\ ended' = More(ended, Sr.req) /\ files' = files \ Listed(cs) /\ mode' = "closed"
      /\ closes' = Stage50 /\ wire' = <<>> /\ rest' = <<>> /\ node' = 0
      /\ cs' = NoSession /\ UNCHANGED <<limit, client, nsent, fin>>
  BY <1>1 DEF AbortNode, FreeList, CloseSession, SessionRemove, RemoveClient
<1>3. closes' \in {1, 2}
  BY <1>2, CoreFacts, Stage50Values
<1>4. /\ files \subseteq Ids \cup {Lost} /\ files \ {Lost} \subseteq Listed(cs)
      /\ replies \in [Ids -> 0 .. 2]
  BY <1>1, CoreFacts
<1>5. files' \subseteq {Lost} /\ (Lost \in files' => Lost \in files)
  BY <1>2, <1>4
<1>6. replies' = replies \/ \E i \in Ids : Unanswered(i) /\ Answered(replies, replies', i)
  <2>1. CASE Sr.bts < 0 /\ replies' = More(replies, Sr.req)
    <3>1. Answered(replies, replies', Sr.req)
      BY <1>1, <1>4, <2>1, MoreFields, SMTT(20) DEF Answered
    <3> QED BY <1>1, <2>1, <3>1
  <2> QED BY <2>1
<1> QED BY <1>1, <1>2, <1>3, <1>5, <1>6 DEF Closing, Alive

(* A write event goes on sending.                                          *)
LEMMA ContinueShape == ASSUME CoreInv, Continue PROVE Serve \/ Closing
<1>1. AtNode /\ Sr.bts > 0 /\ replies' = replies
  BY DEF Continue
<1>2. Sr \in SrType
  BY <1>1, NodeFacts
<1>3. Serves(Sr, files)
  <2>1. Sr.bts >= 0
    BY <1>1, <1>2, Sizes, SMTT(20) DEF SrType
  <2> QED BY <1>1, <1>2, <2>1 DEF Serves
<1>4. PICK k \in 0 .. Sr.bts : SendFile(Sr, files, k)
  BY DEF Continue
<1> QED BY <1>1, <1>3, <1>4, SendFileShape

(* Sending fails.                                                          *)
LEMMA ContinueFailsShape == ASSUME CoreInv, ContinueFails PROVE Closing
BY AbortShape DEF ContinueFails

(* A request that was answered before is passed over.                      *)
LEMMA SkipShape == ASSUME CoreInv, Skip PROVE Serve \/ Closing
<1>1. AtNode /\ Sr.bts = 0 /\ replies' = replies /\ EndNode(Sr, files)
  BY DEF Skip
<1>2. Sr \in SrType
  BY <1>1, NodeFacts
<1>3. Serves(Sr, files)
  BY <1>1, <1>2, SMTT(20) DEF Serves
<1> QED BY <1>1, <1>3, EndNodeShape

(* mk_request_process() keeps which request it is.                         *)
LEMMA ProcessedFields ==
  ASSUME Sr \in SrType
  PROVE  /\ Processed \in SrType /\ Processed.req = Sr.req /\ Processed.kind = Sr.kind
         /\ Processed.method = Sr.method /\ Processed.bts = Sr.bts
BY DEF Processed, SrType

(* What mk_http_init() leaves of the request, with b bytes to send.        *)
With(sr, b) == [sr EXCEPT !.bts = b]

(* Setting the bytes to send keeps which request it is.                    *)
LEMMA WithFields ==
  ASSUME NEW sr \in SrType, NEW b \in -1 .. FileSize
  PROVE  /\ With(sr, b) \in SrType /\ With(sr, b).req = sr.req /\ With(sr, b).kind = sr.kind
         /\ With(sr, b).method = sr.method /\ With(sr, b).bts = b
BY DEF With, SrType

(* Every way to process a request serves that request.                     *)
LEMMA ProcessServes ==
  ASSUME CoreInv, ToProcess, NEW b \in -1 .. FileSize, NEW open,
         open = files \/ (open = OpenFile /\ ~ LengthRefused),
         replies' = More(replies, Sr.req) \/ replies' = [replies EXCEPT ![Sr.req] = 2]
  PROVE  Serves(With(Processed, b), open) /\ Serves(Processed, open)
<1>1. AtNode /\ Sr.bts < 0
  BY DEF ToProcess
<1>2. Sr \in SrType /\ Sr.req \in Ids
  BY <1>1, NodeFacts
<1>3. replies \in [Ids -> 0 .. 2] /\ Lost \notin Ids
  BY CoreFacts
<1>4. Answered(replies, replies', Sr.req)
  BY <1>2, <1>3, MoreFields, SMTT(20) DEF Answered
<1>5. /\ open \subseteq files \cup {Sr.req, Lost}
      /\ Lost \in open => Lost \in files \/ Sr.req \in files
      /\ Sr.method = "post" /\ Sr.kind = "huge" => open = files
  BY <1>2, <1>3 DEF OpenFile, LengthRefused
<1>6. ASSUME NEW sr \in SrType, sr.req = Sr.req, sr.kind = Sr.kind, sr.method = Sr.method
      PROVE  Serves(sr, open)
  BY <1>1, <1>4, <1>5, <1>6 DEF Serves
<1>7. /\ Processed \in SrType /\ Processed.req = Sr.req /\ Processed.kind = Sr.kind
      /\ Processed.method = Sr.method
  BY <1>2, ProcessedFields
<1>8. /\ With(Processed, b) \in SrType /\ With(Processed, b).req = Sr.req
      /\ With(Processed, b).kind = Sr.kind /\ With(Processed, b).method = Sr.method
  BY <1>7, WithFields
<1> QED BY <1>6, <1>7, <1>8

(* mk_request_process() serves its request or closes the connection.       *)
LEMMA ProcessShape == ASSUME CoreInv, Process PROVE Serve \/ Closing
<1>0. ToProcess /\ AtNode /\ Sr.bts < 0
  BY DEF Process, ProcessAbort, ProcessDrop, ProcessShort, ProcessFile, ProcessRange,
         ProcessPlugin, ToProcess
<1>1. /\ mode = "write" /\ node \in 1 .. Len(cs.list) /\ cs \in Sessions
      /\ Sr \in SrType /\ Sr.req \in Ids /\ Sr = cs.list[node]
  BY <1>0, NodeFacts DEF AtNode
<1>2. FileSize \in -1 .. FileSize /\ FileSize > 0 /\ -1 \in -1 .. FileSize /\ 1 \in -1 .. FileSize
  BY Sizes, SMTT(20)
<1>3. CASE ProcessAbort
  BY <1>0, <1>3, AbortShape DEF ProcessAbort
<1>4. CASE ProcessDrop
  BY <1>0, <1>4, AbortShape DEF ProcessDrop
<1>5. CASE ProcessShort
  <2>1. PICK open : /\ open = files \/ (open = OpenFile /\ ~ LengthRefused)
                    /\ EndNode(Processed, open)
    BY <1>5 DEF ProcessShort
  <2>2. Serves(Processed, open)
    BY <1>0, <1>2, <1>5, <2>1, ProcessServes DEF ProcessShort
  <2> QED BY <2>1, <2>2, EndNodeShape
<1>6. CASE ProcessFile
  <2>1. PICK sr : sr = With(Processed, FileSize)
    OBVIOUS
  <2>2. PICK k \in 0 .. FileSize : SendFile(sr, OpenFile, k)
    BY <1>6, <2>1 DEF ProcessFile, With
  <2>3. Serves(sr, OpenFile)
    BY <1>0, <1>2, <1>6, <2>1, ProcessServes DEF ProcessFile
  <2>4. sr.bts = FileSize
    BY <1>1, <1>2, <2>1, ProcessedFields, WithFields
  <2> QED BY <1>2, <2>2, <2>3, <2>4, SendFileShape
<1>7. CASE ProcessRange
  <2>1. PICK b \in -1 .. FileSize : EndNode(With(Processed, b), OpenFile)
    BY <1>2, <1>7 DEF ProcessRange, With
  <2>2. ~ LengthRefused /\ replies' = [replies EXCEPT ![Sr.req] = 2]
    BY <1>7 DEF ProcessRange, LengthRefused
  <2>3. Serves(With(Processed, b), OpenFile)
    BY <1>0, <2>2, ProcessServes
  <2> QED BY <2>1, <2>3, EndNodeShape
<1>8. CASE ProcessPlugin
  <2>1. /\ cs' = PutSr(cs, node, Processed) /\ mode' = "sleep" /\ node' = node
        /\ UNCHANGED <<netVars, outVars>> /\ ~ LengthRefused
    BY <1>8 DEF ProcessPlugin, PutSr
  <2>2. /\ Processed \in SrType /\ Processed.req = Sr.req /\ Processed.kind = Sr.kind
        /\ Processed.method = Sr.method /\ Processed.bts = Sr.bts
    BY <1>1, ProcessedFields
  <2>3. replies' = replies /\ ended' = ended /\ closes' = closes /\ files' = files
    BY <2>1 DEF outVars
  <2>4. ~ (Processed.method = "post" /\ Processed.kind = "huge")
    BY <2>1, <2>2 DEF LengthRefused
  <2>5. Serve
    BY <1>0, <1>1, <2>1, <2>2, <2>3, <2>4 DEF Serve, Serving
  <2> QED BY <2>5
<1> QED BY <1>3, <1>4, <1>5, <1>6, <1>7, <1>8 DEF Process

(* mk_http_request_end() starts over or closes the connection.             *)
LEMMA RequestEndShape ==
  ASSUME CoreInv, RequestEnd, ended' = ended,
         \/ mode = "write" /\ node = Len(cs.list) + 1 /\ replies' = replies
         \/ mode = "sleep" /\ replies' = More(replies, Sr.req)
  PROVE  Again \/ Closing
<1>1. mode \in Serving
  BY DEF Serving
<1>2. cs \in Sessions /\ node \in Nat /\ replies \in [Ids -> 0 .. 2]
  BY <1>1, CoreFacts
<1>3. cs.list \in Seq(SrType) /\ cs.counter \in Nat
  BY <1>2 DEF Sessions
<1>4. cs.list # <<>>
  <2>1. node > 0
    <3>1. mode = "sleep" => node > 0
      BY DEF CoreInv, Core, InStep
    <3> QED BY <1>2, <1>3, <3>1, SMTT(20)
  <2> QED BY <1>1, <2>1 DEF CoreInv, Core, InStep
<1>5. files' = files \ Listed(cs) /\ node' = 0
  BY <1>2 DEF RequestEnd, FreeList, Listed
<1>6. \/ mode = "write" /\ node = Len(cs.list) + 1 /\ replies' = replies
      \/ /\ mode = "sleep" /\ Sr.req \in Ids /\ Sr = cs.list[node] /\ Unanswered(Sr.req)
         /\ Answered(replies, replies', cs.list[node].req)
  <2>1. CASE mode = "sleep" /\ replies' = More(replies, Sr.req)
    <3>1. Sr.req \in Ids /\ Sr = cs.list[node] /\ Unanswered(Sr.req)
      BY <2>1, NodeFacts
    <3>2. Answered(replies, replies', Sr.req)
      BY <1>2, <2>1, <3>1, MoreFields, SMTT(20) DEF Answered
    <3> QED BY <2>1, <3>1, <3>2
  <2> QED BY <2>1
<1>7. CASE KeepAlivePossible(cs) /\ cs' = KaNext(cs) /\ mode' = "read" /\ UNCHANGED <<netVars, closes>>
  <2>1. cs.counter < MaxKeepAlive
    BY <1>7 DEF KeepAlivePossible
  <2> QED BY <1>1, <1>4, <1>5, <1>6, <1>7, <2>1 DEF Again
<1>8. CASE SessionRemove /\ RemoveClient("closed")
  <2>1. /\ mode' = "closed" /\ cs' = NoSession /\ closes' = Stage50 /\ wire' = <<>> /\ rest' = <<>>
        /\ UNCHANGED <<limit, client, nsent, fin>>
    BY <1>8 DEF SessionRemove, RemoveClient
  <2>2. closes' \in {1, 2}
    BY <2>1, CoreFacts, Stage50Values
  <2>3. files \subseteq Ids \cup {Lost} /\ files \ {Lost} \subseteq Listed(cs)
    BY <1>1, CoreFacts DEF Serving
  <2>4. files' \subseteq {Lost} /\ (Lost \in files' => Lost \in files)
    BY <1>5, <2>3
  <2>5. replies' = replies \/ \E i \in Ids : Unanswered(i) /\ Answered(replies, replies', i)
    BY <1>6
  <2>6. mode \in Alive
    BY DEF Alive
  <2> QED BY <1>5, <2>1, <2>2, <2>4, <2>5, <2>6 DEF Closing
<1> QED BY <1>7, <1>8 DEF RequestEnd

(* The client's steps, and the first event of the connection.              *)
ClientMoves == ClientRequest \/ ClientSend \/ ClientClose

(* A step of the specification has one of these forms.                     *)
LEMMA StepShape ==
  ASSUME CoreInv, Next
  PROVE  ClientMoves \/ Register \/ Reading \/ Parsing \/ Serve \/ Again \/ Closing
<1>1. CASE Receive
  BY <1>1, RefuseShape, ReadFailsShape, ReadShape, ReadClosedShape DEF Receive
<1>2. CASE Write
  <2>1. CASE WriteDone
    <3>1. mode = "write" /\ node = Len(cs.list) + 1 /\ replies' = replies /\ ended' = ended /\ RequestEnd
      BY <2>1 DEF WriteDone
    <3> QED BY <3>1, RequestEndShape
  <2> QED BY <1>2, <2>1, WriteEventShape, ContinueShape, ContinueFailsShape, SkipShape, ProcessShape
          DEF Write
<1>3. CASE PluginEnd
  <2>1. mode = "sleep" /\ replies' = More(replies, Sr.req) /\ ended' = ended /\ RequestEnd
    BY <1>3 DEF PluginEnd
  <2> QED BY <2>1, RequestEndShape
<1> QED BY <1>1, <1>2, <1>3, ReadAgainShape, ConnErrorShape, TimeoutShape DEF Next, ClientMoves

-----------------------------------------------------------------------------
(* The parts of a request                                                  *)

(* The parts of a request: a head, one end of the header, then data.       *)
LEMMA PartsFacts ==
  ASSUME NEW k \in Kinds
  PROVE  /\ Parts[k] \in Seq({"head", "end", "data"}) /\ Parts[k][1] = "head"
         /\ k = "long" => /\ Len(Parts[k]) = Oversize + 1
                          /\ \A j \in 1 .. Len(Parts[k]) : Parts[k][j] = "end" <=> j = Oversize + 1
         /\ k # "long" => /\ Len(Parts[k]) = IF k \in {"post", "huge"} THEN 3 ELSE 2
                          /\ \A j \in 1 .. Len(Parts[k]) : Parts[k][j] = "end" <=> j = 2
                          /\ \A j \in 1 .. Len(Parts[k]) : j > 2 => Parts[k][j] = "data"
<1>1. k \in {"get", "bye", "range", "long", "post", "nolen", "huge"}
  BY RequestAssumption DEF Parts
<1>2. Oversize \in Nat /\ Oversize > 1
  <2>1. PICK m \in MaxRequestSizes : TRUE
    BY RequestAssumption
  <2> QED BY <2>1, Sizes, SMTT(20)
<1>3. CASE k = "long"
  <2>1. PICK s : s = [i \in 1 .. Oversize |-> "head"]
    OBVIOUS
  <2>2. s \in Seq({"head", "end", "data"}) /\ Len(s) = Oversize /\ \A i \in 1 .. Oversize : s[i] = "head"
    BY <1>2, <2>1, SMTT(20)
  <2>3. Parts[k] = s \o <<"end">>
    BY <1>3, <2>1 DEF Parts
  <2>4. /\ Parts[k] \in Seq({"head", "end", "data"}) /\ Len(Parts[k]) = Oversize + 1
        /\ Parts[k][Oversize + 1] = "end"
        /\ \A j \in 1 .. Oversize : Parts[k][j] = "head"
    BY <1>2, <2>2, <2>3, SMTT(20)
  <2> QED BY <1>2, <1>3, <2>4, SMTT(20)
<1>4. CASE k \in {"get", "bye", "range", "nolen"}
  <2>1. Parts[k] = <<"head", "end">>
    BY <1>4, SMTT(20) DEF Parts
  <2>2. /\ Parts[k] \in Seq({"head", "end", "data"}) /\ Len(Parts[k]) = 2
        /\ Parts[k][1] = "head" /\ Parts[k][2] = "end"
    BY <2>1, SMTT(20)
  <2> QED BY <1>4, <2>2, SMTT(20)
<1>5. CASE k \in {"post", "huge"}
  <2>1. Parts[k] = <<"head", "end", "data">>
    BY <1>5, SMTT(20) DEF Parts
  <2>2. /\ Parts[k] \in Seq({"head", "end", "data"}) /\ Len(Parts[k]) = 3
        /\ Parts[k][1] = "head" /\ Parts[k][2] = "end" /\ Parts[k][3] = "data"
    BY <2>1, SMTT(20)
  <2> QED BY <1>5, <2>2, SMTT(20)
<1> QED BY <1>1, <1>3, <1>4, <1>5

(* The tokens of request i are its parts in order.                         *)
LEMMA TokensFacts ==
  ASSUME NEW i \in Ids, NEW k \in Kinds
  PROVE  /\ Tokens(i, k) \in Seq(TokenType) /\ Len(Tokens(i, k)) = Len(Parts[k])
         /\ \A j \in 1 .. Len(Parts[k]) :
              /\ Tokens(i, k)[j] = Tok(i, k, j) /\ Tokens(i, k)[j].req = i
              /\ Tokens(i, k)[j].kind = k /\ Tokens(i, k)[j].part = Parts[k][j]
         /\ OneEnd(Tokens(i, k)) /\ Tokens(i, k) # <<>>
<1>1. Parts[k] \in Seq({"head", "end", "data"}) /\ Len(Parts[k]) \in Nat /\ Len(Parts[k]) # 0
  BY PartsFacts, Sizes, SMTT(20)
<1>2. \A j \in 1 .. Len(Parts[k]) :
        /\ Tokens(i, k)[j] = Tok(i, k, j) /\ Tokens(i, k)[j].req = i
        /\ Tokens(i, k)[j].kind = k /\ Tokens(i, k)[j].part = Parts[k][j]
        /\ Tok(i, k, j) \in TokenType
  <2> SUFFICES ASSUME NEW j \in 1 .. Len(Parts[k])
               PROVE  /\ Tokens(i, k)[j] = Tok(i, k, j) /\ Tokens(i, k)[j].req = i
                      /\ Tokens(i, k)[j].kind = k /\ Tokens(i, k)[j].part = Parts[k][j]
                      /\ Tok(i, k, j) \in TokenType
    OBVIOUS
  <2>1. Parts[k][j] \in {"head", "end", "data"}
    BY <1>1, SMTT(20)
  <2>2. Tokens(i, k)[j] = Tok(i, k, j)
    BY DEF Tokens, Tok
  <2>3. Tok(i, k, j).req = i /\ Tok(i, k, j).kind = k /\ Tok(i, k, j).part = Parts[k][j]
        /\ Tok(i, k, j) \in TokenType
    BY <2>1 DEF Tok, TokenType
  <2> QED BY <2>2, <2>3
<1>3. Tokens(i, k) = [j \in 1 .. Len(Parts[k]) |-> Tok(i, k, j)]
  BY DEF Tokens, Tok
<1>4. Tokens(i, k) \in Seq(TokenType) /\ Len(Tokens(i, k)) = Len(Parts[k])
  <2>1. PICK m \in Nat : m = Len(Parts[k])
    BY <1>1
  <2>2. \A j \in 1 .. m : Tok(i, k, j) \in TokenType
    BY <1>2, <2>1
  <2>3. Tokens(i, k) = [j \in 1 .. m |-> Tok(i, k, j)]
    BY <1>3, <2>1
  <2>4. Tokens(i, k) \in Seq(TokenType) /\ Len(Tokens(i, k)) = m
    BY <2>2, <2>3, SMTT(20)
  <2> QED BY <2>1, <2>4
<1>5. OneEnd(Tokens(i, k))
  <2>1. \A a, b \in 1 .. Len(Parts[k]) : Parts[k][a] = "end" /\ Parts[k][b] = "end" => a = b
    BY PartsFacts, SMTT(20)
  <2>2. DOMAIN Tokens(i, k) = 1 .. Len(Parts[k])
    BY <1>3
  <2> QED BY <1>2, <2>1, <2>2, SMTT(20) DEF OneEnd
<1>6. Tokens(i, k) # <<>>
  BY <1>1, <1>4
<1> QED BY <1>2, <1>4, <1>5, <1>6

-----------------------------------------------------------------------------
(* Core is inductive                                                       *)

(* The client keeps the types of what is sent.                             *)
LEMMA ClientTypes ==
  ASSUME NetTypes, ClientMoves
  PROVE  NetTypes'
<1>1. CASE ClientRequest
  <2>1. PICK k \in Kinds : rest' = Tokens(nsent + 1, k)
    BY <1>1 DEF ClientRequest
  <2>2. nsent' = nsent + 1 /\ nsent + 1 \in Ids /\ nsent + 1 \in 0 .. Requests
    BY <1>1, Sizes, SMTT(20) DEF ClientRequest, NetTypes, Ids
  <2>3. rest' \in Seq(TokenType)
    BY <2>1, <2>2, TokensFacts
  <2> QED BY <1>1, <2>2, <2>3 DEF ClientRequest, NetTypes
<1>2. CASE ClientSend
  <2>1. Head(rest) \in TokenType /\ Tail(rest) \in Seq(TokenType)
    BY <1>2, SMTT(20) DEF ClientSend, NetTypes
  <2>2. wire' \in Seq(TokenType)
    <3>1. wire' = wire \/ wire' = Append(wire, Head(rest))
      BY <1>2 DEF ClientSend
    <3>2. wire \in Seq(TokenType)
      BY DEF NetTypes
    <3> QED BY <2>1, <3>1, <3>2, SMTT(20)
  <2> QED BY <1>2, <2>1, <2>2 DEF ClientSend, NetTypes
<1>3. CASE ClientClose
  BY <1>3 DEF ClientClose, NetTypes
<1> QED BY <1>1, <1>2, <1>3 DEF ClientMoves

(* The core of the invariant, one shape of step at a time: the client;     *)
LEMMA ClientKeepsCore == ASSUME CoreInv, ClientMoves PROVE CoreInv'
<1>1. NetTypes'
  BY ClientTypes DEF CoreInv
<1>2. UNCHANGED <<limit, mode, cs, node, replies, ended, closes, files>>
  BY DEF ClientMoves, ClientRequest, ClientSend, ClientClose, outVars
<1> QED BY <1>1, <1>2 DEF CoreInv

(* the connection is accepted;                                             *)
LEMMA RegisterKeepsCore == ASSUME CoreInv, Register PROVE CoreInv'
<1>1. /\ mode = "new" /\ mode' = "read" /\ UNCHANGED <<limit, client, nsent, rest, wire, fin>>
      /\ UNCHANGED <<cs, node, replies, ended, closes, files>>
  BY DEF Register, netVars, outVars
<1>2. cs = NoSession /\ cs \notin Sessions /\ node = 0
  BY <1>1, CoreFacts, NoSessionIsNone DEF Serving
<1>3. NetTypes'
  BY <1>1 DEF CoreInv, NetTypes
<1>4. InStep("read", cs, node) /\ Refused("read", cs, files)
  BY <1>2 DEF InStep, Refused, Serving
<1>5. Reported("read", cs, replies, ended, closes, files)
  BY <1>1 DEF CoreInv, Core, Reported, Alive
<1>6. Core(limit, "read", cs, node, replies, ended, closes, files)
  BY <1>4, <1>5 DEF CoreInv, Core, Phases
<1> QED BY <1>1, <1>3, <1>6 DEF CoreInv

(* the connection ends;                                                    *)
LEMMA ClosingKeepsCore == ASSUME CoreInv, Closing PROVE CoreInv'
<1>1. NetTypes'
  <2>1. <<>> \in Seq(TokenType)
    BY SMTT(20)
  <2> QED BY <2>1 DEF Closing, CoreInv, NetTypes
<1>2. /\ mode' \in {"closed", "failed"} /\ node' = 0 /\ limit' = limit
      /\ files' \subseteq Ids \cup {Lost} /\ (mode' = "failed" \/ files' \subseteq {Lost})
  BY DEF Closing
<1>3. cs' = NoSession \/ (cs' = cs /\ (cs \in Sessions => cs.list = <<>>))
  BY DEF Closing
<1>4. /\ cs' = NoSession \/ (cs' \in Sessions /\ Buffered(cs', limit'))
      /\ cs' \in Sessions => cs'.list = <<>>
  BY <1>2, <1>3, CoreFacts, NoSessionIsNone
<1>5. replies' \in [Ids -> 0 .. 2]
  BY CoreFacts DEF Closing, Answered
<1>6. ended' \in [Ids -> 0 .. 2]
  BY CoreFacts, MoreFields, SMTT(20) DEF Closing
<1>7. closes' \in 0 .. 2
  BY CoreFacts, SMTT(20) DEF Closing
<1>8. InStep(mode', cs', node')
  BY <1>2, <1>4 DEF InStep, Serving
<1>9. Refused(mode', cs', files')
  BY <1>2 DEF Refused, Serving
<1>10. Reported(mode', cs', replies', ended', closes', files')
  <2>1. (\E i \in Ids : replies'[i] > 0) => closes' > 0
    <3>1. mode = "new" => \A i \in Ids : replies[i] = 0
      BY DEF CoreInv, Core, Reported
    <3> QED BY <3>1, SMTT(20) DEF Closing
  <2>2. mode' # "new" /\ mode' \notin Alive
    BY <1>2 DEF Alive
  <2>3. cs' \in Sessions => \A n \in DOMAIN cs'.list : cs'.list[n].bts >= 0 => replies'[cs'.list[n].req] > 0
    BY <1>4, SMTT(20)
  <2> QED BY <1>2, <2>1, <2>2, <2>3 DEF Reported
<1>11. mode' \in Phases /\ node' \in Nat
  BY <1>2 DEF Phases
<1> QED BY <1>1, <1>2, <1>4, <1>5, <1>6, <1>7, <1>8, <1>9, <1>10, <1>11 DEF CoreInv, Core

(* the buffer is examined;                                                 *)
LEMMA ReadingKeepsCore == ASSUME CoreInv, Reading PROVE CoreInv'
<1>1. /\ mode = "read" /\ mode' \in {"read", "write"} /\ node' = 0
      /\ UNCHANGED <<limit, client, nsent, rest, fin, replies, ended, closes, files>>
      /\ cs' \in Sessions /\ Buffered(cs', limit) /\ cs'.list = <<>>
      /\ mode' = "read" => cs'.status = "incomplete"
      /\ mode' = "write" => Taken(cs', limit)
      /\ wire' \in Seq(TokenType)
  BY DEF Reading
<1>2. NetTypes'
  BY <1>1 DEF CoreInv, NetTypes
<1>3. files \subseteq {Lost}
  BY <1>1, CoreFacts DEF Serving
<1>4. InStep(mode', cs', node')
  BY <1>1, SMTT(20) DEF InStep, Serving, Taken
<1>5. Refused(mode', cs', files')
  BY <1>1, <1>3 DEF Refused, Serving, Taken
<1>6. Reported(mode', cs', replies', ended', closes', files')
  <2>1. closes = 0 /\ \A i \in Ids : ended[i] > 0 => replies[i] > 0
    BY <1>1 DEF CoreInv, Core, Reported, Alive
  <2> QED BY <1>1, <1>3, <2>1, SMTT(20) DEF Reported, Alive
<1>7. Core(limit', mode', cs', node', replies', ended', closes', files')
  BY <1>1, <1>4, <1>5, <1>6, CoreFacts DEF Core, Phases
<1> QED BY <1>2, <1>7 DEF CoreInv

(* the list of requests is built;                                          *)
LEMMA ParsingKeepsCore == ASSUME CoreInv, Parsing PROVE CoreInv'
<1>1. /\ mode = "write" /\ mode' = "write" /\ node = 0 /\ node' = 1
      /\ UNCHANGED <<limit, client, nsent, rest, wire, fin, replies, ended, closes, files>>
  BY DEF Parsing, netVars, outVars
<1>2. PICK l \in Seq(SrType) : /\ cs' = PutList(cs, l) /\ l # <<>>
                               /\ l = cs.list \/ (cs.list = <<>> /\ Fresh(cs, l))
  BY DEF Parsing
<1>3. cs \in Sessions /\ cs.pos > 0 /\ Buffered(cs, limit)
  BY <1>1, CoreFacts, NoSessionIsNone DEF Serving
<1>4. /\ cs' \in Sessions /\ cs'.list = l
      /\ cs'.body = cs.body /\ cs'.size = cs.size /\ cs'.pos = cs.pos /\ cs'.method = cs.method
      /\ cs'.counter = cs.counter /\ cs'.status = cs.status
  BY <1>2, <1>3, PutListFields
<1>5. NetTypes'
  BY <1>1 DEF CoreInv, NetTypes
<1>6. Buffered(cs', limit)
  BY <1>3, <1>4 DEF Buffered
<1>7. InStep(mode', cs', node')
  <2>1. 1 <= Len(l) + 1
    BY <1>2, SMTT(20)
  <2> QED BY <1>1, <1>2, <1>3, <1>4, <2>1 DEF InStep, Serving
<1>8. Reported(mode', cs', replies', ended', closes', files')
  <2>1. /\ \A n \in DOMAIN cs.list : cs.list[n].bts >= 0 => replies[cs.list[n].req] > 0
        /\ closes = 0 /\ \A i \in Ids : ended[i] > 0 => replies[i] > 0
        /\ files \ {Lost} \subseteq Listed(cs)
    BY <1>1, <1>3 DEF CoreInv, Core, Reported, Alive
  <2>2. \A n \in DOMAIN l : l[n].bts >= 0 => replies[l[n].req] > 0
    BY <1>2, <2>1, SMTT(20) DEF Fresh
  <2>3. files \ {Lost} \subseteq Listed(cs')
    <3>1. CASE l = cs.list
      <4>1. Listed(cs') = Listed(cs)
        BY <1>3, <1>4, <3>1 DEF Listed
      <4> QED BY <2>1, <4>1
    <3>2. CASE cs.list = <<>>
      <4>1. Listed(cs) = {}
        BY <1>3, <3>2, SMTT(20) DEF Listed
      <4> QED BY <2>1, <4>1
    <3> QED BY <1>2, <3>1, <3>2
  <2> QED BY <1>1, <1>4, <2>1, <2>2, <2>3 DEF Reported, Alive
<1>9. Refused(mode', cs', files')
  <2> SUFFICES ASSUME cs.status = "incomplete"
               PROVE  /\ cs.method = "post" /\ cs.body[1].kind = "huge" /\ files \subseteq {Lost}
                      /\ Len(l) = 1 /\ l[1].method = "post" /\ l[1].kind = "huge"
    BY <1>1, <1>4 DEF Refused
  <2>1. /\ cs.method = "post" /\ cs.body[1].kind = "huge" /\ files \subseteq {Lost}
        /\ cs.list # <<>> => /\ Len(cs.list) = 1
                             /\ cs.list[1].method = "post" /\ cs.list[1].kind = "huge"
    BY <1>1 DEF CoreInv, Core, Refused, Serving
  <2> QED BY <1>2, <2>1, SMTT(20) DEF Fresh
<1>10. Core(limit', mode', cs', node', replies', ended', closes', files')
  BY <1>1, <1>4, <1>6, <1>7, <1>8, <1>9, CoreFacts DEF Core
<1> QED BY <1>5, <1>10 DEF CoreInv

(* What a step that serves a request changes.                              *)
Served(sr) ==
  /\ sr.req = cs.list[node].req /\ sr.kind = cs.list[node].kind
  /\ sr.method = cs.list[node].method /\ cs' = PutSr(cs, node, sr)
  /\ \/ replies' = replies /\ cs.list[node].bts >= 0
     \/ replies' = replies /\ mode' = "sleep"
     \/ Answered(replies, replies', sr.req) /\ mode' = "write" /\ cs.list[node].bts < 0
  /\ \/ /\ mode' = "sleep" /\ node' = node /\ ended' = ended /\ files' = files
        /\ sr.bts < 0 /\ cs.list[node].bts < 0
     \/ mode' = "write" /\ node' = 0 /\ ended' = ended /\ sr.bts > 0
     \/ mode' = "write" /\ node' = node + 1 /\ ended' = More(ended, sr.req)
  /\ files' \subseteq files \cup {sr.req, Lost}
  /\ Lost \in files' => Lost \in files \/ (cs.list[node].bts < 0 /\ sr.req \in files)
  /\ sr.method = "post" /\ sr.kind = "huge" => files' = files /\ mode' = "write"

(* What serving one request changes.                                       *)
LEMMA ServeFacts ==
  ASSUME CoreInv, Serve
  PROVE  /\ mode = "write" /\ mode' \in Serving /\ node \in 1 .. Len(cs.list)
         /\ UNCHANGED <<limit, client, nsent, rest, wire, fin, closes>>
         /\ cs \in Sessions /\ cs' \in Sessions /\ cs.pos > 0 /\ Buffered(cs, limit)
         /\ cs'.body = cs.body /\ cs'.size = cs.size /\ cs'.pos = cs.pos /\ cs'.method = cs.method
         /\ cs'.counter = cs.counter /\ cs'.status = cs.status
         /\ Len(cs'.list) = Len(cs.list)
         /\ cs.list \in Seq(SrType) /\ cs'.list \in Seq(SrType)
         /\ \E sr \in SrType :
              /\ Served(sr) /\ sr.req \in Ids /\ cs'.list[node] = sr
              /\ \A m \in 1 .. Len(cs.list) : m # node => cs'.list[m] = cs.list[m]
<1>1. /\ mode = "write" /\ mode' \in Serving /\ node \in 1 .. Len(cs.list)
      /\ UNCHANGED <<limit, client, nsent, rest, wire, fin, closes>>
  BY DEF Serve, netVars
<1>2. cs \in Sessions /\ cs.pos > 0 /\ Buffered(cs, limit)
  BY <1>1, CoreFacts, NoSessionIsNone DEF Serving
<1>3. PICK sr \in SrType : Served(sr)
  BY DEF Serve, Served
<1>4. cs' = PutSr(cs, node, sr)
  BY <1>3 DEF Served
<1>5. /\ cs' \in Sessions /\ Len(cs'.list) = Len(cs.list) /\ cs'.list[node] = sr
      /\ \A m \in 1 .. Len(cs.list) : m # node => cs'.list[m] = cs.list[m]
      /\ cs'.body = cs.body /\ cs'.size = cs.size /\ cs'.pos = cs.pos /\ cs'.method = cs.method
      /\ cs'.counter = cs.counter /\ cs'.status = cs.status
  BY <1>1, <1>2, <1>4, PutSrFields
<1>6. cs.list \in Seq(SrType) /\ cs'.list \in Seq(SrType)
  BY <1>2, <1>5 DEF Sessions
<1>7. sr.req \in Ids
  BY DEF SrType
<1> QED BY <1>1, <1>2, <1>3, <1>5, <1>6, <1>7

(* a request is served;                                                    *)
LEMMA ServeKeepsCore == ASSUME CoreInv, Serve PROVE CoreInv'
<1>1. /\ mode = "write" /\ mode' \in Serving /\ node \in 1 .. Len(cs.list)
      /\ UNCHANGED <<limit, client, nsent, rest, wire, fin, closes>>
      /\ cs \in Sessions /\ cs' \in Sessions /\ cs.pos > 0 /\ Buffered(cs, limit)
      /\ cs'.body = cs.body /\ cs'.size = cs.size /\ cs'.pos = cs.pos /\ cs'.method = cs.method
      /\ cs'.counter = cs.counter /\ cs'.status = cs.status
      /\ Len(cs'.list) = Len(cs.list)
      /\ cs.list \in Seq(SrType) /\ cs'.list \in Seq(SrType)
  BY ServeFacts
<1>2. PICK sr \in SrType :
        /\ Served(sr) /\ sr.req \in Ids /\ cs'.list[node] = sr
        /\ \A m \in 1 .. Len(cs.list) : m # node => cs'.list[m] = cs.list[m]
  BY ServeFacts
<1>3. NetTypes'
  BY <1>1 DEF CoreInv, NetTypes
<1>4. Buffered(cs', limit)
  BY <1>1 DEF Buffered
<1>5. replies \in [Ids -> 0 .. 2] /\ ended \in [Ids -> 0 .. 2] /\ closes \in 0 .. 2
      /\ files \subseteq Ids \cup {Lost}
  BY CoreFacts
<1>6. replies' \in [Ids -> 0 .. 2] /\ \A i \in Ids : replies[i] > 0 => replies'[i] > 0
  BY <1>2, <1>5 DEF Served, Answered
<1>7. ended' \in [Ids -> 0 .. 2] /\ \A i \in Ids : i # sr.req => ended'[i] = ended[i]
  <2>1. ended' = ended \/ ended' = More(ended, sr.req)
    BY <1>2 DEF Served
  <2> QED BY <1>2, <1>5, <2>1, MoreFields, SMTT(20)
<1>8. node' \in Nat /\ node' <= Len(cs.list) + 1 /\ cs'.list # <<>> /\ cs.list # <<>>
      /\ (mode' = "sleep" => node' = node /\ sr.bts < 0)
  <2>1. node' \in {0, node, node + 1} /\ (mode' = "sleep" => node' = node /\ sr.bts < 0)
    BY <1>2 DEF Served
  <2>2. Len(cs.list) \in Nat
    BY <1>1, SMTT(20)
  <2> QED BY <1>1, <2>1, <2>2, SMTT(20)
<1>9. InStep(mode', cs', node')
  <2>1. mode' # "new" /\ mode' # "read"
    BY <1>1 DEF Serving
  <2>2. mode' = "sleep" => node' > 0 /\ node' <= Len(cs'.list) /\ cs'.list[node'].bts < 0
    BY <1>1, <1>2, <1>8, SMTT(20)
  <2> QED BY <1>1, <1>8, <2>1, <2>2 DEF InStep
<1>10. /\ \A n \in DOMAIN cs.list : cs.list[n].bts >= 0 => replies[cs.list[n].req] > 0
       /\ closes = 0 /\ \A i \in Ids : ended[i] > 0 => replies[i] > 0
       /\ files \ {Lost} \subseteq Listed(cs)
  BY <1>1 DEF CoreInv, Core, Reported, Alive
<1>11. DOMAIN cs.list = 1 .. Len(cs.list) /\ DOMAIN cs'.list = 1 .. Len(cs.list)
  BY <1>1, SMTT(20)
<1>12. Listed(cs') = Listed(cs) /\ sr.req \in Listed(cs)
  <2>1. \A n \in 1 .. Len(cs.list) : cs'.list[n].req = cs.list[n].req
    BY <1>2 DEF Served
  <2> QED BY <1>1, <1>2, <1>11, <2>1, SMTT(20) DEF Listed
<1>13. cs.list[node].bts >= 0 => replies[sr.req] > 0
  BY <1>1, <1>2, <1>10, <1>11 DEF Served
<1>14. sr.bts \in Int /\ cs.list[node].bts \in Int
  <2>1. cs.list[node] \in SrType
    BY <1>1, SMTT(20)
  <2> QED BY <2>1, Sizes, SMTT(20) DEF SrType
<1>15. sr.bts >= 0 => replies'[sr.req] > 0
  <2>1. \/ replies' = replies /\ cs.list[node].bts >= 0
        \/ mode' = "sleep"
        \/ replies'[sr.req] > 0
    BY <1>2 DEF Served, Answered
  <2>2. ~ (sr.bts < 0 /\ sr.bts >= 0)
    BY <1>14, SMTT(20)
  <2>3. mode' = "sleep" => sr.bts < 0
    BY <1>8
  <2> QED BY <1>13, <2>1, <2>2, <2>3
<1>16. \A n \in DOMAIN cs'.list : cs'.list[n].bts >= 0 => replies'[cs'.list[n].req] > 0
  <2> SUFFICES ASSUME NEW n \in 1 .. Len(cs.list), cs'.list[n].bts >= 0
               PROVE  replies'[cs'.list[n].req] > 0
    BY <1>11
  <2>1. CASE n = node
    BY <1>2, <1>15, <2>1
  <2>2. CASE n # node
    <3>1. cs'.list[n] = cs.list[n] /\ cs.list[n].req \in Ids
      <4>1. cs.list[n] \in SrType
        BY <1>1, SMTT(20)
      <4> QED BY <1>2, <2>2, <4>1 DEF SrType
    <3> QED BY <1>6, <1>10, <1>11, <3>1
  <2> QED BY <2>1, <2>2
<1>17. \A i \in Ids : ended'[i] > 0 => replies'[i] > 0
  <2>1. ended' # ended => replies'[sr.req] > 0
    BY <1>2, <1>13, <1>14 DEF Served, Answered
  <2> QED BY <1>6, <1>7, <1>10, <2>1
<1>18. files' \subseteq files \cup {sr.req, Lost}
  BY <1>2 DEF Served
<1>19. Reported(mode', cs', replies', ended', closes', files')
  <2>1. files' \ {Lost} \subseteq Listed(cs')
    BY <1>10, <1>12, <1>18
  <2>2. mode' # "new" /\ mode' \in Alive
    BY <1>1 DEF Alive, Serving
  <2> QED BY <1>1, <1>10, <1>16, <1>17, <2>1, <2>2 DEF Reported
<1>20. Refused(mode', cs', files')
  <2> SUFFICES ASSUME cs.status = "incomplete"
               PROVE  /\ mode' = "write" /\ cs.method = "post" /\ cs.body[1].kind = "huge"
                      /\ files' \subseteq {Lost} /\ Len(cs'.list) = 1
                      /\ cs'.list[1].method = "post" /\ cs'.list[1].kind = "huge"
    BY <1>1 DEF Refused
  <2>1. /\ cs.method = "post" /\ cs.body[1].kind = "huge" /\ files \subseteq {Lost}
        /\ Len(cs.list) = 1
        /\ cs.list[1].method = "post" /\ cs.list[1].kind = "huge"
    BY <1>1, <1>8 DEF CoreInv, Core, Refused, Serving
  <2>2. node = 1
    BY <1>1, <2>1, SMTT(20)
  <2>3. sr.method = "post" /\ sr.kind = "huge" /\ files' = files /\ mode' = "write"
    BY <1>2, <2>1, <2>2 DEF Served
  <2> QED BY <1>1, <1>2, <2>1, <2>2, <2>3
<1>21. files' \subseteq Ids \cup {Lost} /\ mode' \in Phases
  BY <1>1, <1>2, <1>5, <1>18 DEF Serving, Phases
<1>22. Core(limit', mode', cs', node', replies', ended', closes', files')
  BY <1>1, <1>4, <1>5, <1>6, <1>7, <1>8, <1>9, <1>19, <1>20, <1>21 DEF Core
<1> QED BY <1>3, <1>22 DEF CoreInv

(* the connection is kept alive.                                           *)
LEMMA AgainKeepsCore == ASSUME CoreInv, Again PROVE CoreInv'
<1>1. /\ mode \in Serving /\ mode' = "read" /\ node' = 0
      /\ UNCHANGED <<limit, client, nsent, rest, wire, fin, ended, closes>>
      /\ cs' = KaNext(cs) /\ files' = files \ Listed(cs)
  BY DEF Again, netVars
<1>2. cs \in Sessions /\ Buffered(cs, limit)
  BY <1>1, CoreFacts, NoSessionIsNone
<1>3. /\ cs' \in Sessions /\ cs'.list = <<>> /\ cs'.body = <<>> /\ cs'.size = cs.size /\ cs'.pos = 0
      /\ cs'.method = "unknown" /\ cs'.status = "incomplete"
  BY <1>1, <1>2, KaNextFields
<1>4. NetTypes'
  BY <1>1 DEF CoreInv, NetTypes
<1>5. Buffered(cs', limit)
  <2>1. cs.size \in Nat /\ cs.size >= Chunk /\ cs.size < limit
    BY <1>2 DEF Buffered, Sessions
  <2> QED BY <1>3, <2>1, SMTT(20) DEF Buffered
<1>6. replies' \in [Ids -> 0 .. 2] /\ \A i \in Ids : replies[i] > 0 => replies'[i] > 0
  <2>1. replies \in [Ids -> 0 .. 2]
    BY CoreFacts
  <2> QED BY <2>1 DEF Again, Answered
<1>7. InStep(mode', cs', node') /\ Refused(mode', cs', files')
  BY <1>1, <1>3 DEF InStep, Refused, Serving
<1>8. files' \subseteq {Lost}
  <2>1. mode # "failed"
    BY <1>1 DEF Serving
  <2> QED BY <1>1, <2>1, CoreFacts
<1>9. Reported(mode', cs', replies', ended', closes', files')
  <2>1. closes = 0 /\ \A i \in Ids : ended[i] > 0 => replies[i] > 0
    BY <1>1 DEF CoreInv, Core, Reported, Alive, Serving
  <2> QED BY <1>1, <1>3, <1>6, <1>8, <2>1, SMTT(20) DEF Reported, Alive
<1>10. Core(limit', mode', cs', node', replies', ended', closes', files')
  BY <1>1, <1>3, <1>5, <1>6, <1>7, <1>8, <1>9, CoreFacts DEF Core, Phases
<1> QED BY <1>4, <1>10 DEF CoreInv

(* Nothing the client or the worker does breaks the core.                  *)
LEMMA CoreKeeps == ASSUME CoreInv, Next PROVE CoreInv'
BY StepShape, ClientKeepsCore, RegisterKeepsCore, ReadingKeepsCore, ParsingKeepsCore,
   ServeKeepsCore, AgainKeepsCore, ClosingKeepsCore

-----------------------------------------------------------------------------
(* No token of a request that was not begun                                *)

(* What the buffer of a session, or of none, holds.                        *)
LEMMA BodySeq ==
  ASSUME NEW c, c = NoSession \/ c \in Sessions
  PROVE  /\ Body(c) \in Seq(TokenType)
         /\ c \in Sessions => Body(c) = c.body /\ c.list \in Seq(SrType)
         /\ c = NoSession => Body(c) = <<>>
<1>1. c = NoSession => c \notin Sessions
  BY NoSessionIsNone
<1>2. c \in Sessions => c.body \in Seq(TokenType) /\ c.list \in Seq(SrType)
  BY DEF Sessions
<1>3. <<>> \in Seq(TokenType)
  BY SMTT(20)
<1> QED BY <1>1, <1>2, <1>3 DEF Body

(* Reading does not bring in later requests than those on the wire.        *)
LEMMA UntilMoved ==
  ASSUME NEW b \in Seq(TokenType), NEW w \in Seq(TokenType),
         NEW b2 \in Seq(TokenType), NEW w2 \in Seq(TokenType), NEW n,
         Moved(b, w, b2, w2), Until(b, n), Until(w, n)
  PROVE  Until(b2, n) /\ Until(w2, n)
<1>1. PICK k \in 0 .. Len(w) :
        /\ Len(b2) = Len(b) + k /\ Len(w2) = Len(w) - k
        /\ \A j \in 1 .. Len(b) : b2[j] = b[j]
        /\ \A j \in 1 .. k : b2[Len(b) + j] = w[j]
        /\ \A j \in 1 .. Len(w2) : w2[j] = w[k + j]
  BY DEF Moved
<1>2. Len(b) \in Nat /\ Len(w) \in Nat /\ Len(b2) \in Nat /\ Len(w2) \in Nat /\ k \in Nat /\ k <= Len(w)
  BY SMTT(20)
<1>3. /\ \A j \in 1 .. Len(b) : b[j].req <= n
      /\ \A j \in 1 .. Len(w) : w[j].req <= n
  BY SMTT(20) DEF Until
<1>4. ASSUME NEW j \in 1 .. Len(b2) PROVE b2[j].req <= n
  <2>1. CASE j <= Len(b)
    <3>1. j \in 1 .. Len(b)
      BY <1>2, <1>4, <2>1, SMTT(20)
    <3> QED BY <1>1, <1>3, <3>1
  <2>2. CASE ~ (j <= Len(b))
    <3>1. PICK i \in 1 .. k : j = Len(b) + i
      <4>1. j - Len(b) \in 1 .. k /\ j = Len(b) + (j - Len(b))
        BY <1>1, <1>2, <1>4, <2>2, SMTT(20)
      <4> QED BY <4>1
    <3>2. i \in 1 .. Len(w)
      BY <1>2, <3>1, SMTT(20)
    <3> QED BY <1>1, <1>3, <3>1, <3>2
  <2> QED BY <2>1, <2>2
<1>5. ASSUME NEW j \in 1 .. Len(w2) PROVE w2[j].req <= n
  <2>1. k + j \in 1 .. Len(w)
    BY <1>1, <1>2, <1>5, SMTT(20)
  <2> QED BY <1>1, <1>3, <1>5, <2>1
<1> QED BY <1>4, <1>5, SMTT(20) DEF Until

(* The worker is at a request the client has begun.                        *)
LEMMA AtRequestBegun ==
  ASSUME CoreInv, BegunInv, NEW i, AtRequest(i)
  PROVE  i \in Ids /\ i <= nsent
<1>1. cs = NoSession \/ cs \in Sessions
  BY CoreFacts
<1>2. CASE mode = "read" /\ Body(cs) # <<>> /\ i = Body(cs)[1].req
  <2>1. Body(cs) \in Seq(TokenType) /\ Until(Body(cs), nsent)
    BY <1>1, BodySeq DEF BegunInv, Begun
  <2>2. 1 \in DOMAIN Body(cs) /\ Body(cs)[1] \in TokenType
    BY <1>2, <2>1, SMTT(20)
  <2> QED BY <1>2, <2>1, <2>2 DEF Until, TokenType
<1>3. CASE mode \in Serving /\ node \in 1 .. Len(cs.list) /\ i = cs.list[node].req
  <2>1. cs \in Sessions
    BY <1>3, CoreFacts
  <2>2. cs.list \in Seq(SrType) /\ Until(cs.list, nsent)
    BY <2>1, BodySeq DEF BegunInv, Begun
  <2>3. node \in DOMAIN cs.list /\ cs.list[node] \in SrType
    BY <1>3, <2>2, SMTT(20)
  <2> QED BY <1>3, <2>2, <2>3 DEF Until, SrType
<1> QED BY <1>2, <1>3 DEF AtRequest

(* The client begins one request after the other.                          *)
LEMMA ClientKeepsBegun == ASSUME CoreInv, BegunInv, ClientMoves PROVE BegunInv'
<1>1. UNCHANGED <<cs, replies>>
  BY DEF ClientMoves, ClientRequest, ClientSend, ClientClose, outVars
<1>2. nsent \in Nat /\ wire \in Seq(TokenType) /\ rest \in Seq(TokenType)
      /\ (cs = NoSession \/ cs \in Sessions)
  BY CoreFacts, Sizes, SMTT(20) DEF CoreInv, NetTypes
<1>3. CASE ClientRequest
  <2>1. PICK k \in Kinds : rest' = Tokens(nsent + 1, k)
    BY <1>3 DEF ClientRequest
  <2>2. nsent' = nsent + 1 /\ wire' = wire /\ nsent + 1 \in Ids
    BY <1>2, <1>3, Sizes, SMTT(20) DEF ClientRequest, Ids
  <2>3. Until(rest', nsent + 1)
    <3>1. /\ Tokens(nsent + 1, k) \in Seq(TokenType)
          /\ \A j \in 1 .. Len(Tokens(nsent + 1, k)) : Tokens(nsent + 1, k)[j].req = nsent + 1
      BY <2>2, TokensFacts, SMTT(20)
    <3> QED BY <1>2, <2>1, <3>1, SMTT(20) DEF Until
  <2>4. Body(cs) \in Seq(TokenType) /\ (cs \in Sessions => cs.list \in Seq(SrType))
    BY <1>2, BodySeq
  <2>5. ASSUME NEW s, Until(s, nsent), \A j \in DOMAIN s : s[j].req \in Int
        PROVE  Until(s, nsent + 1)
    BY <1>2, <2>5, SMTT(20) DEF Until
  <2>6. /\ \A j \in DOMAIN wire : wire[j].req \in Int
        /\ \A j \in DOMAIN Body(cs) : Body(cs)[j].req \in Int
        /\ cs \in Sessions => \A j \in DOMAIN cs.list : cs.list[j].req \in Int
    <3>1. (\A t \in TokenType : t.req \in Int) /\ (\A t \in SrType : t.req \in Int)
      BY Sizes, SMTT(20) DEF TokenType, SrType, Ids
    <3>2. \A s \in Seq(TokenType) : \A j \in DOMAIN s : s[j] \in TokenType
      BY SMTT(20)
    <3>3. \A s \in Seq(SrType) : \A j \in DOMAIN s : s[j] \in SrType
      BY SMTT(20)
    <3> QED BY <1>2, <2>4, <3>1, <3>2, <3>3
  <2>7. /\ Until(Body(cs), nsent) /\ Until(wire, nsent) /\ (cs \in Sessions => Until(cs.list, nsent))
        /\ \A i \in Ids : i > nsent => replies[i] = 0
    BY DEF BegunInv, Begun
  <2>8. \A i \in Ids : i > nsent + 1 => replies[i] = 0
    BY <1>2, <2>7, Sizes, SMTT(20) DEF Ids
  <2>9. /\ Until(Body(cs), nsent + 1) /\ Until(wire, nsent + 1)
        /\ (cs \in Sessions => Until(cs.list, nsent + 1))
    BY <2>5, <2>6, <2>7
  <2> QED BY <1>1, <2>2, <2>3, <2>8, <2>9 DEF BegunInv, Begun
<1>4. CASE ClientSend
  <2>1. rest # <<>> /\ rest' = Tail(rest) /\ nsent' = nsent
        /\ (wire' = wire \/ wire' = Append(wire, Head(rest)))
    BY <1>4 DEF ClientSend
  <2>2. Until(wire, nsent) /\ Until(rest, nsent)
    BY DEF BegunInv, Begun
  <2>3. Until(rest', nsent)
    <3>1. \A j \in 1 .. Len(rest) : rest[j].req <= nsent
      BY <1>2, <2>2, SMTT(20) DEF Until
    <3>2. Len(rest') = Len(rest) - 1 /\ rest' \in Seq(TokenType)
          /\ \A j \in 1 .. Len(rest) - 1 : rest'[j] = rest[j + 1]
      BY <1>2, <2>1, SMTT(20)
    <3>3. Len(rest) \in Nat /\ DOMAIN rest' = 1 .. Len(rest')
      BY <1>2, <3>2, SMTT(20)
    <3>4. ASSUME NEW j \in 1 .. Len(rest) - 1 PROVE rest'[j].req <= nsent
      <4>1. j + 1 \in 1 .. Len(rest)
        BY <3>3, <3>4, SMTT(20)
      <4> QED BY <3>1, <3>2, <3>4, <4>1
    <3> QED BY <3>2, <3>3, <3>4 DEF Until
  <2>4. Until(wire', nsent)
    <3>1. PICK t : t = Head(rest)
      OBVIOUS
    <3>2. t \in TokenType /\ t.req <= nsent
      <4>1. 1 \in DOMAIN rest /\ t = rest[1] /\ rest[1] \in TokenType
        BY <1>2, <2>1, <3>1, SMTT(20)
      <4> QED BY <2>2, <4>1 DEF Until
    <3>3. Until(Append(wire, t), nsent)
      <4>1. \A j \in 1 .. Len(wire) : wire[j].req <= nsent
        BY <1>2, <2>2, SMTT(20) DEF Until
      <4>2. PICK w2 : w2 = Append(wire, t)
        OBVIOUS
      <4>3. /\ DOMAIN w2 = 1 .. Len(wire) + 1 /\ w2[Len(wire) + 1] = t /\ Len(wire) \in Nat
            /\ \A j \in 1 .. Len(wire) : w2[j] = wire[j]
        BY <1>2, <4>2, SMTT(20)
      <4>4. ASSUME NEW j \in 1 .. Len(wire) + 1 PROVE w2[j].req <= nsent
        BY <3>2, <4>1, <4>3, <4>4, SMTT(20)
      <4> QED BY <4>2, <4>3, <4>4 DEF Until
    <3> QED BY <2>1, <2>2, <3>1, <3>3
  <2> QED BY <1>1, <2>1, <2>3, <2>4 DEF BegunInv, Begun
<1>5. CASE ClientClose
  BY <1>1, <1>5 DEF ClientClose, BegunInv, Begun
<1> QED BY <1>3, <1>4, <1>5 DEF ClientMoves

(* Only a request that was begun is answered.                              *)
LEMMA AnsweredBegun ==
  ASSUME CoreInv, BegunInv, replies' = replies \/ \E i \in Ids : AtRequest(i) /\ Answered(replies, replies', i)
  PROVE  \A i \in Ids : i > nsent => replies'[i] = 0
<1>1. \A i \in Ids : i > nsent => replies[i] = 0
  BY DEF BegunInv, Begun
<1>2. CASE \E i \in Ids : AtRequest(i) /\ Answered(replies, replies', i)
  <2>1. PICK i \in Ids : AtRequest(i) /\ Answered(replies, replies', i)
    BY <1>2
  <2>2. i <= nsent /\ nsent \in Nat /\ i \in Nat
    BY <2>1, AtRequestBegun, Sizes, SMTT(20) DEF CoreInv, NetTypes, Ids
  <2>3. ~ (i > nsent)
    BY <2>2, SMTT(20)
  <2> QED BY <1>1, <2>1, <2>3 DEF Answered
<1> QED BY <1>1, <1>2

(* Nothing the client or the worker does breaks Begun.                     *)
LEMMA BegunKeeps == ASSUME CoreInv, BegunInv, Next PROVE BegunInv'
<1>0. /\ cs = NoSession \/ cs \in Sessions
      /\ wire \in Seq(TokenType) /\ CoreInv'
  BY CoreFacts, CoreKeeps
<1>1. /\ Until(Body(cs), nsent) /\ Until(wire, nsent) /\ Until(rest, nsent)
      /\ (cs \in Sessions => Until(cs.list, nsent))
      /\ \A i \in Ids : i > nsent => replies[i] = 0
  BY DEF BegunInv, Begun
<1>2. Until(<<>>, nsent)
  BY SMTT(20) DEF Until
<1>3. CASE ClientMoves
  BY <1>3, ClientKeepsBegun
<1>4. CASE Register
  BY <1>1, <1>4 DEF Register, netVars, outVars, BegunInv, Begun
<1>5. CASE Reading
  <2>1. /\ UNCHANGED <<nsent, rest, replies>> /\ cs' \in Sessions /\ cs'.list = <<>>
        /\ wire' \in Seq(TokenType) /\ Moved(Body(cs), wire, cs'.body, wire')
    BY <1>5 DEF Reading
  <2>2. cs'.body \in Seq(TokenType) /\ Body(cs') = cs'.body /\ Body(cs) \in Seq(TokenType)
    BY <1>0, <2>1, BodySeq
  <2>3. Until(cs'.body, nsent) /\ Until(wire', nsent)
    BY <1>0, <1>1, <2>1, <2>2, UntilMoved
  <2> QED BY <1>1, <1>2, <2>1, <2>2, <2>3 DEF BegunInv, Begun
<1>6. CASE Parsing
  <2>1. UNCHANGED <<nsent, rest, wire, replies>> /\ mode = "write"
    BY <1>6 DEF Parsing, netVars, outVars
  <2>2. PICK l \in Seq(SrType) : /\ cs' = PutList(cs, l) /\ l # <<>>
                                 /\ l = cs.list \/ (cs.list = <<>> /\ Fresh(cs, l))
    BY <1>6 DEF Parsing
  <2>3. cs \in Sessions
    BY <2>1, CoreFacts DEF Serving
  <2>4. cs' \in Sessions /\ cs'.list = l /\ cs'.body = cs.body /\ Body(cs') = Body(cs)
        /\ Body(cs) = cs.body /\ cs.body \in Seq(TokenType)
    <3>1. cs' \in Sessions /\ cs'.list = l /\ cs'.body = cs.body
      BY <2>2, <2>3, PutListFields
    <3> QED BY <2>3, <3>1, BodySeq
  <2>5. Until(l, nsent)
    <3>1. CASE Fresh(cs, l)
      <4>1. \A j \in 1 .. Len(cs.body) : cs.body[j].req <= nsent
        BY <1>1, <2>4, SMTT(20) DEF Until
      <4> QED BY <3>1, <4>1 DEF Fresh, Until
    <3> QED BY <1>1, <2>2, <2>3, <3>1
  <2> QED BY <1>1, <2>1, <2>4, <2>5 DEF BegunInv, Begun
<1>7. CASE Serve
  <2>1. /\ mode = "write" /\ node \in 1 .. Len(cs.list)
        /\ UNCHANGED <<nsent, rest, wire>> /\ cs \in Sessions /\ cs' \in Sessions
        /\ cs'.body = cs.body /\ Len(cs'.list) = Len(cs.list)
        /\ cs.list \in Seq(SrType) /\ cs'.list \in Seq(SrType)
    BY <1>7, ServeFacts
  <2>2. PICK sr \in SrType :
          /\ Served(sr) /\ sr.req \in Ids /\ cs'.list[node] = sr
          /\ \A m \in 1 .. Len(cs.list) : m # node => cs'.list[m] = cs.list[m]
    BY <1>7, ServeFacts
  <2>3. sr.req = cs.list[node].req /\ AtRequest(sr.req)
    BY <2>1, <2>2 DEF Served, AtRequest, Serving
  <2>4. Until(cs'.list, nsent)
    <3>1. \A m \in 1 .. Len(cs.list) : cs'.list[m].req = cs.list[m].req
      BY <2>2, <2>3
    <3> QED BY <1>1, <2>1, <3>1, SMTT(20) DEF Until
  <2>5. replies' = replies \/ Answered(replies, replies', sr.req)
    BY <2>2 DEF Served
  <2>6. \A i \in Ids : i > nsent => replies'[i] = 0
    BY <2>2, <2>3, <2>5, AnsweredBegun
  <2>7. Body(cs') = Body(cs)
    BY <2>1 DEF Body
  <2> QED BY <1>1, <2>1, <2>4, <2>6, <2>7 DEF BegunInv, Begun
<1>8. CASE Again
  <2>1. /\ mode \in Serving /\ UNCHANGED <<nsent, rest, wire>> /\ cs' = KaNext(cs)
        /\ \/ replies' = replies
           \/ mode = "sleep" /\ Answered(replies, replies', cs.list[node].req)
    BY <1>8 DEF Again, netVars
  <2>2. cs \in Sessions
    BY <2>1, CoreFacts
  <2>3. cs' \in Sessions /\ Body(cs') = <<>> /\ cs'.list = <<>>
    BY <2>1, <2>2, KaNextFields, BodySeq
  <2>4. mode = "sleep" => AtRequest(cs.list[node].req) /\ cs.list[node].req \in Ids
    BY NodeFacts
  <2>5. \A i \in Ids : i > nsent => replies'[i] = 0
    BY <2>1, <2>4, AnsweredBegun
  <2> QED BY <1>1, <1>2, <2>1, <2>3, <2>5 DEF BegunInv, Begun
<1>9. CASE Closing
  <2>1. /\ nsent' = nsent /\ wire' \in {wire, <<>>} /\ rest' \in {rest, <<>>}
        /\ cs' = NoSession \/ cs' = cs
        /\ replies' = replies \/ \E i \in Ids : AtRequest(i) /\ Answered(replies, replies', i)
    BY <1>9 DEF Closing, Unanswered
  <2>2. \A i \in Ids : i > nsent => replies'[i] = 0
    BY <2>1, AnsweredBegun
  <2>3. Until(Body(cs'), nsent) /\ (cs' \in Sessions => Until(cs'.list, nsent))
    BY <1>1, <1>2, <2>1, BodySeq, NoSessionIsNone
  <2> QED BY <1>1, <1>2, <2>1, <2>2, <2>3 DEF BegunInv, Begun
<1> QED BY <1>3, <1>4, <1>5, <1>6, <1>7, <1>8, <1>9, StepShape

-----------------------------------------------------------------------------
(* A client that does not pipeline                                         *)

(* Nothing has no end of a header in it.                                   *)
LEMMA Endless == OneEnd(<<>>) /\ ~ HasEnd(<<>>)
BY SMTT(20) DEF OneEnd, HasEnd

(* Sending a token moves an end of a header, and makes none.               *)
LEMMA SendEnds ==
  ASSUME NEW w \in Seq(TokenType), NEW rs \in Seq(TokenType), rs # <<>>,
         NEW w2, w2 = w \/ w2 = Append(w, Head(rs)),
         OneEnd(w), OneEnd(rs), ~ (HasEnd(w) /\ HasEnd(rs))
  PROVE  /\ OneEnd(w2) /\ OneEnd(Tail(rs)) /\ ~ (HasEnd(w2) /\ HasEnd(Tail(rs)))
         /\ HasEnd(Tail(rs)) => HasEnd(rs)
         /\ HasEnd(w2) => HasEnd(w) \/ HasEnd(rs)
<1>0. Head(rs) = rs[1]
  BY SMTT(20)
<1>1. PICK t, rs2 : t = rs[1] /\ t = Head(rs) /\ rs2 = Tail(rs)
  BY <1>0, Zenon
<1>2. /\ Len(rs) \in Nat /\ Len(rs) >= 1 /\ DOMAIN rs = 1 .. Len(rs)
      /\ DOMAIN rs2 = 1 .. Len(rs) - 1 /\ \A j \in 1 .. Len(rs) - 1 : rs2[j] = rs[j + 1]
      /\ Len(w) \in Nat /\ DOMAIN w = 1 .. Len(w)
  BY <1>1, SMTT(20)
<1>3. \A j \in 1 .. Len(rs) - 1 : j + 1 \in DOMAIN rs /\ j + 1 # 1
  BY <1>2, SMTT(20)
<1>4. 1 \in DOMAIN rs
  BY <1>2, SMTT(20)
<1>5. HasEnd(rs2) => HasEnd(rs) /\ t.part # "end"
  <2>1. ASSUME NEW j \in 1 .. Len(rs) - 1, rs2[j].part = "end"
        PROVE  HasEnd(rs) /\ t.part # "end"
    <3>1. j + 1 \in DOMAIN rs /\ j + 1 # 1 /\ rs[j + 1].part = "end"
      BY <1>2, <1>3, <2>1
    <3> QED BY <1>1, <1>4, <3>1 DEF HasEnd, OneEnd
  <2> QED BY <1>2, <2>1 DEF HasEnd
<1>6. OneEnd(rs2)
  <2>1. ASSUME NEW i \in 1 .. Len(rs) - 1, NEW j \in 1 .. Len(rs) - 1,
               rs2[i].part = "end", rs2[j].part = "end"
        PROVE  i = j
    <3>1. i + 1 \in DOMAIN rs /\ j + 1 \in DOMAIN rs /\ rs[i + 1].part = "end" /\ rs[j + 1].part = "end"
      BY <1>2, <1>3, <2>1
    <3>2. i + 1 = j + 1
      BY <3>1 DEF OneEnd
    <3> QED BY <1>2, <2>1, <3>2, SMTT(20)
  <2> QED BY <1>2, <2>1 DEF OneEnd
<1>7. t.part = "end" => HasEnd(rs)
  BY <1>1, <1>4 DEF HasEnd
<1>8. CASE w2 = w
  BY <1>1, <1>5, <1>6, <1>8
<1>9. CASE w2 = Append(w, Head(rs))
  <2>1. /\ DOMAIN w2 = 1 .. Len(w) + 1 /\ w2[Len(w) + 1] = t
        /\ \A j \in 1 .. Len(w) : w2[j] = w[j]
    BY <1>1, <1>2, <1>9, SMTT(20)
  <2>2. \A j \in 1 .. Len(w) + 1 : j = Len(w) + 1 \/ j \in 1 .. Len(w)
    BY <1>2, SMTT(20)
  <2>3. \A j \in DOMAIN w2 : w2[j].part = "end" =>
           (j = Len(w) + 1 /\ t.part = "end") \/ (j \in DOMAIN w /\ w[j].part = "end")
    BY <1>2, <2>1, <2>2
  <2>4. HasEnd(w2) => HasEnd(w) \/ t.part = "end"
    BY <2>3 DEF HasEnd
  <2>5. OneEnd(w2)
    <3>1. CASE t.part = "end"
      <4>1. ~ HasEnd(w)
        BY <1>7, <3>1
      <4> QED BY <2>3, <4>1 DEF OneEnd, HasEnd
    <3>2. CASE t.part # "end"
      BY <2>3, <3>2 DEF OneEnd
    <3> QED BY <3>1, <3>2
  <2> QED BY <1>1, <1>5, <1>6, <1>7, <2>4, <2>5
<1> QED BY <1>8, <1>9

(* So does reading.                                                        *)
LEMMA MovedEnds ==
  ASSUME NEW b \in Seq(TokenType), NEW w \in Seq(TokenType),
         NEW b2 \in Seq(TokenType), NEW w2 \in Seq(TokenType),
         Moved(b, w, b2, w2), OneEnd(b), OneEnd(w), ~ (HasEnd(b) /\ HasEnd(w))
  PROVE  /\ OneEnd(b2) /\ OneEnd(w2) /\ ~ (HasEnd(b2) /\ HasEnd(w2))
         /\ HasEnd(b2) => HasEnd(b) \/ HasEnd(w)
         /\ HasEnd(w2) => HasEnd(w)
<1>1. PICK k \in 0 .. Len(w) :
        /\ Len(b2) = Len(b) + k /\ Len(w2) = Len(w) - k
        /\ \A j \in 1 .. Len(b) : b2[j] = b[j]
        /\ \A j \in 1 .. k : b2[Len(b) + j] = w[j]
        /\ \A j \in 1 .. Len(w2) : w2[j] = w[k + j]
  BY DEF Moved
<1>2. Len(b) \in Nat /\ Len(w) \in Nat /\ k \in Nat /\ k <= Len(w) /\ Len(b2) \in Nat /\ Len(w2) \in Nat
      /\ DOMAIN b = 1 .. Len(b) /\ DOMAIN w = 1 .. Len(w)
      /\ DOMAIN b2 = 1 .. Len(b2) /\ DOMAIN w2 = 1 .. Len(w2)
  BY SMTT(20)
<1>3. ASSUME NEW j \in DOMAIN b2
      PROVE  \/ j \in DOMAIN b /\ b2[j] = b[j]
             \/ \E i \in 1 .. k : j = Len(b) + i /\ i \in DOMAIN w /\ b2[j] = w[i]
  <2>1. CASE j <= Len(b)
    <3>1. j \in 1 .. Len(b)
      BY <1>2, <1>3, <2>1, SMTT(20)
    <3> QED BY <1>1, <1>2, <3>1
  <2>2. CASE ~ (j <= Len(b))
    <3>1. j - Len(b) \in 1 .. k /\ j = Len(b) + (j - Len(b)) /\ j - Len(b) \in 1 .. Len(w)
      BY <1>1, <1>2, <1>3, <2>2, SMTT(20)
    <3>2. PICK i : i = j - Len(b)
      OBVIOUS
    <3>3. i \in 1 .. k /\ j = Len(b) + i /\ i \in DOMAIN w
      BY <1>2, <3>1, <3>2
    <3>4. b2[j] = w[i]
      BY <1>1, <3>3
    <3> QED BY <3>3, <3>4
  <2> QED BY <2>1, <2>2
<1>4. ASSUME NEW j \in DOMAIN w2
      PROVE  k + j \in DOMAIN w /\ w2[j] = w[k + j] /\ ~ (k + j \in 1 .. k)
  <2>1. j \in 1 .. Len(w2) /\ w2[j] = w[k + j]
    BY <1>1, <1>2, <1>4
  <2>2. k + j \in 1 .. Len(w) /\ ~ (k + j \in 1 .. k)
    BY <1>1, <1>2, <2>1, SMTT(20)
  <2> QED BY <1>2, <2>1, <2>2
<1>5. HasEnd(b2) => HasEnd(b) \/ \E i \in 1 .. k : i \in DOMAIN w /\ w[i].part = "end"
  <2>1. ASSUME NEW j \in DOMAIN b2, b2[j].part = "end"
        PROVE  HasEnd(b) \/ \E i \in 1 .. k : i \in DOMAIN w /\ w[i].part = "end"
    BY <1>3, <2>1 DEF HasEnd
  <2> QED BY <2>1 DEF HasEnd
<1>6. HasEnd(w2) => HasEnd(w) /\ \A i \in 1 .. k : ~ (i \in DOMAIN w /\ w[i].part = "end")
  <2>1. ASSUME NEW j \in DOMAIN w2, w2[j].part = "end"
        PROVE  HasEnd(w) /\ \A i \in 1 .. k : ~ (i \in DOMAIN w /\ w[i].part = "end")
    <3>1. k + j \in DOMAIN w /\ w[k + j].part = "end" /\ ~ (k + j \in 1 .. k)
      BY <1>4, <2>1
    <3> QED BY <3>1 DEF HasEnd, OneEnd
  <2> QED BY <2>1 DEF HasEnd
<1>7. OneEnd(b2)
  <2>1. ASSUME NEW i \in DOMAIN b2, NEW j \in DOMAIN b2, b2[i].part = "end", b2[j].part = "end"
        PROVE  i = j
    <3>1. \/ i \in DOMAIN b /\ b2[i] = b[i]
          \/ \E m \in 1 .. k : i = Len(b) + m /\ m \in DOMAIN w /\ b2[i] = w[m]
      BY <1>3
    <3>2. \/ j \in DOMAIN b /\ b2[j] = b[j]
          \/ \E m \in 1 .. k : j = Len(b) + m /\ m \in DOMAIN w /\ b2[j] = w[m]
      BY <1>3
    <3> QED BY <2>1, <3>1, <3>2 DEF HasEnd, OneEnd
  <2> QED BY <2>1 DEF OneEnd
<1>8. OneEnd(w2)
  <2>1. ASSUME NEW i \in DOMAIN w2, NEW j \in DOMAIN w2, w2[i].part = "end", w2[j].part = "end"
        PROVE  i = j
    <3>1. k + i = k + j
      BY <1>4, <2>1 DEF OneEnd
    <3> QED BY <1>2, <2>1, <3>1, SMTT(20)
  <2> QED BY <2>1 DEF OneEnd
<1>9. (\E i \in 1 .. k : i \in DOMAIN w /\ w[i].part = "end") => HasEnd(w)
  BY DEF HasEnd
<1> QED BY <1>5, <1>6, <1>7, <1>8, <1>9

Lone == Single(mode, cs, node, wire, rest, nsent, replies, files)

(* What Lone says of each phase.                                           *)
LEMMA LoneFacts ==
  ASSUME CoreInv, Lone
  PROVE  /\ Lost \notin files
         /\ mode \in Alive =>
              /\ OneEnd(wire) /\ OneEnd(rest) /\ ~ (HasEnd(wire) /\ HasEnd(rest))
              /\ mode \in {"new", "read"} =>
                   OneEnd(Body(cs)) /\ (HasEnd(Body(cs)) => ~ HasEnd(wire) /\ ~ HasEnd(rest))
              /\ (nsent > 0 => replies[nsent] > 0) =>
                   /\ ~ HasEnd(wire) /\ ~ HasEnd(rest)
                   /\ (mode \in {"new", "read"} => ~ HasEnd(Body(cs)))
         /\ mode \in Serving =>
              /\ \A j \in 1 .. cs.pos - 1 : cs.body[j].part # "end"
              /\ cs.body[1].req = nsent => ~ HasEnd(wire) /\ ~ HasEnd(rest)
              /\ Len(cs.list) <= 1 /\ (cs.list = <<>> => files = {})
              /\ cs.list # <<>> => /\ cs.list[1].req = cs.body[1].req
                                   /\ node <= 1 /\ cs.list[1].bts < 0 => files = {}
<1>1. Serving \subseteq Alive
  BY DEF Serving, Alive
<1> QED BY <1>1 DEF Lone, Single, OneHeader, OneRequest

(* The request the worker is at is the one of the list.                    *)
LEMMA OnlyRequest ==
  ASSUME CoreInv, Lone, mode \in Serving, node \in 1 .. Len(cs.list)
  PROVE  node = 1 /\ Len(cs.list) = 1 /\ cs.list # <<>> /\ cs.list[1].req = cs.body[1].req
<1>1. cs \in Sessions
  BY CoreFacts
<1>2. cs.list \in Seq(SrType)
  BY <1>1 DEF Sessions
<1>3. Len(cs.list) <= 1 /\ Len(cs.list) \in Nat
  BY <1>2, LoneFacts, SMTT(20)
<1>4. node = 1 /\ Len(cs.list) = 1
  <2>1. \A m \in Nat : \A n \in 1 .. m : m <= 1 => n = 1 /\ m = 1
    BY SMTT(20)
  <2> QED BY <1>3, <2>1
<1>5. cs.list # <<>>
  BY <1>2, <1>4, SMTT(20)
<1> QED BY <1>4, <1>5, LoneFacts

(* A client that does not pipeline keeps one end under way: the client;    *)
LEMMA ClientKeepsLone ==
  ASSUME CoreInv, BegunInv, Lone, client # "pipelining", ClientMoves
  PROVE  Lone'
<1>1. UNCHANGED <<mode, cs, node, replies, files>>
  BY DEF ClientMoves, ClientRequest, ClientSend, ClientClose, outVars
<1>2. nsent \in Nat /\ wire \in Seq(TokenType) /\ rest \in Seq(TokenType) /\ mode \in Alive
      /\ (cs = NoSession \/ cs \in Sessions)
  BY CoreFacts, Sizes, SMTT(20) DEF CoreInv, NetTypes, ClientMoves, ClientRequest, ClientSend, ClientClose,
     Open, Alive
<1>3. CASE ClientRequest
  <2>1. PICK k \in Kinds : rest' = Tokens(nsent + 1, k)
    BY <1>3 DEF ClientRequest
  <2>2. nsent' = nsent + 1 /\ wire' = wire /\ nsent + 1 \in Ids
    BY <1>2, <1>3, Sizes, SMTT(20) DEF ClientRequest, Ids
  <2>3. nsent > 0 => replies[nsent] > 0
    <3>1. nsent > 0 => nsent \in 1 .. nsent
      BY <1>2, SMTT(20)
    <3> QED BY <1>3, <3>1 DEF ClientRequest, Complete
  <2>4. ~ HasEnd(wire) /\ (mode \in {"new", "read"} => ~ HasEnd(Body(cs)) /\ OneEnd(Body(cs)))
        /\ OneEnd(wire)
    BY <1>2, <2>3, LoneFacts
  <2>5. OneEnd(rest')
    BY <2>1, <2>2, TokensFacts
  <2>6. ~ (nsent' > 0 => replies[nsent'] > 0)
    <3>1. replies[nsent + 1] = 0 /\ nsent + 1 > 0
      BY <1>2, <2>2, SMTT(20) DEF BegunInv, Begun
    <3> QED BY <2>2, <3>1, SMTT(20)
  <2>7. OneHeader(mode, cs, wire', rest', nsent', replies)
    BY <2>2, <2>4, <2>5, <2>6 DEF OneHeader
  <2>8. OneRequest(mode, cs, node, wire', rest', nsent', files)
    <3> SUFFICES ASSUME mode \in Serving PROVE OneRequest(mode, cs, node, wire', rest', nsent', files)
      BY DEF OneRequest
    <3>1. cs \in Sessions /\ Body(cs) = cs.body /\ cs.body \in Seq(TokenType) /\ Buffered(cs, limit)
          /\ cs.pos > 0 /\ cs.pos \in Nat
      BY CoreFacts, BodySeq, NoSessionIsNone DEF Sessions
    <3>2. 1 \in DOMAIN cs.body /\ cs.body[1] \in TokenType
      BY <3>1, SMTT(20) DEF Buffered
    <3>3. cs.body[1].req <= nsent /\ cs.body[1].req \in Int
      BY <3>1, <3>2, Sizes, SMTT(20) DEF BegunInv, Begun, Until, TokenType, Ids
    <3>4. cs.body[1].req # nsent'
      BY <1>2, <2>2, <3>3, SMTT(20)
    <3> QED BY <3>4, LoneFacts DEF OneRequest
  <2> QED BY <1>1, <2>7, <2>8, LoneFacts DEF Lone, Single
<1>4. CASE ClientSend
  <2>1. rest # <<>> /\ rest' = Tail(rest) /\ nsent' = nsent
        /\ (wire' = wire \/ wire' = Append(wire, Head(rest)))
    BY <1>4 DEF ClientSend
  <2>2. OneEnd(wire) /\ OneEnd(rest) /\ ~ (HasEnd(wire) /\ HasEnd(rest))
    BY <1>2, LoneFacts
  <2>3. /\ OneEnd(wire') /\ OneEnd(rest') /\ ~ (HasEnd(wire') /\ HasEnd(rest'))
        /\ HasEnd(rest') => HasEnd(rest)
        /\ HasEnd(wire') => HasEnd(wire) \/ HasEnd(rest)
    BY <1>2, <2>1, <2>2, SendEnds
  <2>4. OneHeader(mode, cs, wire', rest', nsent, replies)
    BY <1>2, <2>3, LoneFacts DEF OneHeader
  <2>5. OneRequest(mode, cs, node, wire', rest', nsent, files)
    BY <2>3, LoneFacts DEF OneRequest
  <2> QED BY <1>1, <2>1, <2>4, <2>5, LoneFacts DEF Lone, Single
<1>5. CASE ClientClose
  BY <1>1, <1>5 DEF ClientClose, Lone
<1> QED BY <1>3, <1>4, <1>5 DEF ClientMoves

(* the buffer is examined;                                                 *)
LEMMA ReadingKeepsLone == ASSUME CoreInv, Lone, Reading PROVE Lone'
<1>1. /\ mode = "read" /\ mode' \in {"read", "write"} /\ node' = 0
      /\ UNCHANGED <<nsent, rest, replies, files>>
      /\ cs' \in Sessions /\ Buffered(cs', limit) /\ cs'.list = <<>>
      /\ mode' = "write" => cs'.pos > 0
      /\ wire' \in Seq(TokenType) /\ Moved(Body(cs), wire, cs'.body, wire')
  BY DEF Reading, Taken
<1>2. cs'.body \in Seq(TokenType) /\ Body(cs') = cs'.body /\ Body(cs) \in Seq(TokenType)
      /\ wire \in Seq(TokenType)
  BY <1>1, CoreFacts, BodySeq
<1>3. /\ OneEnd(wire) /\ OneEnd(rest) /\ ~ (HasEnd(wire) /\ HasEnd(rest))
      /\ OneEnd(Body(cs)) /\ (HasEnd(Body(cs)) => ~ HasEnd(wire) /\ ~ HasEnd(rest))
      /\ (nsent > 0 => replies[nsent] > 0) =>
           ~ HasEnd(wire) /\ ~ HasEnd(rest) /\ ~ HasEnd(Body(cs))
  BY <1>1, LoneFacts DEF Alive
<1>4. /\ OneEnd(cs'.body) /\ OneEnd(wire') /\ ~ (HasEnd(cs'.body) /\ HasEnd(wire'))
      /\ HasEnd(cs'.body) => HasEnd(Body(cs)) \/ HasEnd(wire)
      /\ HasEnd(wire') => HasEnd(wire)
  <2>1. PICK b, b2, w2 : b = Body(cs) /\ b2 = cs'.body /\ w2 = wire'
    OBVIOUS
  <2> QED BY <1>1, <1>2, <1>3, <2>1, MovedEnds
<1>5. OneHeader(mode', cs', wire', rest', nsent', replies')
  BY <1>1, <1>2, <1>3, <1>4 DEF OneHeader
<1>6. files = {} /\ Lost \notin files
  BY <1>1, CoreFacts, LoneFacts DEF Serving
<1>7. OneRequest(mode', cs', node', wire', rest', nsent', files')
  <2> SUFFICES ASSUME mode' = "write"
               PROVE  /\ \A j \in 1 .. cs'.pos - 1 : cs'.body[j].part # "end"
                      /\ ~ HasEnd(wire') /\ ~ HasEnd(rest)
    BY <1>1, <1>6, SMTT(20) DEF OneRequest, Serving
  <2>1. cs'.pos \in Nat /\ cs'.pos > 0 /\ cs'.pos <= Len(cs'.body) /\ cs'.body[cs'.pos].part = "end"
    BY <1>1 DEF Buffered, Sessions
  <2>2. cs'.pos \in DOMAIN cs'.body /\ \A j \in 1 .. cs'.pos - 1 : j \in DOMAIN cs'.body /\ j # cs'.pos
    <3>1. DOMAIN cs'.body = 1 .. Len(cs'.body) /\ Len(cs'.body) \in Nat
      BY <1>2, SMTT(20)
    <3> QED BY <2>1, <3>1, SMTT(20)
  <2>3. HasEnd(cs'.body)
    BY <2>1, <2>2 DEF HasEnd
  <2> QED BY <1>3, <1>4, <2>1, <2>2, <2>3 DEF OneEnd
<1> QED BY <1>1, <1>5, <1>6, <1>7 DEF Lone, Single

(* the list is built, and has one element;                                 *)
LEMMA ParsingKeepsLone == ASSUME CoreInv, Lone, Parsing PROVE Lone'
<1>1. /\ mode = "write" /\ mode' = "write" /\ node = 0 /\ node' = 1
      /\ UNCHANGED <<nsent, rest, wire, replies, files>>
  BY DEF Parsing, netVars, outVars
<1>2. PICK l \in Seq(SrType) : /\ cs' = PutList(cs, l) /\ l # <<>>
                               /\ l = cs.list \/ (cs.list = <<>> /\ Fresh(cs, l))
  BY DEF Parsing
<1>3. cs \in Sessions /\ mode \in Alive /\ mode \in Serving
  BY <1>1, CoreFacts DEF Serving, Alive
<1>4. cs' \in Sessions /\ cs'.list = l /\ cs'.body = cs.body /\ cs'.pos = cs.pos
  BY <1>2, <1>3, PutListFields
<1>5. OneHeader(mode', cs', wire', rest', nsent', replies')
  BY <1>1, <1>3, LoneFacts DEF OneHeader
<1>6. Len(l) <= 1 /\ l[1].req = cs.body[1].req /\ (l[1].bts < 0 => files = {})
  BY <1>1, <1>2, <1>3, LoneFacts, SMTT(20) DEF Fresh
<1>7. OneRequest(mode', cs', node', wire', rest', nsent', files')
  BY <1>1, <1>2, <1>3, <1>4, <1>6, LoneFacts DEF OneRequest
<1> QED BY <1>1, <1>5, <1>7, LoneFacts DEF Lone, Single

(* An answer to the request in the buffer finds no end of a header.        *)
LEMMA AnswerEnds ==
  ASSUME CoreInv, Lone, mode \in Serving,
         replies' = replies \/ Answered(replies, replies', cs.body[1].req),
         nsent > 0 => replies'[nsent] > 0
  PROVE  ~ HasEnd(wire) /\ ~ HasEnd(rest)
<1>1. nsent > 0 => nsent \in Ids
  BY Sizes, SMTT(20) DEF CoreInv, NetTypes, Ids
<1>2. mode \in Alive
  BY DEF Serving, Alive
<1>3. CASE cs.body[1].req = nsent
  BY <1>3, LoneFacts
<1>4. CASE cs.body[1].req # nsent
  <2>1. nsent > 0 => replies[nsent] > 0
    BY <1>1, <1>4 DEF Answered
  <2> QED BY <1>2, <2>1, LoneFacts
<1> QED BY <1>3, <1>4

(* the request is served;                                                  *)
LEMMA ServeKeepsLone == ASSUME CoreInv, Lone, Serve PROVE Lone'
<1>1. /\ mode = "write" /\ mode' \in Serving /\ node \in 1 .. Len(cs.list)
      /\ UNCHANGED <<nsent, rest, wire>>
      /\ cs'.body = cs.body /\ cs'.pos = cs.pos
      /\ Len(cs'.list) = Len(cs.list) /\ cs'.list \in Seq(SrType)
  BY ServeFacts
<1>2. PICK sr \in SrType : Served(sr) /\ sr.req \in Ids /\ cs'.list[node] = sr
  BY ServeFacts
<1>3. mode \in Serving /\ mode \in Alive /\ mode' \notin {"new", "read"}
  BY <1>1 DEF Serving, Alive
<1>4. node = 1 /\ Len(cs.list) = 1 /\ cs.list # <<>> /\ cs.list[1].req = cs.body[1].req
  BY <1>1, <1>3, OnlyRequest
<1>5. sr.req = cs.body[1].req /\ cs'.list[1] = sr /\ cs'.list # <<>>
  BY <1>1, <1>2, <1>4, SMTT(20) DEF Served
<1>6. cs.list[1].bts < 0 => files = {}
  BY <1>3, <1>4, LoneFacts
<1>7. Lost \notin files'
  BY <1>2, <1>4, <1>6, LoneFacts DEF Served
<1>8. node' <= 1 /\ sr.bts < 0 => files' = {}
  BY <1>2, <1>4, <1>6, Sizes, SMTT(20) DEF Served, SrType
<1>9. replies' = replies \/ Answered(replies, replies', cs.body[1].req)
  BY <1>2, <1>5 DEF Served
<1>10. OneHeader(mode', cs', wire', rest', nsent', replies')
  BY <1>1, <1>3, <1>9, AnswerEnds, LoneFacts DEF OneHeader
<1>11. OneRequest(mode', cs', node', wire', rest', nsent', files')
  BY <1>1, <1>3, <1>4, <1>5, <1>8, LoneFacts DEF OneRequest
<1> QED BY <1>7, <1>10, <1>11 DEF Lone, Single

(* the connection is kept alive;                                           *)
LEMMA AgainKeepsLone == ASSUME CoreInv, Lone, Again PROVE Lone'
<1>1. /\ mode \in Serving /\ mode' = "read" /\ UNCHANGED <<nsent, rest, wire>>
      /\ cs' = KaNext(cs) /\ files' = files \ Listed(cs)
      /\ \/ replies' = replies
         \/ mode = "sleep" /\ Answered(replies, replies', cs.list[node].req)
  BY DEF Again, netVars
<1>2. cs \in Sessions /\ mode \in Alive
  BY <1>1, CoreFacts DEF Serving, Alive
<1>3. cs' \in Sessions /\ cs'.body = <<>>
  BY <1>1, <1>2, KaNextFields
<1>4. Body(cs') = <<>>
  BY <1>3, BodySeq
<1>5. replies' = replies \/ Answered(replies, replies', cs.body[1].req)
  <2>1. mode = "sleep" => node \in 1 .. Len(cs.list)
    BY NodeFacts
  <2> QED BY <1>1, <2>1, OnlyRequest
<1>6. OneHeader(mode', cs', wire', rest', nsent', replies')
  BY <1>1, <1>2, <1>4, <1>5, AnswerEnds, LoneFacts, Endless DEF OneHeader
<1>7. OneRequest(mode', cs', node', wire', rest', nsent', files')
  BY <1>1 DEF OneRequest, Serving
<1>8. Lost \notin files'
  BY <1>1, LoneFacts
<1> QED BY <1>6, <1>7, <1>8 DEF Lone, Single

(* the connection ends.                                                    *)
LEMMA ClosingKeepsLone == ASSUME CoreInv, Lone, Closing PROVE Lone'
<1>1. /\ mode' \in {"closed", "failed"}
      /\ Lost \in files' => Lost \in files \/ \E i \in files \ {Lost} : Unanswered(i)
  BY DEF Closing
<1>2. ASSUME NEW i \in files \ {Lost}, Unanswered(i) PROVE FALSE
  <2>1. CASE mode = "read"
    BY <1>2, <2>1, CoreFacts DEF Serving
  <2>2. CASE mode \in Serving /\ node \in 1 .. Len(cs.list)
    <3>1. cs.list[node].bts < 0
      BY <1>2, <2>2 DEF Unanswered
    <3>2. node = 1 /\ cs.list # <<>>
      BY <2>2, OnlyRequest
    <3> QED BY <1>2, <2>2, <3>1, <3>2, LoneFacts, SMTT(20)
  <2> QED BY <1>2, <2>1, <2>2 DEF Unanswered, AtRequest
<1>3. Lost \notin files'
  BY <1>1, <1>2, LoneFacts
<1>4. mode' \notin Alive
  BY <1>1 DEF Alive
<1> QED BY <1>3, <1>4 DEF Lone, Single

(* A connection stays with its client.                                     *)
LEMMA SameClient == ASSUME CoreInv, Next PROVE client' = client
<1>1. ClientMoves => client' = client
  BY DEF ClientMoves, ClientRequest, ClientSend, ClientClose
<1>2. Register \/ Parsing \/ Serve \/ Again => client' = client
  BY DEF Register, Parsing, Serve, Again, netVars
<1>3. Reading \/ Closing => client' = client
  BY DEF Reading, Closing
<1> QED BY <1>1, <1>2, <1>3, StepShape

(* Nothing the client or the worker does breaks Single.                    *)
LEMMA SingleKeeps == ASSUME CoreInv, BegunInv, SingleInv, Next PROVE SingleInv'
<1>1. client' = client
  BY SameClient
<1> SUFFICES ASSUME client # "pipelining" PROVE Lone'
  BY <1>1 DEF SingleInv, Lone
<1>2. Lone
  BY DEF SingleInv, Lone
<1>3. ASSUME Register PROVE Lone'
  <2>1. /\ mode = "new" /\ mode' = "read"
        /\ UNCHANGED <<cs, node, wire, rest, nsent, replies, files>>
    BY <1>3 DEF Register, netVars, outVars
  <2>2. OneHeader("read", cs, wire, rest, nsent, replies)
    BY <1>2, <2>1, LoneFacts DEF OneHeader, Alive
  <2>3. OneRequest("read", cs, node, wire, rest, nsent, files)
    BY DEF OneRequest, Serving
  <2> QED BY <1>2, <2>1, <2>2, <2>3, LoneFacts DEF Lone, Single
<1> QED BY <1>2, <1>3, StepShape, ClientKeepsLone, ReadingKeepsLone, ParsingKeepsLone,
           ServeKeepsLone, AgainKeepsLone, ClosingKeepsLone

=============================================================================
