---------------------------- MODULE RequestProofs ----------------------------
(***************************************************************************)
(* Proofs about the life of a connection: all safety properties of module  *)
(* Request, for any number of requests of any kinds, any size of the       *)
(* receive buffer and of the file, and any keep-alive limit. The inductive *)
(* invariant IInv and its first two layers are in RequestSteps; here are   *)
(* the third layer, for a client that waits for its answers, and the       *)
(* theorems.                                                               *)
(***************************************************************************)
EXTENDS RequestSteps

(* A leaf goes to Zenon first; one that needs arithmetic names SMT.        *)
USE ZenonT(10), SMTT(20)

-----------------------------------------------------------------------------
(* A client that waits for its answers                                     *)

Waits == Patient(mode, cs, node, wire, rest, nsent, replies, ended)

(* What Waits says of each phase.                                          *)
LEMMA WaitsFacts ==
  ASSUME CoreInv, Waits
  PROVE  /\ \A i \in Ids : ended[i] <= 1 /\ (replies[i] > 0 => i <= MaxKeepAlive + 1)
         /\ mode \in Alive =>
              /\ Counter(cs) <= MaxKeepAlive
              /\ \A i \in Ids : /\ i <= Counter(cs) => replies[i] > 0
                                /\ i > Counter(cs) + 1 => replies[i] = 0
         /\ mode \in {"new", "read"} => Waiting(cs, wire, rest, nsent, replies)
         /\ mode \in Serving => Answering(cs, node, wire, rest, nsent, replies, ended)
         /\ Counter(cs) \in Nat /\ (cs \in Sessions => Counter(cs) = cs.counter)
<1>1. cs \in Sessions => cs.counter \in Nat
  BY DEF Sessions
<1> QED BY <1>1 DEF Waits, Patient, InTurn, Counter

(* The fields of a token.                                                  *)
LEMMA TokFields ==
  ASSUME NEW i, NEW k, NEW j
  PROVE  Tok(i, k, j).req = i /\ Tok(i, k, j).kind = k /\ Tok(i, k, j).part = Parts[k][j]
BY DEF Tok

(* How the lengths of buffer, wire and rest add up to a request.           *)
LEMMA LaidFacts ==
  ASSUME NEW b \in Seq(TokenType), NEW w \in Seq(TokenType), NEW rs \in Seq(TokenType),
         NEW i, NEW k \in Kinds, Laid(b, w, rs, i, k)
  PROVE  /\ Len(b) \in Nat /\ Len(w) \in Nat /\ Len(rs) \in Nat /\ Len(Parts[k]) \in Nat
         /\ Len(b) + Len(w) + Len(rs) <= Len(Parts[k])
         /\ \/ Len(b) + Len(w) + Len(rs) = Len(Parts[k])
            \/ k = "huge" /\ rs = <<>> /\ Len(b) + Len(w) = 2
         /\ \A j \in 1 .. Len(b) : b[j] = Tok(i, k, j)
         /\ \A j \in 1 .. Len(w) : w[j] = Tok(i, k, Len(b) + j) /\ ~ Leftover(<<w[j]>>)
         /\ \A j \in 1 .. Len(rs) : rs[j] = Tok(i, k, Len(b) + Len(w) + j)
<1>1. Len(b) \in Nat /\ Len(w) \in Nat /\ Len(rs) \in Nat /\ (rs = <<>> => Len(rs) = 0)
  BY SMTT(20)
<1>2. Len(Parts[k]) \in Nat
  BY PartsFacts, Sizes, SMTT(20)
<1>3. k = "huge" => Len(Parts[k]) = 3
  BY PartsFacts
<1>4. \/ Len(b) + Len(w) + Len(rs) = Len(Parts[k])
      \/ k = "huge" /\ rs = <<>> /\ Len(b) + Len(w) = 2
  BY DEF Laid
<1>5. Len(b) + Len(w) + Len(rs) <= Len(Parts[k])
  <2>1. \A n, m, l, p \in Nat : (n + m + l = p) \/ (p = 3 /\ l = 0 /\ n + m = 2) => n + m + l <= p
    BY SMTT(20)
  <2>2. \/ Len(b) + Len(w) + Len(rs) = Len(Parts[k])
        \/ Len(Parts[k]) = 3 /\ Len(rs) = 0 /\ Len(b) + Len(w) = 2
    BY <1>1, <1>3, <1>4, Zenon
  <2> QED BY <1>1, <1>2, <2>1, <2>2, Zenon
<1> QED BY <1>1, <1>2, <1>4, <1>5 DEF Laid

(* The content of a POST that was refused, in a token.                     *)
LEMMA LeftoverToken ==
  ASSUME NEW t PROVE Leftover(<<t>>) <=> t.kind = "huge" /\ t.part = "data"
<1>1. PICK s : s = <<t>>
  OBVIOUS
<1>2. s # <<>> /\ Len(s) = 1 /\ s[1] = t
  BY <1>1
<1> QED BY <1>1, <1>2 DEF Leftover

(* The client sends a token of a request, or gives up its content.         *)
LEMMA LaidSend ==
  ASSUME NEW b \in Seq(TokenType), NEW w \in Seq(TokenType), NEW rs \in Seq(TokenType),
         NEW i, NEW k \in Kinds, Laid(b, w, rs, i, k), rs # <<>>, NEW w2,
         IF Head(rs).kind = "huge" /\ Head(rs).part = "data" THEN w2 = w ELSE w2 = Append(w, Head(rs))
  PROVE  Laid(b, w2, Tail(rs), i, k)
<1> DEFINE n == Len(b)
           m == Len(w)
           l == Len(rs)
<1>1. /\ n \in Nat /\ m \in Nat /\ l \in Nat /\ Len(Parts[k]) \in Nat
      /\ \A j \in 1 .. n : b[j] = Tok(i, k, j)
      /\ \A j \in 1 .. m : w[j] = Tok(i, k, n + j) /\ ~ Leftover(<<w[j]>>)
      /\ \A j \in 1 .. l : rs[j] = Tok(i, k, n + m + j)
  BY LaidFacts, SMTT(20)
<1>2. n + m + l = Len(Parts[k])
  BY DEF Laid
<1>3. PICK t, rs2 : t = Head(rs) /\ rs2 = Tail(rs)
  OBVIOUS
<1>4. /\ l >= 1 /\ t = rs[1] /\ Len(rs2) = l - 1 /\ rs2 \in Seq(TokenType)
      /\ \A j \in 1 .. l - 1 : rs2[j] = rs[j + 1]
  BY <1>3, SMTT(20)
<1> HIDE DEF n, m, l
<1>5. t = Tok(i, k, n + m + 1)
  <2>1. 1 \in 1 .. l
    BY <1>1, <1>4, SMTT(20)
  <2> QED BY <1>1, <1>4, <2>1
<1>6. \A j \in 1 .. l - 1 : rs2[j] = Tok(i, k, n + m + (j + 1))
  <2>1. \A j \in 1 .. l - 1 : j + 1 \in 1 .. l
    BY <1>1, SMTT(20)
  <2> QED BY <1>1, <1>4, <2>1
<1>7. t.kind = k /\ t.part = Parts[k][n + m + 1]
  BY <1>5, TokFields, SMTT(20)
<1>8. CASE t.kind = "huge" /\ t.part = "data"
  <2>1. w2 = w
    BY <1>3, <1>8
  <2>2. Len(Parts[k]) = 3 /\ \A j \in 1 .. 3 : Parts[k][j] = "end" <=> j = 2
    <3>1. k = "huge" /\ k # "long" /\ k \in {"post", "huge"}
      BY <1>7, <1>8
    <3>2. Len(Parts[k]) = 3
      BY <3>1, PartsFacts
    <3> QED BY <3>1, <3>2, PartsFacts
  <2>3. Parts[k][1] = "head"
    BY PartsFacts
  <2>4. n + m + 1 \in 1 .. 3
    BY <1>1, <1>2, <1>4, <2>2, SMTT(20)
  <2>5. n + m + 1 # 1 /\ n + m + 1 # 2
    BY <1>7, <1>8, <2>2, <2>3, <2>4
  <2>6. n + m = 2 /\ l = 1
    BY <1>1, <1>2, <1>4, <2>2, <2>4, <2>5, SMTT(20)
  <2>7. Len(rs2) = 0
    BY <1>4, <2>6, SMTT(20)
  <2>8. rs2 = <<>>
    BY <1>4, <2>7, SMTT(20)
  <2>9. \A j \in 1 .. Len(rs2) : rs2[j] = Tok(i, k, n + m + j)
    BY <2>7, SMTT(20)
  <2> QED BY <1>1, <1>3, <1>7, <1>8, <2>1, <2>6, <2>8, <2>9 DEF Laid, n, m
<1>9. CASE ~ (t.kind = "huge" /\ t.part = "data")
  <2>1. w2 = Append(w, t)
    BY <1>3, <1>9
  <2>2. Len(w2) = m + 1 /\ w2[m + 1] = t /\ \A j \in 1 .. m : w2[j] = w[j]
    BY <2>1, SMTT(20) DEF m
  <2>3. ~ Leftover(<<t>>)
    BY <1>9, LeftoverToken
  <2>4. n + (m + 1) + (l - 1) = Len(Parts[k])
    BY <1>1, <1>2, SMTT(20)
  <2>5. \A j \in 1 .. m + 1 : w2[j] = Tok(i, k, n + j) /\ ~ Leftover(<<w2[j]>>)
    <3> SUFFICES ASSUME NEW j \in 1 .. m + 1
                 PROVE  w2[j] = Tok(i, k, n + j) /\ ~ Leftover(<<w2[j]>>)
      OBVIOUS
    <3>1. CASE j \in 1 .. m
      BY <1>1, <2>2, <3>1
    <3>2. CASE j = m + 1
      <4>1. n \in Nat /\ m \in Nat
        BY <1>1
      <4>2. n + j = n + m + 1
        BY <3>2, <4>1, SMTT(20)
      <4> QED BY <1>5, <2>2, <2>3, <3>2, <4>2
    <3> QED BY <1>1, <3>1, <3>2, SMTT(20)
  <2>6. \A j \in 1 .. l - 1 : rs2[j] = Tok(i, k, n + (m + 1) + j)
    <3>1. \A j \in 1 .. l - 1 : n + (m + 1) + j = n + m + (j + 1)
      BY <1>1, SMTT(20)
    <3> QED BY <1>6, <3>1
  <2> QED BY <1>1, <1>3, <1>4, <2>2, <2>4, <2>5, <2>6 DEF Laid, n
<1> QED BY <1>8, <1>9

(* The server reads some tokens.                                           *)
LEMMA LaidMoved ==
  ASSUME NEW b \in Seq(TokenType), NEW w \in Seq(TokenType), NEW rs \in Seq(TokenType),
         NEW b2 \in Seq(TokenType), NEW w2 \in Seq(TokenType),
         NEW i, NEW k \in Kinds, Laid(b, w, rs, i, k), Moved(b, w, b2, w2)
  PROVE  Laid(b2, w2, rs, i, k)
<1> DEFINE n == Len(b)
           m == Len(w)
           l == Len(rs)
           n2 == Len(b2)
           m2 == Len(w2)
<1>1. PICK z \in 0 .. m :
        /\ n2 = n + z /\ m2 = m - z
        /\ \A j \in 1 .. n : b2[j] = b[j]
        /\ \A j \in 1 .. z : b2[n + j] = w[j]
        /\ \A j \in 1 .. m2 : w2[j] = w[z + j]
  BY DEF Moved
<1>2. n \in Nat /\ m \in Nat /\ l \in Nat /\ n2 \in Nat /\ m2 \in Nat
  BY SMTT(20)
<1>3. /\ \A j \in 1 .. n : b[j] = Tok(i, k, j)
      /\ \A j \in 1 .. m : w[j] = Tok(i, k, n + j) /\ ~ Leftover(<<w[j]>>)
      /\ \A j \in 1 .. l : rs[j] = Tok(i, k, n + m + j)
      /\ n + m + l = Len(Parts[k]) \/ (k = "huge" /\ rs = <<>> /\ n + m = 2)
  BY DEF Laid
<1> HIDE DEF n, m, l, n2, m2
<1>4. z \in Nat /\ z <= m
  BY <1>1, <1>2, SMTT(20)
<1>5. n2 + m2 = n + m
  BY <1>1, <1>2, <1>4, SMTT(20)
<1>6. \A j \in 1 .. n2 : b2[j] = Tok(i, k, j)
  <2> SUFFICES ASSUME NEW j \in 1 .. n2 PROVE b2[j] = Tok(i, k, j)
    OBVIOUS
  <2>1. CASE j \in 1 .. n
    BY <1>1, <1>3, <2>1
  <2>2. CASE j \notin 1 .. n
    <3>1. PICK y : y = j - n
      OBVIOUS
    <3>2. j \in Nat /\ j > n /\ j <= n + z
      BY <1>1, <1>2, <1>4, <2>2, SMTT(20)
    <3>3. y \in 1 .. z /\ y \in 1 .. m /\ j = n + y
      BY <1>2, <1>4, <3>1, <3>2, SMTT(20)
    <3> QED BY <1>1, <1>3, <3>3
  <2> QED BY <2>1, <2>2
<1>7. \A j \in 1 .. m2 : w2[j] = Tok(i, k, n2 + j) /\ ~ Leftover(<<w2[j]>>)
  <2> SUFFICES ASSUME NEW j \in 1 .. m2 PROVE w2[j] = Tok(i, k, n2 + j) /\ ~ Leftover(<<w2[j]>>)
    OBVIOUS
  <2>1. z + j \in 1 .. m /\ n + (z + j) = n2 + j
    BY <1>1, <1>2, <1>4, SMTT(20)
  <2>2. w2[j] = w[z + j]
    BY <1>1
  <2> QED BY <1>3, <2>1, <2>2
<1>8. \A j \in 1 .. l : rs[j] = Tok(i, k, n2 + m2 + j)
  BY <1>3, <1>5
<1>9. n2 + m2 + l = Len(Parts[k]) \/ (k = "huge" /\ rs = <<>> /\ n2 + m2 = 2)
  BY <1>3, <1>5
<1> QED BY <1>6, <1>7, <1>8, <1>9 DEF Laid, n, m, l, n2, m2

(* When a request has arrived nothing of it is on the wire, and the client *)
(* has at most the content of a refused POST left.                         *)
LEMMA Whole ==
  ASSUME limit \in MaxRequestSizes, NEW c \in Sessions, Buffered(c, limit), Taken(c, limit),
         NEW w \in Seq(TokenType), NEW rs \in Seq(TokenType),
         NEW i, NEW k \in Kinds, Laid(c.body, w, rs, i, k)
  PROVE  c.body[1].req = i /\ w = <<>> /\ Leftover(rs)
<1> DEFINE n == Len(c.body)
           m == Len(w)
           l == Len(rs)
<1>0. c.body \in Seq(TokenType) /\ c.pos \in Nat /\ c.size \in Nat
  BY DEF Sessions
<1>1. /\ n \in Nat /\ m \in Nat /\ l \in Nat /\ Len(Parts[k]) \in Nat
      /\ n + m + l <= Len(Parts[k])
      /\ n + m + l = Len(Parts[k]) \/ (k = "huge" /\ rs = <<>> /\ n + m = 2)
      /\ \A j \in 1 .. n : c.body[j] = Tok(i, k, j)
      /\ \A j \in 1 .. m : w[j] = Tok(i, k, n + j) /\ ~ Leftover(<<w[j]>>)
      /\ \A j \in 1 .. l : rs[j] = Tok(i, k, n + m + j)
  <2>1. /\ n \in Nat /\ m \in Nat /\ l \in Nat /\ Len(Parts[k]) \in Nat
        /\ n + m + l <= Len(Parts[k])
    BY <1>0, LaidFacts, Zenon
  <2> QED BY <2>1, Zenon DEF Laid
<1>2. /\ (m = 0 => w = <<>>) /\ (l = 0 => rs = <<>>)
  BY SMTT(20)
<1>3. c.pos \in 1 .. n /\ c.body[c.pos].part = "end" /\ n <= c.size /\ c.size < limit
  BY <1>0, SMTT(20) DEF Buffered, Taken
<1> HIDE DEF n, m, l
<1>4. Parts[k][c.pos] = "end" /\ c.body[1] = Tok(i, k, 1) /\ c.body[c.pos] = Tok(i, k, c.pos)
  <2>1. 1 \in 1 .. n
    BY <1>1, <1>3, SMTT(20)
  <2>2. c.body[c.pos] = Tok(i, k, c.pos) /\ c.body[1] = Tok(i, k, 1)
    BY <1>1, <1>3, <2>1
  <2> QED BY <1>3, <2>2, TokFields, SMTT(20)
<1>5. c.body[1].req = i /\ c.body[1].kind = k /\ c.body[1].part = "head"
  BY <1>4, TokFields, PartsFacts, SMTT(20)
<1>6. c.pos \in 1 .. Len(Parts[k])
  BY <1>1, <1>3, SMTT(20)
<1>7. limit \in Nat /\ limit <= Oversize /\ limit > 1 /\ Oversize \in Nat
  BY Sizes, SMTT(20)
<1>8. k # "long"
  <2> SUFFICES ASSUME k = "long" PROVE FALSE
    OBVIOUS
  <2>1. c.pos = Oversize + 1
    BY <1>4, <1>6, PartsFacts, SMTT(20)
  <2> QED BY <1>0, <1>1, <1>3, <1>7, <2>1, SMTT(20)
<1>9. c.pos = 2 /\ n >= 2
  <2>1. c.pos = 2
    BY <1>4, <1>6, <1>8, PartsFacts
  <2> QED BY <1>1, <1>3, <2>1, SMTT(20)
<1>10. CASE k \notin {"post", "huge"}
  <2>1. Len(Parts[k]) = 2
    BY <1>8, <1>10, PartsFacts
  <2>2. m = 0 /\ l = 0
    BY <1>1, <1>9, <2>1, SMTT(20)
  <2> QED BY <1>2, <1>5, <2>2 DEF Leftover
<1>11. CASE k \in {"post", "huge"}
  <2>1. Len(Parts[k]) = 3 /\ Parts[k][3] = "data"
    <3>1. Len(Parts[k]) = 3
      BY <1>8, <1>11, PartsFacts
    <3>2. 3 \in 1 .. 3
      BY SMTT(20)
    <3> QED BY <1>8, <3>1, <3>2, PartsFacts, SMTT(20)
  <2>2. CASE k = "post"
    <3>1. c.method = "post"
      <4>1. Method(c.body[1]) = "post"
        BY <1>5, <2>2 DEF Method, Posts, ContentLength
      <4> QED BY <1>9, <4>1, SMTT(20) DEF Buffered
    <3>2. ContentLength[c.body[1].kind] = 1
      BY <1>5, <2>2, SMTT(20) DEF ContentLength
    <3>3. IF c.pos = Len(c.body) THEN 1 <= 0 ELSE Len(c.body) - c.pos >= 1
      <4>1. ~ (1 >= limit)
        BY <1>7, SMTT(20)
      <4> QED BY <3>1, <3>2, <4>1 DEF Taken
    <3>4. n >= 3
      BY <1>1, <1>9, <3>3, SMTT(20) DEF n
    <3>5. m = 0 /\ l = 0
      BY <1>1, <2>1, <3>4, SMTT(20)
    <3> QED BY <1>2, <1>5, <3>5 DEF Leftover
  <2>3. CASE k = "huge"
    <3>1. m = 0
      <4> SUFFICES ASSUME m # 0 PROVE FALSE
        OBVIOUS
      <4>1. n = 2 /\ 1 \in 1 .. m
        BY <1>1, <1>9, <2>1, SMTT(20)
      <4>2. w[1] = Tok(i, k, 3) /\ ~ Leftover(<<w[1]>>)
        BY <1>1, <4>1, SMTT(20)
      <4> QED BY <2>1, <2>3, <4>2, TokFields, LeftoverToken, SMTT(20)
    <3>2. CASE l = 0
      BY <1>2, <1>5, <3>1, <3>2 DEF Leftover
    <3>3. CASE l # 0
      <4>1. l = 1 /\ n + m + 1 = 3
        BY <1>1, <1>9, <2>1, <3>3, SMTT(20)
      <4>2. rs[1] = Tok(i, k, 3)
        <5>1. 1 \in 1 .. l
          BY <4>1, SMTT(20)
        <5> QED BY <1>1, <4>1, <5>1
      <4>3. rs[1].kind = "huge" /\ rs[1].part = "data"
        BY <2>1, <2>3, <4>2, TokFields, SMTT(20)
      <4> QED BY <1>2, <1>5, <3>1, <4>1, <4>3 DEF Leftover, l
    <3> QED BY <3>2, <3>3
  <2> QED BY <1>11, <2>2, <2>3
<1> QED BY <1>10, <1>11

(* The worker is at the request that follows the ones of the counter.      *)
LEMMA AtRequestTurn ==
  ASSUME CoreInv, Lone, Waits, NEW i, AtRequest(i)
  PROVE  /\ i \in Ids /\ i = Counter(cs) + 1 /\ i <= MaxKeepAlive + 1 /\ ended[i] = 0
         /\ Unanswered(i) => replies[i] = 0
         /\ mode \in Alive
<1>1. Counter(cs) \in Nat /\ MaxKeepAlive \in Nat
  BY WaitsFacts, Sizes
<1>2. cs = NoSession \/ cs \in Sessions
  BY CoreFacts
<1>3. CASE mode = "read" /\ Body(cs) # <<>> /\ i = Body(cs)[1].req
  <2>1. nsent = Counter(cs) + 1 /\ OnItsWay(Body(cs), wire, rest, nsent)
        /\ \A j \in Ids : j = Counter(cs) + 1 => replies[j] = 0
    BY <1>3, WaitsFacts DEF Waiting
  <2>2. PICK k \in Kinds : Laid(Body(cs), wire, rest, nsent, k)
    BY <2>1 DEF OnItsWay
  <2>3. Body(cs) \in Seq(TokenType) /\ 1 \in 1 .. Len(Body(cs)) /\ Body(cs)[1] \in TokenType
    BY <1>2, <1>3, BodySeq, SMTT(20)
  <2>4. i = nsent /\ i \in Ids
    <3>1. Body(cs)[1] = Tok(nsent, k, 1)
      BY <2>2, <2>3 DEF Laid
    <3> QED BY <1>3, <2>3, <3>1, TokFields, SMTT(20) DEF TokenType
  <2>5. mode \in Alive
    BY <1>3 DEF Alive
  <2>6. replies[i] = 0
    BY <2>1, <2>4
  <2>7. ended[i] = 0
    <3>1. ended[i] > 0 => replies[i] > 0
      BY <2>4, <2>5 DEF CoreInv, Core, Reported
    <3>2. ended[i] \in 0 .. 2
      BY <2>4, CoreFacts
    <3> QED BY <2>6, <3>1, <3>2, SMTT(20)
  <2>8. i <= MaxKeepAlive + 1
    <3>1. Counter(cs) <= MaxKeepAlive
      BY <2>5, WaitsFacts
    <3> QED BY <1>1, <2>1, <2>4, <3>1, SMTT(20)
  <2> QED BY <2>1, <2>4, <2>5, <2>6, <2>7, <2>8
<1>4. CASE mode \in Serving /\ node \in 1 .. Len(cs.list) /\ i = cs.list[node].req
  <2>1. node = 1 /\ cs.list # <<>> /\ i = cs.body[1].req
    BY <1>4, OnlyRequest
  <2>2. cs \in Sessions /\ Counter(cs) = cs.counter /\ mode \in Alive
    BY <1>4, CoreFacts, WaitsFacts DEF Serving, Alive
  <2>3. i \in Ids
    <3>1. cs.list \in Seq(SrType)
      BY <2>2 DEF Sessions
    <3>2. cs.list[node] \in SrType
      BY <1>4, <3>1, SMTT(20)
    <3> QED BY <1>4, <3>2 DEF SrType
  <2>4. Answering(cs, node, wire, rest, nsent, replies, ended)
    BY <1>4, WaitsFacts
  <2>5. i = cs.counter + 1 /\ ended[i] = 0 /\ (cs.list[1].bts < 0 => replies[i] = 0)
    BY <2>1, <2>4, SMTT(20) DEF Answering
  <2>6. Unanswered(i) => cs.list[1].bts < 0
    BY <1>4, <2>1 DEF Unanswered
  <2>7. i <= MaxKeepAlive + 1
    <3>1. Counter(cs) <= MaxKeepAlive
      BY <2>2, WaitsFacts
    <3> QED BY <1>1, <2>2, <2>5, <3>1, SMTT(20)
  <2> QED BY <2>2, <2>3, <2>5, <2>6, <2>7
<1> QED BY <1>3, <1>4 DEF AtRequest

(* A client that waits for its answers, one shape of step at a time: the   *)
(* client;                                                                 *)
LEMMA ClientKeepsWaits ==
  ASSUME CoreInv, BegunInv, Lone, Waits, client = "patient", ClientMoves
  PROVE  Waits'
<1>1. UNCHANGED <<mode, cs, node, replies, ended>>
  BY DEF ClientMoves, ClientRequest, ClientSend, ClientClose, outVars
<1>2. nsent \in Nat /\ wire \in Seq(TokenType) /\ rest \in Seq(TokenType) /\ mode \in Alive
      /\ (cs = NoSession \/ cs \in Sessions) /\ Counter(cs) \in Nat
  <2>1. nsent \in Nat
    BY Sizes, SMTT(20) DEF CoreInv, NetTypes
  <2>2. mode \in Alive
    BY DEF ClientMoves, ClientRequest, ClientSend, ClientClose, Open, Alive
  <2> QED BY <2>1, <2>2, CoreFacts, WaitsFacts
<1>3. /\ \A i \in Ids : ended[i] <= 1 /\ (replies[i] > 0 => i <= MaxKeepAlive + 1)
      /\ InTurn(cs, replies)
  BY <1>2 DEF Waits, Patient
<1>4. ASSUME mode \in {"new", "read"} => Waiting(cs, wire', rest', nsent', replies),
             mode \in Serving => Answering(cs, node, wire', rest', nsent', replies, ended)
      PROVE  Waits'
  BY <1>1, <1>3, <1>4 DEF Waits, Patient
<1>5. CASE ClientRequest
  <2>1. PICK k \in Kinds : rest' = Tokens(nsent + 1, k)
    BY <1>5 DEF ClientRequest
  <2>2. nsent' = nsent + 1 /\ wire' = wire /\ nsent + 1 \in Ids /\ rest = <<>>
    BY <1>2, <1>5, Sizes, SMTT(20) DEF ClientRequest, Ids
  <2>3. nsent > 0 => nsent \in Ids /\ replies[nsent] > 0 /\ ~ Sending(nsent)
    <3>1. nsent > 0 => nsent \in 1 .. nsent
      BY <1>2, SMTT(20)
    <3>2. nsent > 0 => nsent \in Ids
      BY <1>2, Sizes, SMTT(20) DEF CoreInv, NetTypes, Ids
    <3> QED BY <1>5, <3>1, <3>2 DEF ClientRequest, Complete
  <2>4. OnItsWay(<<>>, <<>>, rest', nsent + 1)
    <3>1. /\ Len(rest') = Len(Parts[k]) /\ Len(Parts[k]) \in Nat
          /\ \A j \in 1 .. Len(rest') : rest'[j] = Tok(nsent + 1, k, j)
      BY <2>1, <2>2, TokensFacts, PartsFacts, Sizes, SMTT(20)
    <3>2. PICK e : e = <<>>
      OBVIOUS
    <3>3. Len(e) = 0 /\ Len(e) + Len(e) + Len(rest') = Len(Parts[k])
      BY <3>1, <3>2, SMTT(20)
    <3>4. \A j \in 1 .. Len(rest') : Len(e) + Len(e) + j = j
      BY <3>1, <3>3, SMTT(20)
    <3>5. Laid(e, e, rest', nsent + 1, k)
      BY <3>1, <3>3, <3>4, SMTT(20) DEF Laid
    <3> QED BY <3>2, <3>5 DEF OnItsWay
  <2>5. ASSUME mode \in {"new", "read"} PROVE Waiting(cs, wire', rest', nsent', replies)
    <3>1. Waiting(cs, wire, rest, nsent, replies)
      BY <2>5, WaitsFacts
    <3>2. nsent # Counter(cs) + 1
      <4> SUFFICES ASSUME nsent = Counter(cs) + 1 PROVE FALSE
        OBVIOUS
      <4>1. nsent > 0
        BY <1>2, SMTT(20)
      <4>2. replies[nsent] = 0
        BY <2>3, <3>1, <4>1 DEF Waiting
      <4> QED BY <2>3, <4>1, <4>2, SMTT(20)
    <3>3. nsent = Counter(cs) /\ Body(cs) = <<>> /\ wire = <<>>
      BY <3>1, <3>2 DEF Waiting
    <3> QED BY <2>2, <2>4, <3>1, <3>3 DEF Waiting
  <2>6. ASSUME mode \in Serving PROVE Answering(cs, node, wire', rest', nsent', replies, ended)
    <3>1. Answering(cs, node, wire, rest, nsent, replies, ended)
      BY <2>6, WaitsFacts
    <3>2. cs \in Sessions /\ Counter(cs) = cs.counter /\ cs.counter \in Nat
      BY <1>2, <2>6, CoreFacts, WaitsFacts
    <3>3. cs.body[1].req = cs.counter + 1
      BY <3>1 DEF Answering
    <3>4. nsent # cs.counter + 1 + 1
      <4> SUFFICES ASSUME nsent = cs.counter + 1 + 1 PROVE FALSE
        OBVIOUS
      <4>1. nsent > 0 /\ nsent > Counter(cs) + 1
        BY <1>2, <3>2, SMTT(20)
      <4>2. replies[nsent] = 0
        BY <1>3, <2>3, <4>1 DEF InTurn
      <4> QED BY <2>3, <4>1, <4>2, SMTT(20)
    <3>5. nsent = cs.counter + 1 /\ wire = <<>>
      BY <3>1, <3>4 DEF Answering
    <3>6. nsent > 0 /\ nsent \in Ids /\ replies[nsent] > 0 /\ ~ Sending(nsent)
      BY <1>2, <2>3, <3>2, <3>5, SMTT(20)
    <3>7. cs.list # <<>> /\ cs.list[1].req = nsent
      <4>1. cs.list # <<>>
        BY <3>1, <3>5, <3>6, SMTT(20) DEF Answering
      <4> QED BY <2>6, <3>3, <3>5, <4>1, LoneFacts
    <3>8. cs.list \in Seq(SrType) /\ Len(cs.list) = 1 /\ 1 \in DOMAIN cs.list /\ cs.list[1] \in SrType
      <4>1. cs.list \in Seq(SrType) /\ Len(cs.list) <= 1 /\ Len(cs.list) \in Nat
        BY <2>6, <3>2, LoneFacts, SMTT(20) DEF Sessions
      <4>2. Len(cs.list) = 1
        <5>1. Len(cs.list) # 0
          BY <3>7, <4>1, SMTT(20)
        <5>2. \A m \in Nat : m <= 1 /\ m # 0 => m = 1
          BY SMTT(20)
        <5> QED BY <4>1, <5>1, <5>2
      <4> QED BY <4>1, <4>2, SMTT(20)
    <3>9. cs.list[1].bts \in Int /\ cs.list[1].bts <= 0
      <4>1. cs.list[1].bts \in Int
        BY <3>8, Sizes, SMTT(20) DEF SrType
      <4>2. ~ (cs.list[1].bts > 0)
        BY <3>2, <3>6, <3>7, <3>8, NoSessionIsNone DEF Sending
      <4> QED BY <4>1, <4>2, SMTT(20)
    <3>10. node = 2
      <4>1. node \in Nat /\ (node > 0 => node <= 2)
        <5>1. node > 0 => node <= Len(cs.list) + 1
          BY <2>6 DEF CoreInv, Core, InStep
        <5> QED BY <3>8, <5>1, CoreFacts, SMTT(20)
      <4>2. cs.list[1].bts < 0 => ~ (node <= 1)
        BY <3>1, <3>5, <3>6, <3>7, SMTT(20) DEF Answering
      <4>3. cs.list[1].bts = 0 => node = 2
        BY <3>1, <3>7 DEF Answering
      <4> QED BY <3>9, <4>1, <4>2, <4>3, SMTT(20)
    <3>11. PICK i : i = cs.counter + 1
      OBVIOUS
    <3>12. nsent' = i + 1 /\ OnItsWay(<<>>, wire', rest', nsent')
      BY <2>2, <2>4, <3>5, <3>11
    <3>13. cs.body[1].req = i /\ (node <= 1 => ended[i] = 0) /\ (node > 1 => replies[i] > 0)
      BY <3>1, <3>11 DEF Answering
    <3> QED BY <3>7, <3>9, <3>10, <3>11, <3>12, <3>13, SMTT(20) DEF Answering
  <2> QED BY <1>4, <2>5, <2>6
<1>6. CASE ClientSend
  <2>1. /\ rest # <<>> /\ rest' = Tail(rest) /\ nsent' = nsent
        /\ IF Head(rest).kind = "huge" /\ Head(rest).part = "data" THEN wire' = wire
           ELSE wire' = Append(wire, Head(rest))
    BY <1>6 DEF ClientSend
  <2>2. ASSUME wire = <<>>, Leftover(rest) PROVE wire' = <<>> /\ Leftover(rest')
    <3>1. Len(rest) = 1 /\ rest[1].kind = "huge" /\ rest[1].part = "data"
      BY <2>1, <2>2 DEF Leftover
    <3>2. Head(rest) = rest[1] /\ Tail(rest) = <<>>
      <4>1. Head(rest) = rest[1] /\ Tail(rest) \in Seq(TokenType) /\ Len(Tail(rest)) = Len(rest) - 1
        BY <1>2, <2>1, SMTT(20)
      <4>2. Len(Tail(rest)) = 0
        BY <3>1, <4>1, SMTT(20)
      <4>3. \A s \in Seq(TokenType) : Len(s) = 0 => s = <<>>
        BY SMTT(20)
      <4> QED BY <4>1, <4>2, <4>3, Zenon
    <3> QED BY <2>1, <2>2, <3>1, <3>2 DEF Leftover
  <2>3. ASSUME NEW b \in Seq(TokenType), NEW i, OnItsWay(b, wire, rest, i)
        PROVE  OnItsWay(b, wire', rest', i)
    <3>1. PICK k \in Kinds : Laid(b, wire, rest, i, k)
      BY <2>3 DEF OnItsWay
    <3>2. PICK w2 : w2 = wire'
      OBVIOUS
    <3>3. Laid(b, w2, Tail(rest), i, k)
      BY <1>2, <2>1, <2>3, <3>1, <3>2, LaidSend
    <3> QED BY <2>1, <3>2, <3>3 DEF OnItsWay
  <2>4. mode \in {"new", "read"} => Waiting(cs, wire', rest', nsent', replies)
    <3>1. Body(cs) \in Seq(TokenType)
      BY <1>2, BodySeq
    <3> QED BY <2>1, <2>2, <2>3, <3>1, WaitsFacts DEF Waiting
  <2>5. mode \in Serving => Answering(cs, node, wire', rest', nsent', replies, ended)
    <3>1. <<>> \in Seq(TokenType)
      BY SMTT(20)
    <3> QED BY <2>1, <2>2, <2>3, <3>1, WaitsFacts DEF Answering
  <2> QED BY <1>4, <2>4, <2>5
<1>7. CASE ClientClose
  BY <1>1, <1>7 DEF ClientClose, Waits
<1> QED BY <1>5, <1>6, <1>7 DEF ClientMoves

(* the buffer is examined;                                                 *)
LEMMA ReadingKeepsWaits == ASSUME CoreInv, Waits, Reading PROVE Waits'
<1>1. /\ mode = "read" /\ mode' \in {"read", "write"} /\ node' = 0
      /\ UNCHANGED <<limit, nsent, rest, replies, ended>>
      /\ cs' \in Sessions /\ Buffered(cs', limit) /\ cs'.list = <<>> /\ cs'.counter = Counter(cs)
      /\ mode' = "write" => Taken(cs', limit)
      /\ wire' \in Seq(TokenType) /\ Moved(Body(cs), wire, cs'.body, wire')
  BY DEF Reading
<1>2. cs'.body \in Seq(TokenType) /\ Body(cs') = cs'.body /\ Body(cs) \in Seq(TokenType)
      /\ wire \in Seq(TokenType) /\ rest \in Seq(TokenType) /\ limit \in MaxRequestSizes
  BY <1>1, CoreFacts, BodySeq
<1>3. Counter(cs') = Counter(cs) /\ cs'.counter = Counter(cs) /\ Counter(cs) \in Nat
  BY <1>1, WaitsFacts DEF Counter
<1>4. mode \in Alive /\ mode' \in Alive
  BY <1>1 DEF Alive
<1>5. /\ \A i \in Ids : ended[i] <= 1 /\ (replies[i] > 0 => i <= MaxKeepAlive + 1)
      /\ InTurn(cs, replies) /\ Waiting(cs, wire, rest, nsent, replies)
  BY <1>1, <1>4 DEF Waits, Patient
<1>6. InTurn(cs', replies)
  BY <1>3, <1>5 DEF InTurn
<1>7. \A i \in Ids : i = Counter(cs) + 1 => replies[i] = 0
  BY <1>5 DEF Waiting
<1>8. CASE nsent = Counter(cs) /\ Body(cs) = <<>> /\ wire = <<>> /\ Leftover(rest)
  <2>1. Len(cs'.body) = 0 /\ Len(wire') = 0
    <3>1. PICK k \in 0 .. Len(wire) : Len(cs'.body) = Len(Body(cs)) + k /\ Len(wire') = Len(wire) - k
      BY <1>1 DEF Moved
    <3>2. Len(wire) = 0 /\ Len(Body(cs)) = 0
      BY <1>8
    <3>3. k = 0
      BY <3>1, <3>2, SMTT(20)
    <3> QED BY <3>1, <3>2, <3>3, SMTT(20)
  <2>2. cs'.body = <<>> /\ wire' = <<>>
    BY <1>1, <1>2, <2>1, SMTT(20)
  <2>3. mode' = "read"
    <3>1. cs'.pos \in Nat /\ (cs'.pos > 0 => cs'.pos <= 0)
      BY <1>1, <2>1 DEF Buffered, Sessions
    <3>2. ~ (cs'.pos > 0)
      BY <3>1, SMTT(20)
    <3> QED BY <1>1, <3>2 DEF Taken
  <2>4. Waiting(cs', wire', rest', nsent', replies)
    BY <1>1, <1>2, <1>3, <1>7, <1>8, <2>2 DEF Waiting
  <2> QED BY <1>1, <1>5, <1>6, <2>3, <2>4 DEF Waits, Patient, Serving
<1>9. CASE nsent = Counter(cs) + 1 /\ OnItsWay(Body(cs), wire, rest, nsent)
  <2>1. PICK k \in Kinds : Laid(Body(cs), wire, rest, nsent, k)
    BY <1>9 DEF OnItsWay
  <2>2. Laid(cs'.body, wire', rest, nsent, k)
    <3>1. PICK b, b2, w2 : b = Body(cs) /\ b2 = cs'.body /\ w2 = wire'
      OBVIOUS
    <3>2. Laid(b2, w2, rest, nsent, k)
      BY <1>1, <1>2, <2>1, <3>1, LaidMoved
    <3> QED BY <3>1, <3>2
  <2>3. CASE mode' = "read"
    <3>1. Waiting(cs', wire', rest', nsent', replies)
      BY <1>1, <1>2, <1>3, <1>7, <1>9, <2>2 DEF Waiting, OnItsWay
    <3> QED BY <1>1, <1>5, <1>6, <2>3, <3>1 DEF Waits, Patient, Serving
  <2>4. CASE mode' = "write"
    <3>1. cs'.body[1].req = nsent /\ wire' = <<>> /\ Leftover(rest)
      <4>1. PICK c, w2 : c = cs' /\ w2 = wire'
        OBVIOUS
      <4>2. /\ c \in Sessions /\ Buffered(c, limit) /\ Taken(c, limit) /\ w2 \in Seq(TokenType)
            /\ Laid(c.body, w2, rest, nsent, k)
        BY <1>1, <2>2, <2>4, <4>1
      <4>3. c.body[1].req = nsent /\ w2 = <<>> /\ Leftover(rest)
        BY <1>2, <4>2, Whole
      <4> QED BY <4>1, <4>3
    <3>2. nsent \in Ids
      <4>1. nsent \in 0 .. Requests /\ nsent > 0
        BY <1>3, <1>9, SMTT(20) DEF CoreInv, NetTypes
      <4> QED BY <4>1, Sizes, SMTT(20) DEF Ids
    <3>3. replies[nsent] = 0 /\ ended[nsent] = 0
      <4>1. replies[nsent] = 0
        BY <1>7, <1>9, <3>2
      <4>2. ended[nsent] > 0 => replies[nsent] > 0
        BY <1>4, <3>2 DEF CoreInv, Core, Reported
      <4>3. ended[nsent] \in 0 .. 2
        BY <3>2, CoreFacts
      <4> QED BY <4>1, <4>2, <4>3, SMTT(20)
    <3>4. nsent = cs'.counter + 1
      BY <1>3, <1>9
    <3>5. Answering(cs', node', wire', rest', nsent', replies', ended')
      BY <1>1, <3>1, <3>3, <3>4, SMTT(20) DEF Answering
    <3> QED BY <1>1, <1>5, <1>6, <2>4, <3>5 DEF Waits, Patient
  <2> QED BY <1>1, <2>3, <2>4
<1> QED BY <1>5, <1>8, <1>9 DEF Waiting

(* the list is built;                                                      *)
LEMMA ParsingKeepsWaits == ASSUME CoreInv, Lone, Waits, Parsing PROVE Waits'
<1>1. /\ mode = "write" /\ mode' = "write" /\ node = 0 /\ node' = 1
      /\ UNCHANGED <<nsent, rest, wire, replies, ended>>
  BY DEF Parsing, netVars, outVars
<1>2. PICK l \in Seq(SrType) : /\ cs' = PutList(cs, l) /\ l # <<>>
                               /\ l = cs.list \/ (cs.list = <<>> /\ Fresh(cs, l))
  BY DEF Parsing
<1>3. cs \in Sessions /\ mode \in Alive /\ mode \in Serving
  BY <1>1, CoreFacts DEF Serving, Alive
<1>4. cs' \in Sessions /\ cs'.list = l /\ cs'.body = cs.body /\ cs'.counter = cs.counter
  BY <1>2, <1>3, PutListFields
<1>5. /\ \A i \in Ids : ended[i] <= 1 /\ (replies[i] > 0 => i <= MaxKeepAlive + 1)
      /\ InTurn(cs, replies) /\ Answering(cs, node, wire, rest, nsent, replies, ended)
  BY <1>3 DEF Waits, Patient
<1>6. InTurn(cs', replies)
  BY <1>3, <1>4, <1>5 DEF InTurn, Counter
<1>7. PICK i : i = cs.counter + 1
  OBVIOUS
<1>8. /\ cs.body[1].req = i /\ nsent = i /\ wire = <<>> /\ Leftover(rest) /\ ended[i] = 0
      /\ cs.list = <<>> => replies[i] = 0
      /\ cs.list # <<>> => (cs.list[1].bts < 0 => replies[i] = 0) /\ cs.list[1].bts # 0
  BY <1>1, <1>5, <1>7, SMTT(20) DEF Answering
<1>9. (l[1].bts < 0 => replies[i] = 0) /\ l[1].bts # 0
  <2>1. 1 \in DOMAIN l
    BY <1>2, SMTT(20)
  <2> QED BY <1>2, <1>8, <2>1, SMTT(20) DEF Fresh
<1>10. Answering(cs', node', wire', rest', nsent', replies', ended')
  BY <1>1, <1>2, <1>4, <1>7, <1>8, <1>9, SMTT(20) DEF Answering
<1> QED BY <1>1, <1>5, <1>6, <1>10 DEF Waits, Patient

(* the request is served;                                                  *)
LEMMA ServeKeepsWaits == ASSUME CoreInv, Lone, Waits, Serve PROVE Waits'
<1>1. /\ mode = "write" /\ mode' \in Serving /\ node \in 1 .. Len(cs.list)
      /\ UNCHANGED <<nsent, rest, wire>> /\ cs \in Sessions /\ cs' \in Sessions
      /\ cs'.body = cs.body /\ cs'.counter = cs.counter
      /\ Len(cs'.list) = Len(cs.list) /\ cs.list \in Seq(SrType) /\ cs'.list \in Seq(SrType)
  BY ServeFacts
<1>2. PICK sr \in SrType : Served(sr) /\ sr.req \in Ids /\ cs'.list[node] = sr
  BY ServeFacts
<1>3. mode \in Serving /\ mode \in Alive /\ mode' \notin {"new", "read"}
  BY <1>1 DEF Serving, Alive
<1>4. node = 1 /\ Len(cs.list) = 1 /\ cs.list # <<>> /\ cs.list[1].req = cs.body[1].req
  BY <1>1, <1>3, OnlyRequest
<1>5. /\ \A i \in Ids : ended[i] <= 1 /\ (replies[i] > 0 => i <= MaxKeepAlive + 1)
      /\ InTurn(cs, replies) /\ Answering(cs, node, wire, rest, nsent, replies, ended)
  BY <1>3 DEF Waits, Patient
<1>6. PICK i : i = cs.counter + 1
  OBVIOUS
<1>7. /\ cs.body[1].req = i /\ nsent = i /\ wire = <<>> /\ Leftover(rest) /\ ended[i] = 0
      /\ (cs.list[1].bts < 0 => replies[i] = 0) /\ cs.list[1].bts # 0
  BY <1>4, <1>5, <1>6, SMTT(20) DEF Answering
<1>8. sr.req = i /\ i \in Ids /\ cs'.list[1] = sr /\ cs'.list # <<>>
  BY <1>1, <1>2, <1>4, <1>7, SMTT(20) DEF Served
<1>9. AtRequest(i)
  BY <1>1, <1>3, <1>4, <1>7 DEF AtRequest
<1>10. i <= MaxKeepAlive + 1 /\ cs.counter \in Nat /\ i \in Nat
  BY <1>1, <1>6, <1>9, AtRequestTurn, SMTT(20) DEF Sessions
<1>11. ended \in [Ids -> 0 .. 2] /\ replies \in [Ids -> 0 .. 2]
  BY CoreFacts
<1>12. /\ \A j \in Ids : j # i => ended'[j] = ended[j] /\ replies'[j] = replies[j]
       /\ ended'[i] <= 1 /\ replies' \in [Ids -> 0 .. 2]
       /\ node' <= 1 => ended'[i] = 0
  <2>1. ended' = ended \/ (node' = 2 /\ ended' = More(ended, i))
    BY <1>2, <1>4, <1>8, SMTT(20) DEF Served
  <2>2. replies' = replies \/ Answered(replies, replies', i)
    BY <1>2, <1>8 DEF Served
  <2>3. /\ \A j \in Ids : j # i => replies'[j] = replies[j]
        /\ replies' \in [Ids -> 0 .. 2]
    BY <1>11, <2>2 DEF Answered
  <2>4. /\ More(ended, i)[i] = 1
        /\ \A j \in Ids : j # i => More(ended, i)[j] = ended[j]
    BY <1>7, <1>8, <1>11, MoreFields
  <2> QED BY <1>7, <2>1, <2>3, <2>4, SMTT(20)
<1>13. cs.list[1].bts \in Int /\ sr.bts \in Int
  <2>1. cs.list[1] \in SrType
    BY <1>1, <1>4, SMTT(20)
  <2> QED BY <2>1, Sizes, SMTT(20) DEF SrType
<1>14. node' > 1 => replies'[i] > 0
  <2>1. cs.list[1].bts >= 0 => replies[i] > 0
    <3>1. 1 \in DOMAIN cs.list
      BY <1>1, <1>4, SMTT(20)
    <3> QED BY <1>1, <1>4, <1>7, <3>1 DEF CoreInv, Core, Reported
  <2>2. node' > 1 => mode' = "write"
    BY <1>2, <1>4, SMTT(20) DEF Served
  <2>3. mode' = "write" => (replies' = replies /\ cs.list[1].bts >= 0) \/ replies'[i] > 0
    BY <1>2, <1>4, <1>8 DEF Served, Answered
  <2> QED BY <2>1, <2>2, <2>3
<1>15. (node' <= 1 /\ sr.bts < 0 => replies'[i] = 0) /\ (sr.bts = 0 => node' = 2)
  <2>1. \/ mode' = "sleep" /\ node' = 1 /\ sr.bts < 0 /\ cs.list[1].bts < 0
        \/ node' = 0 /\ sr.bts > 0
        \/ node' = 2
    BY <1>2, <1>4, SMTT(20) DEF Served
  <2>2. mode' = "sleep" => replies' = replies
    BY <1>2 DEF Served
  <2> QED BY <1>7, <1>13, <2>1, <2>2, SMTT(20)
<1>16. Answering(cs', node', wire', rest', nsent', replies', ended')
  BY <1>1, <1>6, <1>7, <1>8, <1>12, <1>14, <1>15 DEF Answering
<1>17. InTurn(cs', replies')
  <2>1. Counter(cs') = Counter(cs) /\ Counter(cs) = cs.counter
    BY <1>1 DEF Counter
  <2>2. \A j \in Ids : (j <= cs.counter => j # i) /\ (j > cs.counter + 1 => j # i)
    BY <1>6, <1>10, Sizes, SMTT(20) DEF Ids
  <2> QED BY <1>5, <1>12, <2>1, <2>2 DEF InTurn
<1>18. \A j \in Ids : ended'[j] <= 1 /\ (replies'[j] > 0 => j <= MaxKeepAlive + 1)
  BY <1>5, <1>10, <1>12
<1> QED BY <1>1, <1>3, <1>16, <1>17, <1>18 DEF Waits, Patient

(* the connection is kept alive, and the counter goes on to the next       *)
(* request;                                                                *)
LEMMA AgainKeepsWaits == ASSUME CoreInv, Lone, Waits, Again PROVE Waits'
<1>1. /\ mode \in Serving /\ mode' = "read" /\ UNCHANGED <<nsent, rest, wire, ended>>
      /\ cs' = KaNext(cs) /\ cs.list # <<>> /\ cs.counter < MaxKeepAlive
      /\ \/ mode = "write" /\ node = Len(cs.list) + 1 /\ replies' = replies
         \/ mode = "sleep" /\ Answered(replies, replies', cs.list[node].req)
  BY DEF Again, netVars
<1>2. cs \in Sessions /\ mode \in Alive
  BY <1>1, CoreFacts DEF Serving, Alive
<1>3. /\ cs' \in Sessions /\ Body(cs') = <<>> /\ Counter(cs') = cs.counter + 1
      /\ cs.counter \in Nat /\ Counter(cs) = cs.counter /\ MaxKeepAlive \in Nat
  <2>1. cs' \in Sessions /\ cs'.body = <<>> /\ cs'.counter = cs.counter + 1
    BY <1>1, <1>2, KaNextFields
  <2>2. cs.counter \in Nat
    BY <1>2 DEF Sessions
  <2> QED BY <1>2, <2>1, <2>2, Sizes DEF Body, Counter
<1>4. /\ \A i \in Ids : ended[i] <= 1 /\ (replies[i] > 0 => i <= MaxKeepAlive + 1)
      /\ InTurn(cs, replies) /\ Answering(cs, node, wire, rest, nsent, replies, ended)
  BY <1>1, <1>2 DEF Waits, Patient
<1>5. PICK i : i = cs.counter + 1
  OBVIOUS
<1>6. /\ cs.body[1].req = i
      /\ \/ nsent = i /\ wire = <<>> /\ Leftover(rest)
         \/ nsent = i + 1 /\ OnItsWay(<<>>, wire, rest, nsent)
      /\ node > 1 => replies[i] > 0
  BY <1>4, <1>5 DEF Answering
<1>7. /\ replies'[i] > 0 /\ \A j \in Ids : j # i => replies'[j] = replies[j]
  <2>1. CASE mode = "write" /\ node = Len(cs.list) + 1 /\ replies' = replies
    <3>1. cs.list \in Seq(SrType)
      BY <1>2 DEF Sessions
    <3>2. node > 1
      BY <1>1, <2>1, <3>1, SMTT(20)
    <3> QED BY <1>6, <2>1, <3>2
  <2>2. CASE mode = "sleep" /\ Answered(replies, replies', cs.list[node].req)
    <3>1. node \in 1 .. Len(cs.list)
      BY <2>2, NodeFacts
    <3>2. cs.list[node].req = i
      BY <1>1, <1>6, <3>1, OnlyRequest
    <3> QED BY <2>2, <3>2 DEF Answered
  <2> QED BY <1>1, <2>1, <2>2
<1>8. i \in Nat /\ i <= MaxKeepAlive /\ \A j \in Ids : j \in Nat
  BY <1>1, <1>3, <1>5, Sizes, SMTT(20) DEF Ids
<1>9. \A j \in Ids : /\ j <= cs.counter => replies[j] > 0
                     /\ j > cs.counter + 1 => replies[j] = 0
  BY <1>3, <1>4 DEF InTurn
<1>10. InTurn(cs', replies')
  <2>1. \A j \in Ids : j <= i => replies'[j] > 0
    BY <1>3, <1>5, <1>7, <1>8, <1>9, SMTT(20)
  <2>2. \A j \in Ids : j > i + 1 => replies'[j] = 0
    BY <1>3, <1>5, <1>7, <1>8, <1>9, SMTT(20)
  <2> QED BY <1>3, <1>5, <1>8, <2>1, <2>2 DEF InTurn
<1>11. Waiting(cs', wire', rest', nsent', replies')
  <2>1. \A j \in Ids : j = i + 1 => replies'[j] = 0
    BY <1>3, <1>5, <1>7, <1>8, <1>9, SMTT(20)
  <2> QED BY <1>1, <1>3, <1>5, <1>6, <2>1 DEF Waiting
<1>12. \A j \in Ids : ended'[j] <= 1 /\ (replies'[j] > 0 => j <= MaxKeepAlive + 1)
  BY <1>1, <1>3, <1>4, <1>7, <1>8, SMTT(20)
<1> QED BY <1>1, <1>10, <1>11, <1>12 DEF Waits, Patient, Serving

(* the connection ends.                                                    *)
LEMMA ClosingKeepsWaits == ASSUME CoreInv, Lone, Waits, Closing PROVE Waits'
<1>1. /\ mode' \in {"closed", "failed"}
      /\ replies' = replies \/ \E i \in Ids : Unanswered(i) /\ Answered(replies, replies', i)
      /\ ended' = ended \/ \E i \in Ids : AtRequest(i) /\ ended' = More(ended, i)
  BY DEF Closing
<1>2. \A i \in Ids : ended[i] <= 1 /\ (replies[i] > 0 => i <= MaxKeepAlive + 1)
  BY WaitsFacts
<1>3. ended \in [Ids -> 0 .. 2]
  BY CoreFacts
<1>4. \A i \in Ids : replies'[i] > 0 => i <= MaxKeepAlive + 1
  <2>1. ASSUME NEW i \in Ids, Unanswered(i), Answered(replies, replies', i)
        PROVE  \A j \in Ids : replies'[j] > 0 => j <= MaxKeepAlive + 1
    <3>1. i <= MaxKeepAlive + 1
      BY <2>1, AtRequestTurn DEF Unanswered
    <3> QED BY <1>2, <2>1, <3>1 DEF Answered
  <2> QED BY <1>1, <1>2, <2>1
<1>5. \A i \in Ids : ended'[i] <= 1
  <2>1. ASSUME NEW i \in Ids, AtRequest(i), ended' = More(ended, i)
        PROVE  \A j \in Ids : ended'[j] <= 1
    <3>1. ended[i] = 0
      BY <2>1, AtRequestTurn
    <3>2. More(ended, i)[i] = 1 /\ \A j \in Ids : j # i => More(ended, i)[j] = ended[j]
      BY <1>3, <3>1, MoreFields
    <3> QED BY <1>2, <2>1, <3>2, SMTT(20)
  <2> QED BY <1>1, <1>2, <2>1
<1>6. mode' \notin Alive /\ mode' \notin {"new", "read"} /\ mode' \notin Serving
  BY <1>1 DEF Alive, Serving
<1> QED BY <1>4, <1>5, <1>6 DEF Waits, Patient

(* Nothing the client or the worker does breaks Patient.                   *)
LEMMA PatientKeeps ==
  ASSUME CoreInv, BegunInv, SingleInv, PatientInv, Next
  PROVE  PatientInv'
<1>1. client' = client
  BY SameClient
<1> SUFFICES ASSUME client = "patient" PROVE Waits'
  BY <1>1 DEF PatientInv, Waits
<1>2. Lone /\ Waits
  BY DEF SingleInv, Lone, PatientInv, Waits
<1>3. ASSUME Register PROVE Waits'
  <2>1. /\ mode = "new" /\ mode' = "read"
        /\ UNCHANGED <<cs, node, wire, rest, nsent, replies, ended>>
    BY <1>3 DEF Register, netVars, outVars
  <2> QED BY <1>2, <2>1 DEF Waits, Patient, Alive, Serving
<1> QED BY <1>2, <1>3, StepShape, ClientKeepsWaits, ReadingKeepsWaits, ParsingKeepsWaits,
           ServeKeepsWaits, AgainKeepsWaits, ClosingKeepsWaits

-----------------------------------------------------------------------------
(* The theorems                                                            *)

(* The invariant holds when the client has connected.                      *)
LEMMA InitHolds == Init => IInv
<1> SUFFICES ASSUME Init PROVE IInv
  OBVIOUS
<1>1. /\ limit \in MaxRequestSizes /\ client \in Clients /\ nsent = 0 /\ rest = <<>> /\ wire = <<>>
      /\ fin = FALSE /\ mode = "new" /\ cs = NoSession /\ node = 0 /\ closes = 0 /\ files = {}
      /\ replies = [i \in Ids |-> 0] /\ ended = [i \in Ids |-> 0]
  BY DEF Init
<1>2. /\ replies \in [Ids -> 0 .. 2] /\ ended \in [Ids -> 0 .. 2]
      /\ \A i \in Ids : replies[i] = 0 /\ ended[i] = 0
  BY <1>1, SMTT(20)
<1>3. cs \notin Sessions /\ Body(cs) = <<>> /\ Counter(cs) = 0
  BY <1>1, NoSessionIsNone DEF Body, Counter
<1>4. CoreInv
  <2>1. NetTypes
    <3>1. rest \in Seq(TokenType) /\ wire \in Seq(TokenType)
      BY <1>1, SMTT(20)
    <3>2. nsent \in 0 .. Requests
      BY <1>1, Sizes, SMTT(20)
    <3> QED BY <1>1, <3>1, <3>2 DEF NetTypes
  <2>2. InStep(mode, cs, node) /\ Refused(mode, cs, files)
    BY <1>1, <1>3 DEF InStep, Refused, Serving
  <2>3. Reported(mode, cs, replies, ended, closes, files)
    BY <1>1, <1>2, <1>3 DEF Reported, Alive
  <2> QED BY <1>1, <1>2, <2>1, <2>2, <2>3, SMTT(20) DEF CoreInv, Core, Phases
<1>5. BegunInv
  BY <1>1, <1>2, <1>3, SMTT(20) DEF BegunInv, Begun, Until
<1>6. SingleInv
  <2>1. OneHeader(mode, cs, wire, rest, nsent, replies)
    BY <1>1, <1>3, Endless DEF OneHeader
  <2>2. OneRequest(mode, cs, node, wire, rest, nsent, files)
    BY <1>1 DEF OneRequest, Serving
  <2> QED BY <1>1, <2>1, <2>2 DEF SingleInv, Single
<1>7. PatientInv
  <2>1. \A i \in Ids : i \in Nat /\ i >= 1
    BY Sizes, SMTT(20) DEF Ids
  <2>2. InTurn(cs, replies)
    BY <1>2, <1>3, <2>1, Sizes, SMTT(20) DEF InTurn
  <2>3. Waiting(cs, wire, rest, nsent, replies)
    BY <1>1, <1>2, <1>3 DEF Waiting, Leftover
  <2> QED BY <1>1, <1>2, <2>2, <2>3, SMTT(20) DEF PatientInv, Patient, Serving
<1> QED BY <1>4, <1>5, <1>6, <1>7 DEF IInv

(* The invariant is about the variables only.                              *)
LEMMA StutterKeeps == IInv /\ UNCHANGED vars => IInv'
<1> SUFFICES ASSUME IInv, UNCHANGED vars PROVE IInv'
  OBVIOUS
<1>1. UNCHANGED <<limit, client, nsent, rest, wire, fin, mode, cs, node, replies, ended, closes, files>>
  BY DEF vars, netVars, outVars
<1>2. CoreInv'
  BY <1>1 DEF IInv, CoreInv, NetTypes
<1>3. BegunInv' /\ SingleInv' /\ PatientInv'
  BY <1>1 DEF IInv, BegunInv, SingleInv, PatientInv
<1> QED BY <1>2, <1>3 DEF IInv

(* In every reachable state the phase, the session, the tokens under way   *)
(* and what was sent and announced agree as IInv says, for every client.   *)
THEOREM InvariantHolds == Spec => []IInv
<1>1. IInv /\ [Next]_vars => IInv'
  <2> SUFFICES ASSUME IInv, Next PROVE IInv'
    BY StutterKeeps
  <2>1. CoreInv /\ BegunInv /\ SingleInv /\ PatientInv
    BY DEF IInv
  <2>2. CoreInv' /\ BegunInv' /\ SingleInv' /\ PatientInv'
    BY <2>1, CoreKeeps, BegunKeeps, SingleKeeps, PatientKeeps
  <2> QED BY <2>2 DEF IInv
<1> QED BY <1>1, InitHolds, PTL DEF Spec

(* Whether there is a session, and what is in it.                          *)
LEMMA SessionOrNone ==
  ASSUME CoreInv
  PROVE  /\ cs = NoSession \/ (cs \in Sessions /\ Buffered(cs, limit))
         /\ cs.alive <=> cs \in Sessions
         /\ Open <=> mode \in Alive
<1>1. cs = NoSession \/ (cs \in Sessions /\ Buffered(cs, limit))
  BY CoreFacts
<1>2. cs.alive <=> cs \in Sessions
  BY <1>1, NoSessionIsNone
<1>3. Open <=> mode \in Alive
  BY DEF Open, Alive
<1> QED BY <1>1, <1>2, <1>3

(* The variables keep their types; the end of the header lies in the       *)
(* buffer, and mk_handler_write() does not leave the list of requests.     *)
THEOREM TypeOKHolds == Spec => []TypeOK
<1>1. IInv => TypeOK
  <2> SUFFICES ASSUME CoreInv PROVE TypeOK
    BY DEF IInv
  <2>1. /\ limit \in MaxRequestSizes /\ client \in Clients /\ nsent \in 0 .. Requests /\ fin \in BOOLEAN
        /\ rest \in Seq(TokenType) /\ wire \in Seq(TokenType)
    BY DEF CoreInv, NetTypes
  <2>2. /\ \A j \in DOMAIN rest : rest[j] \in TokenType
        /\ \A j \in DOMAIN wire : wire[j] \in TokenType
    BY <2>1, SMTT(20)
  <2>3. cs = NoSession \/ IsSession(cs)
    <3> SUFFICES ASSUME cs \in Sessions, Buffered(cs, limit) PROVE IsSession(cs)
      BY SessionOrNone
    <3>1. /\ cs.alive /\ cs.body \in Seq(TokenType) /\ cs.list \in Seq(SrType) /\ cs.pos \in Nat
          /\ cs.method \in {"unknown", "get", "post"} /\ cs.counter \in Nat /\ cs.size \in Nat
          /\ cs.status \in {"incomplete", "completed"}
      BY DEF Sessions, Methods
    <3>2. /\ \A j \in DOMAIN cs.body : cs.body[j] \in TokenType
          /\ \A n \in DOMAIN cs.list : cs.list[n] \in SrType
      BY <3>1, SMTT(20)
    <3>3. cs.pos \in 0 .. Len(cs.body)
      <4>1. Len(cs.body) \in Nat
        BY <3>1, SMTT(20)
      <4> QED BY <3>1, <4>1, SMTT(20) DEF Buffered
    <3> QED BY <3>1, <3>2, <3>3 DEF IsSession
  <2>4. node \in Nat /\ (node > 0 => cs.alive /\ node <= Len(cs.list) + 1)
    <3>1. node \in Nat /\ (mode \notin Serving => node = 0) /\ (mode \in Serving => cs \in Sessions)
      BY CoreFacts
    <3>2. mode \in Serving /\ node > 0 => node <= Len(cs.list) + 1
      BY DEF CoreInv, Core, InStep
    <3> QED BY <3>1, <3>2, SessionOrNone, SMTT(20)
  <2>5. mode \in {"new", "read", "write", "sleep", "closed", "failed"}
    BY CoreFacts DEF Phases
  <2>6. /\ replies \in [Ids -> 0 .. 2] /\ ended \in [Ids -> 0 .. 2]
        /\ closes \in 0 .. 2 /\ files \subseteq Ids \cup {Lost}
    BY CoreFacts
  <2> QED BY <2>1, <2>2, <2>3, <2>4, <2>5, <2>6 DEF TypeOK
<1> QED BY <1>1, InvariantHolds, PTL

(* STAGE_40 is run once for a request of a client that waits for its       *)
(* answers, and on an open connection never before the response is begun.  *)
THEOREM RequestEndsOnceHolds == Spec => []RequestEndsOnce
<1>1. IInv => RequestEndsOnce
  <2> SUFFICES ASSUME CoreInv, PatientInv, NEW i \in Ids
               PROVE  (client = "patient" => ended[i] <= 1) /\ ((Open /\ ended[i] > 0) => replies[i] > 0)
    BY DEF IInv, RequestEndsOnce
  <2>1. client = "patient" => ended[i] <= 1
    BY DEF PatientInv, Patient
  <2>2. Open /\ ended[i] > 0 => replies[i] > 0
    BY SessionOrNone DEF CoreInv, Core, Reported
  <2> QED BY <2>1, <2>2
<1> QED BY <1>1, InvariantHolds, PTL

(* The files of the responses are closed with the session, except where    *)
(* mk_conn_error() or a failed realloc() ends it.                          *)
THEOREM FilesClosedHolds == Spec => []FilesClosed
<1>1. IInv => FilesClosed
  <2> SUFFICES ASSUME CoreInv, SingleInv, mode # "failed"
               PROVE  /\ client # "pipelining" => Lost \notin files
                      /\ files \ {Lost} \subseteq
                           (IF cs.alive THEN {cs.list[n].req : n \in DOMAIN cs.list} ELSE {})
    BY DEF IInv, FilesClosed
  <2>1. client # "pipelining" => Lost \notin files
    BY DEF SingleInv, Single
  <2>2. files \ {Lost} \subseteq Listed(cs)
    BY CoreFacts
  <2> QED BY <2>1, <2>2, SessionOrNone DEF Listed
<1> QED BY <1>1, InvariantHolds, PTL

(* The receive buffer stays below max_request_size, however it grows and   *)
(* however often it is reused.                                             *)
THEOREM BoundedBufferHolds == Spec => []BoundedBuffer
<1>1. IInv => BoundedBuffer
  <2> SUFFICES ASSUME CoreInv, cs.alive PROVE Len(cs.body) <= cs.size /\ cs.size < limit
    BY DEF IInv, BoundedBuffer
  <2>1. Buffered(cs, limit)
    BY SessionOrNone, NoSessionIsNone
  <2> QED BY <2>1 DEF Buffered
<1> QED BY <1>1, InvariantHolds, PTL

(* mk_request_ka_next() leaves nothing behind for a session that reads, and *)
(* mk_request_parse() finds a complete header.                              *)
THEOREM SessionInStepHolds == Spec => []SessionInStep
<1>1. IInv => SessionInStep
  <2> SUFFICES ASSUME CoreInv PROVE SessionInStep
    BY DEF IInv
  <2>1. mode = "read" /\ cs \in Sessions => cs.list = <<>> /\ cs.status = "incomplete"
    BY DEF CoreInv, Core, InStep, Serving
  <2>2. mode \in Serving => cs \in Sessions /\ cs.pos > 0
    BY CoreFacts
  <2>3. cs \in Sessions /\ cs.pos > 0 => cs.body[cs.pos].part = "end"
    BY SessionOrNone, NoSessionIsNone DEF Buffered
  <2> QED BY <2>1, <2>2, <2>3, SessionOrNone DEF SessionInStep, Serving
<1> QED BY <1>1, InvariantHolds, PTL

(* A client that waits for its answers is served at most                   *)
(* max_keep_alive_request + 1 times on a connection.                       *)
THEOREM KeepAliveBoundHolds == Spec => []KeepAliveBound
<1>1. IInv => KeepAliveBound
  <2> SUFFICES ASSUME PatientInv, client = "patient"
               PROVE  Cardinality({i \in Ids : replies[i] > 0}) <= MaxKeepAlive + 1
    BY DEF IInv, KeepAliveBound
  <2>1. \A i \in Ids : replies[i] > 0 => i <= MaxKeepAlive + 1
    BY DEF PatientInv, Patient
  <2>2. PICK m \in Nat : m = MaxKeepAlive + 1
    BY Sizes, SMTT(20)
  <2>3. PICK S : S = {i \in Ids : replies[i] > 0}
    OBVIOUS
  <2>4. S \subseteq 1 .. m
    BY <2>1, <2>2, <2>3, Sizes, SMTT(20) DEF Ids
  <2>5. IsFiniteSet(1 .. m) /\ Cardinality(1 .. m) = m
    <3>1. 1 \in Int /\ m \in Int
      BY SMTT(20)
    <3>2. IsFiniteSet(1 .. m) /\ Cardinality(1 .. m) = IF 1 > m THEN 0 ELSE m - 1 + 1
      BY <3>1, FS_Interval
    <3> QED BY <3>2, SMTT(20)
  <2>6. Cardinality(S) <= Cardinality(1 .. m)
    BY <2>4, <2>5, FS_Subset
  <2> QED BY <2>2, <2>3, <2>5, <2>6
<1> QED BY <1>1, InvariantHolds, PTL

(* STAGE_50 is run for every connection that was served when it ends, and  *)
(* not before.                                                             *)
THEOREM EndIsReportedHolds == Spec => []EndIsReported
<1>1. IInv => EndIsReported
  BY SessionOrNone DEF IInv, CoreInv, Core, Reported, EndIsReported
<1> QED BY <1>1, InvariantHolds, PTL

(* A request that is being answered is the next one of a patient client.   *)
LEMMA TurnOf ==
  ASSUME CoreInv, Lone, Waits, NEW i, Unanswered(i)
  PROVE  /\ i \in Ids /\ replies[i] = 0
         /\ \A j \in Ids : IF j < i THEN Complete(j) ELSE replies[j] = 0
<1>1. AtRequest(i)
  BY DEF Unanswered
<1>2. i \in Ids /\ i = Counter(cs) + 1 /\ replies[i] = 0 /\ mode \in Alive
  BY <1>1, AtRequestTurn
<1>3. Counter(cs) \in Nat /\ \A j \in Ids : /\ j <= Counter(cs) => replies[j] > 0
                                            /\ j > Counter(cs) + 1 => replies[j] = 0
  BY <1>2, WaitsFacts
<1>4. ASSUME NEW j \in Ids, j # i PROVE ~ Sending(j)
  <2> SUFFICES ASSUME cs \in Sessions, NEW n \in DOMAIN cs.list, cs.list[n].req = j PROVE FALSE
    BY SessionOrNone DEF Sending
  <2>1. cs.list \in Seq(SrType)
    BY DEF Sessions
  <2>2. mode \in Serving
    <3>1. mode \notin Serving => cs.list = <<>>
      BY CoreFacts
    <3> QED BY <3>1, SMTT(20)
  <2>3. node \in 1 .. Len(cs.list) /\ i = cs.list[node].req
    BY <1>1, <2>2 DEF AtRequest, Serving
  <2>4. node = 1 /\ Len(cs.list) = 1
    BY <2>2, <2>3, OnlyRequest
  <2>5. n = 1
    BY <2>1, <2>4, SMTT(20)
  <2> QED BY <1>4, <2>3, <2>4, <2>5
<1>5. ASSUME NEW j \in Ids PROVE IF j < i THEN Complete(j) ELSE replies[j] = 0
  <2>1. i \in Nat /\ j \in Nat
    BY <1>2, <1>5, Sizes, SMTT(20) DEF Ids
  <2>2. CASE j < i
    BY <1>2, <1>3, <1>4, <1>5, <2>1, <2>2, SMTT(20) DEF Complete
  <2>3. CASE ~ (j < i)
    BY <1>2, <1>3, <1>5, <2>1, <2>3, SMTT(20)
  <2> QED BY <2>2, <2>3
<1> QED BY <1>2, <1>5

(* A step answers nothing, or the one request the worker is at, which had  *)
(* no answer.                                                              *)
LEMMA AnswersUnanswered ==
  ASSUME CoreInv, Next
  PROVE  replies' = replies \/ \E i \in Ids : Unanswered(i) /\ Answered(replies, replies', i)
<1>1. CASE ClientMoves \/ Register
  BY <1>1 DEF ClientMoves, ClientRequest, ClientSend, ClientClose, Register, outVars
<1>2. CASE Reading \/ Parsing
  BY <1>2 DEF Reading, Parsing, outVars
<1>3. CASE Serve
  <2>1. mode = "write" /\ node \in 1 .. Len(cs.list)
    BY <1>3, ServeFacts
  <2>2. PICK sr \in SrType : Served(sr) /\ sr.req \in Ids
    BY <1>3, ServeFacts
  <2>3. Answered(replies, replies', sr.req) /\ cs.list[node].bts < 0 => Unanswered(sr.req)
    BY <2>1, <2>2 DEF Served, Unanswered, AtRequest, Serving
  <2> QED BY <2>2, <2>3 DEF Served
<1>4. CASE Again
  <2>1. replies' = replies \/ (mode = "sleep" /\ Answered(replies, replies', cs.list[node].req))
    BY <1>4 DEF Again
  <2>2. mode = "sleep" => Unanswered(cs.list[node].req) /\ cs.list[node].req \in Ids
    BY NodeFacts
  <2> QED BY <2>1, <2>2
<1>5. CASE Closing
  BY <1>5 DEF Closing
<1> QED BY <1>1, <1>2, <1>3, <1>4, <1>5, StepShape

(* The answers to a client that waits for each of them are begun in turn,  *)
(* and each of them once.                                                  *)
THEOREM AnswersInTurnHolds == Spec => AnswersInTurn
<1>1. IInv /\ [Next]_vars =>
        [client = "patient" =>
           \A i \in Ids : replies'[i] # replies[i] =>
              /\ replies[i] = 0
              /\ \A j \in Ids : IF j < i THEN Complete(j) ELSE replies[j] = 0]_vars
  <2> SUFFICES ASSUME IInv, Next, client = "patient", NEW i \in Ids, replies'[i] # replies[i]
               PROVE  /\ replies[i] = 0
                      /\ \A j \in Ids : IF j < i THEN Complete(j) ELSE replies[j] = 0
    OBVIOUS
  <2>1. CoreInv /\ Lone /\ Waits
    BY DEF IInv, SingleInv, Lone, PatientInv, Waits
  <2>2. PICK k \in Ids : Unanswered(k) /\ Answered(replies, replies', k)
    BY <2>1, AnswersUnanswered
  <2>3. i = k
    BY <2>2 DEF Answered
  <2> QED BY <2>1, <2>2, <2>3, TurnOf
<1> QED BY <1>1, InvariantHolds, PTL DEF Spec, AnswersInTurn

=============================================================================
