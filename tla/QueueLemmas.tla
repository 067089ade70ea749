---------------------------- MODULE QueueLemmas -----------------------------
(***************************************************************************)
(* Lemmas about the queues of SocketStream: what Flat and Size are of a    *)
(* queue that grows at its end or is read at its front, and the queues     *)
(* that tile an interval of bytes, with what the chunks of a send and an   *)
(* acknowledgement make of them.                                           *)
(***************************************************************************)
EXTENDS SocketStream, SequenceLemmas

\* node p holds the bytes after Start(p) up to End(p)
Start(p) == p.from + p.read_pos
End(p) == p.from + p.len

\* a node that has bytes left
Live(p) == p.read_pos < p.len

LEMMA NodeFields ==
    ASSUME NEW p \in Node
    PROVE  /\ p.from \in Nat /\ p.len \in Nat /\ p.len > 0 /\ p.read_pos \in Nat
           /\ Start(p) \in Nat /\ End(p) \in Nat
           /\ Live(p) <=> Start(p) < End(p)
           /\ Live(p) => End(p) - Start(p) = p.len - p.read_pos
BY DEF Node, Start, End, Live

-----------------------------------------------------------------------------
(* Flat *)

LEMMA BytesType ==
    ASSUME NEW p \in Node, Live(p)
    PROVE  /\ Bytes(p) = Numbers(Start(p), End(p))
           /\ Bytes(p) \in Seq(Nat)
           /\ Len(Bytes(p)) = p.len - p.read_pos
<1>1. p.from \in Nat /\ p.len \in Nat /\ p.read_pos \in Nat BY NodeFields
<1>2. p.len - p.read_pos \in Nat /\ End(p) - Start(p) = p.len - p.read_pos
      BY <1>1 DEF Live, Start, End
<1>3. \A i \in 1 .. p.len - p.read_pos : p.from + p.read_pos + i \in Nat BY <1>1, <1>2
<1>4. Bytes(p) = Numbers(Start(p), End(p)) BY <1>2 DEF Bytes, Numbers, Start
<1> QED BY <1>1, <1>2, <1>3, <1>4 DEF Bytes

LEMMA NumbersType ==
    ASSUME NEW a \in Nat, NEW b \in Nat, a <= b
    PROVE  /\ Numbers(a, b) \in Seq(Nat)
           /\ Len(Numbers(a, b)) = b - a
           /\ \A i \in 1 .. b - a : Numbers(a, b)[i] = a + i
BY DEF Numbers

LEMMA NumbersEmpty ==
    ASSUME NEW a \in Nat
    PROVE  Numbers(a, a) = <<>>
<1>1. Numbers(a, a) \in Seq(Nat) /\ Len(Numbers(a, a)) = 0 BY NumbersType
<1> QED BY <1>1, EmptySeq

\* Adjacent intervals are joined.
LEMMA NumbersJoin ==
    ASSUME NEW a \in Nat, NEW b \in Nat, NEW c \in Nat, a <= b, b <= c
    PROVE  Join(Numbers(a, b), Numbers(b, c)) = Numbers(a, c)
<1> DEFINE s == Numbers(a, b)
           t == Numbers(b, c)
           u == Numbers(a, c)
<1>1. s \in Seq(Nat) /\ Len(s) = b - a /\ \A i \in 1 .. b - a : s[i] = a + i BY NumbersType
<1>2. t \in Seq(Nat) /\ Len(t) = c - b /\ \A i \in 1 .. c - b : t[i] = b + i BY NumbersType
<1>3. u \in Seq(Nat) /\ Len(u) = c - a /\ \A i \in 1 .. c - a : u[i] = a + i BY NumbersType
<1> HIDE DEF s, t, u
<1> DEFINE v == s \o t
<1>4. v \in Seq(Nat) /\ Len(v) = Len(s) + Len(t) BY <1>1, <1>2, ConcatProperties
<1>5. \A i \in 1 .. Len(s) + Len(t) : v[i] = IF i <= Len(s) THEN s[i] ELSE t[i - Len(s)]
      BY <1>1, <1>2, ConcatProperties
<1> HIDE DEF v
<1>6. Len(v) = c - a BY <1>1, <1>2, <1>4
<1>7. ASSUME NEW i \in 1 .. c - a PROVE v[i] = u[i]
  <2>1. v[i] = IF i <= Len(s) THEN s[i] ELSE t[i - Len(s)] BY <1>1, <1>2, <1>5
  <2>2. CASE i <= b - a BY <1>1, <1>3, <2>1, <2>2
  <2>3. CASE i > b - a
    <3> DEFINE j == i - (b - a)
    <3>1. j \in 1 .. c - b /\ b + j = a + i BY <2>3
    <3>2. v[i] = t[j] BY <1>1, <2>1, <2>3
    <3> QED BY <1>2, <1>3, <3>1, <3>2
  <2> QED BY <2>2, <2>3
<1>8. v = u BY <1>3, <1>4, <1>6, <1>7, SeqEqual
<1> QED BY <1>8 DEF v, s, t, u, Join

\* all nodes have bytes left
Lives(nodes) == nodes \in Seq(Node) /\ \A i \in 1 .. Len(nodes) : Live(nodes[i])

LEMMA LivesSteps ==
    /\ Lives(<<>>)
    /\ \A nodes, p : Lives(nodes) /\ p \in Node /\ Live(p) => Lives(Append(nodes, p))
    /\ \A nodes : Lives(nodes) /\ nodes # <<>> =>
           /\ Head(nodes) \in Node /\ Live(Head(nodes))
           /\ Lives(Tail(nodes))
<1>1. Lives(<<>>) BY DEF Lives
<1>2. ASSUME NEW nodes, NEW p, Lives(nodes), p \in Node, Live(p)
      PROVE  Lives(Append(nodes, p))
  <2>1. nodes \in Seq(Node) BY <1>2 DEF Lives
  <2>2. \A i \in 1 .. Len(nodes) : Live(nodes[i]) BY <1>2 DEF Lives
  <2>3. /\ Append(nodes, p) \in Seq(Node) /\ Len(Append(nodes, p)) = Len(nodes) + 1
        /\ \A i \in 1 .. Len(nodes) : Append(nodes, p)[i] = nodes[i]
        /\ Append(nodes, p)[Len(nodes) + 1] = p
        BY <1>2, <2>1, AppendProperties
  <2>4. ASSUME NEW i \in 1 .. Len(nodes) + 1 PROVE Live(Append(nodes, p)[i])
    <3>1. CASE i = Len(nodes) + 1 BY <1>2, <2>3, <3>1
    <3>2. CASE i # Len(nodes) + 1
      <4>1. i \in 1 .. Len(nodes) BY <2>1, <3>2
      <4> QED BY <2>2, <2>3, <4>1
    <3> QED BY <3>1, <3>2
  <2> QED BY <2>3, <2>4 DEF Lives
<1>3. ASSUME NEW nodes, Lives(nodes), nodes # <<>>
      PROVE  Head(nodes) \in Node /\ Live(Head(nodes)) /\ Lives(Tail(nodes))
  <2>1. nodes \in Seq(Node) BY <1>3 DEF Lives
  <2>2. \A i \in 1 .. Len(nodes) : Live(nodes[i]) BY <1>3 DEF Lives
  <2>3. /\ Tail(nodes) \in Seq(Node) /\ Len(Tail(nodes)) = Len(nodes) - 1
        /\ \A i \in 1 .. Len(Tail(nodes)) : Tail(nodes)[i] = nodes[i + 1]
        BY <1>3, <2>1, HeadTailProperties
  <2>4. Len(nodes) \in Nat /\ Len(nodes) > 0 BY <1>3, <2>1, EmptySeq
  <2>5. Head(nodes) = nodes[1] /\ Head(nodes) \in Node BY <1>3, <2>1
  <2>6. Live(nodes[1]) BY <2>2, <2>4
  <2>7. \A i \in 1 .. Len(Tail(nodes)) : Live(Tail(nodes)[i]) BY <2>2, <2>3, <2>4
  <2> QED BY <2>3, <2>5, <2>6, <2>7 DEF Lives
<1> QED BY <1>1, <1>2, <1>3

\* the sequences Flat joins
Parts(nodes) == [i \in DOMAIN nodes |-> Bytes(nodes[i])]

LEMMA PartsType ==
    ASSUME NEW nodes, Lives(nodes)
    PROVE  Parts(nodes) \in Seq(Seq(Nat)) /\ Len(Parts(nodes)) = Len(nodes)
<1>1. nodes \in Seq(Node) BY DEF Lives
<1>2. \A i \in 1 .. Len(nodes) : nodes[i] \in Node /\ Live(nodes[i]) BY <1>1 DEF Lives
<1>3. \A i \in 1 .. Len(nodes) : Bytes(nodes[i]) \in Seq(Nat) BY <1>2, BytesType
<1>4. DOMAIN nodes = 1 .. Len(nodes) /\ Len(nodes) \in Nat BY <1>1, LenProperties
<1> DEFINE n == Len(nodes)
           S == Seq(Nat)
<1>5. n \in Nat /\ Parts(nodes) = [i \in 1 .. n |-> Bytes(nodes[i])] BY <1>4 DEF Parts
<1>6. \A i \in 1 .. n : Bytes(nodes[i]) \in S BY <1>3
<1> HIDE DEF n, S
<1>7. Parts(nodes) \in Seq(S) /\ Len(Parts(nodes)) = n BY <1>5, <1>6
<1> QED BY <1>7 DEF n, S

LEMMA FlatType ==
    ASSUME NEW nodes, Lives(nodes)
    PROVE  Flat(nodes) \in Seq(Nat)
<1>1. Parts(nodes) \in Seq(Seq(Nat)) BY PartsType
<1>2. FlattenSeq(Parts(nodes)) \in Seq(Nat) BY <1>1, FlattenType
<1> QED BY <1>2 DEF Flat, Parts

LEMMA FlatEmpty == Flat(<<>>) = <<>>
<1>1. Parts(<<>>) = <<>>
  <2>1. Parts(<<>>) \in Seq(Seq(Nat)) /\ Len(Parts(<<>>)) = 0 BY PartsType, LivesSteps
  <2> QED BY <2>1, EmptySeq
<1> QED BY <1>1, FlattenEmpty DEF Flat, Parts

\* A node at the end of the queue adds its bytes at the end.
LEMMA FlatAppend ==
    ASSUME NEW nodes, Lives(nodes), NEW p \in Node, Live(p)
    PROVE  Flat(Append(nodes, p)) = Join(Flat(nodes), Bytes(p))
<1>1. Lives(Append(nodes, p)) BY LivesSteps
<1>2. Parts(nodes) \in Seq(Seq(Nat)) /\ Bytes(p) \in Seq(Nat) BY PartsType, BytesType
<1>3. Parts(Append(nodes, p)) = Append(Parts(nodes), Bytes(p))
  <2> DEFINE n == Len(nodes)
             S == Seq(Nat)
             s == Parts(Append(nodes, p))
             r == Parts(nodes)
             x == Bytes(p)
             t == Append(r, x)
  <2>1. nodes \in Seq(Node) /\ n \in Nat /\ DOMAIN nodes = 1 .. n BY DEF Lives
  <2>2. Append(nodes, p) \in Seq(Node) /\ Len(Append(nodes, p)) = n + 1 BY <2>1
  <2>3. s \in Seq(S) /\ Len(s) = n + 1 BY <1>1, <2>2, PartsType
  <2>4. r \in Seq(S) /\ Len(r) = n /\ x \in S BY <1>2, PartsType
  <2>5. \A i \in 1 .. n + 1 : s[i] = Bytes(Append(nodes, p)[i]) BY <2>2 DEF Parts
  <2>6. \A i \in 1 .. n : r[i] = Bytes(nodes[i]) BY <2>1 DEF Parts
  <2>7. \A i \in 1 .. n : s[i] = r[i]
    <3>1. \A i \in 1 .. n : Append(nodes, p)[i] = nodes[i] BY <2>1, AppendProperties
    <3>2. \A i \in 1 .. n : i \in 1 .. n + 1 BY <2>1
    <3> HIDE DEF s, r, n
    <3> QED BY <2>5, <2>6, <3>1, <3>2
  <2>8. s[n + 1] = x
    <3>1. Append(nodes, p)[n + 1] = p BY <2>1, AppendProperties
    <3>2. n + 1 \in 1 .. n + 1 BY <2>1
    <3> HIDE DEF s, r, n
    <3> QED BY <2>5, <3>1, <3>2
  <2> HIDE DEF n, S, s, r, x
  <2>9. t \in Seq(S) /\ Len(t) = n + 1 BY <2>4, AppendProperties
  <2>10. \A i \in 1 .. n : t[i] = r[i] BY <2>4, AppendProperties
  <2>11. t[n + 1] = x BY <2>4, AppendProperties
  <2> HIDE DEF t
  <2>12. \A i \in 1 .. n + 1 : s[i] = t[i]
    <3>1. \A i \in 1 .. n + 1 : i \in 1 .. n \/ i = n + 1 BY <2>1
    <3> QED BY <2>7, <2>8, <2>10, <2>11, <3>1
  <2>13. s = t BY <2>3, <2>9, <2>12, SeqEqual
  <2> QED BY <2>13 DEF s, t, r, x
<1>4. FlattenSeq(Append(Parts(nodes), Bytes(p))) = Join(FlattenSeq(Parts(nodes)), Bytes(p))
      BY <1>2, FlattenAppend
<1> QED BY <1>3, <1>4 DEF Flat, Parts

\* The bytes of the first node come first.
LEMMA FlatCons ==
    ASSUME NEW nodes, Lives(nodes), nodes # <<>>
    PROVE  Flat(nodes) = Join(Bytes(Head(nodes)), Flat(Tail(nodes)))
<1>1. Lives(Tail(nodes)) BY LivesSteps
<1>2. Parts(nodes) \in Seq(Seq(Nat)) /\ Len(Parts(nodes)) = Len(nodes) BY PartsType
<1>3. nodes \in Seq(Node) /\ Len(nodes) \in Nat /\ Len(nodes) > 0 BY EmptySeq DEF Lives
<1>4. Parts(nodes) # <<>> BY <1>2, <1>3
<1>5. Head(Parts(nodes)) = Bytes(Head(nodes))
  <2>1. 1 \in DOMAIN nodes BY <1>3
  <2>2. Parts(nodes)[1] = Bytes(nodes[1]) BY <2>1 DEF Parts
  <2> QED BY <2>2, <1>2, <1>3
<1>6. Tail(Parts(nodes)) = Parts(Tail(nodes))
  <2> DEFINE n == Len(nodes) - 1
             S == Seq(Nat)
             s == Parts(nodes)
             t == Tail(s)
             u == Parts(Tail(nodes))
  <2>1. /\ Tail(nodes) \in Seq(Node) /\ Len(Tail(nodes)) = n /\ n \in Nat
        /\ \A i \in 1 .. n : Tail(nodes)[i] = nodes[i + 1]
        BY <1>3, HeadTailProperties
  <2>2. s \in Seq(S) /\ Len(s) = n + 1 /\ s # <<>> BY <1>2, <1>3, <1>4
  <2>3. u \in Seq(S) /\ Len(u) = n BY <1>1, <2>1, PartsType
  <2>4. \A i \in 1 .. n : u[i] = Bytes(Tail(nodes)[i]) BY <2>1 DEF Parts
  <2>5. \A i \in 1 .. n + 1 : s[i] = Bytes(nodes[i]) BY <1>3 DEF Parts
  <2> HIDE DEF S, s, u, n
  <2>6. t \in Seq(S) /\ Len(t) = n /\ \A i \in 1 .. n : t[i] = s[i + 1]
        BY <2>1, <2>2, HeadTailProperties
  <2>7. ASSUME NEW i \in 1 .. n PROVE t[i] = u[i]
    <3>1. i + 1 \in 1 .. n + 1 BY <2>1
    <3> QED BY <2>1, <2>4, <2>5, <2>6, <3>1
  <2> HIDE DEF t
  <2>8. t = u BY <2>3, <2>6, <2>7, SeqEqual
  <2> QED BY <2>8 DEF s, t, u
<1>7. FlattenSeq(Parts(nodes)) = Join(Head(Parts(nodes)), FlattenSeq(Tail(Parts(nodes))))
      BY <1>2, <1>4, FlattenCons
<1> QED BY <1>5, <1>6, <1>7 DEF Flat, Parts

LEMMA JoinLen ==
    ASSUME NEW S, NEW s \in Seq(S), NEW t \in Seq(S)
    PROVE  Len(Join(s, t)) = Len(s) + Len(t)
BY ConcatProperties DEF Join

\* Size of a queue that grows, and of one whose first node is freed.
LEMMA SizeSteps ==
    /\ Size(<<>>) = 0
    /\ \A nodes : Lives(nodes) => Size(nodes) \in Nat
    /\ \A nodes : \A p \in Node : Lives(nodes) /\ Live(p) =>
           Size(Append(nodes, p)) = Size(nodes) + (p.len - p.read_pos)
    /\ \A nodes : Lives(nodes) /\ nodes # <<>> =>
           Size(nodes) = (Head(nodes).len - Head(nodes).read_pos) + Size(Tail(nodes))
<1>1. Size(<<>>) = 0 BY FlatEmpty, EmptySeq DEF Size
<1>2. ASSUME NEW nodes, Lives(nodes) PROVE Size(nodes) \in Nat
  <2>1. Flat(nodes) \in Seq(Nat) BY <1>2, FlatType
  <2> QED BY <2>1, LenProperties DEF Size
<1>3. ASSUME NEW nodes, NEW p \in Node, Lives(nodes), Live(p)
      PROVE  Size(Append(nodes, p)) = Size(nodes) + (p.len - p.read_pos)
  <2>1. Flat(nodes) \in Seq(Nat) BY <1>3, FlatType
  <2>2. Bytes(p) \in Seq(Nat) /\ Len(Bytes(p)) = p.len - p.read_pos BY <1>3, BytesType
  <2>3. Flat(Append(nodes, p)) = Join(Flat(nodes), Bytes(p)) BY <1>3, FlatAppend
  <2>4. Len(Join(Flat(nodes), Bytes(p))) = Len(Flat(nodes)) + Len(Bytes(p)) BY <2>1, <2>2, JoinLen
  <2> QED BY <2>2, <2>3, <2>4 DEF Size
<1>4. ASSUME NEW nodes, Lives(nodes), nodes # <<>>
      PROVE  Size(nodes) = (Head(nodes).len - Head(nodes).read_pos) + Size(Tail(nodes))
  <2>1. Head(nodes) \in Node /\ Live(Head(nodes)) /\ Lives(Tail(nodes)) BY <1>4, LivesSteps
  <2>2. Flat(Tail(nodes)) \in Seq(Nat) BY <2>1, FlatType
  <2>3. Bytes(Head(nodes)) \in Seq(Nat)
        /\ Len(Bytes(Head(nodes))) = Head(nodes).len - Head(nodes).read_pos BY <2>1, BytesType
  <2>4. Flat(nodes) = Join(Bytes(Head(nodes)), Flat(Tail(nodes))) BY <1>4, FlatCons
  <2>5. Len(Join(Bytes(Head(nodes)), Flat(Tail(nodes))))
          = Len(Bytes(Head(nodes))) + Len(Flat(Tail(nodes))) BY <2>2, <2>3, JoinLen
  <2> QED BY <2>3, <2>4, <2>5 DEF Size
<1> QED BY <1>1, <1>2, <1>3, <1>4

\* What reading n bytes of the first node does to a queue.
ReadOff(nodes, n) == [nodes EXCEPT ![1].read_pos = @ + n]

LEMMA ReadOffHead ==
    ASSUME NEW nodes, Lives(nodes), nodes # <<>>,
           NEW n \in Nat, Head(nodes).read_pos + n < Head(nodes).len
    PROVE  /\ Lives(ReadOff(nodes, n))
           /\ ReadOff(nodes, n) # <<>>
           /\ Len(ReadOff(nodes, n)) = Len(nodes)
           /\ Tail(ReadOff(nodes, n)) = Tail(nodes)
           /\ Head(ReadOff(nodes, n)) = [Head(nodes) EXCEPT !.read_pos = @ + n]
           /\ \A i \in 1 .. Len(nodes) : i # 1 => ReadOff(nodes, n)[i] = nodes[i]
<1> DEFINE p == Head(nodes)
           q == [p EXCEPT !.read_pos = @ + n]
           s == [nodes EXCEPT ![1] = q]
<1>1. nodes \in Seq(Node) /\ \A i \in 1 .. Len(nodes) : Live(nodes[i]) BY DEF Lives
<1>2. Len(nodes) \in Nat /\ Len(nodes) > 0 /\ 1 \in 1 .. Len(nodes) BY <1>1, EmptySeq
<1>3. p = nodes[1] /\ p \in Node BY <1>1, <1>2
<1>4. q \in Node /\ q.read_pos = p.read_pos + n /\ q.len = p.len BY <1>3 DEF Node
<1>5. Live(q) BY <1>4 DEF Live
<1>6. ReadOff(nodes, n) = s BY <1>3 DEF ReadOff
<1> HIDE DEF q
<1>7. /\ s \in Seq(Node) /\ Len(s) = Len(nodes)
      /\ \A j \in 1 .. Len(nodes) : s[j] = IF j = 1 THEN q ELSE nodes[j]
      BY <1>1, <1>2, <1>4, ExceptSeq
<1> HIDE DEF s
<1>8. s # <<>> BY <1>2, <1>7, EmptySeq
<1>9. Lives(s) BY <1>1, <1>5, <1>7 DEF Lives
<1>10. Head(s) = q
  <2>1. Head(s) = s[1] BY <1>7, <1>8
  <2> QED BY <2>1, <1>2, <1>7
<1>11. Tail(s) = Tail(nodes)
  <2> DEFINE m == Len(nodes) - 1
  <2>1. m \in Nat BY <1>2
  <2>2. /\ Tail(s) \in Seq(Node) /\ Len(Tail(s)) = m
        /\ \A i \in 1 .. m : Tail(s)[i] = s[i + 1] BY <1>7, <1>8, HeadTailProperties
  <2>3. /\ Tail(nodes) \in Seq(Node) /\ Len(Tail(nodes)) = m
        /\ \A i \in 1 .. m : Tail(nodes)[i] = nodes[i + 1] BY <1>1, HeadTailProperties
  <2>4. ASSUME NEW i \in 1 .. m PROVE Tail(s)[i] = Tail(nodes)[i]
    <3>1. i + 1 \in 1 .. Len(nodes) /\ i + 1 # 1 BY <2>1
    <3>2. s[i + 1] = nodes[i + 1] BY <1>7, <3>1
    <3> QED BY <2>2, <2>3, <3>2
  <2> HIDE DEF m
  <2> QED BY <2>2, <2>3, <2>4, SeqEqual
<1> QED BY <1>6, <1>7, <1>8, <1>9, <1>10, <1>11 DEF q

LEMMA SizeReadOff ==
    ASSUME NEW nodes, Lives(nodes), nodes # <<>>,
           NEW n \in Nat, Head(nodes).read_pos + n < Head(nodes).len
    PROVE  Size(ReadOff(nodes, n)) = Size(nodes) - n
<1> DEFINE s == ReadOff(nodes, n)
           p == Head(nodes)
           q == Head(s)
           k == Size(Tail(nodes))
<1>1. Lives(s) /\ s # <<>> /\ Tail(s) = Tail(nodes) BY ReadOffHead
<1>2. q = [p EXCEPT !.read_pos = @ + n] BY ReadOffHead
<1>3. p \in Node /\ Lives(Tail(nodes)) BY LivesSteps
<1>4. p.len \in Nat /\ p.read_pos \in Nat /\ q.len = p.len /\ q.read_pos = p.read_pos + n
      BY <1>2, <1>3 DEF Node
<1>5. Size(nodes) = (p.len - p.read_pos) + k BY SizeSteps
<1>6. k \in Nat BY <1>3, SizeSteps
<1> HIDE DEF s
<1>7. Size(s) = (q.len - q.read_pos) + k BY <1>1, SizeSteps
<1> HIDE DEF p, q, k
<1>8. Size(s) = Size(nodes) - n BY <1>4, <1>5, <1>6, <1>7
<1> QED BY <1>8 DEF s

-----------------------------------------------------------------------------
(* Queues that hold an interval *)

\* each node goes on where the one before it ends
Adjacent(nodes) ==
    \A i, j \in 1 .. Len(nodes) : i < j /\ j <= i + 1 => End(nodes[i]) = Start(nodes[j])

\* the queue holds the bytes after a up to b, in order
Tiles(nodes, a, b) ==
    /\ Lives(nodes)
    /\ Adjacent(nodes)
    /\ nodes = <<>> => a = b
    /\ nodes # <<>> => Start(nodes[1]) = a /\ End(nodes[Len(nodes)]) = b

LEMMA TilesEmpty == \A a : Tiles(<<>>, a, a)
BY LivesSteps, EmptySeq DEF Tiles, Adjacent

\* Without its last node a queue holds the interval up to that node's start.
LEMMA TilesFront ==
    ASSUME NEW nodes \in Seq(Node), NEW p \in Node, NEW a, NEW b,
           Tiles(Append(nodes, p), a, b)
    PROVE  Tiles(nodes, a, Start(p)) /\ Live(p) /\ End(p) = b
<1> DEFINE n == Len(nodes)
           s == Append(nodes, p)
<1>1. n \in Nat /\ s \in Seq(Node) /\ s # <<>> /\ Len(s) = n + 1 BY AppendProperties
<1>2. (\A i \in 1 .. n : s[i] = nodes[i]) /\ s[n + 1] = p BY AppendProperties
<1>3. \A i \in 1 .. n + 1 : Live(s[i]) BY <1>1 DEF Tiles, Lives
<1>4. \A i, j \in 1 .. n + 1 : i < j /\ j <= i + 1 => End(s[i]) = Start(s[j])
      BY <1>1 DEF Tiles, Adjacent
<1>5. Start(s[1]) = a /\ End(s[n + 1]) = b BY <1>1 DEF Tiles
<1> HIDE DEF s
<1>6. Live(p) /\ End(p) = b
  <2>1. n + 1 \in 1 .. n + 1 BY <1>1
  <2> QED BY <1>2, <1>3, <1>5, <2>1
<1>7. \A i \in 1 .. n : i \in 1 .. n + 1 BY <1>1
<1>8. \A i \in 1 .. n : Live(nodes[i]) BY <1>2, <1>3, <1>7
<1>9. \A i, j \in 1 .. n : i < j /\ j <= i + 1 => End(nodes[i]) = Start(nodes[j])
      BY <1>2, <1>4, <1>7
<1>10. CASE n = 0
  <2>1. nodes = <<>> BY <1>10, EmptySeq
  <2>2. a = Start(p) BY <1>2, <1>5, <1>10
  <2> QED BY <1>6, <2>1, <2>2, TilesEmpty
<1>11. CASE n # 0
  <2>1. nodes # <<>> BY <1>11, EmptySeq
  <2>2. 1 \in 1 .. n /\ n \in 1 .. n /\ n \in 1 .. n + 1 /\ n + 1 \in 1 .. n + 1 BY <1>1, <1>11
  <2>3. Start(nodes[1]) = a BY <1>2, <1>5, <2>2
  <2>4. n < n + 1 /\ n + 1 <= n + 1 BY <1>1
  <2>5. End(s[n]) = Start(s[n + 1]) BY <1>4, <2>2, <2>4
  <2>6. End(nodes[n]) = Start(p) BY <1>2, <2>2, <2>5
  <2> QED BY <1>6, <1>8, <1>9, <2>1, <2>3, <2>6 DEF Tiles, Lives, Adjacent
<1> QED BY <1>1, <1>10, <1>11

\* A queue that holds an interval is, byte for byte, that interval.
LEMMA TilesAre ==
    \A nodes : \A a, b \in Nat : Tiles(nodes, a, b) =>
        a <= b /\ Flat(nodes) = Numbers(a, b) /\ Size(nodes) = b - a
<1> DEFINE Ok(s) == \A a, b \in Nat : Tiles(s, a, b) =>
                        a <= b /\ Flat(s) = Numbers(a, b) /\ Size(s) = b - a
           T == {n \in Nat : \A s \in Seq(Node) : Len(s) = n => Ok(s)}
<1>1. 0 \in T
  <2>1. ASSUME NEW s \in Seq(Node), Len(s) = 0 PROVE Ok(s)
    <3>1. s = <<>> BY <2>1, EmptySeq
    <3>2. ASSUME NEW a \in Nat, NEW b \in Nat, Tiles(s, a, b)
          PROVE  a <= b /\ Flat(s) = Numbers(a, b) /\ Size(s) = b - a
      <4>1. a = b BY <3>1, <3>2 DEF Tiles
      <4> QED BY <3>1, <4>1, FlatEmpty, NumbersEmpty, SizeSteps
    <3> QED BY <3>2
  <2> QED BY <2>1
<1>2. ASSUME NEW n \in Nat, NEW k \in Nat, n \in T, k = n + 1 PROVE k \in T
  <2>1. ASSUME NEW s \in Seq(Node), Len(s) = k, NEW a \in Nat, NEW b \in Nat, Tiles(s, a, b)
        PROVE  a <= b /\ Flat(s) = Numbers(a, b) /\ Size(s) = b - a
    <3>1. s # <<>> BY <1>2, <2>1, EmptySeq
    <3>2. PICK r \in Seq(Node), p \in Node : s = Append(r, p) BY <3>1, SequenceEmptyOrAppend
    <3>3. Len(r) = n BY <1>2, <2>1, <3>2, AppendProperties
    <3>4. Tiles(r, a, Start(p)) /\ Live(p) /\ End(p) = b BY <2>1, <3>2, TilesFront
    <3>5. Start(p) \in Nat /\ Start(p) < b BY <3>4, NodeFields
    <3>6. a <= Start(p) /\ Flat(r) = Numbers(a, Start(p)) /\ Size(r) = Start(p) - a
          BY <1>2, <3>3, <3>4, <3>5
    <3>7. Lives(r) BY <3>4 DEF Tiles
    <3>8. Flat(s) = Join(Flat(r), Bytes(p)) BY <3>2, <3>4, <3>7, FlatAppend
    <3>9. Bytes(p) = Numbers(Start(p), b) BY <3>4, BytesType
    <3>10. Flat(s) = Numbers(a, b) BY <3>5, <3>6, <3>8, <3>9, NumbersJoin
    <3>11. a <= b BY <3>5, <3>6
    <3>12. Size(s) = b - a BY <3>10, <3>11, NumbersType DEF Size
    <3> QED BY <3>10, <3>11, <3>12
  <2> QED BY <2>1
<1>3. \A n, k \in Nat : n \in T /\ k = n + 1 => k \in T BY <1>2
<1> HIDE DEF T
<1>4. \A n \in Nat : n \in T BY <1>1, <1>3, Induction
<1>5. ASSUME NEW nodes, NEW a \in Nat, NEW b \in Nat, Tiles(nodes, a, b)
      PROVE  a <= b /\ Flat(nodes) = Numbers(a, b) /\ Size(nodes) = b - a
  <2>1. nodes \in Seq(Node) BY <1>5 DEF Tiles, Lives
  <2>2. Len(nodes) \in Nat BY <2>1
  <2>3. Len(nodes) \in T BY <1>4, <2>2
  <2>4. Ok(nodes) BY <2>1, <2>3 DEF T
  <2> QED BY <1>5, <2>4
<1> QED BY <1>5

\* Two queues that hold adjacent intervals.
LEMMA TilesConcat ==
    ASSUME NEW s, NEW t, NEW a, NEW b, NEW c, Tiles(s, a, b), Tiles(t, b, c)
    PROVE  Tiles(s \o t, a, c)
<1> DEFINE m == Len(s)
           n == Len(t)
           u == s \o t
<1>1. s \in Seq(Node) /\ t \in Seq(Node) /\ m \in Nat /\ n \in Nat BY DEF Tiles, Lives
<1>2. CASE s = <<>>
  <2>1. u = t /\ a = b BY <1>1, <1>2, ConcatEmptySeq DEF Tiles
  <2> QED BY <2>1
<1>3. CASE t = <<>>
  <2>1. u = s /\ b = c BY <1>1, <1>3, ConcatEmptySeq DEF Tiles
  <2> QED BY <2>1
<1>4. CASE s # <<>> /\ t # <<>>
  <2>1. m > 0 /\ n > 0 BY <1>1, <1>4, EmptySeq
  <2>2. u \in Seq(Node) /\ Len(u) = m + n BY <1>1, ConcatProperties
  <2>3. \A i \in 1 .. m + n : u[i] = IF i <= m THEN s[i] ELSE t[i - m]
        BY <1>1, ConcatProperties
  <2>4. /\ \A i \in 1 .. m : Live(s[i])
        /\ \A i, j \in 1 .. m : i < j /\ j <= i + 1 => End(s[i]) = Start(s[j])
        /\ Start(s[1]) = a /\ End(s[m]) = b
        BY <1>4 DEF Tiles, Lives, Adjacent
  <2>5. /\ \A i \in 1 .. n : Live(t[i])
        /\ \A i, j \in 1 .. n : i < j /\ j <= i + 1 => End(t[i]) = Start(t[j])
        /\ Start(t[1]) = b /\ End(t[n]) = c
        BY <1>4 DEF Tiles, Lives, Adjacent
  <2> HIDE DEF u, m, n
  <2>6. \A i \in 1 .. m : u[i] = s[i] BY <1>1, <2>1, <2>3
  <2>7. \A i \in 1 .. m + n : i > m => i - m \in 1 .. n /\ u[i] = t[i - m]
        BY <1>1, <2>1, <2>3
  <2>8. u[1] = s[1] BY <1>1, <2>1, <2>6
  <2>9. u[m + n] = t[n]
    <3>1. m + n \in 1 .. m + n /\ m + n > m /\ (m + n) - m = n BY <1>1, <2>1
    <3> QED BY <2>7, <3>1
  <2>10. ASSUME NEW i \in 1 .. m + n PROVE Live(u[i])
    <3>1. CASE i <= m
      <4>1. i \in 1 .. m BY <1>1, <3>1
      <4> QED BY <2>4, <2>6, <4>1
    <3>2. CASE i > m BY <2>5, <2>7, <3>2
    <3> QED BY <1>1, <3>1, <3>2
  <2>11. ASSUME NEW i \in 1 .. m + n, NEW j \in 1 .. m + n, i < j, j <= i + 1
         PROVE  End(u[i]) = Start(u[j])
    <3>1. CASE j <= m
      <4>1. i \in 1 .. m /\ j \in 1 .. m BY <1>1, <2>11, <3>1
      <4> QED BY <2>4, <2>6, <2>11, <4>1
    <3>2. CASE i > m
      <4> DEFINE p == i - m
                 q == j - m
      <4>1. p \in 1 .. n /\ u[i] = t[p] BY <2>7, <3>2
      <4>2. j > m BY <1>1, <2>11, <3>2
      <4>3. q \in 1 .. n /\ u[j] = t[q] BY <2>7, <4>2
      <4>4. p < q /\ q <= p + 1 BY <1>1, <2>11
      <4> HIDE DEF p, q
      <4> QED BY <2>5, <4>1, <4>3, <4>4
    <3>3. CASE i <= m /\ j > m
      <4>1. i = m /\ j - m = 1 BY <1>1, <2>11, <3>3
      <4>2. i \in 1 .. m BY <1>1, <3>3
      <4>3. u[i] = s[m] /\ u[j] = t[1] BY <2>6, <2>7, <3>3, <4>1, <4>2
      <4> QED BY <2>4, <2>5, <4>3
    <3> QED BY <1>1, <3>1, <3>2, <3>3
  <2>12. u # <<>> BY <1>1, <2>1, <2>2, EmptySeq
  <2>13. Lives(u) BY <2>2, <2>10 DEF Lives
  <2>14. Adjacent(u) BY <2>2, <2>11 DEF Adjacent
  <2>15. Start(u[1]) = a /\ End(u[Len(u)]) = c BY <2>2, <2>4, <2>5, <2>8, <2>9
  <2>16. Tiles(u, a, c) BY <2>12, <2>13, <2>14, <2>15 DEF Tiles
  <2> QED BY <2>16 DEF u
<1> QED BY <1>2, <1>3, <1>4

\* where the first k nodes of a queue that starts at a end
Cut(nodes, a, k) == IF k = 0 THEN a ELSE End(nodes[k])

\* A queue that holds an interval can be cut after any node.
LEMMA TilesCut ==
    ASSUME NEW s, NEW a \in Nat, NEW b \in Nat, Tiles(s, a, b), NEW k \in 0 .. Len(s)
    PROVE  /\ Cut(s, a, k) \in Nat
           /\ Tiles(SubSeq(s, 1, k), a, Cut(s, a, k))
           /\ Tiles(SubSeq(s, k + 1, Len(s)), Cut(s, a, k), b)
<1> DEFINE n == Len(s)
           c == Cut(s, a, k)
           u == SubSeq(s, 1, k)
           v == SubSeq(s, k + 1, n)
<1>1. s \in Seq(Node) /\ n \in Nat BY DEF Tiles, Lives
<1>2. \A i \in 1 .. n : s[i] \in Node BY <1>1
<1>3. /\ \A i \in 1 .. n : Live(s[i])
      /\ \A i, j \in 1 .. n : i < j /\ j <= i + 1 => End(s[i]) = Start(s[j])
      BY DEF Tiles, Lives, Adjacent
<1>4. k \in Int /\ n \in Int /\ k + 1 \in Int /\ 1 \in Int /\ k >= 0 /\ k <= n BY <1>1
<1>5. k = 0 => c = a BY DEF Cut
<1>6. k # 0 => k \in 1 .. n /\ c = End(s[k]) BY <1>1 DEF Cut
<1>7. n = 0 => a = b BY <1>1, EmptySeq DEF Tiles
<1>8. n # 0 => Start(s[1]) = a /\ End(s[n]) = b BY <1>1, EmptySeq DEF Tiles
<1>9. c \in Nat BY <1>2, <1>5, <1>6, NodeFields
<1>10. /\ u \in Seq(Node) /\ Len(u) = k
       /\ \A i \in 1 .. k : u[i] = s[i]
  <2>1. \A i \in 1 .. k : s[i] \in Node BY <1>1, <1>2
  <2>2. /\ u \in Seq(Node) /\ Len(u) = IF 1 <= k THEN k - 1 + 1 ELSE 0
        /\ \A i \in 1 .. k - 1 + 1 : u[i] = s[1 + i - 1]
        BY <1>4, <2>1, SubSeqProperties
  <2> HIDE DEF u
  <2>3. \A i \in 1 .. k : 1 + i - 1 = i /\ i \in 1 .. k - 1 + 1 BY <1>4
  <2> QED BY <1>4, <2>2, <2>3
<1>11. /\ v \in Seq(Node) /\ Len(v) = n - k
       /\ \A i \in 1 .. n - k : v[i] = s[k + i]
  <2>1. \A i \in k + 1 .. n : s[i] \in Node BY <1>1, <1>2
  <2>2. /\ v \in Seq(Node) /\ Len(v) = IF k + 1 <= n THEN n - (k + 1) + 1 ELSE 0
        /\ \A i \in 1 .. n - (k + 1) + 1 : v[i] = s[k + 1 + i - 1]
        BY <1>4, <2>1, SubSeqProperties
  <2> HIDE DEF v
  <2>3. \A i \in 1 .. n - k : k + 1 + i - 1 = k + i /\ i \in 1 .. n - (k + 1) + 1 BY <1>1, <1>4
  <2> QED BY <1>1, <1>4, <2>2, <2>3
<1> HIDE DEF u, v, n
<1>12. Tiles(u, a, c)
  <2>1. \A i \in 1 .. k : i \in 1 .. n BY <1>1, <1>4
  <2>2. Lives(u) BY <1>3, <1>10, <2>1 DEF Lives
  <2>3. Adjacent(u) BY <1>3, <1>10, <2>1 DEF Adjacent
  <2>4. CASE k = 0 BY <1>5, <1>10, <2>2, <2>3, <2>4, EmptySeq DEF Tiles
  <2>5. CASE k # 0
    <3>1. u # <<>> BY <1>10, <2>5, EmptySeq
    <3>2. 1 \in 1 .. k /\ k \in 1 .. k /\ n # 0 BY <1>1, <1>4, <2>5
    <3>3. Start(u[1]) = a /\ End(u[k]) = c BY <1>6, <1>8, <1>10, <2>5, <3>2
    <3> QED BY <1>10, <2>2, <2>3, <3>1, <3>3 DEF Tiles
  <2> QED BY <2>4, <2>5
<1>13. Tiles(v, c, b)
  <2>1. \A i \in 1 .. n - k : k + i \in 1 .. n BY <1>1, <1>4
  <2>2. Lives(v) BY <1>3, <1>11, <2>1 DEF Lives
  <2>3. ASSUME NEW i \in 1 .. n - k, NEW j \in 1 .. n - k, i < j, j <= i + 1
        PROVE  End(v[i]) = Start(v[j])
    <3> DEFINE p == k + i
               q == k + j
    <3>1. p \in 1 .. n /\ q \in 1 .. n /\ p < q /\ q <= p + 1 BY <1>4, <2>1, <2>3
    <3>2. v[i] = s[p] /\ v[j] = s[q] BY <1>11
    <3> HIDE DEF p, q
    <3> QED BY <1>3, <3>1, <3>2
  <2>4. Adjacent(v) BY <1>11, <2>3 DEF Adjacent
  <2>5. CASE k = n
    <3>1. v = <<>> BY <1>1, <1>11, <2>5, EmptySeq
    <3>2. c = b BY <1>1, <1>5, <1>6, <1>7, <1>8, <2>5
    <3> QED BY <2>2, <2>4, <3>1, <3>2 DEF Tiles
  <2>6. CASE k # n
    <3>1. v # <<>> /\ n - k \in 1 .. n - k /\ 1 \in 1 .. n - k BY <1>1, <1>4, <1>11, <2>6, EmptySeq
    <3>2. v[1] = s[k + 1] BY <1>11, <3>1
    <3>3. v[n - k] = s[n]
      <4>1. k + (n - k) = n BY <1>1, <1>4
      <4> QED BY <1>11, <3>1, <4>1
    <3>4. n # 0 /\ k + 1 \in 1 .. n BY <1>1, <1>4, <2>6
    <3>5. End(v[n - k]) = b BY <1>8, <3>3, <3>4
    <3>6. Start(v[1]) = c
      <4>1. CASE k = 0
        <5>1. v[1] = s[1] BY <3>2, <4>1
        <5> QED BY <1>5, <1>8, <3>4, <4>1, <5>1
      <4>2. CASE k # 0
        <5>1. k < k + 1 /\ k + 1 <= k + 1 BY <1>4
        <5>2. End(s[k]) = Start(s[k + 1]) BY <1>3, <1>6, <3>4, <4>2, <5>1
        <5> QED BY <1>6, <3>2, <4>2, <5>2
      <4> QED BY <4>1, <4>2
    <3> QED BY <1>11, <2>2, <2>4, <3>1, <3>5, <3>6 DEF Tiles
  <2> QED BY <2>5, <2>6
<1> QED BY <1>9, <1>12, <1>13 DEF u, v, n

\* Reading n bytes of the first node moves the start of the interval.
LEMMA TilesReadOff ==
    ASSUME NEW s, NEW a, NEW b, Tiles(s, a, b), s # <<>>,
           NEW n \in Nat, Head(s).read_pos + n < Head(s).len
    PROVE  Tiles(ReadOff(s, n), a + n, b)
<1> DEFINE t == ReadOff(s, n)
           m == Len(s)
           q == [Head(s) EXCEPT !.read_pos = @ + n]
<1>1. Lives(s) /\ Adjacent(s) BY DEF Tiles
<1>2. Start(s[1]) = a /\ End(s[m]) = b BY DEF Tiles
<1>3. /\ Lives(t) /\ t # <<>> /\ Len(t) = m /\ Head(t) = q
      /\ \A i \in 1 .. m : i # 1 => t[i] = s[i]
      BY <1>1, ReadOffHead
<1>4. s \in Seq(Node) /\ t \in Seq(Node) /\ m \in Nat /\ m > 0 BY <1>1, <1>3, EmptySeq DEF Lives
<1>5. s[1] \in Node /\ Head(s) = s[1] BY <1>4
<1> HIDE DEF t
<1>6. Head(t) = t[1] BY <1>3, <1>4
<1>7. End(t[1]) = End(s[1]) /\ Start(t[1]) = a + n
  <2>1. q.from = s[1].from /\ q.len = s[1].len /\ q.read_pos = s[1].read_pos + n
        BY <1>5 DEF Node
  <2>2. s[1].from \in Nat /\ s[1].read_pos \in Nat BY <1>5, NodeFields
  <2>3. t[1] = q BY <1>3, <1>6
  <2> HIDE DEF q
  <2> QED BY <1>2, <2>1, <2>2, <2>3 DEF Start, End
<1>8. \A i \in 1 .. m : End(t[i]) = End(s[i]) BY <1>3, <1>7
<1>9. \A i, j \in 1 .. m : i < j /\ j <= i + 1 => End(s[i]) = Start(s[j]) BY <1>1 DEF Adjacent
<1>10. ASSUME NEW i \in 1 .. m, NEW j \in 1 .. m, i < j, j <= i + 1
       PROVE  End(t[i]) = Start(t[j])
  <2>1. j # 1 BY <1>4, <1>10
  <2> QED BY <1>3, <1>8, <1>9, <1>10, <2>1
<1>11. Adjacent(t) BY <1>3, <1>10 DEF Adjacent
<1>12. End(t[m]) = b
  <2>1. m \in 1 .. m BY <1>4
  <2> QED BY <1>2, <1>8, <2>1
<1>13. Tiles(t, a + n, b) BY <1>3, <1>7, <1>11, <1>12 DEF Tiles
<1> QED BY <1>13 DEF t

\* Freeing the first node moves it to the start of the second.
LEMMA TilesTail ==
    ASSUME NEW s, NEW a \in Nat, NEW b \in Nat, Tiles(s, a, b), s # <<>>
    PROVE  Tiles(Tail(s), End(Head(s)), b) /\ Start(Head(s)) = a
<1>1. s \in Seq(Node) BY DEF Tiles, Lives
<1>2. Len(s) \in Nat /\ Len(s) > 0 /\ Head(s) = s[1] BY <1>1, EmptySeq
<1>3. 1 \in 0 .. Len(s) BY <1>2
<1>4. Tiles(SubSeq(s, 1 + 1, Len(s)), Cut(s, a, 1), b) BY <1>3, TilesCut
<1>5. Cut(s, a, 1) = End(Head(s)) BY <1>2 DEF Cut
<1>6. Tail(s) = SubSeq(s, 2, Len(s)) BY <1>1, TailIsSubSeq
<1>7. 1 + 1 = 2 OBVIOUS
<1>8. Start(Head(s)) = a BY <1>2 DEF Tiles
<1> QED BY <1>4, <1>5, <1>6, <1>7, <1>8

\* A node at the end lengthens the interval.
LEMMA TilesAppend ==
    ASSUME NEW s, NEW a, NEW b, Tiles(s, a, b), NEW p \in Node, Live(p), Start(p) = b
    PROVE  Tiles(Append(s, p), a, End(p))
<1>1. s \in Seq(Node) BY DEF Tiles, Lives
<1>2. Tiles(<<p>>, b, End(p))
  <2>1. <<p>> \in Seq(Node) /\ Len(<<p>>) = 1 /\ <<p>>[1] = p /\ <<p>> # <<>> OBVIOUS
  <2>2. Lives(<<p>>) BY <2>1 DEF Lives
  <2>3. Adjacent(<<p>>) BY <2>1 DEF Adjacent
  <2> QED BY <2>1, <2>2, <2>3 DEF Tiles
<1>3. Append(s, p) = s \o <<p>> BY <1>1, AppendIsConcat
<1> QED BY <1>2, <1>3, TilesConcat

-----------------------------------------------------------------------------
(* What the operations make of the queues *)

\* The loop over tx_head: whatever the number of chunks tcp_write takes, both queues
\* hold their intervals again, with the new boundary between them.
LEMMA WriteChunksTile ==
    ASSUME NEW waiting, NEW u \in Nat, written \in Nat, accepted \in Nat,
           Tiles(waiting, u, written), Tiles(tx_head, written, accepted),
           WriteChunks(waiting)
    PROVE  /\ written' \in Nat /\ written <= written' /\ written' <= accepted
           /\ Tiles(wait_ack_head', u, written')
           /\ Tiles(tx_head', written', accepted)
<1>1. PICK k \in 0 .. Len(tx_head) :
          /\ written' = written + Size(SubSeq(tx_head, 1, k))
          /\ wait_ack_head' = waiting \o SubSeq(tx_head, 1, k)
          /\ tx_head' = SubSeq(tx_head, k + 1, Len(tx_head))
      BY DEF WriteChunks
<1> DEFINE c == Cut(tx_head, written, k)
           v == SubSeq(tx_head, 1, k)
           r == SubSeq(tx_head, k + 1, Len(tx_head))
<1>2. c \in Nat /\ Tiles(v, written, c) /\ Tiles(r, c, accepted) BY TilesCut
<1>3. written <= c /\ Size(v) = c - written BY <1>2, TilesAre
<1>4. c <= accepted BY <1>2, TilesAre
<1>5. Tiles(waiting \o v, u, c) BY <1>2, TilesConcat
<1> HIDE DEF c
<1>6. written' = c BY <1>1, <1>2, <1>3
<1> QED BY <1>1, <1>2, <1>3, <1>4, <1>5, <1>6

\* the first k nodes hold at most n bytes
Within(nodes, n, k) == Size(SubSeq(nodes, 1, k)) <= n

\* The loop of net_lwip_tcp_sent_cb over wait_ack_head frees or shortens nodes until
\* the n acknowledged bytes are gone from the front.
LEMMA AcknowledgeTile ==
    ASSUME NEW s, NEW a \in Nat, NEW b \in Nat, Tiles(s, a, b), NEW n \in Nat, n <= b - a
    PROVE  Tiles(Acknowledge(s, n), a + n, b)
<1> DEFINE m == Len(s)
           Longest(i) ==
               /\ Size(SubSeq(s, 1, i)) <= n
               /\ i < m => Size(SubSeq(s, 1, i + 1)) > n
           T == {j \in Nat : j <= m /\ Within(s, n, m - j)}
<1>1. m \in Nat /\ s \in Seq(Node) BY DEF Tiles, Lives
<1>2. \A k \in 0 .. m : /\ Cut(s, a, k) \in Nat
                        /\ a <= Cut(s, a, k)
                        /\ Cut(s, a, k) <= b
                        /\ Size(SubSeq(s, 1, k)) = Cut(s, a, k) - a
  <2>1. ASSUME NEW k \in 0 .. m
        PROVE  /\ Cut(s, a, k) \in Nat
               /\ a <= Cut(s, a, k)
               /\ Cut(s, a, k) <= b
               /\ Size(SubSeq(s, 1, k)) = Cut(s, a, k) - a
    <3> DEFINE c == Cut(s, a, k)
    <3>1. c \in Nat /\ Tiles(SubSeq(s, 1, k), a, c) /\ Tiles(SubSeq(s, k + 1, Len(s)), c, b)
          BY TilesCut
    <3> HIDE DEF c
    <3>2. a <= c /\ Size(SubSeq(s, 1, k)) = c - a /\ c <= b BY <3>1, TilesAre
    <3> QED BY <3>1, <3>2 DEF c
  <2> QED BY <2>1
<1>3. m \in T
  <2>1. 0 \in 0 .. m /\ m - m = 0 BY <1>1
  <2>2. Cut(s, a, 0) = a BY DEF Cut
  <2>3. Size(SubSeq(s, 1, 0)) = a - a BY <1>2, <2>1, <2>2
  <2>4. Size(SubSeq(s, 1, 0)) <= n BY <2>3
  <2> QED BY <1>1, <2>1, <2>4 DEF Within
<1>4. \E k \in 0 .. m : Longest(k)
  <2>1. T \subseteq Nat /\ T # {} BY <1>3
  <2> HIDE DEF T
  <2>2. PICK j \in T : \A i \in T : j <= i BY <2>1, LeastNatural
  <2> USE DEF T
  <2>3. j \in Nat /\ j <= m /\ Within(s, n, m - j) OBVIOUS
  <2> DEFINE k == m - j
  <2>4. k \in 0 .. m BY <1>1, <2>3
  <2>5. ASSUME k < m PROVE ~Within(s, n, k + 1)
    <3>0. SUFFICES ASSUME Within(s, n, k + 1) PROVE FALSE OBVIOUS
    <3> DEFINE i == j - 1
    <3>1. i \in Nat /\ i <= m /\ m - i = k + 1 /\ i < j BY <1>1, <2>3, <2>5
    <3> HIDE DEF i, k
    <3>2. i \in T BY <3>0, <3>1
    <3> HIDE DEF T
    <3> QED BY <2>2, <2>3, <3>1, <3>2
  <2>6. Within(s, n, k) BY <2>3
  <2> HIDE DEF k
  <2>7. ASSUME k < m PROVE Size(SubSeq(s, 1, k + 1)) > n
    <3>1. k + 1 \in 0 .. m BY <1>1, <2>4, <2>7
    <3>2. Size(SubSeq(s, 1, k + 1)) \in Int BY <1>2, <3>1
    <3> QED BY <2>5, <2>7, <3>2 DEF Within
  <2> QED BY <2>4, <2>6, <2>7 DEF Within
<1> DEFINE k == CHOOSE k \in 0 .. m : Longest(k)
           c == Cut(s, a, k)
           rest == SubSeq(s, k + 1, m)
           more == n - Size(SubSeq(s, 1, k))
<1>5. k \in 0 .. m /\ Longest(k) BY <1>4
<1>6. Acknowledge(s, n) = IF more = 0 THEN rest ELSE ReadOff(rest, more)
  <2> QED BY DEF Acknowledge, ReadOff
<1> HIDE DEF k
<1>7. c \in Nat /\ a <= c /\ c <= b /\ Size(SubSeq(s, 1, k)) = c - a BY <1>2, <1>5
<1>8. c - a <= n BY <1>5, <1>7
<1>9. more = n - (c - a) /\ more \in Nat /\ c + more = a + n BY <1>7, <1>8
<1>10. Tiles(rest, c, b) BY <1>5, TilesCut
<1>11. CASE more = 0
  <2>1. c = a + n BY <1>7, <1>9, <1>11
  <2> QED BY <1>6, <1>10, <1>11, <2>1
<1>12. CASE more # 0
  <2>1. k < m
    <3>1. SUFFICES ASSUME k = m PROVE FALSE BY <1>1, <1>5, <3>1
    <3>2. rest = <<>> BY <1>1, <3>1, SubSeqEmpty
    <3>3. c = b BY <1>10, <3>2 DEF Tiles
    <3> QED BY <1>7, <1>8, <1>9, <1>12, <3>3
  <2>2. k + 1 \in 1 .. m BY <1>1, <1>5, <2>1
  <2>3. /\ rest \in Seq(Node) /\ rest # <<>> /\ Head(rest) = s[k + 1]
    <3>1. \A i \in k + 1 .. m : s[i] \in Node BY <1>1, <1>5
    <3>2. /\ rest \in Seq(Node) /\ Len(rest) = m - (k + 1) + 1
          /\ \A i \in 1 .. m - (k + 1) + 1 : rest[i] = s[k + 1 + i - 1]
          BY <1>1, <1>5, <2>1, <3>1, SubSeqProperties
    <3>3. 1 \in 1 .. m - (k + 1) + 1 /\ k + 1 + 1 - 1 = k + 1 BY <1>1, <1>5, <2>1
    <3>4. rest[1] = s[k + 1] BY <3>2, <3>3
    <3>5. m - (k + 1) + 1 > 0 BY <1>1, <1>5, <2>1
    <3>6. rest # <<>>
      <4> HIDE DEF rest
      <4> QED BY <3>2, <3>5, EmptySeq
    <3> HIDE DEF rest
    <3> QED BY <3>2, <3>4, <3>6
  <2> DEFINE p == s[k + 1]
  <2>4. p \in Node /\ p.len \in Nat /\ p.read_pos \in Nat BY <1>1, <2>2, NodeFields
  <2>5. Start(p) = c /\ Live(p)
    <3>1. Start(rest[1]) = c BY <1>10, <2>3 DEF Tiles
    <3>2. Live(Head(rest)) BY <1>10, <2>3, LivesSteps DEF Tiles
    <3> HIDE DEF rest
    <3>3. Head(rest) = rest[1] BY <2>3
    <3> QED BY <2>3, <3>1, <3>2, <3>3
  <2>6. End(p) > a + n
    <3>1. Size(SubSeq(s, 1, k + 1)) > n BY <1>5, <2>1
    <3>2. k + 1 \in 0 .. m /\ k + 1 # 0 BY <1>1, <1>5, <2>2
    <3>3. Cut(s, a, k + 1) = End(p) BY <3>2 DEF Cut
    <3>4. Size(SubSeq(s, 1, k + 1)) = End(p) - a /\ End(p) \in Nat BY <1>2, <3>2, <3>3
    <3> HIDE DEF p
    <3> QED BY <3>1, <3>4
  <2>7. p.read_pos + more < p.len
    <3>1. End(p) - Start(p) = p.len - p.read_pos BY <2>4, <2>5, NodeFields
    <3>2. Start(p) \in Nat /\ End(p) \in Nat BY <2>4, NodeFields
    <3> HIDE DEF p, c, more
    <3> QED BY <1>7, <1>9, <2>4, <2>5, <2>6, <3>1, <3>2
  <2> HIDE DEF rest, p, c, more
  <2>8. Tiles(ReadOff(rest, more), c + more, b) BY <1>9, <1>10, <2>3, <2>7, TilesReadOff DEF p
  <2> QED BY <1>6, <1>9, <1>12, <2>8
<1> QED BY <1>11, <1>12

-----------------------------------------------------------------------------
(* TotalLen *)

\* what FoldLeft computes for a set of indices, if f tells it for fewer of them
Folded(f, s, t) == IF t = {} THEN 0 ELSE f[t \ {Max(t)}] + s[Max(t)].len
FoldsTo(f, s, n) == f = [t \in SUBSET (1 .. n) |-> Folded(f, s, t)]

LEMMA TotalIsFold ==
    ASSUME NEW s, NEW n \in Nat, DOMAIN s = 1 .. n
    PROVE  TotalLen(s) = (CHOOSE f : FoldsTo(f, s, n))[1 .. n]
BY DEF TotalLen, FoldLeft, MapThenFoldSet, FoldsTo, Folded

LEMMA MaxUpto ==
    ASSUME NEW n \in Nat, n > 0
    PROVE  Max(1 .. n) = n /\ (1 .. n) \ {Max(1 .. n)} = 1 .. n - 1
<1>1. n \in 1 .. n /\ \A y \in 1 .. n : n >= y OBVIOUS
<1>2. Max(1 .. n) \in 1 .. n /\ \A y \in 1 .. n : Max(1 .. n) >= y BY <1>1 DEF Max
<1>3. Max(1 .. n) = n BY <1>1, <1>2
<1>4. (1 .. n) \ {n} = 1 .. n - 1 OBVIOUS
<1> QED BY <1>3, <1>4

\* A non-empty set of indices has a largest one.
LEMMA MaxOf ==
    ASSUME NEW n \in Nat, NEW t \in SUBSET (1 .. n), t # {}
    PROVE  Max(t) \in t /\ \A y \in t : y <= Max(t)
<1> DEFINE T == {j \in Nat : n - j \in t}
<1>1. PICK x \in t : TRUE OBVIOUS
<1>2. x \in 1 .. n /\ n - (n - x) = x OBVIOUS
<1>3. T \subseteq Nat /\ T # {}
  <2>1. n - x \in T BY <1>1, <1>2
  <2> QED BY <2>1
<1>4. PICK j \in T : \A i \in T : j <= i
  <2> HIDE DEF T
  <2> QED BY <1>3, LeastNatural
<1> DEFINE m == n - j
<1>5. j \in Nat /\ m \in t OBVIOUS
<1>6. ASSUME NEW y \in t PROVE y <= m
  <2>1. y \in 1 .. n OBVIOUS
  <2>2. n - y \in Nat /\ n - (n - y) = y BY <2>1
  <2>3. n - y \in T BY <2>2
  <2> HIDE DEF T
  <2>4. j <= n - y BY <1>4, <2>3
  <2> QED BY <1>5, <2>1, <2>4
<1> HIDE DEF m
<1>7. \A y \in t : m >= y BY <1>5, <1>6
<1>8. Max(t) \in t /\ \A y \in t : Max(t) >= y BY <1>5, <1>7 DEF Max
<1>9. \A y \in t : y \in Nat OBVIOUS
<1> QED BY <1>8, <1>9

\* There is a function that FoldLeft may take.
LEMMA FoldExists ==
    ASSUME NEW s
    PROVE  \A n \in Nat : \E f : FoldsTo(f, s, n)
<1> DEFINE T == {n \in Nat : \E f : FoldsTo(f, s, n)}
<1>1. 0 \in T
  <2> DEFINE f == [t \in SUBSET (1 .. 0) |-> 0]
  <2>1. \A t \in SUBSET (1 .. 0) : t = {} OBVIOUS
  <2>2. f = [t \in SUBSET (1 .. 0) |-> Folded(f, s, t)] BY <2>1 DEF Folded
  <2>3. FoldsTo(f, s, 0) BY <2>2 DEF FoldsTo
  <2> QED BY <2>3
<1>2. ASSUME NEW n \in Nat, n \in T, NEW k \in Nat, k = n + 1 PROVE k \in T
  <2>1. PICK f : FoldsTo(f, s, n) BY <1>2
  <2> DEFINE A == SUBSET (1 .. n)
             B == SUBSET (1 .. k)
             g == [t \in B |-> Folded(f, s, t)]
  <2>2. \A t \in A : f[t] = Folded(f, s, t) BY <2>1 DEF FoldsTo
  <2>3. \A t \in A : t \in B BY <1>2
  <2>4. \A t \in A : g[t] = f[t] BY <2>2, <2>3
  <2>5. ASSUME NEW t \in B PROVE g[t] = Folded(g, s, t)
    <3>1. g[t] = Folded(f, s, t) OBVIOUS
    <3>2. CASE t = {} BY <3>1, <3>2 DEF Folded
    <3>3. CASE t # {}
      <4> DEFINE r == t \ {Max(t)}
      <4>1. Max(t) \in t /\ \A y \in t : y <= Max(t) BY <1>2, <3>3, MaxOf
      <4>2. ASSUME NEW y \in r PROVE y \in 1 .. n
        <5>1. y \in 1 .. k /\ Max(t) \in 1 .. k /\ y <= Max(t) /\ y # Max(t) BY <4>1
        <5> QED BY <1>2, <5>1
      <4>3. r \in A BY <4>2
      <4>4. g[r] = f[r] BY <2>4, <4>3
      <4> HIDE DEF g
      <4> QED BY <3>1, <3>3, <4>4 DEF Folded
    <3> QED BY <3>2, <3>3
  <2>6. g = [t \in B |-> Folded(g, s, t)]
    <3> DEFINE h == [t \in B |-> Folded(g, s, t)]
    <3>1. \A t \in B : h[t] = Folded(g, s, t) OBVIOUS
    <3>2. \A t \in B : g[t] = h[t] BY <2>5, <3>1
    <3>3. DOMAIN g = B /\ DOMAIN h = B OBVIOUS
    <3>4. g = [t \in DOMAIN g |-> g[t]] /\ h = [t \in DOMAIN h |-> h[t]] OBVIOUS
    <3> HIDE DEF g, h, B
    <3>5. g = h BY <3>2, <3>3, <3>4
    <3> QED BY <3>5 DEF h
  <2> HIDE DEF g
  <2>7. FoldsTo(g, s, k) BY <2>6 DEF FoldsTo
  <2> QED BY <2>7
<1>3. \A n, k \in Nat : n \in T /\ k = n + 1 => k \in T BY <1>2
<1> HIDE DEF T
<1>4. \A n \in Nat : n \in T BY <1>1, <1>3, Induction
<1> QED BY <1>4 DEF T

\* the lengths of the elements of a sequence are natural numbers
Lengths(s) == \E n \in Nat : DOMAIN s = 1 .. n /\ Len(s) = n /\ \A i \in 1 .. n : s[i].len \in Nat

\* g[i] is the sum of the first i lengths
Sums(g, s) ==
    /\ g \in [0 .. Len(s) -> Nat]
    /\ g[0] = 0
    /\ \A i, k \in 0 .. Len(s) : i < k /\ k <= i + 1 => g[k] = g[i] + s[k].len

\* TotalLen is the last of the sums, which exist.
LEMMA TotalIsSum ==
    ASSUME NEW s, Lengths(s)
    PROVE  \E g : Sums(g, s) /\ TotalLen(s) = g[Len(s)]
<1> DEFINE n == Len(s)
<1>1. n \in Nat /\ DOMAIN s = 1 .. n /\ \A i \in 1 .. n : s[i].len \in Nat BY DEF Lengths
<1> HIDE DEF n
<1> DEFINE f == CHOOSE f : FoldsTo(f, s, n)
           g == [i \in 0 .. n |-> f[1 .. i]]
<1>2. FoldsTo(f, s, n) BY <1>1, FoldExists
<1>3. TotalLen(s) = f[1 .. n] BY <1>1, TotalIsFold
<1> HIDE DEF f
<1>4. \A t \in SUBSET (1 .. n) : f[t] = Folded(f, s, t) BY <1>2 DEF FoldsTo
<1>5. \A i \in 0 .. n : 1 .. i \in SUBSET (1 .. n) BY <1>1
<1>6. g[0] = 0
  <2>1. 1 .. 0 = {} OBVIOUS
  <2>2. g[0] = f[1 .. 0] BY <1>1
  <2>3. f[1 .. 0] = Folded(f, s, 1 .. 0) BY <1>1, <1>4, <1>5
  <2> QED BY <2>1, <2>2, <2>3 DEF Folded
<1>7. ASSUME NEW i \in 0 .. n, NEW k \in 0 .. n, i < k, k <= i + 1
      PROVE  g[k] = g[i] + s[k].len
  <2>1. k - 1 = i /\ k \in Nat /\ k > 0 BY <1>1, <1>7
  <2>2. f[1 .. k] = Folded(f, s, 1 .. k) BY <1>4, <1>5
  <2>3. 1 .. k # {} BY <2>1
  <2>4. Max(1 .. k) = k /\ (1 .. k) \ {Max(1 .. k)} = 1 .. i BY <2>1, MaxUpto
  <2>5. Folded(f, s, 1 .. k) = f[1 .. i] + s[k].len BY <2>3, <2>4 DEF Folded
  <2> QED BY <2>2, <2>5
<1>8. \A i \in 0 .. n : g[i] \in Nat
  <2> DEFINE T == {i \in Nat : i \in 0 .. n => g[i] \in Nat}
  <2> HIDE DEF g
  <2>1. 0 \in T BY <1>6
  <2>2. ASSUME NEW i \in Nat, NEW k \in Nat, i \in T, k = i + 1 PROVE k \in T
    <3>1. SUFFICES ASSUME k \in 0 .. n PROVE g[k] \in Nat OBVIOUS
    <3>2. i \in 0 .. n /\ i < k /\ k <= i + 1 /\ k \in 1 .. n BY <1>1, <2>2, <3>1
    <3>3. g[i] \in Nat /\ s[k].len \in Nat BY <1>1, <2>2, <3>2
    <3>4. g[k] = g[i] + s[k].len BY <1>7, <3>1, <3>2
    <3> QED BY <3>3, <3>4
  <2>3. \A i, k \in Nat : i \in T /\ k = i + 1 => k \in T BY <2>2
  <2> HIDE DEF T
  <2>4. \A i \in Nat : i \in T BY <2>1, <2>3, Induction
  <2> QED BY <1>1, <2>4 DEF T
<1>9. g[n] = f[1 .. n] BY <1>1
<1>10. g \in [0 .. n -> Nat] BY <1>8
<1> HIDE DEF g
<1>11. Sums(g, s) BY <1>6, <1>7, <1>10 DEF Sums, n
<1> QED BY <1>3, <1>9, <1>11 DEF n

\* Only one function sums up given lengths.
LEMMA SumsUnique ==
    ASSUME NEW s, NEW t, Lengths(s), Lengths(t), Len(t) <= Len(s),
           \A i \in 1 .. Len(t) : t[i].len = s[i].len,
           NEW g, Sums(g, s), NEW h, Sums(h, t)
    PROVE  \A i \in 0 .. Len(t) : h[i] = g[i]
<1> DEFINE n == Len(s)
           m == Len(t)
           T == {i \in Nat : i \in 0 .. m => h[i] = g[i]}
<1>1. n \in Nat /\ m \in Nat /\ m <= n BY DEF Lengths
<1>2. /\ g[0] = 0
      /\ \A i, k \in 0 .. n : i < k /\ k <= i + 1 => g[k] = g[i] + s[k].len BY DEF Sums
<1>3. /\ h[0] = 0
      /\ \A i, k \in 0 .. m : i < k /\ k <= i + 1 => h[k] = h[i] + t[k].len BY DEF Sums
<1>4. \A i \in 1 .. m : t[i].len = s[i].len OBVIOUS
<1> HIDE DEF n, m
<1>5. 0 \in T BY <1>2, <1>3
<1>6. ASSUME NEW i \in Nat, NEW k \in Nat, i \in T, k = i + 1 PROVE k \in T
  <2>1. SUFFICES ASSUME k \in 0 .. m PROVE h[k] = g[k] OBVIOUS
  <2>2. /\ i \in 0 .. m /\ i \in 0 .. n /\ k \in 0 .. n /\ k \in 1 .. m
        /\ i < k /\ k <= i + 1 BY <1>1, <1>6, <2>1
  <2>3. h[k] = h[i] + t[k].len BY <1>3, <2>1, <2>2
  <2>4. g[k] = g[i] + s[k].len BY <1>2, <2>2
  <2>5. h[i] = g[i] BY <1>6, <2>2
  <2> QED BY <1>4, <2>2, <2>3, <2>4, <2>5
<1>7. \A i, k \in Nat : i \in T /\ k = i + 1 => k \in T BY <1>6
<1> HIDE DEF T
<1>8. \A i \in Nat : i \in T BY <1>5, <1>7, Induction
<1> QED BY <1>1, <1>8 DEF T, m

\* Sequences of the same lengths have the same total.
LEMMA TotalSame ==
    ASSUME NEW s, NEW t, Lengths(s), Lengths(t), Len(t) = Len(s),
           \A i \in 1 .. Len(t) : t[i].len = s[i].len
    PROVE  TotalLen(t) = TotalLen(s)
<1>1. PICK g : Sums(g, s) /\ TotalLen(s) = g[Len(s)] BY TotalIsSum
<1>2. PICK h : Sums(h, t) /\ TotalLen(t) = h[Len(t)] BY TotalIsSum
<1>3. Len(t) \in Nat /\ Len(s) \in Nat BY DEF Lengths
<1>4. Len(t) <= Len(s) /\ Len(t) \in 0 .. Len(t) BY <1>3
<1>5. \A i \in 0 .. Len(t) : h[i] = g[i] BY <1>1, <1>2, <1>4, SumsUnique
<1> QED BY <1>1, <1>2, <1>4, <1>5

LEMMA TotalNat ==
    ASSUME NEW s, Lengths(s)
    PROVE  TotalLen(s) \in Nat /\ (s = <<>> => TotalLen(s) = 0)
<1>1. PICK g : Sums(g, s) /\ TotalLen(s) = g[Len(s)] BY TotalIsSum
<1>2. Len(s) \in 0 .. Len(s) BY DEF Lengths
<1>3. s = <<>> => Len(s) = 0 OBVIOUS
<1> QED BY <1>1, <1>2, <1>3 DEF Sums

\* t is s and one more element x
LEMMA TotalLonger ==
    ASSUME NEW s, NEW t, NEW x, Lengths(s), Lengths(t), Len(t) = Len(s) + 1,
           \A i \in 1 .. Len(s) : t[i] = s[i], t[Len(t)] = x
    PROVE  TotalLen(t) = TotalLen(s) + x.len
<1> DEFINE n == Len(s)
           k == Len(t)
<1>1. n \in Nat /\ k \in Nat /\ k = n + 1 BY DEF Lengths
<1>2. PICK g : Sums(g, s) /\ TotalLen(s) = g[n] BY TotalIsSum
<1>3. PICK h : Sums(h, t) /\ TotalLen(t) = h[k] BY TotalIsSum
<1>4. n <= k /\ n \in 0 .. n /\ n \in 0 .. k /\ k \in 0 .. k /\ n < k /\ k <= n + 1 BY <1>1
<1>5. \A i \in 0 .. n : g[i] = h[i]
  <2>1. \A i \in 1 .. Len(s) : s[i].len = t[i].len OBVIOUS
  <2>2. Len(s) <= Len(t) BY <1>4
  <2> HIDE DEF n, k
  <2>3. \A i \in 0 .. Len(s) : g[i] = h[i] BY <1>2, <1>3, <2>1, <2>2, SumsUnique
  <2> QED BY <2>3 DEF n
<1>6. h[k] = h[n] + t[k].len
  <2>1. \A i, j \in 0 .. k : i < j /\ j <= i + 1 => h[j] = h[i] + t[j].len BY <1>3 DEF Sums
  <2> HIDE DEF n, k
  <2> QED BY <1>4, <2>1
<1>7. g[n] = h[n] BY <1>4, <1>5
<1> QED BY <1>2, <1>3, <1>6, <1>7

\* t is s without its first element
LEMMA TotalShorter ==
    ASSUME NEW s, NEW t, Lengths(s), Lengths(t), Len(s) = Len(t) + 1,
           \A i \in 1 .. Len(t) : \A j \in 1 .. Len(s) : i < j /\ j <= i + 1 => t[i] = s[j]
    PROVE  TotalLen(s) = s[1].len + TotalLen(t)
<1> DEFINE n == Len(s)
           m == Len(t)
           x == s[1].len
<1>1. n \in Nat /\ m \in Nat /\ n = m + 1 BY DEF Lengths
<1>2. PICK g : Sums(g, s) /\ TotalLen(s) = g[n] BY TotalIsSum
<1>3. PICK h : Sums(h, t) /\ TotalLen(t) = h[m] BY TotalIsSum
<1>4. /\ g[0] = 0 /\ g \in [0 .. n -> Nat]
      /\ \A i, j \in 0 .. n : i < j /\ j <= i + 1 => g[j] = g[i] + s[j].len BY <1>2 DEF Sums
<1>5. /\ h[0] = 0 /\ h \in [0 .. m -> Nat]
      /\ \A i, j \in 0 .. m : i < j /\ j <= i + 1 => h[j] = h[i] + t[j].len BY <1>3 DEF Sums
<1>6. \A i \in 1 .. m : \A j \in 1 .. n : i < j /\ j <= i + 1 => t[i] = s[j] OBVIOUS
<1>7. x \in Nat /\ \A i \in 1 .. m : t[i].len \in Nat
  <2>1. 1 \in 1 .. Len(s) BY <1>1
  <2> QED BY <2>1 DEF Lengths
<1>8. g[1] = x
  <2>1. 0 \in 0 .. n /\ 1 \in 0 .. n BY <1>1
  <2>2. g[1] = g[0] + x BY <1>4, <2>1
  <2> QED BY <1>4, <1>7, <2>2
<1> HIDE DEF n, m
<1> DEFINE T == {i \in Nat : i \in 0 .. m => \A j \in 0 .. n : i < j /\ j <= i + 1 => g[j] = x + h[i]}
<1>9. 0 \in T
  <2>1. ASSUME NEW j \in 0 .. n, 0 < j, j <= 0 + 1 PROVE g[j] = x + h[0]
    <3>1. j = 1 BY <2>1
    <3> HIDE DEF x
    <3> QED BY <1>5, <1>7, <1>8, <3>1
  <2> QED BY <2>1
<1>10. ASSUME NEW i \in Nat, NEW k \in Nat, i \in T, k = i + 1 PROVE k \in T
  <2>1. SUFFICES ASSUME k \in 0 .. m, NEW j \in 0 .. n, k < j, j <= k + 1
                 PROVE  g[j] = x + h[k] OBVIOUS
  <2>2. /\ i \in 0 .. m /\ k \in 0 .. n /\ k \in 1 .. m /\ j \in 1 .. n
        /\ i < k /\ k <= i + 1 BY <1>1, <1>10, <2>1
  <2>3. g[k] = x + h[i] BY <1>10, <2>2
  <2>4. g[j] = g[k] + s[j].len BY <1>4, <2>1, <2>2
  <2>5. t[k] = s[j] BY <1>6, <2>1, <2>2
  <2>6. h[k] = h[i] + t[k].len BY <1>5, <2>1, <2>2
  <2>7. h[i] \in Nat /\ t[k].len \in Nat BY <1>5, <1>7, <2>2
  <2> HIDE DEF x
  <2> QED BY <1>7, <2>3, <2>4, <2>5, <2>6, <2>7
<1>11. \A i, k \in Nat : i \in T /\ k = i + 1 => k \in T BY <1>10
<1> HIDE DEF T
<1>12. \A i \in Nat : i \in T BY <1>9, <1>11, Induction
<1>13. m \in T BY <1>1, <1>12
<1>14. m \in 0 .. m /\ n \in 0 .. n /\ m < n /\ n <= m + 1 BY <1>1
<1>15. g[n] = x + h[m] BY <1>13, <1>14 DEF T
<1> QED BY <1>2, <1>3, <1>15 DEF m, n

LEMMA LengthsOf ==
    ASSUME NEW R, \A r \in R : r.len \in Nat, NEW s \in Seq(R)
    PROVE  Lengths(s)
<1>1. Len(s) \in Nat /\ DOMAIN s = 1 .. Len(s) /\ \A i \in 1 .. Len(s) : s[i] \in R
      BY LenProperties
<1>2. \A i \in 1 .. Len(s) : s[i].len \in Nat BY <1>1
<1> QED BY <1>1, <1>2 DEF Lengths

\* The total of a sequence that gets a last element, or loses the first one.
LEMMA TotalSteps ==
    ASSUME NEW R, \A r \in R : r.len \in Nat, NEW s \in Seq(R)
    PROVE  /\ TotalLen(s) \in Nat
           /\ s = <<>> => TotalLen(s) = 0
           /\ \A x \in R : TotalLen(Append(s, x)) = TotalLen(s) + x.len
           /\ s # <<>> => TotalLen(s) = Head(s).len + TotalLen(Tail(s))
<1>1. Lengths(s) BY LengthsOf
<1>2. TotalLen(s) \in Nat /\ (s = <<>> => TotalLen(s) = 0) BY <1>1, TotalNat
<1>3. ASSUME NEW x \in R PROVE TotalLen(Append(s, x)) = TotalLen(s) + x.len
  <2> DEFINE t == Append(s, x)
  <2>1. t \in Seq(R) /\ Len(t) = Len(s) + 1 BY AppendProperties
  <2>2. (\A i \in 1 .. Len(s) : t[i] = s[i]) /\ t[Len(s) + 1] = x BY AppendProperties
  <2> HIDE DEF t
  <2>3. Lengths(t) BY <2>1, LengthsOf
  <2>4. t[Len(t)] = x BY <2>1, <2>2
  <2>5. TotalLen(t) = TotalLen(s) + x.len BY <1>1, <2>1, <2>2, <2>3, <2>4, TotalLonger
  <2> QED BY <2>5 DEF t
<1>4. ASSUME s # <<>> PROVE TotalLen(s) = Head(s).len + TotalLen(Tail(s))
  <2> DEFINE t == Tail(s)
  <2>1. /\ t \in Seq(R) /\ Len(t) = Len(s) - 1
        /\ \A i \in 1 .. Len(t) : t[i] = s[i + 1] BY <1>4, HeadTailProperties
  <2>2. Head(s) = s[1] BY <1>4
  <2> HIDE DEF t
  <2>3. Lengths(t) BY <2>1, LengthsOf
  <2>4. Len(s) \in Nat /\ Len(t) \in Nat /\ Len(s) = Len(t) + 1 BY <2>1
  <2>5. ASSUME NEW i \in 1 .. Len(t), NEW j \in 1 .. Len(s), i < j, j <= i + 1
        PROVE  t[i] = s[j]
    <3>1. j = i + 1 BY <2>5
    <3> QED BY <2>1, <3>1
  <2>6. TotalLen(s) = s[1].len + TotalLen(t) BY <1>1, <2>3, <2>4, <2>5, TotalShorter
  <2> QED BY <2>2, <2>6 DEF t
<1> QED BY <1>2, <1>3, <1>4

-----------------------------------------------------------------------------
(* Chunks *)

LEMMA ProductMonotonic ==
    ASSUME NEW a \in Nat, NEW b \in Nat, NEW m \in Nat, a <= b
    PROVE  a * m <= b * m /\ a * m \in Nat
OBVIOUS

LEMMA DivisionBounds ==
    ASSUME NEW x \in Nat, NEW m \in Nat, m > 0
    PROVE  /\ x \div m \in Nat
           /\ (x \div m) * m <= x
           /\ x < (x \div m) * m + m
OBVIOUS

\* The chunks of a send hold its bytes, and each is of SOCKET_BUF_LEN bytes at most.
LEMMA ChunksTile ==
    ASSUME NEW n \in Nat, n > 0, accepted \in Nat
    PROVE  Tiles(Chunks(n), accepted, accepted + n)
<1> DEFINE L == SOCKET_BUF_LEN
           x == n + L - 1
           m == x \div L
           off(i) == (i - 1) * L
           node(i) == [from |-> accepted + off(i),
                       len |-> Least(L, n - off(i)),
                       read_pos |-> 0]
           s == Chunks(n)
<1>1. L \in Nat /\ L > 0 BY StreamAssumption
<1>2. x \in Nat /\ n <= x /\ x + 1 = n + L BY <1>1
<1>3. s = [i \in 1 .. m |-> node(i)] BY DEF Chunks
<1> HIDE DEF L
<1>4. m \in Nat /\ m * L <= x /\ x < m * L + L
  <2> HIDE DEF x
  <2> QED BY <1>1, <1>2, DivisionBounds
<1> HIDE DEF s, x, m, off
<1>5. m > 0
  <2>1. SUFFICES ASSUME m = 0 PROVE FALSE BY <1>4
  <2>2. m * L = 0 BY <1>1, <2>1
  <2> QED BY <1>1, <1>2, <1>4, <2>2
<1>6. off(1) = 0 BY <1>1 DEF off
<1>7. \A i \in 1 .. m : off(i) \in Nat /\ off(i) < n
  <2>1. ASSUME NEW i \in 1 .. m PROVE off(i) \in Nat /\ off(i) < n
    <3> DEFINE j == i - 1
               k == m - 1
    <3>1. j \in Nat /\ k \in Nat /\ j <= k BY <1>4
    <3> HIDE DEF j, k
    <3>2. j * L <= k * L /\ j * L \in Nat /\ k * L \in Nat BY <1>1, <3>1, ProductMonotonic
    <3>3. m * L = k * L + L BY <1>1, <1>4, <3>1 DEF k
    <3>4. off(i) = j * L BY DEF off, j
    <3> QED BY <1>1, <1>2, <1>4, <3>2, <3>3, <3>4
  <2> QED BY <2>1
<1>8. \A i, j \in 1 .. m : i < j /\ j <= i + 1 => off(j) = off(i) + L
  <2>1. ASSUME NEW i \in 1 .. m, NEW j \in 1 .. m, i < j, j <= i + 1 PROVE off(j) = off(i) + L
    <3>1. i \in Nat /\ j = i + 1 BY <1>4, <2>1
    <3>2. (i + 1 - 1) * L = (i - 1) * L + L BY <1>1, <3>1
    <3> QED BY <3>1, <3>2 DEF off
  <2> QED BY <2>1
<1>9. n <= off(m) + L
  <2>1. m * L = off(m) + L BY <1>1, <1>4 DEF off
  <2>2. off(m) \in Nat BY <1>4, <1>5, <1>7
  <2> QED BY <1>1, <1>2, <1>4, <2>1, <2>2
<1>10. ASSUME NEW i \in 1 .. m
       PROVE  /\ node(i) \in Node /\ Live(node(i))
              /\ Start(node(i)) = accepted + off(i)
              /\ n <= off(i) + L => End(node(i)) = accepted + n
              /\ off(i) + L < n => End(node(i)) = accepted + off(i) + L
  <2>1. off(i) \in Nat /\ off(i) < n BY <1>7
  <2>2. Least(L, n - off(i)) \in Nat \ {0} BY <1>1, <2>1 DEF Least
  <2>3. node(i) \in Node BY <2>1, <2>2 DEF Node
  <2>4. Live(node(i)) BY <2>2 DEF Live
  <2>5. Start(node(i)) = accepted + off(i) BY <2>1 DEF Start
  <2>6. n <= off(i) + L => End(node(i)) = accepted + n BY <1>1, <2>1 DEF End, Least
  <2>7. off(i) + L < n => End(node(i)) = accepted + off(i) + L BY <1>1, <2>1 DEF End, Least
  <2> QED BY <2>3, <2>4, <2>5, <2>6, <2>7
<1>11. s \in Seq(Node) /\ Len(s) = m /\ s # <<>> /\ \A i \in 1 .. m : s[i] = node(i)
  <2>1. \A i \in 1 .. m : node(i) \in Node BY <1>10
  <2> HIDE DEF node
  <2>2. s \in Seq(Node) /\ Len(s) = m BY <1>3, <1>4, <2>1
  <2>3. s # <<>> BY <1>5, <2>2, EmptySeq
  <2> QED BY <1>3, <2>2, <2>3
<1> HIDE DEF node
<1>12. Lives(s) BY <1>10, <1>11 DEF Lives
<1>13. ASSUME NEW i \in 1 .. m, NEW j \in 1 .. m, i < j, j <= i + 1
       PROVE  End(s[i]) = Start(s[j])
  <2>1. off(j) = off(i) + L /\ off(j) < n BY <1>7, <1>8, <1>13
  <2>2. End(node(i)) = accepted + off(i) + L BY <1>10, <2>1
  <2>3. Start(node(j)) = accepted + off(j) BY <1>10
  <2>4. accepted + off(i) + L = accepted + off(j) BY <1>1, <1>7, <2>1
  <2> QED BY <1>11, <2>2, <2>3, <2>4
<1>14. Adjacent(s) BY <1>11, <1>13 DEF Adjacent
<1>15. 1 \in 1 .. m /\ m \in 1 .. m BY <1>4, <1>5
<1>16. Start(s[1]) = accepted BY <1>6, <1>10, <1>11, <1>15
<1>17. End(s[m]) = accepted + n BY <1>9, <1>10, <1>11, <1>15
<1>18. Tiles(s, accepted, accepted + n) BY <1>11, <1>12, <1>14, <1>16, <1>17 DEF Tiles
<1> QED BY <1>18 DEF s
=============================================================================
