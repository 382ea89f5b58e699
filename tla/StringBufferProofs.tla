-------------------------- MODULE StringBufferProofs --------------------------
(* Theorems about StringBuffer, for buffers of any size. *)
EXTENDS StringBuffer, SequenceTheorems, WellFoundedInduction, TLAPS

Chars == 1..MaxWritten
Node  == [cur_len : 0..NodeSize - 1, data : Seq(Chars)]

BufferInv == TypeOK /\ ListConsistent

\* A buffer with a node has a tail, whose free space is not negative and at
\* most what an empty node has.
LEMMA TailNode ==
  ASSUME BufferInv, nodes # <<>>
  PROVE  /\ Len(nodes) \in 1..MaxNodes
         /\ Last(nodes) \in Node
         /\ Available \in 0..NodeSize - 1
         /\ Available = NodeSize - 1 - Last(nodes).cur_len
  <1>1. nodes \in Seq(Node)
    BY DEF BufferInv, TypeOK, Node, Chars
  <1>2. Len(nodes) \in 1..MaxNodes
    BY <1>1, EmptySeq, SizeAssumption DEF BufferInv, TypeOK
  <1>3. Last(nodes) \in Node
    BY <1>1, <1>2, ElementOfSeq DEF Last
  <1> QED BY <1>2, <1>3, SizeAssumption DEF Node, Available

\* Text that fits into the tail changes the tail only, and its cur_len is
\* right again.
LEMMA Filled ==
  ASSUME BufferInv, nodes # <<>>, NEW s \in Seq(Chars), Len(s) <= Available
  PROVE  /\ WithTail(s) \in Seq(Node)
         /\ Len(WithTail(s)) = Len(nodes)
         /\ \A i \in 1..Len(nodes) - 1 : WithTail(s)[i] = nodes[i]
         /\ WithTail(s)[Len(nodes)].cur_len = Last(nodes).cur_len + Len(s)
         /\ WithTail(s)[Len(nodes)].cur_len = Len(WithTail(s)[Len(nodes)].data)
  <1> DEFINE k == Len(nodes)
             t == [cur_len |-> nodes[k].cur_len + Len(s), data |-> nodes[k].data \o s]
  <1>1. nodes \in Seq(Node) /\ k \in 1..MaxNodes /\ k \in 1..Len(nodes)
    BY TailNode DEF BufferInv, TypeOK, Node, Chars
  <1>2. /\ nodes[k] \in Node /\ Len(s) \in Nat
        /\ nodes[k].cur_len + Len(s) \in 0..NodeSize - 1
    BY TailNode, SizeAssumption, LenProperties DEF Last, Node
  <1>3. /\ nodes[k].data \o s \in Seq(Chars)
        /\ Len(nodes[k].data \o s) = Len(nodes[k].data) + Len(s)
    BY <1>2, ConcatProperties DEF Node
  <1>4. t \in Node
    BY <1>2, <1>3 DEF Node
  <1>5. WithTail(s) = [nodes EXCEPT ![k] = t]
    BY DEF WithTail
  <1>6. /\ WithTail(s) \in Seq(Node)
        /\ Len(WithTail(s)) = k
        /\ \A i \in 1..k : WithTail(s)[i] = IF i = k THEN t ELSE nodes[i]
    BY ONLY <1>1, <1>4, <1>5, ExceptSeq
  <1>7. WithTail(s)[k] = t
    BY <1>1, <1>6
  <1>8. nodes[k].cur_len = Len(nodes[k].data)
    BY <1>1 DEF BufferInv, ListConsistent
  <1>9. \A i \in 1..k - 1 : WithTail(s)[i] = nodes[i]
    BY <1>1, <1>6
  <1> QED BY <1>2, <1>3, <1>6, <1>7, <1>8, <1>9 DEF Last

\* An append that fits leaves the list consistent.
LEMMA FitsStep == ASSUME BufferInv, Fits PROVE BufferInv'
  <1>1. nodes # <<>> /\ rest \in Seq(Chars) /\ Len(rest) <= Available
    BY DEF Fits, BufferInv, TypeOK, Chars
  <1>2. /\ nodes' \in Seq(Node) /\ Len(nodes') = Len(nodes)
        /\ \A i \in 1..Len(nodes) - 1 : nodes'[i] = nodes[i]
        /\ nodes'[Len(nodes)].cur_len = Len(nodes'[Len(nodes)].data)
    BY <1>1, Filled DEF Fits
  <1>3. TypeOK'
    BY <1>2, EmptySeq DEF Fits, BufferInv, TypeOK, Node, Chars
  <1>4. cur_len' = Len(nodes')
    BY <1>2 DEF Fits, BufferInv, ListConsistent
  <1>5. Len(nodes) \in Nat
    BY <1>1, TailNode
  <1>6. \A i \in 1..Len(nodes') : nodes'[i].cur_len = Len(nodes'[i].data)
    BY <1>2, <1>5 DEF BufferInv, ListConsistent
  <1>7. \A i \in 1..Len(nodes') - 1 : nodes'[i].cur_len = NodeSize - 1
    BY <1>2, <1>5 DEF BufferInv, ListConsistent
  <1> QED BY <1>3, <1>4, <1>6, <1>7 DEF BufferInv, ListConsistent

\* The old tail is full, and a new, empty one follows it.
LEMMA LongerList ==
  ASSUME BufferInv, nodes # <<>>, Len(rest) > Available
  PROVE  /\ Longer \in Seq(Node)
         /\ Len(Longer) = Len(nodes) + 1
         /\ \A i \in 1..Len(Longer) : Longer[i].cur_len = Len(Longer[i].data)
         /\ \A i \in 1..Len(Longer) - 1 : Longer[i].cur_len = NodeSize - 1
  <1> DEFINE k == Len(nodes)
             s == SubSeq(rest, 1, Available)
             w == WithTail(s)
  <1>1. rest \in Seq(Chars) /\ Len(rest) \in Nat
    BY LenProperties DEF BufferInv, TypeOK, Chars
  <1>2. /\ k \in 1..MaxNodes /\ Available \in 0..NodeSize - 1
        /\ Available = NodeSize - 1 - Last(nodes).cur_len
        /\ Last(nodes) \in Node
    BY TailNode
  <1>3. Available \in Int /\ \A i \in 1..Available : rest[i] \in Chars
    BY <1>1, <1>2, ElementOfSeq, SizeAssumption
  <1>4. s \in Seq(Chars) /\ Len(s) = Available /\ Len(s) <= Available
    BY <1>2, <1>3, SubSeqProperties, SizeAssumption
  <1>5. /\ w \in Seq(Node) /\ Len(w) = k
        /\ \A i \in 1..k - 1 : w[i] = nodes[i]
        /\ w[k].cur_len = Last(nodes).cur_len + Available
        /\ w[k].cur_len = Len(w[k].data)
    <2> HIDE DEF s
    <2>1. /\ WithTail(s) \in Seq(Node)
          /\ Len(WithTail(s)) = Len(nodes)
          /\ \A i \in 1..Len(nodes) - 1 : WithTail(s)[i] = nodes[i]
          /\ WithTail(s)[Len(nodes)].cur_len = Last(nodes).cur_len + Len(s)
          /\ WithTail(s)[Len(nodes)].cur_len = Len(WithTail(s)[Len(nodes)].data)
      BY <1>4, Filled
    <2> QED BY <1>4, <2>1
  <1>6. buffer_node_create \in Node /\ buffer_node_create.cur_len = Len(buffer_node_create.data)
    BY SizeAssumption, EmptySeq DEF buffer_node_create, Node
  <1>7. /\ Longer \in Seq(Node) /\ Len(Longer) = k + 1
        /\ \A i \in 1..k : Longer[i] = w[i]
        /\ Longer[k + 1] = buffer_node_create
    BY <1>5, <1>6, AppendProperties DEF Longer
  <1>8. w[k].cur_len = NodeSize - 1
    BY <1>2, <1>5, SizeAssumption DEF Node
  <1>9. \A i \in 1..k : w[i].cur_len = Len(w[i].data) /\ w[i].cur_len = NodeSize - 1
    BY <1>2, <1>5, <1>8 DEF BufferInv, ListConsistent
  <1> QED BY <1>2, <1>6, <1>7, <1>9

\* What is left of the text is text.
LEMMA ResidueType ==
  ASSUME BufferInv, nodes # <<>>, Len(rest) > Available
  PROVE  Residue \in Seq(Chars)
  <1>1. rest \in Seq(Chars) /\ Len(rest) \in Nat
    BY LenProperties DEF BufferInv, TypeOK, Chars
  <1>2. Available \in Nat
    BY TailNode, SizeAssumption
  <1>3. \A i \in Available + 1..Len(rest) : rest[i] \in Chars
    BY <1>1, <1>2, ElementOfSeq
  <1> QED BY <1>1, <1>2, <1>3, SubSeqProperties DEF Residue

\* An append that does not fit leaves the list consistent, and no longer than
\* max_len.
LEMMA OverflowStep == ASSUME BufferInv, Overflows PROVE BufferInv'
  <1>1. nodes # <<>> /\ Len(rest) > Available
    BY DEF Overflows
  <1>2. /\ Longer \in Seq(Node) /\ Len(Longer) = Len(nodes) + 1
        /\ \A i \in 1..Len(Longer) : Longer[i].cur_len = Len(Longer[i].data)
        /\ \A i \in 1..Len(Longer) - 1 : Longer[i].cur_len = NodeSize - 1
    BY <1>1, LongerList
  <1>3. cur_len = Len(nodes) /\ Len(nodes) \in 1..MaxNodes
    BY <1>1, TailNode DEF BufferInv, ListConsistent
  <1>4. rest' \in Seq(Chars)
    BY <1>1, ResidueType DEF Overflows
  <1>5. CASE ~TooMany
    <2>1. nodes' = Longer /\ cur_len' = cur_len + 1 /\ cur_len + 1 <= MaxNodes
      BY <1>3, <1>5, SizeAssumption DEF Overflows, NodeCount, TooMany
    <2>2. TypeOK'
      BY <1>2, <1>3, <1>4, <2>1, SizeAssumption DEF Overflows, BufferInv, TypeOK, Node, Chars
    <2> QED BY <1>2, <1>3, <2>1, <2>2 DEF BufferInv, ListConsistent
  <1>6. CASE TooMany
    <2>1. nodes' = Tail(Longer) /\ cur_len' = cur_len
      BY <1>6 DEF Overflows, NodeCount
    <2>2. Longer # <<>>
      BY <1>2, <1>3, EmptySeq
    <2>3. /\ nodes' \in Seq(Node) /\ Len(nodes') = Len(nodes)
          /\ \A i \in 1..Len(nodes') : nodes'[i] = Longer[i + 1]
      BY <1>2, <1>3, <2>1, <2>2, HeadTailProperties
    <2>4. TypeOK'
      BY <1>3, <1>4, <2>1, <2>3 DEF Overflows, BufferInv, TypeOK, Node, Chars
    <2>5. ListConsistent'
      BY <1>2, <1>3, <2>1, <2>3, SMTT(30) DEF ListConsistent
    <2> QED BY <2>4, <2>5 DEF BufferInv
  <1> QED BY <1>5, <1>6

\* The list and the text keep their types through an append that begins.
LEMMA BeginStep == ASSUME BufferInv, BeginAppend PROVE BufferInv'
  <1>1. PICK n \in 0..MaxText :
          /\ written + n <= MaxWritten
          /\ rest' = [i \in 1..n |-> written + i]
          /\ written' = written + n
    BY DEF BeginAppend
  <1>2. written \in Nat /\ n \in Nat
    BY <1>1, SizeAssumption DEF BufferInv, TypeOK
  <1>3. \A i \in 1..n : written + i \in Chars
    BY <1>1, <1>2, SizeAssumption DEF Chars
  <1>4. rest' \in Seq(Chars)
    BY <1>1, <1>2, <1>3
  <1> QED BY <1>1, <1>2, <1>4, SizeAssumption
            DEF BeginAppend, BufferInv, TypeOK, ListConsistent, Chars

\* Every step keeps types and consistency.
LEMMA BufferStep == BufferInv /\ [Next]_vars => BufferInv'
  <1> SUFFICES ASSUME BufferInv, [Next]_vars PROVE BufferInv'
    OBVIOUS
  <1>1. CASE BeginAppend BY <1>1, BeginStep
  <1>2. CASE FirstNode
    <2>1. buffer_node_create \in Node /\ buffer_node_create.cur_len = Len(buffer_node_create.data)
      BY SizeAssumption, EmptySeq DEF buffer_node_create, Node
    <2>2. nodes' \in Seq(Node) /\ Len(nodes') = 1 /\ nodes'[1] = buffer_node_create
      BY <1>2, <2>1 DEF FirstNode
    <2> QED BY <1>2, <2>1, <2>2, SizeAssumption
              DEF FirstNode, BufferInv, TypeOK, ListConsistent, Node, Chars
  <1>3. CASE Fits BY <1>3, FitsStep
  <1>4. CASE Overflows BY <1>4, OverflowStep
  <1>5. CASE buffer_get_string
    BY <1>5 DEF buffer_get_string, BufferInv, TypeOK, ListConsistent
  <1>6. CASE buffer_reconstruct
    BY <1>6, EmptySeq, SizeAssumption DEF buffer_reconstruct, BufferInv, TypeOK, ListConsistent
  <1>7. CASE UNCHANGED vars
    BY <1>7 DEF vars, BufferInv, TypeOK, ListConsistent
  <1> QED BY <1>1, <1>2, <1>3, <1>4, <1>5, <1>6, <1>7 DEF Next, buffer_append

\* An empty buffer is consistent.
LEMMA BufferInit == Init => BufferInv
  <1> SUFFICES ASSUME Init PROVE BufferInv
    OBVIOUS
  <1>1. nodes = <<>> /\ rest = <<>> /\ Len(nodes) = 0
    BY EmptySeq DEF Init
  <1>2. nodes \in Seq([cur_len : 0..NodeSize - 1, data : Seq(1..MaxWritten)])
    BY <1>1, EmptySeq
  <1>3. rest \in Seq(1..MaxWritten)
    BY <1>1, EmptySeq
  <1>4. Len(nodes) = 0 /\ cur_len = 0 /\ written = 0 /\ appending = FALSE
    BY <1>1 DEF Init
  <1>5. TypeOK
    <2>1. Len(nodes) <= MaxNodes /\ cur_len \in 0..MaxNodes
      BY ONLY <1>4, SizeAssumption
    <2>2. written \in 0..MaxWritten
      BY ONLY <1>4, SizeAssumption
    <2>3. appending \in BOOLEAN
      BY <1>4
    <2> QED BY <1>2, <1>3, <2>1, <2>2, <2>3 DEF TypeOK
  <1>6. ListConsistent
    BY <1>1 DEF Init, ListConsistent
  <1> QED BY <1>5, <1>6 DEF BufferInv

\* Types and consistency hold in every state.
THEOREM Invariance == Spec => []BufferInv
<1> QED BY BufferInit, BufferStep, PTL DEF Spec

\* Type correctness: no node is overfilled, there are never too many.
THEOREM TypeCorrect == Spec => []TypeOK
<1>1. BufferInv => TypeOK BY DEF BufferInv
<1> QED BY <1>1, Invariance, PTL

\* The counters of the buffer and of its nodes are right at every step, and all
\* nodes but the tail are full.
THEOREM ListCorrect == Spec => []ListConsistent
<1>1. BufferInv => ListConsistent BY DEF BufferInv
<1> QED BY <1>1, Invariance, PTL

-----------------------------------------------------------------------------
(* Flattening.  FlattenSeq is a recursive function: what it gives is proved  *)
(* from the least index at which it would not.                               *)

\* A set of numbers that is not empty has a least one: the induction over the nodes
\* is by the least node for which what it is to show would fail.
LEMMA LeastIndex ==
  ASSUME NEW T, T \subseteq Nat, T # {}
  PROVE  \E n \in T : \A m \in T : n <= m
  <1> DEFINE Less == {ss \in Nat \X Nat : ss[1] < ss[2]}
  <1>1. IsWellFoundedOn(Less, Nat)
    BY NatLessThanWellFounded DEF OpToRel
  <1>2. PICK n \in T : \A m \in T : ~ (<<m, n>> \in Less)
    <2> HIDE DEF Less
    <2> QED BY <1>1, WFMin
  <1>3. ASSUME NEW m \in T PROVE n <= m
    <2>1. n \in Nat /\ m \in Nat
      OBVIOUS
    <2>2. m < n => <<m, n>> \in Less
      BY <2>1
    <2> QED BY <1>2, <2>1, <2>2
  <1> QED BY <1>3

\* What FlattenSeq goes by, up to the n-th sequence.
Joins(f, s, n) ==
  f = [i \in 1..n |-> IF i = 1 THEN s[i] ELSE f[i - 1] \o s[i]]

\* For any list of texts there is the function of its joined beginnings.
LEMMA Joined ==
  ASSUME NEW s, NEW n \in Nat
  PROVE  \E f : Joins(f, s, n)
  <1> DEFINE T == {m \in Nat : ~\E f : Joins(f, s, m)}
  <1> SUFFICES ASSUME T # {} PROVE FALSE
    OBVIOUS
  <1>1. PICK m \in T : \A l \in T : m <= l
    <2> HIDE DEF T
    <2>1. T \subseteq Nat
      BY DEF T
    <2> QED BY <2>1, LeastIndex
  <1>2. m \in Nat /\ ~\E f : Joins(f, s, m)
    OBVIOUS
  <1>3. CASE m = 0
    <2> DEFINE f == [i \in 1..0 |-> s[i]]
    <2>1. \A i \in 1..0 : FALSE
      OBVIOUS
    <2>2. Joins(f, s, 0)
      BY <2>1 DEF Joins
    <2> QED BY <1>2, <1>3, <2>2
  <1>4. CASE m > 0
    <2>1. m - 1 \in Nat /\ ~(m <= m - 1)
      BY <1>2, <1>4
    <2>2. ~(m - 1 \in T)
      BY <1>1, <2>1
    <2>3. PICK g : Joins(g, s, m - 1)
      BY <2>1, <2>2
    <2> DEFINE last == IF m = 1 THEN s[m] ELSE g[m - 1] \o s[m]
               f    == [i \in 1..m |-> IF i = m THEN last ELSE g[i]]
    <2>4. ASSUME NEW i \in 1..m
          PROVE  f[i] = IF i = 1 THEN s[i] ELSE f[i - 1] \o s[i]
      <3>1. CASE i = m
        <4>1. f[i] = last
          BY <3>1
        <4>2. i # 1 => i - 1 \in 1..m /\ i - 1 # m
          BY <1>2, <3>1
        <4>3. i # 1 => f[i - 1] = g[i - 1]
          BY <4>2
        <4> QED BY <3>1, <4>1, <4>3
      <3>2. CASE i # m
        <4>1. i \in 1..(m - 1)
          BY <1>2, <3>2
        <4>2. f[i] = g[i]
          BY <3>2
        <4>3. i # 1 => i - 1 \in 1..m /\ i - 1 # m
          BY <1>2, <4>1
        <4>4. i # 1 => f[i - 1] = g[i - 1]
          BY <4>3
        <4>5. g[i] = IF i = 1 THEN s[i] ELSE g[i - 1] \o s[i]
          BY <2>3, <4>1 DEF Joins
        <4> QED BY <4>2, <4>4, <4>5
      <3> QED BY <3>1, <3>2
    <2>5. f = [i \in 1..m |-> IF i = 1 THEN s[i] ELSE f[i - 1] \o s[i]]
      <3>1. f = [i \in 1..m |-> f[i]]
        OBVIOUS
      <3> HIDE DEF f
      <3> QED BY <2>4, <3>1
    <2>6. Joins(f, s, m)
      BY <2>5 DEF Joins
    <2> QED BY <1>2, <2>6
  <1> QED BY <1>2, <1>3, <1>4

\* FlattenSeq is the last of the joined beginnings.
LEMMA FlattenIs ==
  ASSUME NEW s, Len(s) \in Nat, Len(s) > 0
  PROVE  \E f : Joins(f, s, Len(s)) /\ FlattenSeq(s) = f[Len(s)]
  <1>1. \E f : f = [i \in 1..Len(s) |-> IF i = 1 THEN s[i] ELSE f[i - 1] \o s[i]]
    BY Joined DEF Joins
  <1>2. FlattenSeq(s) =
          (CHOOSE f : f = [i \in 1..Len(s) |-> IF i = 1 THEN s[i] ELSE f[i - 1] \o s[i]])[Len(s)]
    BY DEF FlattenSeq
  <1> QED BY <1>1, <1>2 DEF Joins

\* The numbers behind d, n of them.
Numbers(d, n) == [p \in 1..n |-> d + p]

\* Numbers and those behind them are numbers.
LEMMA NumbersJoin ==
  ASSUME NEW d \in Nat, NEW m \in Nat, NEW n \in Nat
  PROVE  Numbers(d, m) \o Numbers(d + m, n) = Numbers(d, m + n)
  <1>1. /\ Numbers(d, m) \in Seq(Nat) /\ Len(Numbers(d, m)) = m
        /\ Numbers(d + m, n) \in Seq(Nat) /\ Len(Numbers(d + m, n)) = n
    BY DEF Numbers
  <1> DEFINE s == Numbers(d, m)
             t == Numbers(d + m, n)
             u == Numbers(d, m + n)
  <1>2. /\ \A i \in 1..m : s[i] = d + i
        /\ \A i \in 1..n : t[i] = (d + m) + i
        /\ \A i \in 1..(m + n) : u[i] = d + i
        /\ u = [i \in 1..(m + n) |-> u[i]]
    BY DEF Numbers
  <1>3. s \in Seq(Nat) /\ t \in Seq(Nat) /\ Len(s) = m /\ Len(t) = n
    BY <1>1
  <1> HIDE DEF s, t, u
  <1>4. /\ Len(s \o t) = m + n /\ s \o t \in Seq(Nat)
        /\ \A i \in 1..(m + n) : (s \o t)[i] = IF i <= m THEN s[i] ELSE t[i - m]
    BY <1>3, ConcatProperties
  <1>5. \A i \in 1..(m + n) : (s \o t)[i] = u[i]
    <2> SUFFICES ASSUME NEW i \in 1..(m + n) PROVE (s \o t)[i] = u[i]
      OBVIOUS
    <2>1. CASE i <= m
      BY <1>2, <1>4, <2>1
    <2>2. CASE i > m
      <3>1. i - m \in 1..n /\ (d + m) + (i - m) = d + i /\ ~(i <= m)
        BY <2>2
      <3> QED BY <1>2, <1>4, <3>1
    <2>3. i <= m \/ i > m
      OBVIOUS
    <2> QED BY <2>1, <2>2, <2>3
  <1>6. u \in Seq(Nat) /\ Len(u) = m + n
    BY DEF u, Numbers
  <1>7. s \o t = u
    BY ONLY <1>4, <1>5, <1>6, SeqEqual
  <1> QED BY <1>7 DEF s, t, u

\* Sequences of consecutive numbers, all but the last w long, make one of them.
LEMMA FlattenNumbers ==
  ASSUME NEW s, NEW k \in Nat \ {0}, Len(s) = k, NEW d \in Nat, NEW w \in Nat,
         NEW c \in Nat,
         \A i \in 1..k : s[i] = Numbers(d + (i - 1) * w, IF i = k THEN c ELSE w)
  PROVE  FlattenSeq(s) = Numbers(d, (k - 1) * w + c)
  <1>1. PICK f : Joins(f, s, k) /\ FlattenSeq(s) = f[k]
    BY FlattenIs
  <1> DEFINE Size(i) == IF i = k THEN c ELSE w
             T == {i \in 1..k : f[i] # Numbers(d, (i - 1) * w + Size(i))}
  <1>2. \A i \in 1..k : f[i] = IF i = 1 THEN s[i] ELSE f[i - 1] \o s[i]
    BY <1>1 DEF Joins
  <1>3. T = {}
    <2> SUFFICES ASSUME T # {} PROVE FALSE
      OBVIOUS
    <2>1. PICK i \in T : \A j \in T : i <= j
      <3>1. T \subseteq Nat
        OBVIOUS
      <3> HIDE DEF T
      <3> QED BY <3>1, LeastIndex
    <2>2. i \in 1..k /\ f[i] # Numbers(d, (i - 1) * w + Size(i)) /\ Size(i) \in Nat
      OBVIOUS
    <2>3. CASE i = 1
      <3>1. (i - 1) * w = 0
        BY <2>3
      <3>2. s[i] = Numbers(d, Size(i))
        BY <2>2, <3>1, SMTT(30)
      <3>3. (i - 1) * w + Size(i) = Size(i)
        BY <2>2, <3>1
      <3> QED BY <1>2, <2>2, <2>3, <3>2, <3>3
    <2>4. CASE i # 1
      <3>1. i - 1 \in 1..k /\ i - 1 # k /\ ~(i <= i - 1)
        BY <2>2, <2>4
      <3>2. ~(i - 1 \in T)
        BY <2>1, <3>1
      <3>3. f[i - 1] = Numbers(d, ((i - 1) - 1) * w + w)
        BY <3>1, <3>2
      <3>4. ((i - 1) - 1) * w + w = (i - 1) * w /\ (i - 1) * w \in Nat
        BY <3>1
      <3>5. f[i - 1] = Numbers(d, (i - 1) * w)
        BY <3>3, <3>4
      <3>6. s[i] = Numbers(d + (i - 1) * w, Size(i))
        BY <2>2
      <3>7. f[i] = Numbers(d, (i - 1) * w) \o Numbers(d + (i - 1) * w, Size(i))
        BY <1>2, <2>2, <2>4, <3>5, <3>6
      <3> DEFINE m == (i - 1) * w
      <3> HIDE DEF m, Size
      <3>8. Numbers(d, m) \o Numbers(d + m, Size(i)) = Numbers(d, m + Size(i))
        BY <2>2, <3>4, NumbersJoin, ZenonT(30) DEF m
      <3> QED BY <2>2, <3>7, <3>8 DEF m
    <2> QED BY <2>3, <2>4
  <1>4. f[k] = Numbers(d, (k - 1) * w + Size(k))
    BY <1>3
  <1> QED BY <1>1, <1>4

\* How many numbers there are, and which.
LEMMA NumbersFacts ==
  ASSUME NEW d \in Nat, NEW n \in Nat
  PROVE  /\ Numbers(d, n) \in Seq(Nat) /\ Len(Numbers(d, n)) = n
         /\ \A p \in 1..n : Numbers(d, n)[p] = d + p
         /\ n = 0 => Numbers(d, n) = <<>>
  <1>1. Numbers(d, n) \in Seq(Nat) /\ Len(Numbers(d, n)) = n
    BY DEF Numbers
  <1>2. \A p \in 1..n : Numbers(d, n)[p] = d + p
    BY DEF Numbers
  <1> QED BY <1>1, <1>2, EmptySeq

\* Numbers that are cut are numbers.
LEMMA NumbersSplit ==
  ASSUME NEW d \in Nat, NEW n \in Nat, NEW m \in 0..n
  PROVE  /\ SubSeq(Numbers(d, n), 1, m) = Numbers(d, m)
         /\ SubSeq(Numbers(d, n), m + 1, n) = Numbers(d + m, n - m)
  <1> DEFINE s == Numbers(d, n)
  <1>1. s \in Seq(Nat) /\ Len(s) = n /\ \A p \in 1..n : s[p] = d + p
    BY NumbersFacts
  <1>2. m \in Nat /\ n - m \in Nat /\ d + m \in Nat /\ m <= n
    OBVIOUS
  <1> HIDE DEF s
  <1>3. SubSeq(s, 1, m) = Numbers(d, m)
    <2>1. /\ SubSeq(s, 1, m) \in Seq(Nat) /\ Len(SubSeq(s, 1, m)) = m
          /\ \A i \in 1..m : SubSeq(s, 1, m)[i] = s[i]
      <3>1. \A i \in 1..m : s[i] \in Nat /\ 1 + i - 1 = i
        BY <1>1, <1>2
      <3> QED BY <1>2, <3>1, SubSeqProperties
    <2>2. /\ Numbers(d, m) \in Seq(Nat) /\ Len(Numbers(d, m)) = m
          /\ \A p \in 1..m : Numbers(d, m)[p] = d + p
      BY <1>2, NumbersFacts
    <2>3. \A i \in 1..m : SubSeq(s, 1, m)[i] = Numbers(d, m)[i]
      BY <1>1, <1>2, <2>1, <2>2
    <2> QED BY ONLY <2>1, <2>2, <2>3, SeqEqual
  <1>4. SubSeq(s, m + 1, n) = Numbers(d + m, n - m)
    <2> DEFINE t == SubSeq(s, m + 1, n)
    <2>1. t \in Seq(Nat) /\ Len(t) = n - m /\ \A i \in 1..(n - m) : t[i] = s[m + i]
      <3>1. \A i \in (m + 1)..n : s[i] \in Nat
        BY <1>1, <1>2
      <3>2. IF m + 1 <= n THEN n - (m + 1) + 1 = n - m ELSE n - m = 0
        BY <1>2
      <3>3. \A i \in 1..(n - m) : (m + 1) + i - 1 = m + i
        BY <1>2
      <3> QED BY <1>2, <3>1, <3>2, <3>3, SubSeqProperties
    <2>2. /\ Numbers(d + m, n - m) \in Seq(Nat) /\ Len(Numbers(d + m, n - m)) = n - m
          /\ \A p \in 1..(n - m) : Numbers(d + m, n - m)[p] = (d + m) + p
      BY <1>2, NumbersFacts
    <2>3. \A i \in 1..(n - m) : t[i] = Numbers(d + m, n - m)[i]
      <3> SUFFICES ASSUME NEW i \in 1..(n - m) PROVE t[i] = Numbers(d + m, n - m)[i]
        OBVIOUS
      <3>1. m + i \in 1..n /\ d + (m + i) = (d + m) + i
        BY <1>2
      <3>2. t[i] = s[m + i] /\ s[m + i] = d + (m + i)
        BY <1>1, <2>1, <3>1
      <3> QED BY <2>2, <3>1, <3>2
    <2> HIDE DEF t
    <2>4. t = Numbers(d + m, n - m)
      BY ONLY <2>1, <2>2, <2>3, SeqEqual
    <2> QED BY <2>4 DEF t
  <1> QED BY <1>3, <1>4 DEF s

-----------------------------------------------------------------------------
(* What the nodes hold. *)

\* How much text is in a list of nodes of which all but the tail are full.
SizeOf(ns) == IF ns = <<>> THEN 0 ELSE (Len(ns) - 1) * (NodeSize - 1) + Last(ns).cur_len

\* The list holds the numbers behind d, without a gap.
Holds(ns, d) ==
  \A i \in 1..Len(ns) : ns[i].data = Numbers(d + (i - 1) * (NodeSize - 1), ns[i].cur_len)

\* The types and the size of a consistent buffer.
LEMMA SizeFacts ==
  ASSUME BufferInv
  PROVE  /\ nodes \in Seq(Node) /\ Len(nodes) \in 0..MaxNodes
         /\ SizeOf(nodes) \in Nat /\ NodeSize - 1 \in Nat \ {0}
         /\ rest \in Seq(Chars) /\ Len(rest) \in Nat /\ written \in Nat
         /\ nodes = <<>> => SizeOf(nodes) = 0
         /\ nodes # <<>> => /\ Len(nodes) \in 1..MaxNodes
                            /\ Last(nodes).cur_len \in 0..(NodeSize - 1)
                            /\ SizeOf(nodes) =
                                 (Len(nodes) - 1) * (NodeSize - 1) + Last(nodes).cur_len
  <1>1. /\ nodes \in Seq(Node) /\ Len(nodes) \in 0..MaxNodes
        /\ rest \in Seq(Chars) /\ Len(rest) \in Nat /\ written \in Nat
    BY LenProperties, SizeAssumption DEF BufferInv, TypeOK, Node, Chars
  <1>2. NodeSize - 1 \in Nat \ {0}
    BY SizeAssumption
  <1>3. nodes # <<>> => Len(nodes) \in 1..MaxNodes /\ Last(nodes).cur_len \in 0..(NodeSize - 1)
    BY TailNode DEF Node
  <1>4. nodes # <<>> => (Len(nodes) - 1) * (NodeSize - 1) + Last(nodes).cur_len \in Nat
    <2> SUFFICES ASSUME nodes # <<>>
                 PROVE  (Len(nodes) - 1) * (NodeSize - 1) + Last(nodes).cur_len \in Nat
      OBVIOUS
    <2>1. Len(nodes) - 1 \in Nat /\ Last(nodes).cur_len \in Nat
      BY <1>2, <1>3
    <2>2. (Len(nodes) - 1) * (NodeSize - 1) \in Nat
      BY <1>2, <2>1
    <2> QED BY <2>1, <2>2
  <1> QED BY <1>1, <1>2, <1>3, <1>4 DEF SizeOf

\* What buffer_get_string gives is what the nodes hold.
LEMMA TextHeld ==
  ASSUME BufferInv, NEW d \in Nat, Holds(nodes, d)
  PROVE  Text = Numbers(d, SizeOf(nodes))
  <1>1. CASE nodes = <<>>
    <2>1. Len(nodes) = 0
      BY <1>1
    <2> DEFINE s == [i \in 1..Len(nodes) |-> SubSeq(nodes[i].data, 1, nodes[i].cur_len)]
    <2>2. s = <<>> /\ Len(s) = 0
      BY <2>1
    <2>3. FlattenSeq(s) = <<>>
      BY <2>2 DEF FlattenSeq
    <2>4. SizeOf(nodes) = 0 /\ Numbers(d, 0) = <<>>
      BY <1>1, NumbersFacts DEF SizeOf
    <2> QED BY <2>3, <2>4 DEF Text
  <1>2. CASE nodes # <<>>
    <2> DEFINE k == Len(nodes)
               w == NodeSize - 1
               c == Last(nodes).cur_len
               s == [i \in 1..k |-> SubSeq(nodes[i].data, 1, nodes[i].cur_len)]
    <2>1. /\ nodes \in Seq(Node) /\ k \in Nat \ {0} /\ w \in Nat /\ c \in Nat
          /\ SizeOf(nodes) = (k - 1) * w + c
      BY <1>2, SizeFacts
    <2>2. Len(s) = k
      BY <2>1
    <2>3. ASSUME NEW i \in 1..k
          PROVE  s[i] = Numbers(d + (i - 1) * w, IF i = k THEN c ELSE w)
      <3>1. nodes[i] \in Node /\ nodes[i].cur_len = Len(nodes[i].data)
        BY <2>1, ElementOfSeq DEF BufferInv, ListConsistent
      <3>2. s[i] = nodes[i].data
        <4>1. nodes[i].data \in Seq(Chars)
          BY <3>1 DEF Node
        <4>2. SubSeq(nodes[i].data, 1, Len(nodes[i].data)) = nodes[i].data
          BY <4>1, SubSeqFull
        <4> QED BY <3>1, <4>2
      <3>3. nodes[i].cur_len = IF i = k THEN c ELSE w
        <4>1. i # k => i \in 1..Len(nodes) - 1
          BY <2>1
        <4> QED BY <4>1 DEF BufferInv, ListConsistent, Last
      <3> QED BY <3>2, <3>3 DEF Holds
    <2> HIDE DEF k, w, c, s
    <2>4. FlattenSeq(s) = Numbers(d, (k - 1) * w + c)
      BY <2>1, <2>2, <2>3, FlattenNumbers
    <2> QED BY <2>1, <2>4 DEF Text, s, k
  <1> QED BY <1>1, <1>2

\* Text that follows what the nodes hold, put into the tail.
LEMMA TailHolds ==
  ASSUME BufferInv, nodes # <<>>, NEW d \in Nat, Holds(nodes, d),
         NEW m \in Nat, m <= Available, Numbers(d + SizeOf(nodes), m) \in Seq(Chars)
  PROVE  LET ns == WithTail(Numbers(d + SizeOf(nodes), m)) IN
           /\ Holds(ns, d) /\ Len(ns) = Len(nodes)
           /\ ns # <<>> /\ Last(ns).cur_len = Last(nodes).cur_len + m
           /\ SizeOf(ns) = SizeOf(nodes) + m
  <1> DEFINE k  == Len(nodes)
             w  == NodeSize - 1
             z  == SizeOf(nodes)
             s  == Numbers(d + z, m)
             ns == WithTail(s)
             c  == Last(nodes).cur_len
  <1>1. /\ nodes \in Seq(Node) /\ k \in 1..MaxNodes /\ k \in Nat \ {0} /\ w \in Nat /\ c \in Nat
        /\ z = (k - 1) * w + c /\ z \in Nat /\ c = nodes[k].cur_len
    BY SizeFacts DEF Last
  <1>2. s \in Seq(Chars) /\ Len(s) = m /\ Len(s) <= Available
    <2>1. d + z \in Nat
      BY <1>1
    <2>2. Len(Numbers(d + z, m)) = m
      BY <2>1, NumbersFacts
    <2> QED BY <2>2
  <1>3. /\ ns \in Seq(Node) /\ Len(ns) = k
        /\ \A i \in 1..k - 1 : ns[i] = nodes[i]
        /\ ns[k].cur_len = c + m
    <2> HIDE DEF s
    <2> QED BY <1>2, Filled
  <1>4. ns[k].data = nodes[k].data \o s
    <2> DEFINE t == [cur_len |-> nodes[k].cur_len + Len(s), data |-> nodes[k].data \o s]
    <2> HIDE DEF s
    <2>1. WithTail(s) = [nodes EXCEPT ![k] = t] /\ t.data = nodes[k].data \o s
      BY DEF WithTail
    <2>2. k \in DOMAIN nodes
      BY <1>1
    <2> QED BY <2>1, <2>2
  <1>5. nodes[k].data = Numbers(d + (k - 1) * w, c)
    BY <1>1 DEF Holds
  <1> DEFINE b == d + (k - 1) * w
  <1>6. b \in Nat /\ d + z = b + c
    <2>1. (k - 1) * w \in Nat
      BY <1>1
    <2> QED BY <1>1, <2>1, SMTT(30)
  <1>7. ns[k].data = Numbers(b, c + m)
    <2>1. nodes[k].data = Numbers(b, c) /\ s = Numbers(b + c, m)
      BY <1>5, <1>6
    <2> HIDE DEF b, s, c
    <2>2. Numbers(b, c) \o Numbers(b + c, m) = Numbers(b, c + m)
      BY <1>1, <1>6, NumbersJoin, ZenonT(30)
    <2> QED BY <1>4, <2>1, <2>2
  <1>8. Holds(ns, d)
    <2> SUFFICES ASSUME NEW i \in 1..k
                 PROVE  ns[i].data = Numbers(d + (i - 1) * w, ns[i].cur_len)
      BY <1>3 DEF Holds
    <2>1. CASE i = k
      BY <1>3, <1>7, <2>1
    <2>2. CASE i # k
      <3>1. i \in 1..k - 1 /\ i \in 1..Len(nodes)
        BY <1>1, <2>2
      <3>2. ns[i] = nodes[i]
        BY <1>3, <3>1
      <3>3. nodes[i].data = Numbers(d + (i - 1) * w, nodes[i].cur_len)
        BY <3>1 DEF Holds
      <3> QED BY <3>2, <3>3
    <2> QED BY <2>1, <2>2
  <1>9. ns # <<>> /\ Last(ns).cur_len = c + m
    BY <1>1, <1>3, EmptySeq DEF Last
  <1>10. SizeOf(ns) = z + m
    <2>1. SizeOf(ns) = (k - 1) * w + (c + m)
      BY <1>3, <1>9 DEF SizeOf
    <2> DEFINE q == (k - 1) * w
    <2>2. q \in Nat /\ z = q + c
      BY <1>1
    <2> HIDE DEF q, z
    <2> QED BY <1>1, <2>1, <2>2, SMTT(30) DEF q
  <1> QED BY <1>3, <1>8, <1>9, <1>10

\* Text that fills the tail, with a new tail behind it.
LEMMA LongerHolds ==
  ASSUME BufferInv, nodes # <<>>, NEW d \in Nat, Holds(nodes, d),
         Len(rest) > Available, rest = Numbers(d + SizeOf(nodes), Len(rest))
  PROVE  /\ Holds(Longer, d) /\ Longer # <<>>
         /\ Last(Longer).cur_len = 0 /\ SizeOf(Longer) = Len(nodes) * (NodeSize - 1)
         /\ SizeOf(Longer) = SizeOf(nodes) + Available
         /\ Residue = Numbers(d + SizeOf(Longer), Len(rest) - Available)
  <1> DEFINE k == Len(nodes)
             w == NodeSize - 1
             z == SizeOf(nodes)
             a == Available
             l == Len(rest)
  <1>1. /\ k \in 1..MaxNodes /\ k \in Nat \ {0} /\ w \in Nat \ {0} /\ z \in Nat
        /\ z = (k - 1) * w + Last(nodes).cur_len /\ l \in Nat /\ rest \in Seq(Chars)
        /\ Last(nodes).cur_len \in 0..w
    BY SizeFacts
  <1>2. a \in 0..l /\ a \in Nat /\ a = w - Last(nodes).cur_len
    BY <1>1, TailNode, SizeAssumption
  <1>3. d + z \in Nat /\ z + a \in Nat /\ (d + z) + a = d + (z + a)
    <2>1. z \in Nat /\ a \in Nat
      BY <1>1, <1>2
    <2> HIDE DEF z, a
    <2> QED BY <2>1
  <1>4. z + a = k * w
    BY <1>1, <1>2
  <1>5. /\ SubSeq(rest, 1, a) = Numbers(d + z, a)
        /\ SubSeq(rest, a + 1, l) = Numbers((d + z) + a, l - a)
    <2> HIDE DEF a, l, z
    <2>1. /\ SubSeq(Numbers(d + z, l), 1, a) = Numbers(d + z, a)
          /\ SubSeq(Numbers(d + z, l), a + 1, l) = Numbers((d + z) + a, l - a)
      <3>1. d + z \in Nat /\ l \in Nat /\ a \in 0..l
        BY <1>1, <1>2, <1>3
      <3> DEFINE e == d + z
      <3> HIDE DEF e
      <3>2. /\ SubSeq(Numbers(e, l), 1, a) = Numbers(e, a)
            /\ SubSeq(Numbers(e, l), a + 1, l) = Numbers(e + a, l - a)
        BY <3>1, NumbersSplit DEF e
      <3> QED BY <3>2 DEF e
    <2>2. rest = Numbers(d + z, l)
      BY DEF l, z
    <2> QED BY <2>1, <2>2
  <1>6. Numbers(d + z, a) \in Seq(Chars)
    <2>1. SubSeq(rest, 1, a) \in Seq(Chars)
      <3>1. \A i \in 1..a : rest[i] \in Chars
        BY <1>1, <1>2, ElementOfSeq
      <3> QED BY <1>1, <1>2, <3>1, SubSeqProperties
    <2> QED BY <1>5, <2>1
  <1> DEFINE ns == WithTail(Numbers(d + z, a))
  <1>7. /\ Holds(ns, d) /\ Len(ns) = k /\ ns # <<>> /\ Last(ns).cur_len = Last(nodes).cur_len + a
    BY <1>2, <1>6, TailHolds
  <1>8. ns \in Seq(Node)
    <2> DEFINE s == Numbers(d + z, a)
    <2>1. s \in Seq(Chars) /\ Len(s) = a
      BY <1>2, <1>3, <1>6, NumbersFacts
    <2>2. Len(s) <= Available
      BY <1>2, <2>1
    <2> HIDE DEF s
    <2>3. WithTail(s) \in Seq(Node)
      BY <2>1, <2>2, Filled
    <2> QED BY <2>3 DEF s
  <1>9. Longer = Append(ns, buffer_node_create)
    BY <1>5 DEF Longer
  <1>10. buffer_node_create \in Node
    BY SizeAssumption, EmptySeq DEF buffer_node_create, Node
  <1> HIDE DEF ns
  <1>11. /\ Len(Longer) = k + 1 /\ Longer \in Seq(Node)
         /\ \A i \in 1..k : Longer[i] = ns[i]
         /\ Longer[k + 1] = buffer_node_create
    BY <1>7, <1>8, <1>9, <1>10, AppendProperties
  <1>12. Longer # <<>> /\ Last(Longer) = buffer_node_create
    BY <1>1, <1>11, EmptySeq DEF Last
  <1>13. SizeOf(Longer) = k * w
    <2>1. SizeOf(Longer) = ((k + 1) - 1) * w + 0
      BY <1>11, <1>12 DEF SizeOf, buffer_node_create
    <2> QED BY <1>1, <2>1
  <1>14. Holds(Longer, d)
    <2> SUFFICES ASSUME NEW i \in 1..(k + 1)
                 PROVE  Longer[i].data = Numbers(d + (i - 1) * w, Longer[i].cur_len)
      BY <1>11 DEF Holds
    <2>1. CASE i \in 1..k
      BY <1>7, <1>11, <2>1 DEF Holds
    <2>2. CASE i = k + 1
      <3>1. d + (i - 1) * w \in Nat
        <4>1. (i - 1) * w \in Nat
          BY <1>1, <2>2
        <4> QED BY <4>1
      <3>2. Numbers(d + (i - 1) * w, 0) = <<>>
        BY <3>1, NumbersFacts
      <3> QED BY <1>11, <2>2, <3>2 DEF buffer_node_create
    <2> QED BY <1>1, <2>1, <2>2
  <1>15. Residue = Numbers(d + SizeOf(Longer), l - a)
    BY <1>3, <1>4, <1>5, <1>13 DEF Residue
  <1> QED BY <1>4, <1>12, <1>13, <1>14, <1>15 DEF buffer_node_create

\* The head goes, and with it the oldest text.
LEMMA HeadDropped ==
  ASSUME NEW ns \in Seq(Node), NEW k \in Nat \ {0}, Len(ns) = k + 1, NEW d \in Nat, Holds(ns, d)
  PROVE  /\ Holds(Tail(ns), d + (NodeSize - 1))
         /\ Tail(ns) # <<>> /\ Len(Tail(ns)) = k /\ Last(Tail(ns)) = Last(ns)
         /\ SizeOf(Tail(ns)) = (k - 1) * (NodeSize - 1) + Last(ns).cur_len
  <1> DEFINE w == NodeSize - 1
  <1>1. w \in Nat
    BY SizeAssumption
  <1>2. ns # <<>>
    BY EmptySeq
  <1>3. /\ Len(Tail(ns)) = k /\ \A i \in 1..k : Tail(ns)[i] = ns[i + 1]
        /\ Tail(ns) \in Seq(Node)
    BY <1>2, HeadTailProperties
  <1>4. Tail(ns) # <<>> /\ Last(Tail(ns)) = Last(ns)
    <2>1. k \in 1..k
      OBVIOUS
    <2> QED BY <1>3, <2>1, EmptySeq DEF Last
  <1>5. SizeOf(Tail(ns)) = (k - 1) * w + Last(ns).cur_len
    BY <1>3, <1>4 DEF SizeOf
  <1>6. Holds(Tail(ns), d + w)
    <2> SUFFICES ASSUME NEW i \in 1..k
                 PROVE  ns[i + 1].data = Numbers((d + w) + (i - 1) * w, ns[i + 1].cur_len)
      BY <1>3 DEF Holds
    <2>1. i + 1 \in 1..Len(ns)
      OBVIOUS
    <2>2. ns[i + 1].data = Numbers(d + ((i + 1) - 1) * w, ns[i + 1].cur_len)
      BY <2>1 DEF Holds
    <2>3. d + ((i + 1) - 1) * w = (d + w) + (i - 1) * w
      <3>1. i \in Nat /\ i - 1 \in Nat
        OBVIOUS
      <3>2. ((i + 1) - 1) * w = w + (i - 1) * w
        BY <1>1, <3>1
      <3>3. (i - 1) * w \in Nat
        BY <1>1, <3>1
      <3> QED BY <1>1, <3>2, <3>3
    <2> QED BY <2>2, <2>3
  <1> QED BY <1>3, <1>4, <1>5, <1>6

-----------------------------------------------------------------------------
(* The memory of buffer_get_string. *)

\* How much of the text was put in, and how much of that was dropped.
Put     == written - Len(rest)
Dropped == Put - SizeOf(nodes)

\* The nodes hold what was put in last, the append has the text behind it; and
\* nothing was dropped before there were too many nodes, and no more than needed.
TextInv ==
  /\ ~appending => rest = <<>>
  /\ Dropped >= 0
  /\ nodes = <<>> => Put = 0
  /\ rest = Numbers(Put, Len(rest))
  /\ Holds(nodes, Dropped)
  /\ Dropped > 0 => Len(nodes) = MaxNodes /\ Last(nodes).cur_len + Len(rest) > 0

\* The text of the buffer is what was put in last, and the rest of the append follows.
LEMMA TextFacts ==
  ASSUME BufferInv, TextInv
  PROVE  /\ Put \in Nat /\ Dropped \in Nat /\ Put = Dropped + SizeOf(nodes)
         /\ written = Put + Len(rest)
         /\ Text = Numbers(Dropped, SizeOf(nodes))
  <1>1. SizeOf(nodes) \in Nat /\ Len(rest) \in Nat /\ written \in Nat
    BY SizeFacts
  <1>2. Put \in Int /\ Dropped \in Int /\ written = Put + Len(rest)
    BY <1>1 DEF Put, Dropped
  <1>3. Put = Dropped + SizeOf(nodes) /\ Dropped \in Nat /\ Put \in Nat
    BY <1>1, <1>2 DEF Dropped, TextInv
  <1>4. Text = Numbers(Dropped, SizeOf(nodes))
    BY <1>3, TextHeld DEF TextInv
  <1> QED BY <1>2, <1>3, <1>4

\* What is put in comes behind what is there.
LEMMA FitsText ==
  ASSUME BufferInv, TextInv, Fits
  PROVE  TextInv' /\ Dropped' = Dropped /\ Put' = written
  <1> DEFINE z == SizeOf(nodes)
             l == Len(rest)
             d == Dropped
  <1>1. /\ nodes # <<>> /\ l <= Available /\ nodes' = WithTail(rest)
        /\ rest' = <<>> /\ ~appending' /\ written' = written
    BY DEF Fits
  <1>2. Put \in Nat /\ d \in Nat /\ Put = d + z /\ written = Put + l
    BY TextFacts
  <1>3. z \in Nat /\ l \in Nat /\ rest \in Seq(Chars)
        /\ Last(nodes).cur_len \in 0..(NodeSize - 1) /\ NodeSize - 1 \in Nat
    BY <1>1, SizeFacts
  <1>4. rest = Numbers(d + z, l)
    BY <1>2 DEF TextInv
  <1>5. /\ Holds(nodes', d) /\ Len(nodes') = Len(nodes)
        /\ nodes' # <<>> /\ Last(nodes').cur_len = Last(nodes).cur_len + l
        /\ SizeOf(nodes') = z + l
    <2>1. Numbers(d + z, l) \in Seq(Chars) /\ Holds(nodes, d)
      BY <1>3, <1>4 DEF TextInv
    <2>2. /\ Holds(WithTail(Numbers(d + z, l)), d)
          /\ Len(WithTail(Numbers(d + z, l))) = Len(nodes)
          /\ WithTail(Numbers(d + z, l)) # <<>>
          /\ Last(WithTail(Numbers(d + z, l))).cur_len = Last(nodes).cur_len + l
          /\ SizeOf(WithTail(Numbers(d + z, l))) = z + l
      <3> HIDE DEF l, d
      <3> QED BY <1>1, <1>2, <1>3, <2>1, TailHolds
    <2> QED BY <1>1, <1>4, <2>2
  <1>6. Len(rest') = 0
    BY <1>1
  <1>7. Put' = written /\ Put' = Put + l
    BY <1>1, <1>2, <1>3, <1>6 DEF Put
  <1>8. Dropped' = Dropped
    <2>1. Dropped' = Put' - SizeOf(nodes')
      BY DEF Dropped, SizeOf
    <2> QED BY <1>2, <1>3, <1>5, <1>7, <2>1
  <1>9. rest' = Numbers(Put', Len(rest'))
    <2>1. written \in Nat
      BY <1>2, <1>3
    <2> QED BY <1>1, <1>6, <1>7, <2>1, NumbersFacts
  <1>10. Holds(nodes', Dropped')
    BY <1>5, <1>8
  <1>11. Dropped' > 0 => Len(nodes') = MaxNodes /\ Last(nodes').cur_len + Len(rest') > 0
    <2> SUFFICES ASSUME Dropped' > 0
                 PROVE  Len(nodes') = MaxNodes /\ Last(nodes').cur_len + Len(rest') > 0
      OBVIOUS
    <2>1. Len(nodes) = MaxNodes /\ Last(nodes).cur_len + l > 0
      BY <1>8 DEF TextInv
    <2>2. Last(nodes').cur_len = Last(nodes).cur_len + l /\ Len(rest') = 0
      BY <1>5, <1>6
    <2> QED BY <1>3, <1>5, <2>1, <2>2
  <1>12. Holds(nodes, Dropped)'
    BY <1>10 DEF Holds
  <1> QED BY <1>1, <1>2, <1>5, <1>7, <1>8, <1>9, <1>11, <1>12 DEF TextInv

\* When the text does not fit, the tail is filled; and when there would be too many
\* nodes, that many characters are dropped as a node holds.
LEMMA OverflowText ==
  ASSUME BufferInv, TextInv, Overflows
  PROVE  TextInv' /\ Dropped' \in Nat /\ Dropped' >= Dropped
         /\ Put' = Put + Available /\ Put' <= written
  <1> DEFINE z == SizeOf(nodes)
             l == Len(rest)
             d == Dropped
             a == Available
             w == NodeSize - 1
             k == Len(nodes)
  <1>1. /\ nodes # <<>> /\ l > a /\ nodes' = IF TooMany THEN Tail(Longer) ELSE Longer
        /\ appending /\ appending' /\ written' = written /\ rest' = Residue
    BY DEF Overflows
  <1>2. Put \in Nat /\ d \in Nat /\ Put = d + z /\ written = Put + l
    BY TextFacts
  <1>3. /\ z \in Nat /\ l \in Nat /\ rest \in Seq(Chars) /\ k \in 1..MaxNodes /\ k \in Nat \ {0}
        /\ w \in Nat /\ cur_len = k /\ MaxNodes \in Nat
    BY <1>1, SizeFacts, SizeAssumption DEF BufferInv, ListConsistent
  <1>4. a \in Nat /\ a < l
    BY <1>1, <1>3, TailNode, SizeAssumption
  <1>5. rest = Numbers(d + z, l)
    BY <1>2 DEF TextInv
  <1>6. /\ Holds(Longer, d) /\ Longer # <<>>
        /\ Last(Longer).cur_len = 0 /\ SizeOf(Longer) = k * w
        /\ SizeOf(Longer) = z + a
        /\ Residue = Numbers(d + SizeOf(Longer), l - a)
    BY <1>1, <1>2, <1>5, LongerHolds DEF TextInv
  <1>7. Longer \in Seq(Node) /\ Len(Longer) = k + 1
    BY <1>1, LongerList
  <1>8. d + (z + a) \in Nat /\ l - a \in Nat /\ l - a > 0 /\ d + (z + a) = Put + a
    <2> HIDE DEF d, z, a, l
    <2> QED BY <1>2, <1>3, <1>4
  <1>9. /\ rest' = Numbers(Put + a, l - a) /\ Len(rest') = l - a
    <2>1. rest' = Numbers(Put + a, l - a)
      BY <1>1, <1>6, <1>8
    <2>2. Len(Numbers(Put + a, l - a)) = l - a
      BY <1>8, NumbersFacts
    <2> QED BY <2>1, <2>2
  <1>10. Put' = Put + a /\ Put' <= written
    <2>1. Put' = written - (l - a)
      BY <1>1, <1>9 DEF Put
    <2> HIDE DEF l, a
    <2> QED BY <1>2, <1>3, <1>4, <2>1, SMTT(30)
  <1>11. Dropped' = Put' - SizeOf(nodes')
    BY DEF Dropped, SizeOf
  <1>12. CASE ~TooMany
    <2>1. nodes' = Longer /\ SizeOf(nodes') = z + a
      BY <1>1, <1>6, <1>12
    <2>2. Dropped' = d
      <3> HIDE DEF d, z, a
      <3> QED BY <1>2, <1>3, <1>4, <1>10, <1>11, <2>1 DEF d
    <2>3. k # MaxNodes
      BY <1>3, <1>12 DEF TooMany
    <2>4. ~(Dropped > 0)
      BY <2>3 DEF TextInv
    <2>5. Holds(nodes, Dropped)'
      BY <1>6, <2>1, <2>2 DEF Holds
    <2>6. TextInv'
      BY <1>1, <1>2, <1>6, <1>9, <1>10, <2>1, <2>2, <2>4, <2>5 DEF TextInv
    <2> QED BY <1>2, <1>10, <2>2, <2>6
  <1>13. CASE TooMany
    <2>1. nodes' = Tail(Longer)
      BY <1>1, <1>13
    <2>2. /\ Holds(Tail(Longer), d + w)
          /\ Tail(Longer) # <<>> /\ Len(Tail(Longer)) = k /\ Last(Tail(Longer)) = Last(Longer)
          /\ SizeOf(Tail(Longer)) = (k - 1) * w + Last(Longer).cur_len
      <3> HIDE DEF d, k
      <3> QED BY <1>2, <1>3, <1>6, <1>7, HeadDropped
    <2>3. /\ Holds(nodes', d + w) /\ nodes' # <<>> /\ Len(nodes') = k
          /\ Last(nodes').cur_len = 0 /\ SizeOf(nodes') = (k - 1) * w
      <3>1. (k - 1) * w + 0 = (k - 1) * w
        BY <1>3
      <3> QED BY <1>6, <2>1, <2>2, <3>1
    <2>4. (k - 1) * w = (z + a) - w
      <3>1. (k - 1) * w = k * w - w
        BY <1>3
      <3> QED BY <1>6, <3>1
    <2>5. Dropped' = d + w
      <3>1. Dropped' = (Put + a) - ((z + a) - w)
        BY <1>10, <1>11, <2>3, <2>4
      <3> HIDE DEF d, z, a, w
      <3> QED BY <1>2, <1>3, <1>4, <3>1
    <2>6. k = MaxNodes
      BY <1>3, <1>13 DEF TooMany
    <2>7. Holds(nodes, Dropped)'
      BY <2>3, <2>5 DEF Holds
    <2>8. d + w \in Nat /\ d + w >= d
      BY <1>2, <1>3
    <2>9. Last(nodes').cur_len + Len(rest') > 0
      BY <1>8, <1>9, <2>3
    <2>10. TextInv'
      BY <1>1, <1>9, <1>10, <2>3, <2>5, <2>6, <2>7, <2>8, <2>9 DEF TextInv
    <2> QED BY <1>10, <2>5, <2>8, <2>10
  <1> QED BY <1>12, <1>13

\* New text follows what was put in.
LEMMA BeginText ==
  ASSUME BufferInv, TextInv, BeginAppend
  PROVE  TextInv' /\ Put' = Put /\ Dropped' = Dropped
  <1>1. PICK n \in 0..MaxText :
          /\ rest' = [i \in 1..n |-> written + i]
          /\ written' = written + n
    BY DEF BeginAppend
  <1>2. ~appending /\ appending' = TRUE /\ nodes' = nodes
    BY DEF BeginAppend
  <1>3. n \in Nat /\ written \in Nat /\ Put \in Nat /\ Dropped \in Nat
    BY SizeFacts, TextFacts, SizeAssumption
  <1>4. rest = <<>> /\ Len(rest) = 0 /\ Put = written
    <2>1. rest = <<>> /\ Len(rest) = 0
      BY <1>2 DEF TextInv
    <2> QED BY <1>3, <2>1 DEF Put
  <1>5. rest' = Numbers(written, n) /\ Len(rest') = n
    BY <1>1, <1>3 DEF Numbers
  <1>6. Put' = Put
    BY <1>1, <1>3, <1>4, <1>5 DEF Put
  <1>7. Dropped' = Dropped
    BY <1>2, <1>6 DEF Dropped
  <1>8. Dropped > 0 => Len(nodes) = MaxNodes /\ Last(nodes).cur_len + n > 0
    <2>1. Dropped > 0 => Len(nodes) = MaxNodes /\ Last(nodes).cur_len + 0 > 0
      BY <1>4 DEF TextInv
    <2>2. nodes # <<>> => Last(nodes).cur_len \in Nat
      BY SizeFacts
    <2>3. Len(nodes) = MaxNodes => nodes # <<>>
      BY SizeAssumption, EmptySeq
    <2> QED BY <1>3, <2>1, <2>2, <2>3
  <1> QED BY <1>2, <1>4, <1>5, <1>6, <1>7, <1>8 DEF TextInv, Holds

\* The other steps leave the text as it was, or drop all of it.
LEMMA RestText ==
  ASSUME BufferInv, TextInv, FirstNode \/ buffer_get_string \/ buffer_reconstruct \/ UNCHANGED vars
  PROVE  TextInv'
  <1>1. CASE buffer_get_string \/ UNCHANGED vars
    <2>1. UNCHANGED <<nodes, written, rest, appending>>
      BY <1>1 DEF buffer_get_string, vars
    <2>2. Put' = Put /\ Dropped' = Dropped
      BY <2>1 DEF Put, Dropped
    <2> QED BY <2>1, <2>2 DEF TextInv, Holds
  <1>2. CASE FirstNode
    <2>1. /\ nodes = <<>> /\ nodes' = <<buffer_node_create>> /\ appending /\ appending' = appending
          /\ rest' = rest /\ written' = written
      BY <1>2 DEF FirstNode
    <2>2. Put' = 0 /\ Put = 0
      BY <2>1 DEF TextInv, Put
    <2>3. Len(nodes') = 1 /\ nodes' # <<>> /\ Last(nodes') = buffer_node_create /\ nodes'[1] = buffer_node_create
      BY <2>1 DEF Last
    <2>4. SizeOf(nodes') = 0
      BY <2>3, SizeAssumption DEF SizeOf, buffer_node_create
    <2>5. Dropped' = 0
      BY <2>2, <2>4 DEF Dropped
    <2>6. Holds(nodes, Dropped)'
      <3>1. (1 - 1) * (NodeSize - 1) = 0 /\ Numbers(0 + 0, 0) = <<>>
        BY SizeAssumption, NumbersFacts
      <3>2. \A i \in 1..1 : i = 1
        OBVIOUS
      <3> QED BY <2>3, <2>5, <3>1, <3>2 DEF Holds, buffer_node_create
    <2>7. rest' = Numbers(Put', Len(rest'))
      BY <2>1, <2>2 DEF TextInv
    <2> QED BY <2>1, <2>2, <2>3, <2>5, <2>6, <2>7 DEF TextInv
  <1>3. CASE buffer_reconstruct
    <2>1. /\ ~appending /\ ~appending' /\ nodes' = <<>> /\ written' = 0 /\ rest' = rest
      BY <1>3 DEF buffer_reconstruct, BufferInv, TypeOK
    <2>2. rest' = <<>> /\ Len(rest') = 0 /\ Len(nodes') = 0
      BY <2>1 DEF TextInv
    <2>3. Put' = 0 /\ SizeOf(nodes') = 0
      <3>1. Put' = 0
        <4>1. Len(rest') = 0 /\ written' = 0
          BY <2>1, <2>2
        <4>2. \A n, m \in Nat : n = 0 /\ m = 0 => n - m = 0
          OBVIOUS
        <4>3. written' - Len(rest') = 0
          BY <4>1, <4>2
        <4> QED BY <4>3 DEF Put
      <3>2. SizeOf(nodes') = 0
        BY <2>1 DEF SizeOf
      <3> QED BY <3>1, <3>2
    <2>4. Dropped' = 0
      BY <2>3 DEF Dropped
    <2>5. Holds(nodes, Dropped)'
      <3>1. \A i \in 1..Len(nodes') : FALSE
        BY <2>2
      <3> QED BY <3>1 DEF Holds
    <2>6. rest' = Numbers(Put', Len(rest'))
      BY <2>2, <2>3, NumbersFacts
    <2> QED BY <2>1, <2>2, <2>3, <2>4, <2>5, <2>6 DEF TextInv
  <1> QED BY <1>1, <1>2, <1>3

HistoryInv == BufferInv /\ TextInv

\* Every step keeps the invariant.
LEMMA HistoryStep == HistoryInv /\ [Next]_vars => HistoryInv'
  <1> SUFFICES ASSUME HistoryInv, [Next]_vars PROVE HistoryInv'
    OBVIOUS
  <1>1. BufferInv /\ TextInv
    BY DEF HistoryInv
  <1>2. BufferInv'
    BY <1>1, BufferStep
  <1>3. TextInv'
    <2>1. CASE BeginAppend
      BY <1>1, <2>1, BeginText
    <2>2. CASE Fits
      BY <1>1, <2>2, FitsText
    <2>3. CASE Overflows
      BY <1>1, <2>3, OverflowText
    <2>4. CASE FirstNode \/ buffer_get_string \/ buffer_reconstruct \/ UNCHANGED vars
      BY <1>1, <2>4, RestText
    <2> QED BY <2>1, <2>2, <2>3, <2>4 DEF Next, buffer_append
  <1> QED BY <1>2, <1>3 DEF HistoryInv

\* The invariant at the start.
LEMMA HistoryInit == Init => HistoryInv
  <1> SUFFICES ASSUME Init PROVE HistoryInv
    OBVIOUS
  <1>1. BufferInv
    BY BufferInit
  <1>2. nodes = <<>> /\ rest = <<>> /\ written = 0 /\ Len(rest) = 0 /\ Len(nodes) = 0
    BY DEF Init
  <1>3. Put = 0 /\ SizeOf(nodes) = 0 /\ Dropped = 0
    <2>1. Put = 0
      <3>1. \A n, m \in Nat : n = 0 /\ m = 0 => n - m = 0
        OBVIOUS
      <3>2. written - Len(rest) = 0
        BY <1>2, <3>1
      <3> QED BY <3>2 DEF Put
    <2>2. SizeOf(nodes) = 0
      BY <1>2 DEF SizeOf
    <2> QED BY <2>1, <2>2 DEF Dropped
  <1>4. rest = Numbers(Put, Len(rest))
    BY <1>2, <1>3, NumbersFacts
  <1>5. \A i \in 1..Len(nodes) : FALSE
    BY <1>2
  <1>6. TextInv
    BY <1>2, <1>3, <1>4, <1>5 DEF TextInv, Holds
  <1> QED BY <1>1, <1>6 DEF HistoryInv

\* The invariant holds in every behaviour.
THEOREM HistoryInvariance == Spec => []HistoryInv
  <1> QED BY HistoryInit, HistoryStep, PTL DEF Spec

\* The text and its NUL fit into what buffer_get_string allocates for them.
THEOREM TextFits == Spec => []GotFits
  <1>1. HistoryInv => GotFits
    <2> SUFFICES ASSUME HistoryInv, nodes # <<>> PROVE Len(Text) + 1 <= Allocated
      BY DEF GotFits
    <2> DEFINE k == Len(nodes)
               c == Last(nodes).cur_len
    <2>1. BufferInv /\ TextInv
      BY DEF HistoryInv
    <2>2. /\ k \in Nat \ {0} /\ NodeSize \in Nat /\ c \in Nat /\ SizeOf(nodes) \in Nat
          /\ SizeOf(nodes) = (k - 1) * (NodeSize - 1) + c
      BY <2>1, SizeFacts, SizeAssumption
    <2>3. Len(Text) = SizeOf(nodes)
      BY <2>1, <2>2, TextFacts, NumbersFacts
    <2>4. Allocated = (k - 1) * NodeSize + c + 1
      BY <2>1 DEF Allocated, BufferInv, ListConsistent
    <2> HIDE DEF k, c
    <2>5. k - 1 \in Nat /\ (k - 1) * NodeSize \in Nat
          /\ (k - 1) * (NodeSize - 1) = (k - 1) * NodeSize - (k - 1)
      BY <2>2
    <2> QED BY <2>2, <2>3, <2>4, <2>5
  <1> QED BY <1>1, HistoryInvariance, PTL

\* What the promise calls a window is what the nodes hold.
LEMMA WindowIs ==
  ASSUME NEW d \in Nat, NEW n \in Nat
  PROVE  Numbers(d, n) = Recent!Window(n, d + n)
  <1>1. \A i \in 1..n : (d + n) - n + i = d + i
    OBVIOUS
  <1> QED BY <1>1 DEF Numbers, Recent!Window

\* A longer list of nodes holds more.
LEMMA MoreNodes ==
  ASSUME NEW k \in Nat, NEW m \in Nat, k <= m, NEW w \in Nat
  PROVE  k * w <= m * w
  <1> DEFINE e == m - k
  <1>1. e \in Nat /\ m = k + e
    OBVIOUS
  <1> HIDE DEF e
  <1>2. k * w \in Nat /\ e * w \in Nat /\ (k + e) * w = k * w + e * w
    BY <1>1
  <1> QED BY <1>1, <1>2

\* How much the nodes hold: what was put in but for what was dropped, and that is
\* neither too much nor too little.
KeepsText ==
  /\ Put \in Nat /\ Dropped \in Nat /\ SizeOf(nodes) \in Nat /\ written \in Nat
  /\ Put = Dropped + SizeOf(nodes) /\ Put <= written
  /\ rest = <<>> => Put = written
  /\ Text = Recent!Window(SizeOf(nodes), Put) /\ Len(Text) = SizeOf(nodes)
  /\ SizeOf(nodes) <= MaxNodes * (NodeSize - 1)
  /\ Dropped > 0 => SizeOf(nodes) >= (MaxNodes - 1) * (NodeSize - 1)
  /\ Dropped > 0 /\ rest = <<>> => SizeOf(nodes) >= (MaxNodes - 1) * (NodeSize - 1) + 1

\* The invariant has in it how much is kept.
LEMMA TextKept == HistoryInv => KeepsText
  <1> SUFFICES ASSUME HistoryInv PROVE KeepsText
    OBVIOUS
  <1> DEFINE w == NodeSize - 1
             k == Len(nodes)
             c == Last(nodes).cur_len
             z == SizeOf(nodes)
  <1>1. BufferInv /\ TextInv
    BY DEF HistoryInv
  <1>2. /\ Put \in Nat /\ Dropped \in Nat /\ Put = Dropped + z
        /\ written = Put + Len(rest) /\ Text = Numbers(Dropped, z)
    BY <1>1, TextFacts
  <1>3. /\ z \in Nat /\ Len(rest) \in Nat /\ written \in Nat /\ w \in Nat
        /\ MaxNodes \in Nat \ {0} /\ MaxNodes - 1 \in Nat
    BY <1>1, SizeFacts, SizeAssumption
  <1>4. Text = Recent!Window(z, Put) /\ Len(Text) = z
    BY <1>2, <1>3, WindowIs, NumbersFacts
  <1>5. z <= MaxNodes * w
    <2>1. CASE nodes = <<>>
      BY <1>1, <1>3, <2>1, SizeFacts
    <2>2. CASE nodes # <<>>
      <3>1. k \in 1..MaxNodes /\ c \in 0..w /\ z = (k - 1) * w + c
        BY <1>1, <2>2, SizeFacts
      <3>2. k * w <= MaxNodes * w
        <4> HIDE DEF k, w
        <4> QED BY <1>3, <3>1, MoreNodes
      <3>3. (k - 1) * w = k * w - w /\ k * w \in Nat /\ MaxNodes * w \in Nat
        <4> HIDE DEF k, w
        <4> QED BY <1>3, <3>1
      <3> DEFINE kw == k * w
                 mw == MaxNodes * w
      <3>4. z = kw - w + c /\ kw <= mw /\ kw \in Nat /\ mw \in Nat
        BY <3>1, <3>2, <3>3
      <3> HIDE DEF k, w, c, z, kw, mw
      <3>5. z <= mw
        BY <1>3, <3>1, <3>4
      <3> QED BY <3>5 DEF mw
    <2> QED BY <2>1, <2>2
  <1>6. ASSUME Dropped > 0
        PROVE  /\ z >= (MaxNodes - 1) * w
               /\ rest = <<>> => z >= (MaxNodes - 1) * w + 1
    <2>1. k = MaxNodes /\ c + Len(rest) > 0
      BY <1>1, <1>6 DEF TextInv
    <2>2. nodes # <<>>
      BY <1>3, <2>1, EmptySeq
    <2>3. c \in 0..w /\ z = (MaxNodes - 1) * w + c
      BY <1>1, <2>1, <2>2, SizeFacts
    <2>4. (MaxNodes - 1) * w \in Nat
      BY <1>3
    <2>5. rest = <<>> => Len(rest) = 0
      OBVIOUS
    <2>6. rest = <<>> => c > 0
      BY <1>3, <2>1, <2>3, <2>5
    <2> DEFINE mw == (MaxNodes - 1) * w
    <2>7. z = mw + c /\ mw \in Nat
      BY <2>3, <2>4
    <2> HIDE DEF mw, c, z, w
    <2>8. z >= mw /\ (rest = <<>> => z >= mw + 1)
      BY <1>3, <2>3, <2>6, <2>7
    <2> QED BY <2>8 DEF mw
  <1>7. Put <= written /\ (rest = <<>> => Put = written)
    <2>1. rest = <<>> => Len(rest) = 0
      OBVIOUS
    <2> QED BY <1>2, <1>3, <2>1
  <1> QED BY <1>2, <1>3, <1>4, <1>5, <1>6, <1>7 DEF KeepsText

\* What one call of buffer_append does to the text, as the promise says it.
LEMMA TextExtended ==
  ASSUME KeepsText, KeepsText', Put' >= Put, Dropped' >= Dropped, appending,
         appending' \in BOOLEAN, appending' \/ rest' = <<>>, UNCHANGED <<written, got>>
  PROVE  Recent!Extend
  <1> DEFINE n == SizeOf(nodes')
             low == (MaxNodes - 1) * (NodeSize - 1)
             most == MaxNodes * (NodeSize - 1)
  <1>1. /\ Put' \in Nat /\ Dropped' \in Nat /\ n \in Nat /\ written' = written
        /\ Put' = Dropped' + n /\ Put' <= written
        /\ rest' = <<>> => Put' = written
        /\ Text' = Recent!Window(n, Put')
        /\ n <= most
        /\ Dropped' > 0 => n >= low
        /\ Dropped' > 0 /\ rest' = <<>> => n >= low + 1
    BY DEF KeepsText
  <1>2. /\ Put \in Nat /\ Dropped \in Nat /\ SizeOf(nodes) \in Nat /\ written \in Nat
        /\ Put = Dropped + SizeOf(nodes) /\ Len(Text) = SizeOf(nodes)
    BY DEF KeepsText
  <1>3. low \in Nat /\ most \in Nat
    BY SizeAssumption
  <1> DEFINE p == Put'
             d == Dropped'
  <1> HIDE DEF n, low, most, p, d
  <1>10. /\ p \in Nat /\ d \in Nat /\ n \in Nat /\ p = d + n /\ p <= written /\ n <= most
         /\ d > 0 => n >= low
         /\ p >= Put /\ d >= Dropped
    BY <1>1 DEF p, d
  <1>4. n \in 0..most /\ n <= Put' /\ (n >= low \/ n = Put')
    <2>1. n \in 0..most /\ n <= p /\ (n >= low \/ n = p)
      BY <1>3, <1>10
    <2> QED BY <2>1 DEF p
  <1>5. Put' - n >= Put - Len(Text)
    <2>1. p - n >= Put - SizeOf(nodes)
      BY <1>2, <1>10
    <2> QED BY <1>2, <2>1 DEF p
  <1>6. Put' \in Put..written
    <2>1. p \in Put..written
      BY <1>2, <1>10
    <2> QED BY <2>1 DEF p
  <1>7. appending' \/ (~appending' /\ Put' = written /\ (n >= low + 1 \/ n = Put'))
    <2>1. CASE appending'
      BY <2>1
    <2>2. CASE ~appending'
      <3>1. p = written /\ (d > 0 => n >= low + 1)
        BY <1>1, <2>2 DEF p, d
      <3>2. n >= low + 1 \/ n = p
        BY <1>3, <1>10, <3>1
      <3> QED BY <2>2, <3>1, <3>2 DEF p
    <2> QED BY <2>1, <2>2
  <1>8. Recent!Kept(n, Put', low)
    BY <1>4 DEF Recent!Kept, most
  <1>9. appending' \/ (~appending' /\ Put' = written /\ Recent!Kept(n, Put', low + 1))
    BY <1>4, <1>7 DEF Recent!Kept, most
  <1> QED BY <1>1, <1>4, <1>5, <1>6, <1>8, <1>9 DEF Recent!Extend, Put, low, most

\* A step of the buffer is one that the promise allows, or changes nothing of it.
LEMMA RecentStep ==
  ASSUME HistoryInv, HistoryInv', KeepsText, KeepsText', [Next]_vars
  PROVE  [Recent!Next]_(Recent!vars)
  <1>1. BufferInv /\ TextInv
    BY DEF HistoryInv
  <1>2. CASE BeginAppend
    <2>1. Put' = Put /\ nodes' = nodes
      BY <1>1, <1>2, BeginText DEF BeginAppend
    <2>2. Text' = Text
      BY <2>1 DEF Text
    <2>3. Recent!Begin
      BY <1>2, <2>1, <2>2 DEF BeginAppend, Recent!Begin, Put
    <2> QED BY <2>3 DEF Recent!Next
  <1>3. CASE FirstNode
    <2>1. Put = 0 /\ Put' = Put
      <3>1. nodes = <<>> /\ written' = written /\ rest' = rest
        BY <1>3 DEF FirstNode
      <3> QED BY <1>1, <3>1 DEF TextInv, Put
    <2>2. SizeOf(nodes) = 0 /\ SizeOf(nodes') = 0
      <3>1. /\ Put \in Nat /\ Dropped \in Nat /\ SizeOf(nodes) \in Nat
            /\ Put = Dropped + SizeOf(nodes)
        BY DEF KeepsText
      <3>2. /\ Put' \in Nat /\ Dropped' \in Nat /\ SizeOf(nodes') \in Nat
            /\ Put' = Dropped' + SizeOf(nodes')
        BY DEF KeepsText
      <3> QED BY <2>1, <3>1, <3>2
    <2>3. Text = Recent!Window(0, Put) /\ Text' = Recent!Window(0, Put')
      BY <2>2 DEF KeepsText
    <2>4. Text' = Text
      BY <2>1, <2>3
    <2> QED BY <1>3, <2>1, <2>4 DEF FirstNode, Recent!vars, Put
  <1>4. CASE Fits
    <2>1. Put' = written /\ Dropped' = Dropped
      BY <1>1, <1>4, FitsText
    <2>2. Put' >= Put /\ Dropped' >= Dropped
      BY <2>1 DEF KeepsText
    <2>3. Recent!Extend
      BY <1>4, <2>2, TextExtended DEF Fits
    <2> QED BY <2>3 DEF Recent!Next
  <1>5. CASE Overflows
    <2>1. Put' = Put + Available /\ Dropped' >= Dropped
      BY <1>1, <1>5, OverflowText
    <2>2. Available \in Nat
      BY <1>1, <1>5, TailNode, SizeAssumption DEF Overflows
    <2>3. Put' >= Put
      BY <2>1, <2>2 DEF KeepsText
    <2>4. appending /\ appending' /\ appending' \in BOOLEAN
      BY <1>1, <1>5 DEF Overflows, BufferInv, TypeOK
    <2>5. Recent!Extend
      BY <1>5, <2>1, <2>3, <2>4, TextExtended DEF Overflows
    <2> QED BY <2>5 DEF Recent!Next
  <1>6. CASE buffer_get_string
    <2>1. Text' = Text /\ Put' = Put
      BY <1>6 DEF buffer_get_string, Text, Put
    <2>2. Recent!Read
      BY <1>6, <2>1 DEF buffer_get_string, Recent!Read, Put
    <2> QED BY <2>2 DEF Recent!Next
  <1>7. CASE buffer_reconstruct
    <2>1. rest = <<>> /\ rest' = rest /\ nodes' = <<>> /\ written' = 0
      BY <1>1, <1>7 DEF buffer_reconstruct, TextInv
    <2>2. Put' = 0 /\ SizeOf(nodes') = 0
      <3>1. Put' = written'
        BY <2>1 DEF KeepsText
      <3>2. SizeOf(nodes') = 0
        BY <2>1 DEF SizeOf
      <3> QED BY <2>1, <3>1, <3>2
    <2>3. Text' = <<>>
      <3>1. Text' = Recent!Window(0, 0)
        BY <2>2 DEF KeepsText
      <3>2. Numbers(0, 0) = Recent!Window(0, 0 + 0) /\ 0 + 0 = 0
        BY WindowIs
      <3> QED BY <3>1, <3>2, NumbersFacts
    <2>4. Recent!Renew
      BY <1>7, <2>1, <2>2, <2>3 DEF buffer_reconstruct, Recent!Renew, Put
    <2> QED BY <2>4 DEF Recent!Next
  <1>8. CASE UNCHANGED vars
    <2>1. Text' = Text /\ Put' = Put
      BY <1>8 DEF vars, Text, Put
    <2> QED BY <1>8, <2>1 DEF vars, Recent!vars, Put
  <1> QED BY <1>2, <1>3, <1>4, <1>5, <1>6, <1>7, <1>8 DEF Next, buffer_append

\* The history is what RecentText says of it: a reader gets the most recent text, in
\* order and without a gap, up to the end of a whole append.
THEOREM BufferKeepsRecent == Spec => ImplementsRecentText
  <1>1. Init => Recent!Init
    <2> SUFFICES ASSUME Init PROVE Recent!Init
      OBVIOUS
    <2>1. KeepsText
      BY HistoryInit, TextKept
    <2>2. nodes = <<>> /\ rest = <<>> /\ written = 0
      BY DEF Init
    <2>3. Put = 0 /\ SizeOf(nodes) = 0
      <3>1. Put = written
        BY <2>1, <2>2 DEF KeepsText
      <3>2. SizeOf(nodes) = 0
        BY <2>2 DEF SizeOf
      <3> QED BY <2>2, <3>1, <3>2
    <2>4. Text = <<>>
      <3>1. Text = Numbers(0, 0)
        BY <2>1, <2>3, WindowIs DEF KeepsText
      <3> QED BY <3>1, NumbersFacts
    <2> QED BY <2>3, <2>4 DEF Init, Recent!Init, Put
  <1>2. HistoryInv /\ HistoryInv' /\ KeepsText /\ KeepsText' /\ [Next]_vars
          => [Recent!Next]_(Recent!vars)
    BY RecentStep
  <1>3. HistoryInv => KeepsText
    BY TextKept
  <1> QED BY HistoryInvariance, <1>1, <1>2, <1>3, PTL DEF Spec, ImplementsRecentText, Recent!Spec

-----------------------------------------------------------------------------
(* Why the recursion ends. *)

\* How many calls of buffer_append there can still be: every character needs at
\* most a node of its own, and a tail that is full or missing one call more.
ToDo ==
  IF ~appending THEN 0
  ELSE 1 + 2 * Len(rest) + (IF nodes = <<>> \/ Available = 0 THEN 1 ELSE 0)

\* A new tail has room.
LEMMA FreshTail ==
  ASSUME nodes' # <<>>, Last(nodes').cur_len = 0
  PROVE  Available' = NodeSize - 1 /\ Available' # 0 /\ ~(nodes' = <<>> \/ Available' = 0)
  <1>1. Available' = NodeSize - 0 - 1
    BY DEF Available
  <1> QED BY <1>1, SizeAssumption

\* Every call of buffer_append leaves fewer that can follow.
LEMMA CallShrinks ==
  ASSUME BufferInv, TextInv, buffer_append
  PROVE  ToDo \in Nat /\ ToDo' \in Nat /\ ToDo' < ToDo
  <1> DEFINE l == Len(rest)
             f == IF nodes = <<>> \/ Available = 0 THEN 1 ELSE 0
  <1>1. l \in Nat /\ f \in {0, 1} /\ appending
    BY SizeFacts DEF buffer_append, FirstNode, Fits, Overflows
  <1>2. ToDo = 1 + 2 * l + f
    BY <1>1 DEF ToDo
  <1>3. CASE FirstNode
    <2>1. /\ nodes = <<>> /\ nodes' = <<buffer_node_create>> /\ rest' = rest /\ appending'
      BY <1>3 DEF FirstNode
    <2>2. nodes' # <<>> /\ Last(nodes').cur_len = 0
      BY <2>1 DEF Last, buffer_node_create
    <2>3. ToDo' = 1 + 2 * l + 0
      BY <2>1, <2>2, FreshTail DEF ToDo
    <2>4. f = 1
      BY <2>1
    <2> HIDE DEF f, l
    <2> QED BY <1>1, <1>2, <2>3, <2>4
  <1>4. CASE Fits
    <2>1. ToDo' = 0
      BY <1>4 DEF Fits, ToDo
    <2> HIDE DEF f, l
    <2> QED BY <1>1, <1>2, <2>1
  <1>5. CASE Overflows
    <2>1. nodes # <<>> /\ l > Available /\ appending'
          /\ nodes' = (IF TooMany THEN Tail(Longer) ELSE Longer) /\ rest' = Residue
      BY <1>5 DEF Overflows
    <2> DEFINE a == Available
               k == Len(nodes)
    <2>2. a \in Nat /\ k \in Nat \ {0}
      BY <2>1, TailNode, SizeAssumption
    <2>3. Longer \in Seq(Node) /\ Len(Longer) = k + 1
      BY <2>1, LongerList
    <2>4. Longer # <<>> /\ Last(Longer).cur_len = 0 /\ Len(Residue) = l - a
      <3>1. /\ Put \in Nat /\ Dropped \in Nat /\ Put = Dropped + SizeOf(nodes)
            /\ SizeOf(nodes) \in Nat
        BY TextFacts, SizeFacts
      <3>2. rest = Numbers(Dropped + SizeOf(nodes), Len(rest)) /\ Holds(nodes, Dropped)
        BY <3>1 DEF TextInv
      <3>3. /\ Longer # <<>> /\ Last(Longer).cur_len = 0
            /\ SizeOf(Longer) = SizeOf(nodes) + Available
            /\ Residue = Numbers(Dropped + SizeOf(Longer), Len(rest) - Available)
        BY <2>1, <3>1, <3>2, LongerHolds
      <3>4. Dropped + SizeOf(Longer) \in Nat /\ l - a \in Nat
        BY <1>1, <2>1, <2>2, <3>1, <3>3
      <3> QED BY <3>3, <3>4, NumbersFacts
    <2>5. nodes' # <<>> /\ Last(nodes').cur_len = 0
      <3>1. CASE ~TooMany
        BY <2>1, <2>4, <3>1
      <3>2. CASE TooMany
        <4>1. Last(Tail(Longer)) = Longer[k + 1] /\ Tail(Longer) # <<>> /\ Last(Longer) = Longer[k + 1]
          <5>1. /\ Len(Tail(Longer)) = k /\ \A i \in 1..k : Tail(Longer)[i] = Longer[i + 1]
                /\ Tail(Longer) \in Seq(Node)
            BY <2>2, <2>3, <2>4, HeadTailProperties
          <5>2. Tail(Longer) # <<>>
            BY <2>2, <5>1, EmptySeq
          <5>3. k \in 1..k
            BY <2>2
          <5> QED BY <2>3, <5>1, <5>2, <5>3 DEF Last
        <4> QED BY <2>1, <2>4, <3>2, <4>1
      <3> QED BY <3>1, <3>2
    <2>6. ToDo' = 1 + 2 * (l - a) + 0
      BY <2>1, <2>4, <2>5, FreshTail DEF ToDo
    <2>7. a = 0 => f = 1
      OBVIOUS
    <2> HIDE DEF f, l, a
    <2> QED BY <1>1, <1>2, <2>1, <2>2, <2>6, <2>7 DEF a
  <1> QED BY <1>3, <1>4, <1>5 DEF buffer_append

\* buffer_append comes to an end for any text and any nodes: while it runs, every step
\* is one of its calls, and leaves fewer that can follow.
THEOREM RecursionShrinks ==
  Spec => [][appending => ToDo \in Nat /\ ToDo' \in Nat /\ ToDo' < ToDo]_vars
  <1> DEFINE Shrinks == appending => ToDo \in Nat /\ ToDo' \in Nat /\ ToDo' < ToDo
  <1>1. HistoryInv /\ [Next]_vars => [Shrinks]_vars
    <2>1. appending /\ Next => buffer_append
      BY DEF Next, BeginAppend, buffer_get_string, buffer_reconstruct
    <2> QED BY <2>1, CallShrinks DEF HistoryInv
  <1> QED BY HistoryInvariance, <1>1, PTL DEF Spec

================================================================================
