--------------------------- MODULE FrameStreamProofs ---------------------------
(* Theorems about FrameStream, for frames, heads, buffers and cuts of any length. *)
EXTENDS FrameStream, TLAPS

Byte == Nat \X Int

TypeInv ==
  /\ kind \in Kinds
  /\ written \in Seq([op : {"text", "other"}, len : Lengths])
  /\ \A k \in 1..Len(written) : written[k] \in Sent(kind)
  /\ wire \in Seq(Byte) /\ body \in Seq(Byte) /\ call \in Seq(Byte)
  /\ handed \in Seq(Byte) /\ history \in Seq(Byte) /\ handing \in BOOLEAN
  /\ link \in {"open", "closed", "reset"}
  /\ phase \in {"head", "data", "ended", "crashed"}
  /\ head \in [frame : Nat, op : {"text", "other"}, len : Nat]
  /\ total \in Nat
  /\ together \in BOOLEAN /\ cut \in BOOLEAN /\ inside \in BOOLEAN

\* The place of the first byte that was not received yet, or will be written next.
Place == IF wire = <<>> THEN <<Len(written) + 1, 1 - HeadLen>> ELSE wire[1]

Written(b) == b[1] \in 1..Len(written) /\ b[2] \in (1 - HeadLen)..written[b[1]].len

\* The bytes under way were written, in order, up to the last one; a frame goes on
\* to its end, and the next one follows it; and no data is missing behind the first.
WireInv ==
  /\ \A j \in 1..Len(wire) : Written(wire[j])
  /\ InOrder(wire)
  /\ wire # <<>> => wire[Len(wire)] = <<Len(written), written[Len(written)].len>>
  /\ \A j \in 1..Len(wire) : \A m \in 0..(written[wire[j][1]].len - wire[j][2]) :
       j + m <= Len(wire) /\ wire[j + m] = <<wire[j][1], wire[j][2] + m>>
  /\ \A j \in 1..Len(wire) - 1 :
       wire[j][2] = written[wire[j][1]].len => wire[j + 1] = <<wire[j][1] + 1, 1 - HeadLen>>
  /\ \A b \in Data : Before(b, Place) \/ \E j \in 1..Len(wire) : wire[j] = b

-----------------------------------------------------------------------------
(* Sequences. *)

\* The elements of two sequences that are joined.
LEMMA ConcatAt ==
  ASSUME NEW S, NEW s \in Seq(S), NEW t \in Seq(S)
  PROVE  /\ s \o t \in Seq(S)
         /\ Len(s \o t) = Len(s) + Len(t)
         /\ \A i \in 1..Len(s) : (s \o t)[i] = s[i]
         /\ \A i \in 1..Len(t) : (s \o t)[Len(s) + i] = t[i]
OBVIOUS

\* A sequence is a function on the positions up to its length.
LEMMA ElementAt ==
  ASSUME NEW S, NEW s \in Seq(S)
  PROVE  DOMAIN s = 1..Len(s) /\ Len(s) \in Nat /\ \A i \in 1..Len(s) : s[i] \in S
OBVIOUS

\* The elements of a part of a sequence.
LEMMA SubSeqAt ==
  ASSUME NEW S, NEW s \in Seq(S), NEW m \in 1..(Len(s) + 1), NEW n \in (m - 1)..Len(s)
  PROVE  /\ SubSeq(s, m, n) \in Seq(S)
         /\ Len(SubSeq(s, m, n)) = n - m + 1
         /\ \A i \in 1..(n - m + 1) : SubSeq(s, m, n)[i] = s[m + i - 1]
OBVIOUS

\* What a recv takes, and what it leaves.
LEMMA Taken ==
  ASSUME NEW s \in Seq(Byte), NEW n \in 0..Len(s)
  PROVE  /\ SubSeq(s, 1, n) \in Seq(Byte) /\ Len(SubSeq(s, 1, n)) = n
         /\ \A i \in 1..n : SubSeq(s, 1, n)[i] = s[i]
         /\ SubSeq(s, n + 1, Len(s)) \in Seq(Byte)
         /\ Len(SubSeq(s, n + 1, Len(s))) = Len(s) - n
         /\ \A i \in 1..(Len(s) - n) : SubSeq(s, n + 1, Len(s))[i] = s[n + i]
<1>1. /\ 1 \in 1..(Len(s) + 1) /\ n \in (1 - 1)..Len(s) /\ n - 1 + 1 = n
  OBVIOUS
<1>2. \A i \in 1..n : 1 + i - 1 = i
  OBVIOUS
<1>4. /\ SubSeq(s, 1, n) \in Seq(Byte) /\ Len(SubSeq(s, 1, n)) = n
      /\ \A i \in 1..n : SubSeq(s, 1, n)[i] = s[i]
  BY <1>1, <1>2, SubSeqAt
<1>5. /\ SubSeq(s, n + 1, Len(s)) \in Seq(Byte)
      /\ Len(SubSeq(s, n + 1, Len(s))) = Len(s) - n
      /\ \A i \in 1..(Len(s) - n) : SubSeq(s, n + 1, Len(s))[i] = s[n + i]
  <2> DEFINE m == n + 1
             e == Len(s)
  <2>1. m \in 1..(Len(s) + 1) /\ e \in (m - 1)..Len(s) /\ e - m + 1 = e - n
        /\ \A i \in 1..(e - n) : m + i - 1 = n + i
    OBVIOUS
  <2> HIDE DEF m, e
  <2>2. /\ SubSeq(s, m, e) \in Seq(Byte)
        /\ Len(SubSeq(s, m, e)) = e - m + 1
        /\ \A i \in 1..(e - m + 1) : SubSeq(s, m, e)[i] = s[m + i - 1]
    BY <2>1, SubSeqAt
  <2>3. \A i \in 1..(e - n) : SubSeq(s, m, e)[i] = s[n + i]
    BY <2>1, <2>2
  <2> QED
    BY <2>1, <2>2, <2>3 DEF m, e
<1> QED
  BY <1>4, <1>5

\* A sequence without elements is the empty one.
LEMMA Empty ==
  ASSUME NEW s \in Seq(Byte)
  PROVE  Len(s) \in Nat /\ (s = <<>> <=> Len(s) = 0)
OBVIOUS

\* A byte is the number of its frame and its place in it.
LEMMA Pairs ==
  ASSUME NEW b \in Byte
  PROVE  b[1] \in Nat /\ b[2] \in Int /\ b = <<b[1], b[2]>>
BY DEF Byte

\* A number of a frame and a place in it are a byte.
LEMMA InByte ==
  ASSUME NEW k \in Nat, NEW i \in Int
  PROVE  <<k, i>> \in Byte /\ <<k, i>>[1] = k /\ <<k, i>>[2] = i
BY DEF Byte

\* InOrder and ToSet of a sequence, by its positions.
LEMMA OrderOf ==
  ASSUME NEW s \in Seq(Byte)
  PROVE  /\ InOrder(s) <=> \A i, j \in 1..Len(s) : i < j => Before(s[i], s[j])
         /\ \A b : b \in ToSet(s) <=> \E i \in 1..Len(s) : s[i] = b
<1>1. DOMAIN s = 1..Len(s)
  OBVIOUS
<1> QED
  BY <1>1, Zenon DEF InOrder, ToSet

\* Bytes are in a strict, total order.
LEMMA BeforeFacts ==
  ASSUME NEW a \in Byte, NEW b \in Byte, NEW c \in Byte
  PROVE  /\ Before(a, b) /\ Before(b, c) => Before(a, c)
         /\ Before(a, b) => ~Before(b, a)
         /\ ~Before(a, a)
         /\ Before(a, b) \/ a = b \/ Before(b, a)
<1>1. /\ a[1] \in Nat /\ a[2] \in Int /\ b[1] \in Nat /\ b[2] \in Int
      /\ c[1] \in Nat /\ c[2] \in Int /\ a = <<a[1], a[2]>> /\ b = <<b[1], b[2]>>
  BY Pairs
<1> QED
  BY <1>1 DEF Before

-----------------------------------------------------------------------------
(* What is written. *)

\* Only servers and clients send other frames than text, and those of a server are
\* without data.
LEMMA SentFacts ==
  ASSUME NEW who \in Kinds, NEW f \in Sent(who)
  PROVE  /\ f \in [op : {"text", "other"}, len : Lengths]
         /\ f.op = "other" => who \in {"server", "client"}
         /\ f.op = "other" /\ who = "server" => f.len = 0
<1>0. 0 \in Lengths
  BY StreamAssumption DEF Lengths
<1>1. CASE who = "server"
  BY <1>0, <1>1 DEF Sent
<1>2. CASE who = "client"
  BY <1>2 DEF Sent
<1>3. CASE who \in {"controller", "terminal"}
  BY <1>3 DEF Sent
<1> QED
  BY <1>1, <1>2, <1>3 DEF Kinds

\* The same of the frames that were written.
LEMMA FrameFacts ==
  ASSUME TypeInv
  PROVE  /\ Len(written) \in Nat
         /\ \A k \in 1..Len(written) :
              /\ written[k].len \in Nat /\ written[k].op \in {"text", "other"}
              /\ written[k].op = "other" => kind \in {"server", "client"}
              /\ written[k].op = "other" /\ kind = "server" => written[k].len = 0
<1>1. \A k \in 1..Len(written) : written[k] \in [op : {"text", "other"}, len : Lengths]
  BY ElementAt, Zenon DEF TypeInv
<1>2. \A n \in Lengths : n \in Nat
  BY StreamAssumption DEF Lengths
<1>3. \A k \in 1..Len(written) : written[k] \in Sent(kind)
  BY DEF TypeInv
<1>4. Len(written) \in Nat /\ kind \in Kinds
  BY DEF TypeInv
<1> QED
  BY <1>1, <1>2, <1>3, <1>4, SentFacts

\* What is data, by frame and place.
LEMMA DataIs ==
  ASSUME TypeInv
  PROVE  \A b : b \in Data <=>
           \E k \in 1..Len(written) : \E i \in 1..written[k].len : b = <<k, i>>
<1>1. DOMAIN written = 1..Len(written)
  BY ElementAt, Zenon DEF TypeInv
<1>2. Data = UNION {{<<k, i>> : i \in 1..written[k].len} : k \in 1..Len(written)}
  BY <1>1 DEF Data
<1> QED
  BY <1>2

\* Data was written, and what was written is data when it is behind its head.
LEMMA DataFacts ==
  ASSUME TypeInv
  PROVE  /\ \A b \in Data : b \in Byte /\ b[2] >= 1 /\ b[1] \in 1..Len(written)
                            /\ b[2] <= written[b[1]].len
         /\ \A k \in 1..Len(written) : \A i \in 1..written[k].len : <<k, i>> \in Data
         /\ \A b \in Byte : Written(b) => (b \in Data <=> b[2] > 0)
<1>1. Len(written) \in Nat /\ \A k \in 1..Len(written) : written[k].len \in Nat
  BY FrameFacts
<1>2. ASSUME NEW b \in Data
      PROVE  b \in Byte /\ b[2] >= 1 /\ b[1] \in 1..Len(written) /\ b[2] <= written[b[1]].len
  <2>a. PICK k \in 1..Len(written) : \E i \in 1..written[k].len : b = <<k, i>>
    BY DataIs, Zenon
  <2>1. PICK i \in 1..written[k].len : b = <<k, i>>
    BY <2>a
  <2>2. k \in Nat /\ i \in Int /\ i >= 1 /\ i <= written[k].len
    BY <1>1
  <2> QED
    BY <2>1, <2>2, InByte
<1>3. \A k \in 1..Len(written) : \A i \in 1..written[k].len : <<k, i>> \in Data
  BY DataIs, Zenon
<1>4. ASSUME NEW b \in Byte, Written(b)
      PROVE  b \in Data <=> b[2] > 0
  <2>1. b[1] \in 1..Len(written) /\ b[2] <= written[b[1]].len /\ b[2] \in Int /\ b = <<b[1], b[2]>>
    BY <1>1, <1>4, Pairs DEF Written
  <2>2. b[2] > 0 => b[2] \in 1..written[b[1]].len
    BY <1>1, <2>1
  <2>3. b[2] > 0 => b \in Data
    BY <1>3, <2>1, <2>2
  <2> QED
    BY <1>2, <2>1, <2>3
<1> QED
  BY <1>2, <1>3, <1>4

\* The place is that of a byte.
LEMMA PlaceType ==
  ASSUME TypeInv
  PROVE  Place \in Byte /\ Len(wire) \in Nat /\ HeadLen \in Nat \ {0}
         /\ (wire # <<>> => Place = wire[1] /\ Len(wire) > 0)
         /\ (wire = <<>> => Place = <<Len(written) + 1, 1 - HeadLen>> /\ Len(wire) = 0)
         /\ \A j \in 1..Len(wire) : wire[j] \in Byte
<1>1. Len(written) + 1 \in Nat /\ 1 - HeadLen \in Int
  BY FrameFacts, StreamAssumption
<1>2. wire \in Seq(Byte) /\ Len(wire) \in Nat
  BY DEF TypeInv
<1>3. \A j \in 1..Len(wire) : wire[j] \in Byte
  BY <1>2
<1>4. wire # <<>> => Len(wire) > 0
  BY <1>2
<1>5. wire = <<>> => Len(wire) = 0
  BY <1>2
<1>6. wire # <<>> => Place = wire[1] /\ wire[1] \in Byte
  BY <1>2, <1>3, <1>4 DEF Place
<1>7. wire = <<>> => Place = <<Len(written) + 1, 1 - HeadLen>>
  BY DEF Place
<1>8. Place \in Byte
  BY <1>1, <1>6, <1>7, InByte
<1> QED
  BY <1>2, <1>3, <1>4, <1>5, <1>6, <1>7, <1>8, StreamAssumption

-----------------------------------------------------------------------------
(* What a recv takes of the wire. *)

\* A frame is on the wire from the place on, up to its end.
LEMMA FrameAt ==
  ASSUME TypeInv, WireInv, NEW k \in 1..Len(written), NEW i \in (1 - HeadLen)..written[k].len,
         Place = <<k, i>>
  PROVE  /\ wire # <<>> /\ written[k].len - i + 1 <= Len(wire)
         /\ \A m \in 1..(written[k].len - i + 1) : wire[m] = <<k, i + m - 1>>
<1>1. /\ Len(written) \in Nat /\ written[k].len \in Nat /\ HeadLen \in Nat \ {0} /\ i \in Int
      /\ k \in Nat /\ Len(wire) \in Nat
  BY FrameFacts, PlaceType
<1>2. <<k, i>>[1] = k /\ <<k, i>>[2] = i
  BY <1>1, InByte
<1>3. wire # <<>>
  <2>1. wire = <<>> => k = Len(written) + 1
    BY <1>1, <1>2, PlaceType, InByte
  <2> QED
    BY <1>1, <2>1
<1>4. wire[1] = <<k, i>> /\ 1 \in 1..Len(wire)
  BY <1>1, <1>3, PlaceType
<1>5. \A m \in 0..(written[k].len - i) : 1 + m <= Len(wire) /\ wire[1 + m] = <<k, i + m>>
  <2>1. \A m \in 0..(written[wire[1][1]].len - wire[1][2]) :
          1 + m <= Len(wire) /\ wire[1 + m] = <<wire[1][1], wire[1][2] + m>>
    BY <1>4 DEF WireInv
  <2> QED
    BY <1>2, <1>4, <2>1
<1>6. written[k].len - i \in 0..(written[k].len - i)
  BY <1>1
<1>7. written[k].len - i + 1 <= Len(wire)
  BY <1>1, <1>5, <1>6
<1>8. ASSUME NEW m \in 1..(written[k].len - i + 1)
      PROVE  wire[m] = <<k, i + m - 1>>
  <2>1. m - 1 \in 0..(written[k].len - i) /\ 1 + (m - 1) = m /\ i + (m - 1) = i + m - 1
    BY <1>1
  <2> QED
    BY <1>5, <2>1
<1> QED
  BY <1>3, <1>7, <1>8

\* A recv leaves the wire behind the bytes it takes; the place is the first byte left.
LEMMA TakeFacts ==
  ASSUME TypeInv, NEW n \in 0..Len(wire), Take(n)
  PROVE  /\ wire' \in Seq(Byte) /\ Len(wire') = Len(wire) - n
         /\ \A i \in 1..(Len(wire) - n) : wire'[i] = wire[n + i]
         /\ Piece(n) \in Seq(Byte) /\ Len(Piece(n)) = n
         /\ \A i \in 1..n : Piece(n)[i] = wire[i]
         /\ UNCHANGED <<kind, written, link>> /\ Data' = Data
         /\ n < Len(wire) => Place' = wire[n + 1] /\ wire' # <<>>
         /\ n = Len(wire) => Place' = <<Len(written) + 1, 1 - HeadLen>> /\ wire' = <<>>
<1>1. wire \in Seq(Byte) /\ Len(wire) \in Nat
  BY PlaceType DEF TypeInv
<1>2. /\ wire' \in Seq(Byte) /\ Len(wire') = Len(wire) - n
      /\ \A i \in 1..(Len(wire) - n) : wire'[i] = wire[n + i]
      /\ Piece(n) \in Seq(Byte) /\ Len(Piece(n)) = n
      /\ \A i \in 1..n : Piece(n)[i] = wire[i]
  BY <1>1, Taken DEF Take, Piece
<1>3. UNCHANGED <<kind, written, link>>
  BY DEF Take
<1>4. Data' = Data
  BY <1>3 DEF Data
<1>5. n < Len(wire) => wire' # <<>> /\ wire'[1] = wire[n + 1]
  <2> SUFFICES ASSUME n < Len(wire) PROVE wire' # <<>> /\ wire'[1] = wire[n + 1]
    OBVIOUS
  <2>1. 1 \in 1..(Len(wire) - n) /\ Len(wire') # 0
    BY <1>1, <1>2
  <2> QED
    BY <1>2, <2>1, Empty
<1>6. n = Len(wire) => wire' = <<>>
  <2> SUFFICES ASSUME n = Len(wire) PROVE wire' = <<>>
    OBVIOUS
  <2>1. Len(wire') = 0
    BY <1>1, <1>2
  <2> QED
    BY <1>2, <2>1, Empty
<1> QED
  BY <1>2, <1>3, <1>4, <1>5, <1>6 DEF Place

\* The place moves on over the bytes that are taken, and over no other data.
LEMMA PlaceMoves ==
  ASSUME TypeInv, WireInv, NEW n \in 0..Len(wire), Take(n)
  PROVE  /\ Place' \in Byte
         /\ Place' = Place \/ Before(Place, Place')
         /\ \A j \in 1..n : Before(wire[j], Place')
         /\ \A b \in Data : Before(b, Place') =>
              Before(b, Place) \/ \E j \in 1..n : wire[j] = b
<1>1. /\ Place \in Byte /\ Len(wire) \in Nat /\ HeadLen \in Nat \ {0}
      /\ Len(written) \in Nat /\ \A k \in 1..Len(written) : written[k].len \in Nat
      /\ \A j \in 1..Len(wire) : wire[j] \in Byte
  BY PlaceType, FrameFacts
<1>2. /\ n < Len(wire) => Place' = wire[n + 1]
      /\ n = Len(wire) => Place' = <<Len(written) + 1, 1 - HeadLen>>
  BY TakeFacts
<1>3. Len(written) + 1 \in Nat /\ 1 - HeadLen \in Int
  BY <1>1
<1>4. n \in Nat /\ n <= Len(wire) /\ (n < Len(wire) => n + 1 \in 1..Len(wire))
  BY <1>1
<1>5. Place' \in Byte
  BY <1>1, <1>2, <1>3, <1>4, InByte
<1>6. \A i, j \in 1..Len(wire) : i < j => Before(wire[i], wire[j])
  BY OrderOf DEF WireInv, TypeInv
<1>7. \A j \in 1..n : Before(wire[j], Place')
  <2>1. CASE n < Len(wire)
    BY <1>1, <1>2, <1>4, <1>6, <2>1
  <2>2. CASE n = Len(wire)
    <3> SUFFICES ASSUME NEW j \in 1..n PROVE Before(wire[j], Place')
      OBVIOUS
    <3>1. wire[j][1] \in 1..Len(written)
      BY <2>2 DEF WireInv, Written
    <3>2. Place'[1] = Len(written) + 1
      BY <1>2, <1>3, <2>2, InByte
    <3> QED
      BY <1>1, <3>1, <3>2 DEF Before
  <2> QED
    BY <1>4, <2>1, <2>2
<1>8. Place' = Place \/ Before(Place, Place')
  <2>1. CASE n = 0
    <3>1. wire' = wire
      <4>1. wire \in Seq(Byte) /\ wire' \in Seq(Byte) /\ Len(wire') = Len(wire)
            /\ \A i \in 1..Len(wire) : wire'[i] = wire[i]
        BY <1>1, <2>1, TakeFacts, SMTT(30) DEF TypeInv
      <4> QED
        BY <4>1
    <3>2. written' = written
      BY TakeFacts
    <3> QED
      BY <3>1, <3>2 DEF Place
  <2>2. CASE n > 0
    <3>1. Place = wire[1] /\ 1 \in 1..n
      BY <1>4, <2>2, PlaceType
    <3> QED
      BY <1>7, <3>1
  <2> QED
    BY <1>4, <2>1, <2>2
<1>9. ASSUME NEW b \in Data, Before(b, Place'), ~Before(b, Place)
      PROVE  \E j \in 1..n : wire[j] = b
  <2>1. PICK j \in 1..Len(wire) : wire[j] = b
    BY <1>9 DEF WireInv
  <2>2. CASE j <= n
    BY <2>1, <2>2, <1>4
  <2>3. CASE j > n
    <3>1. n < Len(wire) /\ Place' = wire[n + 1] /\ b \in Byte
      BY <1>1, <1>2, <1>4, <2>1, <2>3
    <3>2. j = n + 1 \/ Before(wire[n + 1], wire[j])
      BY <1>1, <1>4, <1>6, <2>3, <3>1
    <3>3. ~Before(b, Place')
      BY <1>1, <1>5, <2>1, <3>1, <3>2, BeforeFacts
    <3> QED
      BY <1>9, <3>3
  <2> QED
    BY <1>4, <2>2, <2>3
<1> QED
  BY <1>5, <1>7, <1>8, <1>9

\* The wire is still whole when a recv has taken its first bytes.
LEMMA WireTaken ==
  ASSUME TypeInv, WireInv, NEW n \in 0..Len(wire), Take(n)
  PROVE  WireInv'
<1>1. /\ wire \in Seq(Byte) /\ Len(wire) \in Nat /\ n \in Nat /\ n <= Len(wire)
      /\ \A j \in 1..Len(wire) : wire[j] \in Byte
  BY PlaceType DEF TypeInv
<1>2. /\ wire' \in Seq(Byte) /\ Len(wire') = Len(wire) - n
      /\ \A i \in 1..Len(wire') : wire'[i] = wire[n + i] /\ n + i \in 1..Len(wire)
      /\ written' = written /\ Data' = Data
  <2>1. \A i \in 1..(Len(wire) - n) : n + i \in 1..Len(wire)
    BY <1>1
  <2>2. Len(wire') = Len(wire) - n
    BY TakeFacts
  <2>3. \A i \in 1..Len(wire') : wire'[i] = wire[n + i] /\ n + i \in 1..Len(wire)
    BY <2>1, <2>2, TakeFacts
  <2> QED
    BY <2>2, <2>3, TakeFacts
<1>3. (\A j \in 1..Len(wire) : Written(wire[j]))'
  <2>1. \A j \in 1..Len(wire) : Written(wire[j])
    BY DEF WireInv
  <2> QED
    BY <1>2, <2>1 DEF Written
<1>4. InOrder(wire')
  <2>1. \A i, j \in 1..Len(wire) : i < j => Before(wire[i], wire[j])
    BY OrderOf DEF WireInv, TypeInv
  <2>2. ASSUME NEW i \in 1..Len(wire'), NEW j \in 1..Len(wire'), i < j
        PROVE  Before(wire'[i], wire'[j])
    <3>1. n + i < n + j
      BY <1>1, <1>2, <2>2
    <3> QED
      BY <1>2, <2>1, <3>1
  <2> QED
    BY <1>2, <2>2, OrderOf
<1>5. wire' # <<>> => wire'[Len(wire')] = <<Len(written), written[Len(written)].len>>
  <2> SUFFICES ASSUME wire' # <<>>
               PROVE  wire'[Len(wire')] = <<Len(written), written[Len(written)].len>>
    OBVIOUS
  <2>1. Len(wire') > 0
    BY <1>1, <1>2
  <2>2. /\ Len(wire') \in 1..Len(wire') /\ n + Len(wire') = Len(wire) /\ wire # <<>>
    BY <1>1, <1>2, <2>1
  <2> QED
    BY <1>2, <2>2 DEF WireInv
<1>6. \A j \in 1..Len(wire') : \A m \in 0..(written[wire'[j][1]].len - wire'[j][2]) :
        j + m <= Len(wire') /\ wire'[j + m] = <<wire'[j][1], wire'[j][2] + m>>
  <2> SUFFICES ASSUME NEW j \in 1..Len(wire'),
                      NEW m \in 0..(written[wire'[j][1]].len - wire'[j][2])
               PROVE  j + m <= Len(wire') /\ wire'[j + m] = <<wire'[j][1], wire'[j][2] + m>>
    OBVIOUS
  <2>1. wire'[j] = wire[n + j] /\ n + j \in 1..Len(wire)
    BY <1>2
  <2>2. (n + j) + m <= Len(wire) /\ wire[(n + j) + m] = <<wire'[j][1], wire'[j][2] + m>>
    BY <2>1 DEF WireInv
  <2>3. m \in Nat /\ j \in Nat
    <3>1. Written(wire[n + j])
      BY <2>1 DEF WireInv
    <3>2. wire[n + j] \in Byte
      BY <1>1, <2>1
    <3>3. written[wire[n + j][1]].len \in Nat /\ wire[n + j][2] \in Int
      BY <3>1, <3>2, FrameFacts, Pairs DEF Written
    <3>4. written[wire'[j][1]].len - wire'[j][2] \in Int
      BY <2>1, <3>3
    <3> QED
      BY <3>4
  <2>4. j + m \in 1..Len(wire') /\ n + (j + m) = (n + j) + m
    BY <1>1, <1>2, <2>2, <2>3
  <2>5. wire'[j + m] = wire[n + (j + m)]
    BY <1>2, <2>4
  <2> QED
    BY <1>1, <2>2, <2>4, <2>5
<1>7. \A j \in 1..Len(wire') - 1 :
        wire'[j][2] = written[wire'[j][1]].len => wire'[j + 1] = <<wire'[j][1] + 1, 1 - HeadLen>>
  <2> SUFFICES ASSUME NEW j \in 1..Len(wire') - 1, wire'[j][2] = written[wire'[j][1]].len
               PROVE  wire'[j + 1] = <<wire'[j][1] + 1, 1 - HeadLen>>
    OBVIOUS
  <2>1. /\ j \in 1..Len(wire') /\ j + 1 \in 1..Len(wire')
        /\ n + j \in 1..Len(wire) - 1 /\ n + (j + 1) = (n + j) + 1
    BY <1>1, <1>2, SMTT(30)
  <2>2. wire'[j] = wire[n + j] /\ wire'[j + 1] = wire[(n + j) + 1]
    BY <1>2, <2>1
  <2> QED
    BY <2>1, <2>2 DEF WireInv
<1>8. (\A b \in Data : Before(b, Place) \/ \E j \in 1..Len(wire) : wire[j] = b)'
  <2>a. Data' = Data
    BY <1>2
  <2> SUFFICES ASSUME NEW b \in Data, ~Before(b, Place')
               PROVE  \E j \in 1..Len(wire') : wire'[j] = b
    BY <2>a, Zenon DEF Before
  <2>1. /\ Place \in Byte /\ Place' \in Byte /\ b \in Byte
        /\ Place' = Place \/ Before(Place, Place')
        /\ \A j \in 1..n : Before(wire[j], Place')
    BY PlaceMoves, PlaceType, DataFacts
  <2>2. ~Before(b, Place)
    BY <2>1, BeforeFacts
  <2>3. PICK j \in 1..Len(wire) : wire[j] = b
    BY <2>2 DEF WireInv
  <2>4. ~(j \in 1..n)
    BY <2>1, <2>3
  <2>5. j - n \in 1..Len(wire') /\ n + (j - n) = j
    BY <1>1, <1>2, <2>4
  <2> QED
    BY <1>2, <2>3, <2>5
<1> QED
  BY <1>2, <1>3, <1>4, <1>5, <1>6, <1>7, <1>8 DEF WireInv

\* Behind a part of a frame its rest comes, and behind the whole of it the next one.
LEMMA FrameTaken ==
  ASSUME TypeInv, WireInv, NEW k \in 1..Len(written), NEW i \in (1 - HeadLen)..written[k].len,
         Place = <<k, i>>, NEW n \in 1..(written[k].len - i + 1), Take(n)
  PROVE  /\ n \in 1..Len(wire)
         /\ n = written[k].len - i + 1 => Place' = <<k + 1, 1 - HeadLen>>
         /\ n < written[k].len - i + 1 => Place' = <<k, i + n>>
<1>1. /\ Len(written) \in Nat /\ written[k].len \in Nat /\ HeadLen \in Nat \ {0} /\ i \in Int
      /\ k \in Nat /\ Len(wire) \in Nat
  BY FrameFacts, PlaceType
<1>2. /\ wire # <<>> /\ written[k].len - i + 1 <= Len(wire)
      /\ \A m \in 1..(written[k].len - i + 1) : wire[m] = <<k, i + m - 1>>
  BY FrameAt
<1>3. n \in 1..Len(wire) /\ n \in 0..Len(wire)
  BY <1>1, <1>2, SMTT(30)
<1>4. /\ n < Len(wire) => Place' = wire[n + 1]
      /\ n = Len(wire) => Place' = <<Len(written) + 1, 1 - HeadLen>>
  BY <1>3, TakeFacts
<1>5. CASE n < written[k].len - i + 1
  <2>1. n \in Nat /\ n + 1 \in Nat
    BY <1>1, <1>3
  <2>2. n + 1 <= written[k].len - i + 1
    BY <1>1, <1>5, <2>1
  <2>3. n + 1 \in 1..(written[k].len - i + 1) /\ i + (n + 1) - 1 = i + n /\ n < Len(wire)
    BY <1>1, <1>2, <2>1, <2>2, SMTT(30)
  <2> QED
    BY <1>2, <1>4, <1>5, <2>3
<1>6. CASE n = written[k].len - i + 1
  <2>1. wire[n] = <<k, written[k].len>>
    <3>1. n \in 1..(written[k].len - i + 1) /\ i + n - 1 = written[k].len
      BY <1>1, <1>6
    <3> QED
      BY <1>2, <3>1
  <2>2. wire[n][1] = k /\ wire[n][2] = written[k].len
    BY <1>1, <2>1, InByte
  <2>3. CASE n < Len(wire)
    <3>1. n \in 1..Len(wire) - 1
      BY <1>1, <1>3, <2>3
    <3>2. wire[n + 1] = <<k + 1, 1 - HeadLen>>
      BY <2>2, <3>1 DEF WireInv
    <3> QED
      BY <1>3, <1>4, <1>6, <2>3, <3>2
  <2>4. CASE n = Len(wire)
    <3>1. k = Len(written)
      <4>1. wire[n] = <<Len(written), written[Len(written)].len>>
        BY <1>2, <2>4 DEF WireInv
      <4>2. wire[n][1] = Len(written)
        BY <4>1
      <4> QED
        BY <2>2, <4>2
    <3> QED
      BY <1>3, <1>4, <1>6, <2>4, <3>1
  <2> QED
    BY <1>1, <1>3, <2>3, <2>4
<1> QED
  BY <1>3, <1>5, <1>6, <1>1

-----------------------------------------------------------------------------
(* What the peer writes. *)

\* The frame f comes behind what is on the wire.
LEMMA NewFrame ==
  ASSUME TypeInv, NEW f \in Sent(kind), NEW k, k = Len(written) + 1,
         written' = Append(written, f), wire' = wire \o HeadOf(k) \o DataOf(k, f.len)
  PROVE  /\ f.len \in Nat
         /\ written' \in Seq([op : {"text", "other"}, len : Lengths])
         /\ Len(written') = k /\ written'[k] = f
         /\ \A j \in 1..Len(written) : written'[j] = written[j]
         /\ wire' \in Seq(Byte) /\ Len(wire') = Len(wire) + (HeadLen + f.len)
         /\ \A j \in 1..Len(wire) : wire'[j] = wire[j]
         /\ \A m \in 1..(HeadLen + f.len) : wire'[Len(wire) + m] = <<k, m - HeadLen>>
<1>1. f \in [op : {"text", "other"}, len : Lengths] /\ f.len \in Nat
  <2>1. f \in [op : {"text", "other"}, len : Lengths]
    BY SentFacts DEF TypeInv
  <2>2. \A n \in Lengths : n \in Nat
    BY StreamAssumption DEF Lengths
  <2> QED
    BY <2>1, <2>2
<1>2. k \in Nat /\ Len(written) \in Nat /\ wire \in Seq(Byte) /\ Len(wire) \in Nat /\ HeadLen \in Nat
  BY FrameFacts, StreamAssumption, ElementAt DEF TypeInv
<1>3. /\ written' \in Seq([op : {"text", "other"}, len : Lengths])
      /\ Len(written') = k /\ written'[k] = f
      /\ \A j \in 1..Len(written) : written'[j] = written[j]
  <2> DEFINE R == [op : {"text", "other"}, len : Lengths]
  <2>1. written \in Seq(R) /\ f \in R
    BY <1>1 DEF TypeInv
  <2> HIDE DEF R
  <2>2. /\ Append(written, f) \in Seq(R) /\ Len(Append(written, f)) = k
        /\ Append(written, f)[k] = f
        /\ \A j \in 1..Len(written) : Append(written, f)[j] = written[j]
    BY <1>2, <2>1
  <2> QED
    BY <2>2 DEF R
<1>4. /\ HeadOf(k) \in Seq(Byte) /\ Len(HeadOf(k)) = HeadLen
      /\ \A m \in 1..HeadLen : HeadOf(k)[m] = <<k, m - HeadLen>>
  <2>1. \A m \in 1..HeadLen : <<k, m - HeadLen>> \in Byte
    BY <1>2, InByte
  <2>2. HeadOf(k) = [m \in 1..HeadLen |-> <<k, m - HeadLen>>]
    BY DEF HeadOf
  <2>3. HeadOf(k) \in [1..HeadLen -> Byte]
    BY <2>1, <2>2
  <2>4. HeadOf(k) \in Seq(Byte) /\ Len(HeadOf(k)) = HeadLen
    BY <1>2, <2>3
  <2> QED
    BY <2>2, <2>4
<1>5. /\ DataOf(k, f.len) \in Seq(Byte) /\ Len(DataOf(k, f.len)) = f.len
      /\ \A m \in 1..f.len : DataOf(k, f.len)[m] = <<k, m>>
  <2>1. \A m \in 1..f.len : <<k, m>> \in Byte
    BY <1>1, <1>2, InByte
  <2> QED
    BY <1>1, <2>1, SMTT(30) DEF DataOf
<1>6. /\ wire \o HeadOf(k) \in Seq(Byte) /\ Len(wire \o HeadOf(k)) = Len(wire) + HeadLen
      /\ \A j \in 1..Len(wire) : (wire \o HeadOf(k))[j] = wire[j]
      /\ \A m \in 1..HeadLen : (wire \o HeadOf(k))[Len(wire) + m] = <<k, m - HeadLen>>
  BY <1>2, <1>4, ConcatAt
<1>7. /\ wire' \in Seq(Byte) /\ Len(wire') = (Len(wire) + HeadLen) + f.len
      /\ \A j \in 1..(Len(wire) + HeadLen) : wire'[j] = (wire \o HeadOf(k))[j]
      /\ \A m \in 1..f.len : wire'[(Len(wire) + HeadLen) + m] = <<k, m>>
  <2> DEFINE s == wire \o HeadOf(k)
             t == DataOf(k, f.len)
  <2>1. s \in Seq(Byte) /\ t \in Seq(Byte) /\ wire' = s \o t
    BY <1>5, <1>6
  <2>2. Len(s) = Len(wire) + HeadLen /\ Len(t) = f.len /\ \A m \in 1..f.len : t[m] = <<k, m>>
    BY <1>5, <1>6
  <2> HIDE DEF s, t
  <2>3. /\ wire' \in Seq(Byte) /\ Len(wire') = Len(s) + Len(t)
        /\ \A j \in 1..Len(s) : wire'[j] = s[j]
        /\ \A m \in 1..Len(t) : wire'[Len(s) + m] = t[m]
    <3>1. /\ s \o t \in Seq(Byte) /\ Len(s \o t) = Len(s) + Len(t)
          /\ \A j \in 1..Len(s) : (s \o t)[j] = s[j]
          /\ \A m \in 1..Len(t) : (s \o t)[Len(s) + m] = t[m]
      BY <2>1, ConcatAt
    <3> QED
      BY <2>1, <3>1, Zenon
  <2>4. /\ Len(wire') = (Len(wire) + HeadLen) + f.len
        /\ \A j \in 1..(Len(wire) + HeadLen) : wire'[j] = s[j]
        /\ \A m \in 1..f.len : wire'[(Len(wire) + HeadLen) + m] = <<k, m>>
    BY <2>2, <2>3
  <2> QED
    BY <2>3, <2>4 DEF s
<1>8. \A j \in 1..Len(wire) : wire'[j] = wire[j]
  BY <1>2, <1>6, <1>7
<1>9. ASSUME NEW m \in 1..(HeadLen + f.len)
      PROVE  wire'[Len(wire) + m] = <<k, m - HeadLen>>
  <2>1. CASE m <= HeadLen
    <3>1. m \in 1..HeadLen /\ Len(wire) + m \in 1..(Len(wire) + HeadLen)
      BY <1>1, <1>2, <2>1
    <3> QED
      BY <1>6, <1>7, <3>1
  <2>2. CASE m > HeadLen
    <3>1. m - HeadLen \in 1..f.len /\ Len(wire) + m = (Len(wire) + HeadLen) + (m - HeadLen)
      BY <1>1, <1>2, <2>2
    <3> QED
      BY <1>7, <3>1
  <2>3. m <= HeadLen \/ m > HeadLen
    BY <1>1, <1>2
  <2> QED
    BY <2>1, <2>2, <2>3
<1>10. Len(wire') = Len(wire) + (HeadLen + f.len)
  BY <1>1, <1>2, <1>7
<1> QED
  BY <1>1, <1>3, <1>7, <1>8, <1>9, <1>10

\* The data of the new frame is added, and the place is the same.
LEMMA WireWritten ==
  ASSUME TypeInv, WireInv, WriteFrame
  PROVE  /\ WireInv' /\ Place' = Place
         /\ Len(written') = Len(written) + 1
         /\ \A j \in 1..Len(written) : written'[j] = written[j]
         /\ Data \subseteq Data'
         /\ \A b \in Data' : Before(b, Place) => b \in Data
<1>1. PICK f \in Sent(kind) :
        LET k == Len(written) + 1 IN
          /\ written' = Append(written, f)
          /\ wire' = wire \o HeadOf(k) \o DataOf(k, f.len)
  BY DEF WriteFrame
<1> DEFINE k == Len(written) + 1
           w == Len(wire)
           z == HeadLen + f.len
<1>2. /\ f.len \in Nat /\ Len(written') = k /\ written'[k] = f
      /\ \A j \in 1..Len(written) : written'[j] = written[j]
      /\ wire' \in Seq(Byte) /\ Len(wire') = w + z
      /\ \A j \in 1..w : wire'[j] = wire[j]
      /\ \A m \in 1..z : wire'[w + m] = <<k, m - HeadLen>>
      /\ written' \in Seq([op : {"text", "other"}, len : Lengths])
  BY <1>1, NewFrame, ZenonT(30)
<1>3. /\ k \in Nat /\ Len(written) \in Nat /\ HeadLen \in Nat \ {0} /\ w \in Nat
      /\ z \in Nat /\ z > 0 /\ Len(written) = k - 1
      /\ \A j \in 1..w : wire[j] \in Byte
      /\ \A j \in 1..Len(written) : written[j].len \in Nat
  BY <1>2, FrameFacts, PlaceType
<1>a. w = 0 <=> wire = <<>>
  BY <1>3, PlaceType
<1> HIDE DEF k, w, z
<1>4. \A m \in 1..z : <<k, m - HeadLen>> \in Byte /\ <<k, m - HeadLen>>[1] = k
                      /\ <<k, m - HeadLen>>[2] = m - HeadLen
  BY <1>3, InByte
<1>5. \A j \in 1..w : /\ wire[j][1] \in 1..Len(written) /\ wire[j][1] < k
                      /\ written'[wire[j][1]] = written[wire[j][1]]
                      /\ wire[j][2] \in (1 - HeadLen)..written[wire[j][1]].len
  <2>1. \A j \in 1..w : Written(wire[j])
    BY DEF WireInv, w
  <2> QED
    BY <1>2, <1>3, <2>1 DEF Written
<1>6. \A j \in 1..(w + z) : j \in 1..w \/ \E m \in 1..z : j = w + m
  <2> SUFFICES ASSUME NEW j \in 1..(w + z), ~(j \in 1..w) PROVE \E m \in 1..z : j = w + m
    OBVIOUS
  <2>1. j - w \in 1..z /\ j = w + (j - w)
    BY <1>3
  <2> QED
    BY <2>1
<1>7. Place' = Place
  <2>1. Len(wire') # 0 /\ wire' # <<>>
    BY <1>2, <1>3
  <2>2. Place' = wire'[1]
    BY <2>1 DEF Place
  <2>3. CASE wire = <<>>
    <3>1. w = 0 /\ 1 \in 1..z /\ w + 1 = 1
      BY <1>3, <1>a, <2>3
    <3>2. wire'[1] = <<k, 1 - HeadLen>>
      BY <1>2, <3>1
    <3> QED
      BY <2>2, <2>3, <3>2 DEF Place, k
  <2>4. CASE wire # <<>>
    <3>1. 1 \in 1..w
      BY <1>3, <1>a, <2>4
    <3> QED
      BY <1>2, <2>2, <2>4, <3>1 DEF Place
  <2> QED
    BY <2>3, <2>4
<1>8. /\ Data \subseteq Data'
      /\ \A b \in Data' : b \in Data \/ \E i \in 1..f.len : b = <<k, i>>
  <2>1. DOMAIN written = 1..Len(written) /\ DOMAIN written' = 1..k
    BY <1>2, ElementAt, Zenon DEF TypeInv
  <2>2. /\ \A b : b \in Data <=>
              \E j \in 1..Len(written) : \E i \in 1..written[j].len : b = <<j, i>>
    BY DataIs
  <2>3. /\ \A b : b \in Data' <=>
              \E j \in 1..k : \E i \in 1..written'[j].len : b = <<j, i>>
    <3>1. Data' = UNION {{<<j, i>> : i \in 1..written'[j].len} : j \in 1..k}
      BY <2>1 DEF Data
    <3> QED
      BY <3>1
  <2>4. \A j \in 1..k : j \in 1..Len(written) \/ j = k
    BY <1>3
  <2>5. \A j \in 1..Len(written) : j \in 1..k
    BY <1>3
  <2>6. Data \subseteq Data'
    BY <1>2, <2>2, <2>3, <2>5
  <2>7. ASSUME NEW b \in Data', ~(b \in Data) PROVE \E i \in 1..f.len : b = <<k, i>>
    <3>1. PICK j \in 1..k : \E i \in 1..written'[j].len : b = <<j, i>>
      BY <2>3
    <3>2. j = k
      BY <1>2, <2>2, <2>4, <2>7, <3>1
    <3> QED
      BY <1>2, <3>1, <3>2
  <2> QED
    BY <2>6, <2>7
<1>9. \A b \in Data' : Before(b, Place) => b \in Data
  <2> SUFFICES ASSUME NEW i \in 1..f.len PROVE ~Before(<<k, i>>, Place)
    BY <1>8
  <2>1. i \in Int /\ i >= 1 /\ <<k, i>>[1] = k /\ <<k, i>>[2] = i
    BY <1>2, <1>3, InByte
  <2>2. CASE wire = <<>>
    <3>1. Place[1] = k /\ Place[2] = 1 - HeadLen
      BY <1>3, <2>2, InByte DEF Place, k
    <3> QED
      BY <1>3, <2>1, <3>1 DEF Before
  <2>3. CASE wire # <<>>
    <3>1. Place[1] \in 1..Len(written)
      BY <1>3, <1>5, <1>a, <2>3 DEF Place
    <3> QED
      BY <1>3, <2>1, <3>1 DEF Before
  <2> QED
    BY <2>2, <2>3
<1>10. (\A j \in 1..Len(wire) : Written(wire[j]))'
  <2> SUFFICES ASSUME NEW j \in 1..(w + z)
               PROVE  /\ wire'[j][1] \in 1..k
                      /\ wire'[j][2] \in (1 - HeadLen)..written'[wire'[j][1]].len
    BY <1>2 DEF Written
  <2>1. CASE j \in 1..w
    <3>1. wire'[j] = wire[j] /\ wire[j][1] \in 1..Len(written)
          /\ written'[wire[j][1]] = written[wire[j][1]]
          /\ wire[j][2] \in (1 - HeadLen)..written[wire[j][1]].len
      BY <1>2, <1>5, <2>1
    <3>2. wire[j][1] \in 1..k
      BY <1>3, <3>1
    <3> QED
      BY <3>1, <3>2
  <2>2. ASSUME NEW m \in 1..z, j = w + m
        PROVE  /\ wire'[j][1] \in 1..k
               /\ wire'[j][2] \in (1 - HeadLen)..written'[wire'[j][1]].len
    <3>1. wire'[j][1] = k /\ wire'[j][2] = m - HeadLen /\ written'[k].len = f.len
      BY <1>2, <1>4, <2>2
    <3>2. k \in 1..k
      <4>1. k \in Nat /\ Len(written) \in Nat /\ k - 1 = Len(written)
        BY <1>3
      <4> HIDE DEF k
      <4> QED
        BY <4>1
    <3>3. f.len \in Nat /\ HeadLen \in Nat /\ m \in 1..(HeadLen + f.len)
      BY <1>2, <1>3 DEF z
    <3>4. m - HeadLen \in (1 - HeadLen)..f.len
      BY <3>3
    <3> QED
      BY <3>1, <3>2, <3>4
  <2> QED
    BY <1>6, <2>1, <2>2
<1>11. InOrder(wire')
  <2>1. \A i, j \in 1..w : i < j => Before(wire[i], wire[j])
    BY OrderOf DEF WireInv, TypeInv, w
  <2>2. ASSUME NEW i \in 1..(w + z), NEW j \in 1..(w + z), i < j
        PROVE  Before(wire'[i], wire'[j])
    <3>1. CASE j \in 1..w
      <4>1. i \in 1..w
        BY <1>3, <2>2, <3>1
      <4> QED
        BY <1>2, <2>1, <2>2, <3>1, <4>1
    <3>2. ASSUME NEW m \in 1..z, j = w + m PROVE Before(wire'[i], wire'[j])
      <4>1. wire'[j][1] = k /\ wire'[j][2] = m - HeadLen
        BY <1>2, <1>4, <3>2
      <4>2. CASE i \in 1..w
        <5>1. wire'[i][1] < k
          BY <1>2, <1>5, <4>2
        <5> QED
          BY <4>1, <5>1 DEF Before
      <4>3. ASSUME NEW n \in 1..z, i = w + n PROVE Before(wire'[i], wire'[j])
        <5>1. wire'[i][1] = k /\ wire'[i][2] = n - HeadLen
          BY <1>2, <1>4, <4>3
        <5>2. n - HeadLen < m - HeadLen
          BY <1>3, <2>2, <3>2, <4>3
        <5> QED
          BY <4>1, <5>1, <5>2 DEF Before
      <4> QED
        BY <1>6, <4>2, <4>3
    <3> QED
      BY <1>6, <3>1, <3>2
  <2> QED
    BY <1>2, <2>2, OrderOf
<1>12. (wire # <<>> => wire[Len(wire)] = <<Len(written), written[Len(written)].len>>)'
  <2>1. z \in 1..z /\ z - HeadLen = f.len
    BY <1>2, <1>3 DEF z
  <2>2. wire'[w + z] = <<k, f.len>>
    BY <1>2, <2>1
  <2> QED
    BY <1>2, <2>2
<1>13. \A j \in 1..Len(wire') : \A m \in 0..(written'[wire'[j][1]].len - wire'[j][2]) :
         j + m <= Len(wire') /\ wire'[j + m] = <<wire'[j][1], wire'[j][2] + m>>
  <2> SUFFICES ASSUME NEW j \in 1..(w + z), NEW m \in 0..(written'[wire'[j][1]].len - wire'[j][2])
               PROVE  j + m <= w + z /\ wire'[j + m] = <<wire'[j][1], wire'[j][2] + m>>
    BY <1>2
  <2>1. CASE j \in 1..w
    <3>1. wire'[j] = wire[j] /\ written'[wire'[j][1]] = written[wire[j][1]]
      BY <1>2, <1>5, <2>1
    <3>2. j + m <= w /\ wire[j + m] = <<wire[j][1], wire[j][2] + m>>
      BY <2>1, <3>1 DEF WireInv, w
    <3>3. m \in Nat
      <4>1. written[wire[j][1]].len - wire[j][2] \in Int
        BY <1>3, <1>5, <2>1
      <4> QED
        BY <3>1, <4>1
    <3>4. j + m \in 1..w /\ j + m <= w + z
      BY <1>3, <2>1, <3>2, <3>3
    <3> QED
      BY <1>2, <3>1, <3>2, <3>4
  <2>2. ASSUME NEW n \in 1..z, j = w + n
        PROVE  j + m <= w + z /\ wire'[j + m] = <<wire'[j][1], wire'[j][2] + m>>
    <3>1. wire'[j][1] = k /\ wire'[j][2] = n - HeadLen /\ written'[k].len = f.len
      BY <1>2, <1>4, <2>2
    <3>a. m \in 0..(f.len - (n - HeadLen)) /\ n \in Nat /\ n >= 1
      BY <1>3, <3>1
    <3>b. m \in Nat /\ m <= f.len - (n - HeadLen)
      BY <1>2, <1>3, <3>a
    <3>c. n + m >= 1 /\ n + m <= HeadLen + f.len /\ n + m \in Nat
      BY <1>2, <1>3, <3>a, <3>b
    <3>d. n + m \in 1..z
      BY <1>3, <3>c DEF z
    <3>2. n + m \in 1..z /\ j + m = w + (n + m) /\ (n + m) - HeadLen = (n - HeadLen) + m
      BY <1>3, <2>2, <3>a, <3>b, <3>d
    <3>3. wire'[j + m] = <<k, (n - HeadLen) + m>>
      BY <1>2, <3>2
    <3>4. j + m <= w + z
      BY <1>3, <3>2
    <3> QED
      BY <3>1, <3>3, <3>4
  <2> QED
    BY <1>6, <2>1, <2>2
<1>14. \A j \in 1..Len(wire') - 1 :
         wire'[j][2] = written'[wire'[j][1]].len => wire'[j + 1] = <<wire'[j][1] + 1, 1 - HeadLen>>
  <2> SUFFICES ASSUME NEW j \in 1..(w + z) - 1, wire'[j][2] = written'[wire'[j][1]].len
               PROVE  wire'[j + 1] = <<wire'[j][1] + 1, 1 - HeadLen>>
    BY <1>2
  <2>0. j \in 1..(w + z) /\ j \in Nat /\ j + 1 <= w + z
    BY <1>3
  <2>1. CASE j \in 1..w - 1
    <3>1. j \in 1..w /\ j + 1 \in 1..w
      BY <1>3, <2>1
    <3>2. wire'[j] = wire[j] /\ wire'[j + 1] = wire[j + 1] /\ written'[wire[j][1]] = written[wire[j][1]]
      BY <1>2, <1>5, <3>1
    <3>3. wire[j + 1] = <<wire[j][1] + 1, 1 - HeadLen>>
      BY <2>1, <3>2 DEF WireInv, w
    <3> QED
      BY <3>2, <3>3
  <2>2. CASE j = w
    <3>1. w \in 1..w /\ wire # <<>>
      BY <1>3, <1>a, <2>0, <2>2
    <3>2. wire[w] = <<Len(written), written[Len(written)].len>>
      BY <3>1 DEF WireInv, w
    <3>3. wire'[w][1] = Len(written)
      BY <1>2, <3>1, <3>2
    <3>4. 1 \in 1..z /\ wire'[w + 1] = <<k, 1 - HeadLen>>
      BY <1>2, <1>3
    <3> QED
      BY <1>3, <2>2, <3>3, <3>4 DEF k
  <2>3. CASE j > w
    <3>1. PICK n \in 1..z : j = w + n
      BY <1>3, <1>6, <2>0, <2>3
    <3>2. n - HeadLen = f.len
      BY <1>2, <1>4, <3>1
    <3>3. n = z
      BY <1>2, <1>3, <3>2 DEF z
    <3> QED
      BY <1>3, <2>0, <3>1, <3>3
  <2> QED
    BY <1>3, <2>0, <2>1, <2>2, <2>3
<1>15. \A b \in Data' : Before(b, Place') \/ \E j \in 1..Len(wire') : wire'[j] = b
  <2> SUFFICES ASSUME NEW b \in Data', ~Before(b, Place)
               PROVE  \E j \in 1..(w + z) : wire'[j] = b
    BY <1>2, <1>7
  <2>1. CASE b \in Data
    <3>1. PICK j \in 1..w : wire[j] = b
      BY <2>1 DEF WireInv, w
    <3>2. j \in 1..(w + z)
      BY <1>3
    <3> QED
      BY <1>2, <3>1, <3>2
  <2>2. ASSUME NEW i \in 1..f.len, b = <<k, i>> PROVE \E j \in 1..(w + z) : wire'[j] = b
    <3>1. HeadLen + i \in 1..z /\ (HeadLen + i) - HeadLen = i /\ w + (HeadLen + i) \in 1..(w + z)
      BY <1>2, <1>3 DEF z
    <3>2. wire'[w + (HeadLen + i)] = b
      BY <1>2, <2>2, <3>1
    <3> QED
      BY <3>1, <3>2
  <2> QED
    BY <1>8, <2>1, <2>2
<1>16. WireInv'
  BY <1>10, <1>11, <1>12, <1>13, <1>14, <1>15 DEF WireInv
<1> QED
  BY <1>2, <1>7, <1>8, <1>9, <1>16 DEF k

-----------------------------------------------------------------------------
(* The loops. *)

\* What came to the loop is such that it keeps in step.
Orderly ==
  \/ kind # "terminal" /\ ~together
  \/ kind \in {"controller", "terminal"} /\ ~cut

\* All the data before the place was handed on, in order, and nothing else.
HandedInv ==
  /\ \A i \in 1..Len(handed) : handed[i] \in Data /\ Before(handed[i], Place)
  /\ InOrder(handed)
  /\ \A b \in Data : Before(b, Place) => \E i \in 1..Len(handed) : handed[i] = b

\* The loop stands at a head, or in the data of the frame whose head it has parsed.
Standing ==
  /\ phase = "head" => Place[2] = 1 - HeadLen
  /\ phase = "data" =>
       /\ head.frame \in 1..Len(written)
       /\ head.op = written[head.frame].op /\ head.len = written[head.frame].len
       /\ total < head.len
       /\ Place = <<head.frame, total + 1>>
       /\ head.op = "other" \/ (kind = "controller" /\ ~cut) => total = 0
  /\ phase = "ended" => link # "open"

ReaderInv == Orderly /\ phase # "crashed" => call = <<>> /\ HandedInv /\ Standing

CrashInv ==
  phase = "crashed" /\ link = "open" =>
    \/ kind = "controller" /\ head.len > Buf
    \/ kind = "client" /\ head.op = "other" /\ head.len >= Buf
    \/ kind = "terminal" /\ cut

\* Frames come apart, whole, and shorter than the buffer.
Apart ==
  kind = "server" /\ ~together /\ ~cut /\ \A k \in DOMAIN written : written[k].len < Buf

HistoryInv ==
  Apart =>
    /\ phase = "data" => total = 0
    /\ ToSet(history) = {b \in ToSet(handed) : b[2] > 1}
    /\ InOrder(history)

\* As long as no status was sent inside a line.
StreamInv == TypeInv /\ WireInv /\ ReaderInv /\ CrashInv /\ HistoryInv

\* All bytes are of the first n frames.
Among(s, n) == \A j \in 1..Len(s) : s[j][1] \in 1..n

\* And once one was.
InsideInv ==
  /\ TypeInv /\ kind = "server" /\ phase # "crashed"
  /\ Among(wire, Len(written)) /\ Among(body, Len(written))

FrameInv == IF inside THEN InsideInv ELSE body = <<>> /\ StreamInv

\* What came stays: a loop that keeps in step after a step kept in step before it.
LEMMA Later ==
  ASSUME kind' = kind, cut => cut', together => together'
  PROVE  Orderly' => Orderly
BY DEF Orderly

\* The data that is taken is handed on.
LEMMA HandOn ==
  ASSUME TypeInv, WireInv, HandedInv, NEW n \in 0..Len(wire), Take(n),
         \A j \in 1..n : wire[j][2] > 0, handed' = handed \o Piece(n)
  PROVE  HandedInv'
<1> DEFINE w == Len(handed)
<1>1. /\ Piece(n) \in Seq(Byte) /\ Len(Piece(n)) = n /\ Data' = Data
      /\ \A j \in 1..n : Piece(n)[j] = wire[j]
  BY TakeFacts
<1>2. handed \in Seq(Byte) /\ w \in Nat /\ n \in Nat /\ Len(wire) \in Nat /\ n <= Len(wire)
      /\ \A i \in 1..w : handed[i] \in Byte
  BY PlaceType, ElementAt DEF TypeInv
<1>3. /\ handed' \in Seq(Byte) /\ Len(handed') = w + n
      /\ \A i \in 1..w : handed'[i] = handed[i]
      /\ \A j \in 1..n : handed'[w + j] = wire[j]
  <2> DEFINE t == Piece(n)
  <2>1. t \in Seq(Byte) /\ Len(t) = n /\ handed' = handed \o t /\ \A j \in 1..n : t[j] = wire[j]
    BY <1>1
  <2> HIDE DEF t
  <2>2. /\ handed \o t \in Seq(Byte) /\ Len(handed \o t) = w + Len(t)
        /\ \A i \in 1..w : (handed \o t)[i] = handed[i]
        /\ \A j \in 1..Len(t) : (handed \o t)[w + j] = t[j]
    BY <1>2, <2>1, ConcatAt
  <2> QED
    BY <2>1, <2>2
<1>4. /\ Place \in Byte /\ Place' \in Byte /\ (Place' = Place \/ Before(Place, Place'))
      /\ \A j \in 1..n : Before(wire[j], Place') /\ wire[j] \in Byte
      /\ \A b \in Data : Before(b, Place') => Before(b, Place) \/ \E j \in 1..n : wire[j] = b
  <2>1. \A j \in 1..n : j \in 1..Len(wire)
    BY <1>2
  <2> QED
    BY <2>1, PlaceType, PlaceMoves
<1>5. \A j \in 1..n : wire[j] \in Data
  <2>1. \A j \in 1..n : j \in 1..Len(wire)
    BY <1>2
  <2>2. \A j \in 1..n : Written(wire[j])
    BY <2>1 DEF WireInv
  <2> QED
    BY <1>4, <2>2, DataFacts
<1> HIDE DEF w
<1>6. \A i \in 1..(w + n) : i \in 1..w \/ \E j \in 1..n : i = w + j
  <2> SUFFICES ASSUME NEW i \in 1..(w + n), ~(i \in 1..w) PROVE \E j \in 1..n : i = w + j
    OBVIOUS
  <2>1. i - w \in 1..n /\ i = w + (i - w)
    BY <1>2
  <2> QED
    BY <2>1
<1>7. \A i \in 1..w : handed[i] \in Data /\ Before(handed[i], Place)
  BY DEF HandedInv, w
<1>8. \A i \in 1..(w + n) : handed'[i] \in Data /\ Before(handed'[i], Place')
  <2>1. ASSUME NEW i \in 1..w PROVE handed'[i] \in Data /\ Before(handed'[i], Place')
    <3>1. handed'[i] = handed[i] /\ handed[i] \in Data /\ Before(handed[i], Place) /\ handed[i] \in Byte
      BY <1>2, <1>3, <1>7
    <3> QED
      BY <1>4, <3>1, BeforeFacts
  <2>2. ASSUME NEW j \in 1..n PROVE handed'[w + j] \in Data /\ Before(handed'[w + j], Place')
    BY <1>3, <1>4, <1>5
  <2> QED
    BY <1>6, <2>1, <2>2
<1>9. InOrder(handed')
  <2>1. \A i, j \in 1..w : i < j => Before(handed[i], handed[j])
    BY <1>2, OrderOf DEF HandedInv, w
  <2>2. \A i, j \in 1..n : i < j => Before(wire[i], wire[j])
    <3>1. \A i, j \in 1..Len(wire) : i < j => Before(wire[i], wire[j])
      BY OrderOf DEF WireInv, TypeInv
    <3>2. \A i \in 1..n : i \in 1..Len(wire)
      BY <1>2
    <3> QED
      BY <3>1, <3>2
  <2>3. ASSUME NEW i \in 1..w, NEW j \in 1..n PROVE Before(handed[i], wire[j])
    <3>1. wire[j] = Place \/ Before(Place, wire[j])
      <4>1. Place = wire[1] /\ 1 \in 1..n
        BY <1>2, PlaceType
      <4>2. j = 1 \/ 1 < j
        BY <1>2
      <4> QED
        BY <2>2, <4>1, <4>2
    <3>2. handed[i] \in Byte /\ wire[j] \in Byte /\ Place \in Byte /\ Before(handed[i], Place)
      BY <1>2, <1>4, <1>7
    <3> QED
      BY <3>1, <3>2, BeforeFacts
  <2>4. ASSUME NEW i \in 1..(w + n), NEW j \in 1..(w + n), i < j
        PROVE  Before(handed'[i], handed'[j])
    <3>1. CASE i \in 1..w /\ j \in 1..w
      BY <1>3, <2>1, <2>4, <3>1
    <3>2. ASSUME NEW m \in 1..n, j = w + m, i \in 1..w PROVE Before(handed'[i], handed'[j])
      BY <1>3, <2>3, <3>2
    <3>3. ASSUME NEW m \in 1..n, j = w + m, NEW l \in 1..n, i = w + l
          PROVE  Before(handed'[i], handed'[j])
      <4>1. l < m
        BY <1>2, <2>4, <3>3
      <4> QED
        BY <1>3, <2>2, <3>3, <4>1
    <3>4. ASSUME NEW l \in 1..n, i = w + l, j \in 1..w PROVE FALSE
      BY <1>2, <2>4, <3>4
    <3> QED
      BY <1>6, <3>1, <3>2, <3>3, <3>4
  <2> QED
    BY <1>3, <2>4, OrderOf
<1>10. \A b \in Data : Before(b, Place') => \E i \in 1..(w + n) : handed'[i] = b
  <2> SUFFICES ASSUME NEW b \in Data, Before(b, Place')
               PROVE  \E i \in 1..(w + n) : handed'[i] = b
    OBVIOUS
  <2>1. CASE Before(b, Place)
    <3>1. PICK i \in 1..w : handed[i] = b
      BY <2>1 DEF HandedInv, w
    <3>2. i \in 1..(w + n)
      BY <1>2
    <3> QED
      BY <1>3, <3>1, <3>2
  <2>2. ASSUME NEW j \in 1..n, wire[j] = b PROVE \E i \in 1..(w + n) : handed'[i] = b
    <3>1. w + j \in 1..(w + n) /\ handed'[w + j] = b
      BY <1>2, <1>3, <2>2
    <3> QED
      BY <3>1
  <2> QED
    BY <1>4, <2>1, <2>2
<1> QED
  BY <1>1, <1>3, <1>8, <1>9, <1>10 DEF HandedInv

\* Heads are not handed on.
LEMMA Skip ==
  ASSUME TypeInv, WireInv, HandedInv, NEW n \in 0..Len(wire), Take(n),
         \A j \in 1..n : wire[j][2] <= 0, handed' = handed
  PROVE  HandedInv'
<1>1. /\ Place \in Byte /\ Place' \in Byte /\ (Place' = Place \/ Before(Place, Place'))
      /\ \A b \in Data : Before(b, Place') => Before(b, Place) \/ \E j \in 1..n : wire[j] = b
      /\ Data' = Data
  BY PlaceType, PlaceMoves, TakeFacts
<1>2. \A b \in Data : b \in Byte /\ b[2] >= 1
  BY DataFacts
<1>3. ASSUME NEW j \in 1..n PROVE ~(wire[j] \in Data)
  <2>1. wire[j] \in Data => wire[j][2] \in Int /\ wire[j][2] >= 1
    BY <1>2, Pairs
  <2>2. wire[j][2] <= 0
    OBVIOUS
  <2> QED
    BY <2>1, <2>2
<1>4. \A b \in Data : Before(b, Place') => Before(b, Place)
  BY <1>1, <1>3
<1>5. \A b \in Data : Before(b, Place) => Before(b, Place')
  BY <1>1, <1>2, BeforeFacts
<1>6. \A i \in 1..Len(handed') : handed'[i] \in Data /\ Before(handed'[i], Place')
  BY <1>5 DEF HandedInv
<1> QED
  BY <1>1, <1>4, <1>6 DEF HandedInv

\* When nothing is behind a frame, the wire ends with it.
LEMMA Alone ==
  ASSUME TypeInv, WireInv, NEW k \in 1..Len(written), NEW i \in (1 - HeadLen)..written[k].len,
         Place = <<k, i>>, Last(wire)[1] = wire[1][1]
  PROVE  Len(wire) = written[k].len - i + 1
<1> DEFINE e == written[k].len - i + 1
<1>1. /\ Len(written) \in Nat /\ written[k].len \in Nat /\ HeadLen \in Nat \ {0} /\ i \in Int
      /\ k \in Nat /\ Len(wire) \in Nat /\ e \in Nat /\ e > 0
  BY FrameFacts, PlaceType, SMTT(30)
<1>2. wire # <<>> /\ e <= Len(wire) /\ \A m \in 1..e : wire[m] = <<k, i + m - 1>>
  BY FrameAt
<1>3. wire[e] = <<k, written[k].len>>
  <2>1. i + e - 1 = written[k].len
    BY <1>1
  <2>2. e \in 1..e
    BY <1>1
  <2> QED
    BY <1>2, <2>1, <2>2
<1>4. wire[Len(wire)] = <<Len(written), written[Len(written)].len>>
  BY <1>2 DEF WireInv
<1>5. Last(wire) = wire[Len(wire)]
  BY DEF Last
<1>6. Len(written) = k
  <2>1. Last(wire)[1] = Len(written)
    BY <1>4, <1>5
  <2>2. wire[1] = <<k, i>> /\ wire[1][1] = k
    BY <1>1, <1>2, PlaceType
  <2> QED
    BY <2>1, <2>2
<1>7. wire[e] = wire[Len(wire)]
  BY <1>3, <1>4, <1>6
<1>8. ~(e < Len(wire))
  <2>1. e \in 1..Len(wire) /\ Len(wire) \in 1..Len(wire) /\ wire[e] \in Byte
    BY <1>1, <1>2, PlaceType
  <2>2. e < Len(wire) => Before(wire[e], wire[Len(wire)])
    BY <2>1, OrderOf DEF WireInv, TypeInv
  <2> QED
    BY <1>7, <2>1, <2>2, BeforeFacts
<1> QED
  BY <1>1, <1>2, <1>8

-----------------------------------------------------------------------------
(* Types. *)

\* The types at the start.
LEMMA InitTypes == Init => TypeInv
<1> SUFFICES ASSUME Init PROVE TypeInv
  OBVIOUS
<1>1. /\ written = <<>> /\ wire = <<>> /\ call = <<>> /\ handed = <<>> /\ history = <<>>
      /\ body = <<>>
  BY DEF Init
<1>2. Len(written) = 0
  BY <1>1
<1>3. head \in [frame : Nat, op : {"text", "other"}, len : Nat] /\ total \in Nat
  BY DEF Init
<1>4. written \in Seq([op : {"text", "other"}, len : Lengths])
  BY <1>1
<1>5. /\ wire \in Seq(Byte) /\ call \in Seq(Byte) /\ handed \in Seq(Byte)
      /\ history \in Seq(Byte) /\ body \in Seq(Byte)
  BY <1>1
<1>6. \A k \in 1..Len(written) : written[k] \in Sent(kind)
  BY <1>2
<1> QED
  BY <1>3, <1>4, <1>5, <1>6 DEF Init, TypeInv

\* The types after a frame was written.
LEMMA WriteTypes ==
  ASSUME TypeInv, WriteFrame
  PROVE  TypeInv'
<1>1. PICK f \in Sent(kind) :
        LET k == Len(written) + 1 IN
          /\ written' = Append(written, f)
          /\ wire' = wire \o HeadOf(k) \o DataOf(k, f.len)
  BY DEF WriteFrame
<1>2. /\ written' \in Seq([op : {"text", "other"}, len : Lengths])
      /\ Len(written') = Len(written) + 1 /\ written'[Len(written) + 1] = f
      /\ \A j \in 1..Len(written) : written'[j] = written[j]
      /\ wire' \in Seq(Byte)
  BY <1>1, NewFrame
<1>3. /\ UNCHANGED <<kind, link, phase, head, total, call, handed, history, together, cut>>
      /\ UNCHANGED <<body, inside, handing>>
  BY DEF WriteFrame, readerVars, outVars
<1>4. \A k \in 1..Len(written') : written'[k] \in Sent(kind)
  <2>1. \A k \in 1..(Len(written) + 1) : k \in 1..Len(written) \/ k = Len(written) + 1
    BY FrameFacts
  <2>2. \A k \in 1..Len(written) : written[k] \in Sent(kind)
    BY DEF TypeInv
  <2> QED
    BY <1>1, <1>2, <2>1, <2>2
<1>5. (\A k \in 1..Len(written) : written[k] \in Sent(kind))'
  BY <1>3, <1>4 DEF Sent
<1> QED
  BY <1>2, <1>3, <1>5 DEF TypeInv

\* A part of a sequence of bytes, and the unmasked form of one.
LEMMA Parts ==
  ASSUME NEW s \in Seq(Byte), s # <<>>
  PROVE  Tail(s) \in Seq(Byte) /\ Len(Tail(s)) = Len(s) - 1
         /\ \A i \in 1..(Len(s) - 1) : Tail(s)[i] = s[i + 1]
OBVIOUS

\* Unmasking gives bytes.
LEMMA UnmaskedType ==
  ASSUME TypeInv, NEW s \in Seq(Byte)
  PROVE  Unmasked(s) \in Seq(Byte)
<1>1. Garbled \in Byte /\ \A j \in 1..Len(s) : s[j] \in Byte
  BY InByte DEF Garbled, Byte
<1>2. DOMAIN s = 1..Len(s) /\ Len(s) \in Nat
  BY ElementAt, Zenon
<1>3. Unmasked(s) = [j \in 1..Len(s) |-> IF s[j] = <<head.frame, total + j>> THEN s[j] ELSE Garbled]
  BY <1>2 DEF Unmasked
<1>4. Unmasked(s) \in [1..Len(s) -> Byte]
  BY <1>1, <1>3
<1> QED
  BY <1>2, <1>4

\* What a recv of some bytes leaves as it was, and what it notes.
LEMMA Received ==
  ASSUME TypeInv, NEW asked \in Int, NEW n \in Int, Receive(n, asked)
  PROVE  /\ n \in Nat /\ n >= 1 /\ n <= asked /\ n <= Len(wire) /\ n \in 0..Len(wire)
         /\ n \in 1..Len(wire)
         /\ Take(n) /\ Piece(n) # <<>> /\ cut' \in BOOLEAN /\ together' \in BOOLEAN
         /\ (cut => cut') /\ (together => together')
         /\ ~cut' => n >= Least(asked, head.len - total)
         /\ ~together' => Last(wire)[1] = wire[1][1]
<1>1. Len(wire) \in Nat
  BY PlaceType
<1>2. n \in 1..Least(asked, Len(wire))
  BY DEF Receive
<1>3. /\ n \in Nat /\ n >= 1 /\ n <= asked /\ n <= Len(wire) /\ n \in 0..Len(wire)
      /\ n \in 1..Len(wire)
  BY <1>1, <1>2 DEF Least
<1>4. Take(n)
  BY DEF Receive
<1>5. cut \in BOOLEAN /\ together \in BOOLEAN
  BY DEF TypeInv
<1>6. /\ cut' \in BOOLEAN /\ together' \in BOOLEAN /\ (cut => cut') /\ (together => together')
      /\ ~cut' => ~(n < Least(asked, head.len - total))
      /\ ~together' => Last(wire)[1] = wire[1][1]
  BY <1>5 DEF Receive
<1>7. Least(asked, head.len - total) \in Int
  <2>1. head.len \in Nat /\ total \in Nat
    BY DEF TypeInv
  <2> QED
    BY <2>1 DEF Least
<1>8. Piece(n) # <<>>
  <2>1. Len(Piece(n)) = n /\ Piece(n) \in Seq(Byte)
    BY <1>3, <1>4, TakeFacts
  <2> QED
    BY <1>3, <2>1, Empty
<1> QED
  BY <1>3, <1>4, <1>6, <1>7, <1>8

\* The types after a recv, if what the loop makes of it has them.
LEMMA TakeTypes ==
  ASSUME TypeInv, NEW n \in 0..Len(wire), Take(n),
         phase' \in {"head", "data", "ended", "crashed"},
         head' \in [frame : Nat, op : {"text", "other"}, len : Nat], total' \in Nat,
         call' \in Seq(Byte), handed' \in Seq(Byte), history' \in Seq(Byte),
         handing' \in BOOLEAN, together' \in BOOLEAN, cut' \in BOOLEAN
  PROVE  TypeInv'
<1>1. UNCHANGED <<kind, written, body, inside, link>> /\ wire' \in Seq(Byte)
  BY TakeFacts DEF Take
<1>2. (\A k \in 1..Len(written) : written[k] \in Sent(kind))'
  BY <1>1 DEF TypeInv, Sent
<1> QED
  BY <1>1, <1>2 DEF TypeInv

\* What Counted and Quit do keeps the types of the reader's variables.
LEMMA CountedTypes ==
  ASSUME TypeInv, NEW n \in Nat, Counted(n)
  PROVE  phase' \in {"head", "data"} /\ head' = head /\ total' = total + n /\ total' \in Nat
         /\ head' \in [frame : Nat, op : {"text", "other"}, len : Nat]
BY DEF TypeInv, Counted

\* The types after a head was read.
LEMMA ReadHeadTypes ==
  ASSUME TypeInv, Among(wire, Len(written)), ReadHead
  PROVE  TypeInv'
<1>1. Len(wire) >= HeadLen /\ Take(HeadLen) /\ UNCHANGED <<together, cut>>
  BY DEF ReadHead
<1>2. HeadLen \in 0..Len(wire) /\ wire # <<>> /\ 1 \in 1..Len(wire) /\ wire[1] \in Byte
  BY <1>1, PlaceType
<1>3. wire[1][1] \in 1..Len(written) /\ wire[1][1] \in Nat
  BY <1>2, Pairs DEF Among
<1>4. /\ written[wire[1][1]].len \in Nat /\ written[wire[1][1]].op \in {"text", "other"}
      /\ \A l \in Lengths : l \in Nat
  BY <1>3, FrameFacts, StreamAssumption DEF Lengths
<1> DEFINE Good ==
      /\ phase' \in {"head", "data", "ended", "crashed"}
      /\ head' \in [frame : Nat, op : {"text", "other"}, len : Nat] /\ total' \in Nat
      /\ UNCHANGED <<call, outVars>>
<1>5. Quit => Good
  BY DEF Quit, TypeInv
<1>6. ASSUME NEW h \in [frame : Nat, op : {"text", "other"}, len : Nat], Begin(h)
      PROVE  Good
  BY <1>5, <1>6 DEF Begin
<1>7. Good
  <2>1. CASE Begin([frame |-> wire[1][1], op |-> written[wire[1][1]].op,
                    len |-> written[wire[1][1]].len])
    <3>1. [frame |-> wire[1][1], op |-> written[wire[1][1]].op, len |-> written[wire[1][1]].len]
            \in [frame : Nat, op : {"text", "other"}, len : Nat]
      BY <1>3, <1>4
    <3> HIDE DEF Good
    <3> QED
      BY <1>6, <2>1, <3>1
  <2>2. ASSUME NEW op \in {"text", "other"}, NEW len \in Lengths,
               Begin([frame |-> wire[1][1], op |-> op, len |-> len])
        PROVE  Good
    <3>1. [frame |-> wire[1][1], op |-> op, len |-> len]
            \in [frame : Nat, op : {"text", "other"}, len : Nat]
      BY <1>3, <1>4
    <3> HIDE DEF Good
    <3> QED
      BY <1>6, <2>2, <3>1
  <2>3. CASE Quit
    BY <1>5, <2>3
  <2> HIDE DEF Good
  <2> QED
    BY <2>1, <2>2, <2>3 DEF ReadHead
<1>8. /\ call' \in Seq(Byte) /\ handed' \in Seq(Byte) /\ history' \in Seq(Byte)
      /\ handing' \in BOOLEAN /\ together' \in BOOLEAN /\ cut' \in BOOLEAN
  BY <1>1, <1>7 DEF TypeInv, outVars
<1> QED
  BY <1>1, <1>2, <1>7, <1>8, TakeTypes

\* A loop for plain frames hands on what it has received, or stops.
LEMMA PlainTypes ==
  ASSUME TypeInv, NEW asked \in Int, NEW n \in Int, Receive(n, asked),
         \/ Quit
         \/ phase' = "crashed" /\ UNCHANGED <<head, total, call, outVars>>
         \/ /\ Counted(n)
            /\ handed' = handed \o Piece(n)
            /\ history' = history \/ history' = history \o Tail(Piece(n))
                                  \/ history' = history \o <<>>
            /\ UNCHANGED call /\ handing' \in BOOLEAN
  PROVE  TypeInv'
<1>1. /\ n \in Nat /\ n \in 0..Len(wire) /\ Take(n) /\ Piece(n) # <<>>
      /\ cut' \in BOOLEAN /\ together' \in BOOLEAN
  BY Received
<1>2. Piece(n) \in Seq(Byte)
  BY <1>1, TakeFacts
<1>3. Tail(Piece(n)) \in Seq(Byte)
  BY <1>1, <1>2, Parts
<1>4. /\ handed \in Seq(Byte) /\ history \in Seq(Byte) /\ call \in Seq(Byte)
      /\ head \in [frame : Nat, op : {"text", "other"}, len : Nat] /\ total \in Nat
      /\ handing \in BOOLEAN
  BY DEF TypeInv
<1>5. /\ handed \o Piece(n) \in Seq(Byte) /\ history \o Tail(Piece(n)) \in Seq(Byte)
      /\ history \o <<>> \in Seq(Byte)
  <2>1. \A s, t \in Seq(Byte) : s \o t \in Seq(Byte)
    OBVIOUS
  <2>2. <<>> \in Seq(Byte)
    OBVIOUS
  <2> QED
    BY <1>2, <1>3, <1>4, <2>1, <2>2
<1>6. /\ phase' \in {"head", "data", "ended", "crashed"}
      /\ head' \in [frame : Nat, op : {"text", "other"}, len : Nat] /\ total' \in Nat
      /\ call' \in Seq(Byte) /\ handed' \in Seq(Byte) /\ history' \in Seq(Byte)
      /\ handing' \in BOOLEAN
  <2>1. CASE Quit \/ (phase' = "crashed" /\ UNCHANGED <<head, total, call, outVars>>)
    BY <1>4, <2>1 DEF Quit, outVars
  <2>2. CASE /\ Counted(n)
             /\ handed' = handed \o Piece(n)
             /\ history' = history \/ history' = history \o Tail(Piece(n))
                                   \/ history' = history \o <<>>
             /\ UNCHANGED call /\ handing' \in BOOLEAN
    <3>1. phase' \in {"head", "data"} /\ total' \in Nat
          /\ head' \in [frame : Nat, op : {"text", "other"}, len : Nat]
      BY <1>1, <2>2, CountedTypes
    <3> QED
      BY <1>4, <1>5, <2>2, <3>1
  <2> QED
    BY <2>1, <2>2
<1> QED
  BY <1>1, <1>6, TakeTypes

\* The types after a round of readData.
LEMMA TerminalTypes ==
  ASSUME TypeInv, TerminalReceive
  PROVE  TypeInv'
<1> DEFINE need == Least(head.len - total, Buf)
<1>1. PICK n \in 1..need :
        /\ Receive(n, need)
        /\ \/ /\ Len(call \o Piece(n)) >= need
              /\ Counted(n)
              /\ handed' = handed \o Unmasked(SubSeq(call \o Piece(n), 1, n)) /\ handing' = TRUE
              /\ call' = <<>> /\ UNCHANGED history
           \/ /\ Len(call \o Piece(n)) < need
              /\ call' = call \o Piece(n)
              /\ UNCHANGED <<phase, head, total, outVars>>
           \/ /\ Len(call \o Piece(n)) > Buf
              /\ phase' = "crashed" /\ UNCHANGED <<head, total, call, outVars>>
  BY DEF TerminalReceive
<1>2. need \in Int
  BY StreamAssumption DEF TypeInv, Least
<1> HIDE DEF need
<1>3. /\ n \in Nat /\ n \in 0..Len(wire) /\ Take(n) /\ n <= need
      /\ cut' \in BOOLEAN /\ together' \in BOOLEAN
  <2>1. Receive(n, need)
    BY <1>1, Zenon
  <2>2. n \in Int
    BY <1>2
  <2> QED
    BY ONLY <1>2, <2>1, <2>2, Received, TypeInv
<1>4. Piece(n) \in Seq(Byte) /\ Len(Piece(n)) = n
  BY <1>3, TakeFacts
<1>5. /\ handed \in Seq(Byte) /\ history \in Seq(Byte) /\ call \in Seq(Byte)
      /\ head \in [frame : Nat, op : {"text", "other"}, len : Nat] /\ total \in Nat
      /\ phase \in {"head", "data", "ended", "crashed"} /\ handing \in BOOLEAN
  BY DEF TypeInv
<1> DEFINE t == Piece(n)
           got == call \o t
<1>6. got \in Seq(Byte) /\ Len(got) >= n /\ Len(got) \in Nat
  <2>1. t \in Seq(Byte) /\ Len(t) = n
    BY <1>4
  <2> HIDE DEF t
  <2>2. Len(call) \in Nat /\ call \in Seq(Byte)
    BY <1>5
  <2>3. call \o t \in Seq(Byte) /\ Len(call \o t) = Len(call) + Len(t)
    BY <2>1, <2>2, ConcatAt
  <2> QED
    BY <1>3, <2>1, <2>3, <2>2
<1>7. Unmasked(SubSeq(got, 1, n)) \in Seq(Byte)
  <2> HIDE DEF got
  <2>1. n \in 0..Len(got)
    BY <1>3, <1>6
  <2> QED
    BY <1>6, <2>1, Taken, UnmaskedType
<1>8. handed \o Unmasked(SubSeq(got, 1, n)) \in Seq(Byte)
  <2> DEFINE u == Unmasked(SubSeq(got, 1, n))
  <2>1. u \in Seq(Byte)
    BY <1>7
  <2> HIDE DEF u
  <2>2. handed \o u \in Seq(Byte)
    BY <1>5, <2>1
  <2> QED
    BY <2>2 DEF u
<1>9. /\ phase' \in {"head", "data", "ended", "crashed"}
      /\ head' \in [frame : Nat, op : {"text", "other"}, len : Nat] /\ total' \in Nat
      /\ call' \in Seq(Byte) /\ handed' \in Seq(Byte) /\ history' \in Seq(Byte)
      /\ handing' \in BOOLEAN
  <2>1. CASE Counted(n) /\ handed' = handed \o Unmasked(SubSeq(got, 1, n)) /\ call' = <<>>
             /\ UNCHANGED history /\ handing' = TRUE
    <3>1. phase' \in {"head", "data"} /\ total' \in Nat
          /\ head' \in [frame : Nat, op : {"text", "other"}, len : Nat]
      BY <1>3, <2>1, CountedTypes
    <3>2. <<>> \in Seq(Byte)
      OBVIOUS
    <3> HIDE DEF got
    <3> QED
      BY <1>5, <1>8, <2>1, <3>1, <3>2
  <2>2. CASE call' = got /\ UNCHANGED <<phase, head, total, outVars>>
    <3> HIDE DEF got
    <3> QED
      BY <1>5, <1>6, <2>2 DEF outVars
  <2>3. CASE phase' = "crashed" /\ UNCHANGED <<head, total, call, outVars>>
    BY <1>5, <2>3 DEF outVars
  <2> QED
    BY <1>1, <2>1, <2>2, <2>3
<1> QED
  BY <1>3, <1>9, TakeTypes

\* The types after a command of the client was carried out.
LEMMA CommandTypes ==
  ASSUME TypeInv, ClientCommand
  PROVE  TypeInv'
<1>1. /\ Len(wire) >= head.len /\ phase' \in {"head", "crashed"}
      /\ handed' = handed \o Piece(head.len) \/ handed' = handed
      /\ Take(head.len) /\ UNCHANGED <<head, total, call, history, handing, together, cut>>
  BY DEF ClientCommand
<1>2. head.len \in 0..Len(wire)
  BY <1>1, PlaceType DEF TypeInv
<1>3. Piece(head.len) \in Seq(Byte)
  BY <1>1, <1>2, TakeFacts
<1>4. handed' \in Seq(Byte)
  <2> DEFINE t == Piece(head.len)
  <2>1. t \in Seq(Byte) /\ handed \in Seq(Byte) /\ (handed' = handed \o t \/ handed' = handed)
    BY <1>1, <1>3 DEF TypeInv
  <2> HIDE DEF t
  <2>2. handed \o t \in Seq(Byte)
    BY <2>1
  <2> QED
    BY <2>1, <2>2
<1>5. /\ phase' \in {"head", "data", "ended", "crashed"}
      /\ head' \in [frame : Nat, op : {"text", "other"}, len : Nat] /\ total' \in Nat
      /\ call' \in Seq(Byte) /\ history' \in Seq(Byte) /\ together' \in BOOLEAN /\ cut' \in BOOLEAN
      /\ handing' \in BOOLEAN
  BY <1>1 DEF TypeInv
<1> QED
  BY <1>1, <1>2, <1>4, <1>5, TakeTypes

\* The steps that take nothing.
LEMMA RestTypes ==
  ASSUME TypeInv, Close \/ ReadHeadFails \/ ReceiveFails \/ HandedOn \/ UNCHANGED vars
  PROVE  TypeInv'
<1>1. /\ UNCHANGED <<kind, written, wire, call, handed, history, head, total, together, cut>>
      /\ UNCHANGED <<body, inside>>
  BY DEF Close, ReadHeadFails, ReceiveFails, HandedOn, Quit, vars, streamVars, readerVars, outVars
<1>2. link' \in {"open", "closed", "reset"} /\ handing' \in BOOLEAN
  BY DEF Close, ReadHeadFails, ReceiveFails, HandedOn, Quit, vars, outVars, TypeInv
<1>3. phase' \in {"head", "data", "ended", "crashed"}
  BY DEF Close, ReadHeadFails, ReceiveFails, HandedOn, Quit, vars, readerVars, TypeInv
<1>4. (\A k \in 1..Len(written) : written[k] \in Sent(kind))'
  BY <1>1 DEF TypeInv, Sent
<1> QED
  BY <1>1, <1>2, <1>3, <1>4 DEF TypeInv

-----------------------------------------------------------------------------
(* Every step keeps the invariant. *)

\* The invariant at the start.
LEMMA InitInv == Init => StreamInv
<1> SUFFICES ASSUME Init PROVE StreamInv
  OBVIOUS
<1>1. TypeInv
  BY InitTypes
<1>2. /\ written = <<>> /\ wire = <<>> /\ call = <<>> /\ handed = <<>> /\ history = <<>>
      /\ phase = "head" /\ link = "open" /\ Len(written) = 0 /\ Len(wire) = 0 /\ Len(handed) = 0
      /\ Len(history) = 0
  BY DEF Init
<1>3. \A b \in Data : FALSE
  <2>1. \A k \in 1..Len(written) : FALSE
    BY <1>2
  <2> QED
    BY <1>1, <2>1, DataIs
<1>4. InOrder(<<>>) /\ ToSet(<<>>) = {}
  BY DEF InOrder, ToSet
<1>5. WireInv
  <2>1. \A j \in 1..Len(wire) : FALSE
    BY <1>2
  <2>2. \A j \in 1..Len(wire) - 1 : FALSE
    BY <1>2
  <2> QED
    BY <1>2, <1>3, <1>4, <2>1, <2>2 DEF WireInv
<1>6. Place[2] = 1 - HeadLen
  BY <1>1, <1>2, PlaceType, InByte, FrameFacts
<1>7. HandedInv
  <2>1. \A i \in 1..Len(handed) : FALSE
    BY <1>2
  <2> QED
    BY <1>2, <1>3, <1>4, <2>1 DEF HandedInv
<1>8. ReaderInv
  BY <1>2, <1>6, <1>7 DEF ReaderInv, Standing
<1>9. CrashInv
  BY <1>2 DEF CrashInv
<1>10. HistoryInv
  BY <1>2, <1>4 DEF HistoryInv
<1> QED
  BY <1>1, <1>5, <1>8, <1>9, <1>10 DEF StreamInv

\* Writing a frame keeps the invariant.
LEMMA WriteStep ==
  ASSUME StreamInv, WriteFrame
  PROVE  StreamInv'
<1>1. TypeInv /\ WireInv /\ ReaderInv /\ CrashInv /\ HistoryInv
  BY DEF StreamInv
<1>2. TypeInv'
  BY <1>1, WriteTypes
<1>3. /\ WireInv' /\ Place' = Place
      /\ Len(written') = Len(written) + 1
      /\ \A j \in 1..Len(written) : written'[j] = written[j]
      /\ Data \subseteq Data'
      /\ \A b \in Data' : Before(b, Place) => b \in Data
  BY <1>1, WireWritten
<1>4. UNCHANGED <<kind, link, phase, head, total, call, handed, history, together, cut>>
  BY DEF WriteFrame, readerVars, outVars
<1>5. Len(written) \in Nat /\ \A j \in 1..Len(written) : j \in 1..Len(written')
  BY <1>1, <1>3, FrameFacts
<1>6. HandedInv => HandedInv'
  <2>1. HandedInv => \A i \in 1..Len(handed) : handed[i] \in Data' /\ Before(handed[i], Place)
    BY <1>3 DEF HandedInv
  <2>2. HandedInv => \A b \in Data' : Before(b, Place) => \E i \in 1..Len(handed) : handed[i] = b
    BY <1>3 DEF HandedInv
  <2> QED
    BY <1>3, <1>4, <2>1, <2>2 DEF HandedInv
<1>7. Standing => Standing'
  <2> SUFFICES ASSUME Standing PROVE Standing'
    OBVIOUS
  <2>1. (phase = "head" => Place[2] = 1 - HeadLen)'
    BY <1>3, <1>4 DEF Standing
  <2>2. (phase = "ended" => link # "open")'
    BY <1>4 DEF Standing
  <2>3. (phase = "data" =>
           /\ head.frame \in 1..Len(written)
           /\ head.op = written[head.frame].op /\ head.len = written[head.frame].len
           /\ total < head.len
           /\ Place = <<head.frame, total + 1>>
           /\ head.op = "other" \/ (kind = "controller" /\ ~cut) => total = 0)'
    <3> SUFFICES ASSUME phase = "data"
                 PROVE  /\ head.frame \in 1..Len(written')
                        /\ head.op = written'[head.frame].op /\ head.len = written'[head.frame].len
                        /\ total < head.len
                        /\ Place = <<head.frame, total + 1>>
                        /\ head.op = "other" \/ (kind = "controller" /\ ~cut) => total = 0
      BY <1>3, <1>4
    <3>1. head.frame \in 1..Len(written)
      BY DEF Standing
    <3> QED
      BY <1>3, <1>5, <3>1 DEF Standing
  <2> QED
    BY <2>1, <2>2, <2>3 DEF Standing
<1>8. ReaderInv'
  BY <1>1, <1>4, <1>6, <1>7 DEF ReaderInv, Orderly
<1>9. CrashInv'
  BY <1>1, <1>4 DEF CrashInv
<1>10. HistoryInv'
  <2>1. Apart' => Apart
    <3> SUFFICES ASSUME Apart' PROVE Apart
      OBVIOUS
    <3>1. DOMAIN written = 1..Len(written) /\ DOMAIN written' = 1..Len(written')
      BY <1>1, <1>2, ElementAt, Zenon DEF TypeInv
    <3>2. \A k \in DOMAIN written : written[k].len < Buf
      BY <1>3, <1>5, <3>1 DEF Apart
    <3> QED
      BY <1>4, <3>2 DEF Apart
  <2> QED
    BY <1>1, <1>4, <2>1 DEF HistoryInv
<1> QED
  BY <1>2, <1>3, <1>8, <1>9, <1>10 DEF StreamInv

\* A frame that the loop is in has come, and in its place.
LEMMA InData ==
  ASSUME TypeInv, WireInv, ReaderInv, Orderly, phase = "data"
  PROVE  /\ call = <<>> /\ HandedInv
         /\ head.frame \in 1..Len(written) /\ head.frame \in Nat
         /\ head.op = written[head.frame].op /\ head.len = written[head.frame].len
         /\ head.len \in Nat /\ total \in Nat /\ total < head.len /\ head.len - total <= Len(wire)
         /\ total + 1 \in (1 - HeadLen)..written[head.frame].len
         /\ Place = <<head.frame, total + 1>> /\ wire # <<>>
         /\ \A m \in 1..(head.len - total) : wire[m] = <<head.frame, total + m>>
         /\ head.op = "other" \/ (kind = "controller" /\ ~cut) => total = 0
<1>1. /\ call = <<>> /\ HandedInv
      /\ head.frame \in 1..Len(written)
      /\ head.op = written[head.frame].op /\ head.len = written[head.frame].len
      /\ total < head.len
      /\ Place = <<head.frame, total + 1>>
      /\ head.op = "other" \/ (kind = "controller" /\ ~cut) => total = 0
  BY DEF ReaderInv, Standing
<1>2. head.len \in Nat /\ total \in Nat /\ head.frame \in Nat /\ HeadLen \in Nat \ {0}
  BY PlaceType DEF TypeInv
<1>3. total + 1 \in (1 - HeadLen)..written[head.frame].len
  <2>1. total + 1 <= head.len /\ 1 - HeadLen <= total + 1
    BY <1>1, <1>2
  <2>2. total + 1 \in (1 - HeadLen)..head.len
    BY <1>2, <2>1
  <2> QED
    BY <1>1, <2>2
<1>4. /\ wire # <<>> /\ head.len - (total + 1) + 1 <= Len(wire)
      /\ \A m \in 1..(head.len - (total + 1) + 1) : wire[m] = <<head.frame, (total + 1) + m - 1>>
  BY <1>1, <1>3, FrameAt
<1>5. head.len - (total + 1) + 1 = head.len - total
  BY <1>2
<1>6. ASSUME NEW m \in 1..(head.len - total)
      PROVE  wire[m] = <<head.frame, total + m>>
  <2>1. (total + 1) + m - 1 = total + m
    BY <1>2
  <2> QED
    BY <1>4, <1>5, <2>1
<1> QED
  BY <1>1, <1>2, <1>3, <1>4, <1>5, <1>6

\* How much of a frame is received in a step that keeps in step.
LEMMA HowMuch ==
  ASSUME TypeInv, WireInv, ReaderInv, Orderly', phase = "data",
         NEW asked \in Int, NEW n \in Int, Receive(n, asked),
         kind = "controller" => asked = head.len,
         kind = "terminal" => asked = Least(head.len - total, Buf)
  PROVE  /\ Orderly /\ n \in 1..(head.len - total)
         /\ kind \in {"controller", "terminal"} /\ ~cut' => n = Least(asked, head.len - total)
<1>1. /\ n \in Nat /\ n >= 1 /\ n <= asked /\ n <= Len(wire) /\ Take(n)
      /\ (cut => cut') /\ (together => together')
      /\ ~cut' => n >= Least(asked, head.len - total)
      /\ ~together' => Last(wire)[1] = wire[1][1]
  BY Received
<1>2. kind' = kind
  BY <1>1 DEF Take
<1>3. Orderly
  BY <1>1, <1>2, Later
<1>4. /\ head.frame \in 1..Len(written) /\ head.len = written[head.frame].len
      /\ head.len \in Nat /\ total \in Nat /\ total < head.len
      /\ total + 1 \in (1 - HeadLen)..written[head.frame].len
      /\ Place = <<head.frame, total + 1>>
      /\ kind = "controller" /\ ~cut => total = 0
  BY <1>3, InData
<1>5. CASE kind # "terminal" /\ ~together'
  <2>1. Len(wire) = head.len - (total + 1) + 1
    BY <1>1, <1>4, <1>5, Alone
  <2>2. n \in 1..(head.len - total)
    BY <1>1, <1>4, <2>1
  <2>3. kind = "controller" /\ ~cut' => n = Least(asked, head.len - total)
    BY <1>1, <1>4, <2>2 DEF Least
  <2> QED
    BY <1>3, <1>5, <2>2, <2>3
<1>6. CASE kind \in {"controller", "terminal"} /\ ~cut'
  <2>1. n >= Least(asked, head.len - total)
    BY <1>1, <1>6
  <2>2. kind = "controller" => asked = head.len /\ total = 0
    BY <1>1, <1>4, <1>6
  <2>3. asked <= head.len - total /\ Least(asked, head.len - total) = asked
    BY <1>4, <1>6, <2>2, StreamAssumption DEF Least
  <2>4. n = asked /\ n \in 1..(head.len - total)
    BY <1>1, <1>4, <2>1, <2>3
  <2> QED
    BY <1>3, <2>3, <2>4
<1> QED
  BY <1>2, <1>5, <1>6 DEF Orderly

\* Behind what was counted, the loop stands at the rest of the frame or at the next head.
LEMMA Counts ==
  ASSUME TypeInv, WireInv, ReaderInv, Orderly, phase = "data", head.op = "text",
         NEW n \in 1..(head.len - total), Take(n), Counted(n), call' = <<>>,
         handed' = handed \o Piece(n), cut => cut',
         kind = "controller" /\ ~cut' => n = head.len - total
  PROVE  ReaderInv'
<1>1. /\ HandedInv
      /\ head.frame \in 1..Len(written) /\ head.frame \in Nat
      /\ head.op = written[head.frame].op /\ head.len = written[head.frame].len
      /\ head.len \in Nat /\ total \in Nat /\ total < head.len /\ head.len - total <= Len(wire)
      /\ total + 1 \in (1 - HeadLen)..written[head.frame].len
      /\ Place = <<head.frame, total + 1>>
      /\ \A m \in 1..(head.len - total) : wire[m] = <<head.frame, total + m>>
      /\ head.op = "other" => total = 0
  BY InData
<1>2. n \in Nat /\ n >= 1 /\ n <= head.len - total /\ Len(wire) \in Nat /\ n \in 0..Len(wire)
  <2>1. head.len \in Nat /\ total \in Nat /\ head.len - total <= Len(wire)
    BY <1>1
  <2>2. Len(wire) \in Nat
    BY PlaceType
  <2> QED
    BY <2>1, <2>2
<1>3. /\ UNCHANGED <<kind, written, link, head>> /\ total' = total + n
      /\ phase' = IF total + n >= head.len THEN "head" ELSE "data"
  BY DEF Take, Counted
<1>4. HandedInv'
  <2>1. ASSUME NEW j \in 1..n PROVE wire[j][2] > 0
    <3>1. j \in 1..(head.len - total) /\ j \in Nat /\ total + j > 0 /\ total + j \in Int
      BY <1>1, <1>2
    <3> QED
      BY <1>1, <3>1, InByte
  <2> QED
    BY <1>1, <1>2, <2>1, HandOn
<1>5. /\ n = head.len - (total + 1) + 1 => Place' = <<head.frame + 1, 1 - HeadLen>>
      /\ n < head.len - (total + 1) + 1 => Place' = <<head.frame, (total + 1) + n>>
  <2>1. n \in 1..(written[head.frame].len - (total + 1) + 1)
    BY <1>1, <1>2
  <2> QED
    BY <1>1, <2>1, FrameTaken
<1>6. CASE total + n >= head.len
  <2>1. n = head.len - (total + 1) + 1
    <3>1. head.len \in Nat /\ total \in Nat /\ n \in Nat /\ n <= head.len - total
      BY <1>1, <1>2
    <3> QED
      BY <1>6, <3>1
  <2>2. phase' = "head"
    BY <1>3, <1>6
  <2>3. Place'[2] = 1 - HeadLen
    <3>1. head.frame + 1 \in Nat /\ 1 - HeadLen \in Int
      BY <1>1, StreamAssumption
    <3> QED
      BY <1>5, <2>1, <3>1, InByte
  <2>4. Standing'
    BY <2>2, <2>3 DEF Standing
  <2> QED
    BY <1>4, <2>4 DEF ReaderInv
<1>7. CASE ~(total + n >= head.len)
  <2>1. n < head.len - (total + 1) + 1 /\ total + n < head.len /\ n # head.len - total
        /\ (total + 1) + n = (total + n) + 1
    BY <1>1, <1>2, <1>7
  <2>2. phase' = "data"
    BY <1>3, <1>7
  <2>3. head.op = "other" \/ (kind = "controller" /\ ~cut') => FALSE
    <3>1. kind = "controller" /\ ~cut' => FALSE
      BY <2>1
    <3> QED
      BY <3>1
  <2>4. Standing'
    BY <1>1, <1>3, <1>5, <2>1, <2>2, <2>3 DEF Standing
  <2> QED
    BY <1>4, <2>4 DEF ReaderInv
<1> QED
  BY <1>6, <1>7

\* A loop that keeps in step finds a head, and goes on with its data or the next head.
LEMMA ReadHeadReader ==
  ASSUME TypeInv, WireInv, ReaderInv, Orderly', ReadHead
  PROVE  ReaderInv'
<1> DEFINE k == wire[1][1]
           h == [frame |-> k, op |-> written[k].op, len |-> written[k].len]
<1>1. /\ phase = "head" /\ Len(wire) >= HeadLen /\ Take(HeadLen) /\ UNCHANGED <<together, cut>>
      /\ \/ Piece(HeadLen) = HeadOf(k) /\ Begin(h)
         \/ Piece(HeadLen) # HeadOf(k)
  BY DEF ReadHead
<1>2. /\ Len(wire) \in Nat /\ HeadLen \in Nat \ {0} /\ HeadLen \in 0..Len(wire) /\ wire # <<>>
      /\ 1 \in 1..Len(wire) /\ wire[1] \in Byte /\ Place = wire[1]
  BY <1>1, PlaceType
<1>3. UNCHANGED <<kind, written, link>>
  BY <1>1 DEF Take
<1>4. Orderly /\ call = <<>> /\ HandedInv /\ Place[2] = 1 - HeadLen
  <2>1. Orderly
    BY <1>1, <1>3, Later
  <2> QED
    BY <1>1, <2>1 DEF ReaderInv, Standing
<1>5. /\ k \in 1..Len(written) /\ k \in Nat /\ Place = <<k, 1 - HeadLen>>
      /\ written[k].len \in Nat /\ written[k].op \in {"text", "other"}
      /\ written[k].op = "other" => kind \in {"server", "client"}
      /\ written[k].op = "other" /\ kind = "server" => written[k].len = 0
  <2>1. Written(wire[1])
    BY <1>2 DEF WireInv
  <2>2. k \in 1..Len(written) /\ k \in Nat /\ wire[1] = <<k, wire[1][2]>>
    BY <1>2, <2>1, Pairs DEF Written
  <2> HIDE DEF k
  <2> QED
    BY <1>2, <1>4, <2>2, FrameFacts
<1> HIDE DEF k
<1>6. 1 - HeadLen \in (1 - HeadLen)..written[k].len
  BY <1>2, <1>5
<1>7. written[k].len - (1 - HeadLen) + 1 = written[k].len + HeadLen
  BY <1>2, <1>5
<1>8. \A m \in 1..HeadLen : wire[m] = <<k, m - HeadLen>>
  <2> SUFFICES ASSUME NEW m \in 1..HeadLen PROVE wire[m] = <<k, m - HeadLen>>
    OBVIOUS
  <2>1. \A j \in 1..(written[k].len - (1 - HeadLen) + 1) : wire[j] = <<k, (1 - HeadLen) + j - 1>>
    BY <1>5, <1>6, FrameAt
  <2>2. m \in 1..(written[k].len - (1 - HeadLen) + 1) /\ (1 - HeadLen) + m - 1 = m - HeadLen
    BY <1>2, <1>5
  <2> QED
    BY <2>1, <2>2
<1>9. Piece(HeadLen) = HeadOf(k)
  <2>1. /\ Piece(HeadLen) \in Seq(Byte) /\ Len(Piece(HeadLen)) = HeadLen
        /\ \A m \in 1..HeadLen : Piece(HeadLen)[m] = <<k, m - HeadLen>>
    BY <1>1, <1>2, <1>8, TakeFacts
  <2>2. HeadOf(k) = [m \in 1..HeadLen |-> <<k, m - HeadLen>>]
    BY DEF HeadOf
  <2> DEFINE t == Piece(HeadLen)
  <2>3. t \in Seq(Byte) /\ Len(t) = HeadLen /\ \A m \in 1..HeadLen : t[m] = <<k, m - HeadLen>>
    BY <2>1
  <2> HIDE DEF t
  <2>4. t = [m \in 1..HeadLen |-> <<k, m - HeadLen>>]
    <3>1. t = [m \in 1..Len(t) |-> t[m]]
      BY <2>3
    <3> QED
      BY <2>3, <3>1
  <2> QED
    BY <2>2, <2>4 DEF t
<1>10. Begin(h)
  BY <1>1, <1>9
<1>11. h.frame = k /\ h.op = written[k].op /\ h.len = written[k].len
  OBVIOUS
<1> HIDE DEF h
<1>12. /\ head' = h /\ total' = 0 /\ call' = call /\ handed' = handed
       /\ phase' = IF h.len = 0 \/ (h.op = "other" /\ kind = "server") THEN "head" ELSE "data"
  <2>1. ~(h.op = "other" /\ kind \in {"controller", "terminal"})
    BY <1>5, <1>11
  <2> QED
    BY <1>10, <2>1 DEF Begin, outVars
<1>13. HandedInv'
  <2>1. \A m \in 1..HeadLen : wire[m][2] <= 0
    <3> SUFFICES ASSUME NEW m \in 1..HeadLen PROVE wire[m][2] <= 0
      OBVIOUS
    <3>1. m - HeadLen \in Int /\ m - HeadLen <= 0
      BY <1>2
    <3> QED
      BY <1>5, <1>8, <3>1, InByte
  <2> QED
    BY <1>1, <1>2, <1>4, <1>12, <2>1, Skip
<1>14. /\ written[k].len = 0 => Place' = <<k + 1, 1 - HeadLen>>
       /\ written[k].len > 0 => Place' = <<k, 1>>
  <2>1. HeadLen \in 1..(written[k].len - (1 - HeadLen) + 1) /\ (1 - HeadLen) + HeadLen = 1
    BY <1>2, <1>5
  <2>2. /\ HeadLen = written[k].len - (1 - HeadLen) + 1 => Place' = <<k + 1, 1 - HeadLen>>
        /\ HeadLen < written[k].len - (1 - HeadLen) + 1 => Place' = <<k, (1 - HeadLen) + HeadLen>>
    BY <1>1, <1>5, <1>6, <2>1, FrameTaken
  <2>3. /\ written[k].len = 0 => HeadLen = written[k].len - (1 - HeadLen) + 1
        /\ written[k].len > 0 => HeadLen < written[k].len - (1 - HeadLen) + 1
    BY <1>2, <1>5
  <2> QED
    BY <2>1, <2>2, <2>3
<1>15. Standing'
  <2>1. CASE written[k].len = 0
    <3>1. phase' = "head"
      BY <1>11, <1>12, <2>1
    <3>2. k + 1 \in Nat /\ 1 - HeadLen \in Int
      BY <1>2, <1>5
    <3>3. Place'[2] = 1 - HeadLen
      BY <1>14, <2>1, <3>2, InByte
    <3> QED
      BY <3>1, <3>3 DEF Standing
  <2>2. CASE written[k].len > 0
    <3>1. phase' = "data"
      BY <1>5, <1>11, <1>12, <2>2
    <3>2. Place' = <<head'.frame, total' + 1>> /\ total' < head'.len
      BY <1>11, <1>12, <1>14, <2>2
    <3>3. /\ head'.frame \in 1..Len(written)
          /\ head'.op = written[head'.frame].op /\ head'.len = written[head'.frame].len
      BY <1>5, <1>11, <1>12
    <3> QED
      BY <1>3, <1>12, <3>1, <3>2, <3>3 DEF Standing
  <2> QED
    BY <1>5, <2>1, <2>2
<1> QED
  BY <1>4, <1>12, <1>13, <1>15 DEF ReaderInv

\* Reading a head keeps the invariant.
LEMMA ReadHeadStep ==
  ASSUME StreamInv, ReadHead
  PROVE  StreamInv'
<1>1. TypeInv /\ WireInv /\ ReaderInv /\ CrashInv /\ HistoryInv
  BY DEF StreamInv
<1>2. /\ phase = "head" /\ Take(HeadLen) /\ UNCHANGED <<together, cut>>
      /\ HeadLen \in 0..Len(wire)
  <2>1. Len(wire) >= HeadLen /\ Len(wire) \in Nat /\ HeadLen \in Nat
    BY <1>1, PlaceType DEF ReadHead
  <2> QED
    BY <2>1 DEF ReadHead
<1>3. UNCHANGED <<kind, written, link>>
  BY <1>2 DEF Take
<1>4. TypeInv' /\ WireInv'
  <2>1. Among(wire, Len(written))
    BY <1>1 DEF WireInv, Written, Among
  <2> QED
    BY <1>1, <1>2, <2>1, ReadHeadTypes, WireTaken
<1>5. ReaderInv'
  <2>1. Orderly' => ReaderInv'
    BY <1>1, ReadHeadReader
  <2> QED
    BY <2>1 DEF ReaderInv
<1> DEFINE Goes == /\ phase' # "crashed" /\ handed' = handed /\ history' = history
                   /\ phase' = "data" => total' = 0
<1>6. \A h : Begin(h) => Goes
  BY DEF Begin, Quit, outVars
<1>7. Goes
  <2>1. CASE Quit
    BY <2>1 DEF Quit, outVars
  <2>2. CASE ~Quit
    <3>1. \E h : Begin(h)
      BY <2>2 DEF ReadHead
    <3> HIDE DEF Goes
    <3> QED
      BY <1>6, <3>1
  <2> QED
    BY <2>1, <2>2
<1>8. CrashInv'
  BY <1>7 DEF CrashInv
<1>9. HistoryInv'
  <2>1. Apart' => Apart
    BY <1>2, <1>3 DEF Apart
  <2> QED
    BY <1>1, <1>7, <2>1 DEF HistoryInv
<1> QED
  BY <1>4, <1>5, <1>8, <1>9 DEF StreamInv

\* The wire stays as it is when nothing is taken and nothing written.
LEMMA WireStays ==
  ASSUME WireInv, UNCHANGED <<written, wire>>
  PROVE  WireInv' /\ Place' = Place /\ Data' = Data
<1>1. Place' = Place /\ Data' = Data
  BY DEF Place, Data
<1>2. WireInv'
  BY <1>1 DEF WireInv, Written
<1> QED
  BY <1>1, <1>2

\* The steps that take nothing, in which recv fails or the connection ends.
LEMMA RestStep ==
  ASSUME StreamInv, Close \/ ReadHeadFails \/ ReceiveFails \/ HandedOn \/ UNCHANGED vars
  PROVE  StreamInv'
<1>1. TypeInv /\ WireInv /\ ReaderInv /\ CrashInv /\ HistoryInv
  BY DEF StreamInv
<1>2. UNCHANGED <<kind, written, wire, call, handed, history, head, total, together, cut>>
  BY DEF Close, ReadHeadFails, ReceiveFails, HandedOn, Quit, vars, streamVars, readerVars, outVars
<1>3. TypeInv' /\ WireInv' /\ Place' = Place /\ Data' = Data
  BY <1>1, <1>2, RestTypes, WireStays
<1>4. HandedInv => HandedInv'
  BY <1>2, <1>3 DEF HandedInv
<1>5. (Orderly' <=> Orderly) /\ (Apart' <=> Apart)
  BY <1>2 DEF Orderly, Apart
<1>6. Apart => Orderly
  BY DEF Apart, Orderly
<1>7. ReceiveFails => ~Orderly
  <2> SUFFICES ASSUME ReceiveFails, Orderly PROVE FALSE
    OBVIOUS
  <2>1. phase = "data"
    BY DEF ReceiveFails, Starved
  <2>2. /\ head.len \in Nat /\ total \in Nat /\ head.len - total <= Len(wire) /\ wire # <<>>
        /\ head.op = "other" => total = 0
    BY <1>1, <2>1, InData
  <2>3. head.op = "other" => Len(wire) < head.len
    BY DEF ReceiveFails, Starved
  <2>4. head.op # "other" => wire = <<>>
    BY DEF ReceiveFails, Starved
  <2>5. Len(wire) \in Nat
    BY <1>1, PlaceType
  <2> QED
    BY <2>2, <2>3, <2>4, <2>5
<1>8. CASE Close
  <2>1. phase' = phase /\ link' # "open"
    BY <1>8 DEF Close, readerVars
  <2>2. Standing => Standing'
    BY <1>2, <1>3, <2>1 DEF Standing
  <2>3. ReaderInv'
    BY <1>1, <1>2, <1>4, <1>5, <2>1, <2>2 DEF ReaderInv
  <2>4. CrashInv'
    BY <2>1 DEF CrashInv
  <2>5. HistoryInv'
    BY <1>1, <1>2, <1>5, <2>1 DEF HistoryInv
  <2> QED
    BY <1>3, <2>3, <2>4, <2>5 DEF StreamInv
<1>9. CASE HandedOn \/ UNCHANGED vars
  <2>1. phase' = phase /\ link' = link
    BY <1>9 DEF HandedOn, vars, readerVars
  <2>2. Standing => Standing'
    BY <1>2, <1>3, <2>1 DEF Standing
  <2>3. ReaderInv'
    BY <1>1, <1>2, <1>4, <1>5, <2>1, <2>2 DEF ReaderInv
  <2>4. CrashInv'
    BY <1>1, <1>2, <2>1 DEF CrashInv
  <2>5. HistoryInv'
    BY <1>1, <1>2, <1>5, <2>1 DEF HistoryInv
  <2> QED
    BY <1>3, <2>3, <2>4, <2>5 DEF StreamInv
<1>10. CASE ReadHeadFails
  <2>1. phase = "head" /\ phase' = "ended" /\ link' = link /\ link # "open"
    BY <1>10 DEF ReadHeadFails, Quit
  <2>2. Standing'
    BY <2>1 DEF Standing
  <2>3. ReaderInv'
    BY <1>1, <1>2, <1>4, <1>5, <2>1, <2>2 DEF ReaderInv
  <2>4. CrashInv'
    BY <2>1 DEF CrashInv
  <2>5. HistoryInv'
    BY <1>1, <1>2, <1>5, <2>1 DEF HistoryInv
  <2> QED
    BY <1>3, <2>3, <2>4, <2>5 DEF StreamInv
<1>11. CASE ReceiveFails
  <2>1. ~Orderly' /\ ~Apart'
    BY <1>5, <1>6, <1>7, <1>11
  <2>2. link' = "closed"
    BY <1>11 DEF ReceiveFails
  <2>3. ReaderInv' /\ CrashInv' /\ HistoryInv'
    BY <2>1, <2>2 DEF ReaderInv, CrashInv, HistoryInv
  <2> QED
    BY <1>3, <2>3 DEF StreamInv
<1> QED
  BY <1>8, <1>9, <1>10, <1>11

\* A loop for plain frames counts and hands on what it has received, drops the
\* connection when that is more than the frame, or crashes.
LEMMA PlainReader ==
  ASSUME TypeInv, WireInv, ReaderInv, phase = "data", head.op = "text", kind # "terminal",
         NEW asked \in Int, NEW n \in Int, Receive(n, asked),
         kind = "controller" => asked = head.len,
         \/ n > head.len
         \/ phase' = "crashed"
         \/ Counted(n) /\ handed' = handed \o Piece(n) /\ UNCHANGED call
  PROVE  ReaderInv'
<1> SUFFICES ASSUME Orderly', phase' # "crashed" PROVE ReaderInv'
  BY DEF ReaderInv
<1>1. /\ Orderly /\ n \in 1..(head.len - total)
      /\ kind \in {"controller", "terminal"} /\ ~cut' => n = Least(asked, head.len - total)
  BY HowMuch
<1>2. Take(n) /\ (cut => cut')
  BY Received
<1>3. /\ call = <<>> /\ head.len \in Nat /\ total \in Nat
      /\ kind = "controller" /\ ~cut => total = 0
  BY <1>1, InData
<1>4. ~(n > head.len)
  BY <1>1, <1>3
<1>5. Counted(n) /\ handed' = handed \o Piece(n) /\ call' = <<>>
  BY <1>3, <1>4
<1>6. kind = "controller" /\ ~cut' => n = head.len - total
  BY <1>1, <1>2, <1>3 DEF Least
<1> QED
  BY <1>1, <1>2, <1>5, <1>6, Counts

\* When frames come apart, a frame comes in one piece, and all but its T goes into
\* the history.
LEMMA ServerHistory ==
  ASSUME StreamInv, InText("server"), NEW n \in Int, Receive(n, Buf - 1), TypeInv',
         Counted(n), handed' = handed \o Piece(n),
         history' = history \o (IF IsT(wire[1]) THEN Tail(Piece(n)) ELSE <<>>)
  PROVE  HistoryInv'
<1> SUFFICES ASSUME Apart'
             PROVE  /\ phase' = "data" => total' = 0
                    /\ ToSet(history') = {b \in ToSet(handed') : b[2] > 1}
                    /\ InOrder(history')
  BY DEF HistoryInv
<1>1. TypeInv /\ WireInv /\ ReaderInv /\ HistoryInv
  BY DEF StreamInv
<1>2. phase = "data" /\ head.op = "text" /\ kind = "server"
  BY DEF InText
<1>3. Buf - 1 \in Int /\ Buf \in Nat
  BY StreamAssumption
<1>4. /\ n \in Nat /\ n >= 1 /\ n <= Len(wire) /\ n \in 0..Len(wire) /\ Take(n)
      /\ (cut => cut') /\ (together => together')
      /\ ~cut' => n >= Least(Buf - 1, head.len - total)
  BY <1>1, <1>3, Received
<1>5. UNCHANGED <<kind, written, link>>
  BY <1>4 DEF Take
<1>6. Apart /\ ~cut' /\ Orderly'
  BY <1>4, <1>5 DEF Apart, Orderly
<1>7. Orderly /\ n \in 1..(head.len - total)
  BY <1>1, <1>2, <1>3, <1>6, HowMuch
<1>8. /\ head.frame \in 1..Len(written) /\ head.frame \in Nat
      /\ head.op = written[head.frame].op /\ head.len = written[head.frame].len
      /\ head.len \in Nat /\ Place = <<head.frame, total + 1>> /\ wire # <<>>
      /\ HandedInv
      /\ \A m \in 1..(head.len - total) : wire[m] = <<head.frame, total + m>>
  BY <1>1, <1>2, <1>7, InData
<1>9. /\ total = 0 /\ InOrder(history)
      /\ ToSet(history) = {b \in ToSet(handed) : b[2] > 1}
  BY <1>1, <1>2, <1>6 DEF HistoryInv
<1>10. head.len < Buf
  <2>1. DOMAIN written = 1..Len(written)
    BY <1>1, ElementAt, Zenon DEF TypeInv
  <2> QED
    BY <1>6, <1>8, <2>1 DEF Apart
<1>11. n = head.len
  <2>1. head.len - total = head.len
    BY <1>8, <1>9
  <2>2. n >= Least(Buf - 1, head.len)
    BY <1>4, <1>6, <2>1
  <2>3. Least(Buf - 1, head.len) = head.len
    BY <1>3, <1>8, <1>10 DEF Least
  <2> QED
    BY <1>4, <1>7, <1>8, <2>1, <2>2, <2>3
<1>12. \A m \in 1..n : wire[m] = <<head.frame, m>>
  <2> SUFFICES ASSUME NEW m \in 1..n PROVE wire[m] = <<head.frame, m>>
    OBVIOUS
  <2>1. m \in 1..(head.len - total) /\ total + m = m
    BY <1>8, <1>9, <1>11
  <2> QED
    BY <1>8, <2>1
<1>13. phase' = "head"
  BY <1>8, <1>9, <1>11 DEF Counted
<1>14. IsT(wire[1])
  <2>1. 1 \in 1..n
    BY <1>4
  <2>2. wire[1] = <<head.frame, 1>>
    BY <1>12, <2>1
  <2> QED
    BY <1>2, <1>8, <2>2 DEF IsT
<1> DEFINE t == Tail(Piece(n))
           p == Piece(n)
           a == Len(history)
<1>15. history' = history \o t /\ handed' = handed \o p
  BY <1>14
<1>16. p \in Seq(Byte) /\ Len(p) = n /\ \A m \in 1..n : p[m] = wire[m]
  BY <1>1, <1>4, TakeFacts
<1>17. t \in Seq(Byte) /\ Len(t) = n - 1 /\ \A m \in 1..(n - 1) : t[m] = wire[m + 1]
  <2> HIDE DEF p
  <2>1. p # <<>>
    BY <1>4, <1>16, Empty
  <2>2. Tail(p) \in Seq(Byte) /\ Len(Tail(p)) = n - 1 /\ \A m \in 1..(n - 1) : Tail(p)[m] = p[m + 1]
    BY <1>16, <2>1, Parts
  <2>3. \A m \in 1..(n - 1) : m + 1 \in 1..n
    BY <1>4
  <2>4. \A m \in 1..(n - 1) : Tail(p)[m] = wire[m + 1]
    BY <1>16, <2>2, <2>3
  <2> QED
    BY <2>2, <2>4 DEF p
<1> HIDE DEF t, p, a
<1>18. /\ history \in Seq(Byte) /\ handed \in Seq(Byte) /\ a \in Nat
       /\ history' \in Seq(Byte) /\ handed' \in Seq(Byte) /\ Len(handed) \in Nat
       /\ \A i \in 1..Len(handed) : handed[i] \in Byte
       /\ \A i \in 1..a : history[i] \in Byte
  BY <1>1, ElementAt DEF TypeInv, a
<1>19. /\ Len(history') = a + (n - 1)
       /\ \A i \in 1..a : history'[i] = history[i]
       /\ \A m \in 1..(n - 1) : history'[a + m] = wire[m + 1]
  <2>a. history \in Seq(Byte) /\ t \in Seq(Byte)
    BY <1>17, <1>18
  <2>1. /\ Len(history \o t) = a + Len(t)
        /\ \A i \in 1..a : (history \o t)[i] = history[i]
        /\ \A m \in 1..Len(t) : (history \o t)[a + m] = t[m]
    BY <2>a, ConcatAt DEF a
  <2> QED
    BY <1>15, <1>17, <2>1
<1>20. /\ Len(handed') = Len(handed) + n
       /\ \A i \in 1..Len(handed) : handed'[i] = handed[i]
       /\ \A m \in 1..n : handed'[Len(handed) + m] = wire[m]
  <2>a. handed \in Seq(Byte) /\ p \in Seq(Byte)
    BY <1>16, <1>18
  <2>1. /\ Len(handed \o p) = Len(handed) + Len(p)
        /\ \A i \in 1..Len(handed) : (handed \o p)[i] = handed[i]
        /\ \A m \in 1..Len(p) : (handed \o p)[Len(handed) + m] = p[m]
    BY <2>a, ConcatAt
  <2> QED
    BY <1>15, <1>16, <2>1
<1>21. /\ \A i \in 1..(a + (n - 1)) : i \in 1..a \/ \E m \in 1..(n - 1) : i = a + m
       /\ \A m \in 1..(n - 1) : a + m \in 1..(a + (n - 1)) /\ m + 1 \in 1..n /\ m + 1 > 1
       /\ \A i \in 1..a : i \in 1..(a + (n - 1))
       /\ \A m \in 1..n : m > 1 => m - 1 \in 1..(n - 1) /\ (m - 1) + 1 = m
  <2>1. ASSUME NEW i \in 1..(a + (n - 1)), ~(i \in 1..a) PROVE \E m \in 1..(n - 1) : i = a + m
    <3>1. i - a \in 1..(n - 1) /\ i = a + (i - a)
      BY <1>4, <1>18, <2>1
    <3> QED
      BY <3>1
  <2>2. /\ \A m \in 1..(n - 1) : a + m \in 1..(a + (n - 1)) /\ m + 1 \in 1..n /\ m + 1 > 1
        /\ \A i \in 1..a : i \in 1..(a + (n - 1))
        /\ \A m \in 1..n : m > 1 => m - 1 \in 1..(n - 1) /\ (m - 1) + 1 = m
    BY <1>4, <1>18
  <2> QED
    BY <2>1, <2>2
<1>22. /\ \A i \in 1..(Len(handed) + n) :
            i \in 1..Len(handed) \/ \E m \in 1..n : i = Len(handed) + m
       /\ \A m \in 1..n : Len(handed) + m \in 1..(Len(handed) + n)
       /\ \A i \in 1..Len(handed) : i \in 1..(Len(handed) + n)
  <2>1. ASSUME NEW i \in 1..(Len(handed) + n), ~(i \in 1..Len(handed))
        PROVE  \E m \in 1..n : i = Len(handed) + m
    <3>1. i - Len(handed) \in 1..n /\ i = Len(handed) + (i - Len(handed))
      BY <1>4, <1>18, <2>1
    <3> QED
      BY <3>1
  <2>2. /\ \A m \in 1..n : Len(handed) + m \in 1..(Len(handed) + n)
        /\ \A i \in 1..Len(handed) : i \in 1..(Len(handed) + n)
    BY <1>4, <1>18
  <2> QED
    BY <2>1, <2>2
<1>23. \A i \in 1..a : history[i] \in ToSet(handed) /\ history[i][2] > 1
  BY <1>9, <1>18, OrderOf DEF a
<1>24. \A m \in 1..n : wire[m][2] = m /\ wire[m][1] = head.frame
  BY <1>4, <1>8, <1>12, InByte
<1>25. ToSet(history') = {b \in ToSet(handed') : b[2] > 1}
  <2>1. ASSUME NEW b \in ToSet(history') PROVE b \in ToSet(handed') /\ b[2] > 1
    <3>a. \E i \in 1..Len(history') : history'[i] = b
      BY <1>18, OrderOf
    <3>1. PICK i \in 1..(a + (n - 1)) : history'[i] = b
      BY <1>19, <3>a
    <3>2. CASE i \in 1..a
      <4>1. history[i] \in ToSet(handed) /\ history[i][2] > 1 /\ b = history[i]
        BY <1>19, <1>23, <3>1, <3>2
      <4>2. PICK j \in 1..Len(handed) : handed[j] = history[i]
        BY <1>18, <4>1, OrderOf
      <4>3. j \in 1..Len(handed') /\ handed'[j] = b
        BY <1>20, <1>22, <4>1, <4>2
      <4> QED
        BY <1>18, <4>1, <4>3, OrderOf
    <3>3. ASSUME NEW m \in 1..(n - 1), i = a + m PROVE b \in ToSet(handed') /\ b[2] > 1
      <4>1. b = wire[m + 1] /\ m + 1 \in 1..n /\ m + 1 > 1
        BY <1>19, <1>21, <3>1, <3>3
      <4>2. handed'[Len(handed) + (m + 1)] = b /\ Len(handed) + (m + 1) \in 1..Len(handed')
        BY <1>20, <1>22, <4>1
      <4>3. b[2] > 1
        BY <1>24, <4>1
      <4> QED
        BY <1>18, <4>2, <4>3, OrderOf
    <3> QED
      BY <1>21, <3>2, <3>3
  <2>2. ASSUME NEW b \in ToSet(handed'), b[2] > 1 PROVE b \in ToSet(history')
    <3>a. \E i \in 1..Len(handed') : handed'[i] = b
      BY <1>18, OrderOf
    <3>1. PICK i \in 1..(Len(handed) + n) : handed'[i] = b
      BY <1>20, <3>a
    <3>2. CASE i \in 1..Len(handed)
      <4>1. b = handed[i] /\ b \in ToSet(handed)
        BY <1>18, <1>20, <3>1, <3>2, OrderOf
      <4>2. b \in ToSet(history)
        BY <1>9, <2>2, <4>1
      <4>3. PICK j \in 1..a : history[j] = b
        BY <1>18, <4>2, OrderOf DEF a
      <4>4. j \in 1..Len(history') /\ history'[j] = b
        BY <1>19, <1>21, <4>3
      <4> QED
        BY <1>18, <4>4, OrderOf
    <3>3. ASSUME NEW m \in 1..n, i = Len(handed) + m PROVE b \in ToSet(history')
      <4>1. b = wire[m]
        BY <1>20, <3>1, <3>3
      <4>2. m > 1
        BY <1>24, <2>2, <4>1
      <4>3. m - 1 \in 1..(n - 1) /\ (m - 1) + 1 = m
        BY <1>21, <4>2
      <4>4. history'[a + (m - 1)] = b /\ a + (m - 1) \in 1..Len(history')
        BY <1>19, <1>21, <4>1, <4>3
      <4> QED
        BY <1>18, <4>4, OrderOf
    <3> QED
      BY <1>22, <3>2, <3>3
  <2> QED
    BY <2>1, <2>2
<1>26. InOrder(history')
  <2>1. \A i, j \in 1..a : i < j => Before(history[i], history[j])
    BY <1>9, <1>18, OrderOf DEF a
  <2>2. ASSUME NEW i \in 1..a, NEW m \in 1..n PROVE Before(history[i], wire[m])
    <3>1. PICK j \in 1..Len(handed) : handed[j] = history[i]
      BY <1>18, <1>23, OrderOf
    <3>2. Before(history[i], Place) /\ history[i] \in Byte
      BY <1>8, <1>18, <3>1 DEF HandedInv
    <3>3. Place = wire[1] /\ 1 \in 1..n /\ m \in 1..Len(wire) /\ 1 \in 1..Len(wire)
      BY <1>1, <1>4, <1>8, PlaceType
    <3>4. m = 1 \/ Before(wire[1], wire[m])
      <4>1. m = 1 \/ 1 < m
        BY <3>3
      <4> QED
        BY <1>1, <3>3, <4>1, OrderOf DEF WireInv, TypeInv
    <3>5. wire[1] \in Byte /\ wire[m] \in Byte
      BY <1>1, <3>3, PlaceType
    <3> QED
      BY <3>2, <3>3, <3>4, <3>5, BeforeFacts
  <2>3. ASSUME NEW i \in 1..n, NEW j \in 1..n, i < j PROVE Before(wire[i], wire[j])
    BY <1>24, <2>3 DEF Before
  <2>4. ASSUME NEW i \in 1..(a + (n - 1)), NEW j \in 1..(a + (n - 1)), i < j
        PROVE  Before(history'[i], history'[j])
    <3>1. CASE i \in 1..a /\ j \in 1..a
      BY <1>19, <2>1, <2>4, <3>1
    <3>2. ASSUME i \in 1..a, NEW m \in 1..(n - 1), j = a + m
          PROVE  Before(history'[i], history'[j])
      BY <1>19, <1>21, <2>2, <3>2
    <3>3. ASSUME NEW l \in 1..(n - 1), i = a + l, NEW m \in 1..(n - 1), j = a + m
          PROVE  Before(history'[i], history'[j])
      <4>1. l + 1 < m + 1 /\ l + 1 \in 1..n /\ m + 1 \in 1..n
        BY <1>4, <1>18, <1>21, <2>4, <3>3
      <4> QED
        BY <1>19, <2>3, <3>3, <4>1
    <3>4. ASSUME NEW l \in 1..(n - 1), i = a + l, j \in 1..a PROVE FALSE
      BY <1>4, <1>18, <2>4, <3>4
    <3> QED
      BY <1>21, <3>1, <3>2, <3>3, <3>4
  <2> QED
    BY <1>18, <1>19, <2>4, OrderOf
<1> QED
  BY <1>13, <1>25, <1>26

\* A recv of server_read keeps the invariant.
LEMMA ServerStep ==
  ASSUME StreamInv, ServerReceive
  PROVE  StreamInv'
<1>1. TypeInv /\ WireInv /\ ReaderInv /\ CrashInv /\ HistoryInv
  BY DEF StreamInv
<1>2. InText("server") /\ phase = "data" /\ head.op = "text" /\ kind = "server"
  BY DEF ServerReceive, InText
<1>3. PICK n \in 1..(Buf - 1) :
        /\ Receive(n, Buf - 1)
        /\ \/ n > head.len /\ Quit
           \/ /\ n <= head.len
              /\ Counted(n)
              /\ handed' = handed \o Piece(n)
              /\ history' = history \o (IF IsT(wire[1]) THEN Tail(Piece(n)) ELSE <<>>)
              /\ UNCHANGED <<call, handing>>
  BY DEF ServerReceive
<1>4. n \in Int /\ Buf - 1 \in Int
  BY StreamAssumption
<1>5. /\ n \in 0..Len(wire) /\ Take(n) /\ (cut => cut') /\ (together => together')
      /\ n \in Nat
  BY <1>1, <1>3, <1>4, Received
<1>6. UNCHANGED <<kind, written, link>>
  BY <1>5 DEF Take
<1>7. TypeInv'
  <2>1. CASE n > head.len /\ Quit
    BY <1>1, <1>3, <1>4, <2>1, PlainTypes
  <2>2. CASE /\ Counted(n)
             /\ handed' = handed \o Piece(n)
             /\ history' = history \o (IF IsT(wire[1]) THEN Tail(Piece(n)) ELSE <<>>)
             /\ UNCHANGED <<call, handing>>
    <3>1. /\ history' = history \o Tail(Piece(n)) \/ history' = history \o <<>>
          /\ handing' \in BOOLEAN
      BY <1>1, <2>2 DEF TypeInv
    <3> QED
      BY <1>1, <1>3, <1>4, <2>2, <3>1, PlainTypes
  <2> QED
    BY <1>3, <2>1, <2>2
<1>8. WireInv'
  BY <1>1, <1>5, WireTaken
<1>9. ReaderInv'
  <2>1. n > head.len \/ (Counted(n) /\ handed' = handed \o Piece(n) /\ UNCHANGED call)
    BY <1>3
  <2>2. kind # "terminal" /\ kind # "controller"
    BY <1>2
  <2> QED
    BY <1>1, <1>2, <1>3, <1>4, <2>1, <2>2, PlainReader
<1>10. CrashInv'
  <2>1. phase' # "crashed"
    BY <1>3 DEF Quit, Counted
  <2> QED
    BY <2>1 DEF CrashInv
<1>11. HistoryInv'
  <2>1. CASE n > head.len /\ Quit
    <3>1. phase' = "ended" /\ handed' = handed /\ history' = history
      BY <2>1 DEF Quit, outVars
    <3>2. Apart' => Apart
      BY <1>5, <1>6 DEF Apart
    <3> QED
      BY <1>1, <3>1, <3>2 DEF HistoryInv
  <2>2. CASE /\ Counted(n)
             /\ handed' = handed \o Piece(n)
             /\ history' = history \o (IF IsT(wire[1]) THEN Tail(Piece(n)) ELSE <<>>)
    BY <1>2, <1>3, <1>4, <1>7, <2>2, ServerHistory
  <2> QED
    BY <1>3, <2>1, <2>2
<1> QED
  BY <1>7, <1>8, <1>9, <1>10, <1>11 DEF StreamInv

\* A recv of controller_read_socket keeps the invariant.
LEMMA ControllerStep ==
  ASSUME StreamInv, ControllerReceive
  PROVE  StreamInv'
<1>1. TypeInv /\ WireInv /\ ReaderInv
  BY DEF StreamInv
<1>2. phase = "data" /\ head.op = "text" /\ kind = "controller" /\ head.len \in Nat
  BY <1>1 DEF ControllerReceive, InText, TypeInv
<1>3. PICK n \in 1..head.len :
        /\ Receive(n, head.len)
        /\ \/ /\ Counted(n)
              /\ handed' = handed \o Piece(n) /\ handing' = TRUE
              /\ UNCHANGED <<call, history>>
           \/ n > Buf /\ phase' = "crashed" /\ UNCHANGED <<head, total, call, outVars>>
  BY DEF ControllerReceive
<1>4. n \in Int /\ n <= head.len /\ head.len \in Int /\ Buf \in Nat
  BY <1>2, StreamAssumption
<1>5. n \in 0..Len(wire) /\ Take(n)
  BY <1>1, <1>3, <1>4, Received
<1>6. UNCHANGED <<kind, written, link>>
  BY <1>5 DEF Take
<1>7. TypeInv'
  <2>1. \/ phase' = "crashed" /\ UNCHANGED <<head, total, call, outVars>>
        \/ /\ Counted(n)
           /\ handed' = handed \o Piece(n)
           /\ history' = history
           /\ UNCHANGED call /\ handing' \in BOOLEAN
    BY <1>3
  <2> QED
    BY <1>1, <1>3, <1>4, <2>1, PlainTypes
<1>8. WireInv'
  BY <1>1, <1>5, WireTaken
<1>9. ReaderInv'
  <2>1. phase' = "crashed" \/ (Counted(n) /\ handed' = handed \o Piece(n) /\ UNCHANGED call)
    BY <1>3
  <2>2. kind # "terminal"
    BY <1>2
  <2> QED
    BY <1>1, <1>2, <1>3, <1>4, <2>1, <2>2, PlainReader
<1>10. CrashInv'
  <2>1. phase' = "crashed" => n > Buf /\ head' = head
    BY <1>3 DEF Counted
  <2> QED
    BY <1>2, <1>4, <1>6, <2>1 DEF CrashInv
<1>11. HistoryInv'
  BY <1>2, <1>6 DEF HistoryInv, Apart
<1> QED
  BY <1>7, <1>8, <1>9, <1>10, <1>11 DEF StreamInv

\* A recv of ReadRemoteData keeps the invariant.
LEMMA ClientStep ==
  ASSUME StreamInv, ClientReceive
  PROVE  StreamInv'
<1>1. TypeInv /\ WireInv /\ ReaderInv
  BY DEF StreamInv
<1>2. phase = "data" /\ head.op = "text" /\ kind = "client"
  BY DEF ClientReceive, InText
<1>3. PICK n \in 1..Buf :
        /\ Receive(n, Buf)
        /\ Counted(n)
        /\ handed' = handed \o Piece(n) /\ handing' = TRUE
        /\ UNCHANGED <<call, history>>
  BY DEF ClientReceive
<1>4. n \in Int /\ Buf \in Int
  BY StreamAssumption
<1>5. n \in 0..Len(wire) /\ Take(n)
  BY <1>1, <1>3, <1>4, Received
<1>6. UNCHANGED <<kind, written, link>>
  BY <1>5 DEF Take
<1>7. TypeInv'
  BY <1>1, <1>3, <1>4, PlainTypes
<1>8. WireInv'
  BY <1>1, <1>5, WireTaken
<1>9. ReaderInv'
  <2>1. kind # "terminal" /\ kind # "controller"
    BY <1>2
  <2> QED
    BY <1>1, <1>2, <1>3, <1>4, <2>1, PlainReader
<1>10. CrashInv'
  <2>1. phase' # "crashed"
    BY <1>3 DEF Counted
  <2> QED
    BY <2>1 DEF CrashInv
<1>11. HistoryInv'
  BY <1>2, <1>6 DEF HistoryInv, Apart
<1> QED
  BY <1>7, <1>8, <1>9, <1>10, <1>11 DEF StreamInv

\* A command is received whole: after it the next head comes.
LEMMA CommandReader ==
  ASSUME TypeInv, WireInv, ReaderInv, Orderly', ClientCommand, phase' # "crashed"
  PROVE  ReaderInv'
<1>1. /\ phase = "data" /\ head.op = "other" /\ kind = "client" /\ Len(wire) >= head.len
      /\ phase' = "head" /\ handed' = handed \o Piece(head.len)
      /\ Take(head.len) /\ UNCHANGED <<head, total, call, history, together, cut>>
  BY DEF ClientCommand
<1>2. kind' = kind
  BY <1>1 DEF Take
<1>3. Orderly
  BY <1>1, <1>2, Later
<1>4. /\ call = <<>> /\ HandedInv
      /\ head.frame \in 1..Len(written) /\ head.frame \in Nat
      /\ head.len = written[head.frame].len
      /\ head.len \in Nat /\ total = 0 /\ total < head.len
      /\ total + 1 \in (1 - HeadLen)..written[head.frame].len
      /\ Place = <<head.frame, total + 1>>
      /\ \A m \in 1..(head.len - total) : wire[m] = <<head.frame, total + m>>
  BY <1>1, <1>3, InData
<1>5. head.len \in 0..Len(wire) /\ head.len \in 1..(written[head.frame].len - (total + 1) + 1)
  <2>1. Len(wire) \in Nat /\ Len(wire) >= head.len
    BY <1>1, PlaceType
  <2>2. head.len \in Nat /\ head.len > 0 /\ total = 0 /\ head.len = written[head.frame].len
    BY <1>4
  <2> QED
    BY <2>1, <2>2
<1>6. HandedInv'
  <2>1. ASSUME NEW j \in 1..head.len PROVE wire[j][2] > 0
    <3>1. j \in 1..(head.len - total) /\ total + j = j /\ j \in Int /\ j > 0
      BY <1>4
    <3> QED
      BY <1>4, <3>1, InByte
  <2> QED
    BY <1>1, <1>4, <1>5, <2>1, HandOn
<1>7. Place'[2] = 1 - HeadLen
  <2>1. head.len = written[head.frame].len - (total + 1) + 1
    BY <1>4
  <2>2. Place' = <<head.frame + 1, 1 - HeadLen>>
    <3> DEFINE n == head.len
    <3>1. n \in 1..(written[head.frame].len - (total + 1) + 1) /\ Take(n)
          /\ n = written[head.frame].len - (total + 1) + 1
      BY <1>1, <1>5, <2>1
    <3> HIDE DEF n
    <3> QED
      BY <1>4, <3>1, FrameTaken
  <2>3. head.frame + 1 \in Nat /\ 1 - HeadLen \in Int
    BY <1>4, StreamAssumption
  <2> QED
    BY <2>2, <2>3, InByte
<1>8. Standing'
  BY <1>1, <1>7 DEF Standing
<1> QED
  BY <1>1, <1>4, <1>6, <1>8 DEF ReaderInv

\* A command of the client keeps the invariant.
LEMMA CommandStep ==
  ASSUME StreamInv, ClientCommand
  PROVE  StreamInv'
<1>1. TypeInv /\ WireInv /\ ReaderInv
  BY DEF StreamInv
<1>2. /\ kind = "client" /\ head.op = "other" /\ Len(wire) >= head.len /\ Take(head.len)
      /\ phase' = "crashed" => head.len >= Buf
      /\ UNCHANGED head
  BY DEF ClientCommand
<1>3. head.len \in 0..Len(wire)
  BY <1>1, <1>2, PlaceType DEF TypeInv
<1>4. kind' = kind
  BY <1>2 DEF Take
<1>5. TypeInv' /\ WireInv'
  BY <1>1, <1>2, <1>3, CommandTypes, WireTaken
<1>6. ReaderInv'
  <2>1. Orderly' /\ phase' # "crashed" => ReaderInv'
    BY <1>1, CommandReader
  <2> QED
    BY <2>1 DEF ReaderInv
<1>7. CrashInv' /\ HistoryInv'
  BY <1>2, <1>4 DEF CrashInv, HistoryInv, Apart
<1> QED
  BY <1>5, <1>6, <1>7 DEF StreamInv

\* A terminal that gets all it asks for unmasks it as it was masked.
LEMMA TerminalReader ==
  ASSUME TypeInv, WireInv, ReaderInv, Orderly', TerminalReceive
  PROVE  phase' # "crashed" /\ ReaderInv'
<1> DEFINE need == Least(head.len - total, Buf)
<1>1. PICK n \in 1..need :
        /\ Receive(n, need)
        /\ \/ /\ Len(call \o Piece(n)) >= need
              /\ Counted(n)
              /\ handed' = handed \o Unmasked(SubSeq(call \o Piece(n), 1, n)) /\ handing' = TRUE
              /\ call' = <<>> /\ UNCHANGED history
           \/ /\ Len(call \o Piece(n)) < need
              /\ call' = call \o Piece(n)
              /\ UNCHANGED <<phase, head, total, outVars>>
           \/ /\ Len(call \o Piece(n)) > Buf
              /\ phase' = "crashed" /\ UNCHANGED <<head, total, call, outVars>>
  BY DEF TerminalReceive
<1>2. phase = "data" /\ head.op = "text" /\ kind = "terminal"
  BY DEF TerminalReceive, InText
<1>3. /\ need \in Int /\ need <= Buf /\ need <= head.len - total /\ Buf \in Nat
      /\ Least(need, head.len - total) = need
  BY StreamAssumption DEF TypeInv, Least
<1>4. need = Least(head.len - total, Buf)
  OBVIOUS
<1> HIDE DEF need
<1>5. n \in Nat /\ n \in 0..Len(wire) /\ Take(n) /\ (cut => cut') /\ n \in Int
  BY <1>1, <1>3, Received
<1>6. kind' = "terminal" /\ ~cut'
  <2>1. kind' = kind
    BY <1>5 DEF Take
  <2> QED
    BY <1>2, <2>1 DEF Orderly
<1>7. Orderly /\ n \in 1..(head.len - total) /\ n = need
  <2>1. kind # "controller"
    BY <1>2
  <2>2. /\ Orderly /\ n \in 1..(head.len - total)
        /\ kind \in {"controller", "terminal"} /\ ~cut' => n = Least(need, head.len - total)
    BY <1>1, <1>2, <1>3, <1>4, <1>5, <2>1, HowMuch
  <2> QED
    BY <1>2, <1>3, <1>6, <2>2
<1>8. /\ call = <<>> /\ head.len \in Nat /\ total \in Nat
      /\ \A m \in 1..(head.len - total) : wire[m] = <<head.frame, total + m>>
  BY <1>2, <1>7, InData
<1>9. /\ Piece(n) \in Seq(Byte) /\ Len(Piece(n)) = n
      /\ \A m \in 1..n : Piece(n)[m] = wire[m]
  BY <1>5, TakeFacts
<1> DEFINE t == Piece(n)
<1>10. t \in Seq(Byte) /\ Len(t) = n /\ \A m \in 1..n : t[m] = <<head.frame, total + m>>
  <2>1. \A m \in 1..n : m \in 1..(head.len - total)
    BY <1>7, <1>8
  <2> QED
    BY <1>8, <1>9, <2>1
<1>11. call \o t = t /\ SubSeq(t, 1, n) = t
  <2> HIDE DEF t
  <2>1. <<>> \o t = t
    BY <1>10
  <2>2. SubSeq(t, 1, Len(t)) = t
    BY <1>10
  <2> QED
    BY <1>8, <1>10, <2>1, <2>2
<1>12. Unmasked(t) = t
  <2>1. DOMAIN t = 1..n
    <3> HIDE DEF t
    <3> QED
      BY <1>10
  <2>2. Unmasked(t) = [j \in 1..n |-> IF t[j] = <<head.frame, total + j>> THEN t[j] ELSE Garbled]
    BY <2>1 DEF Unmasked
  <2> HIDE DEF t
  <2>3. t = [j \in 1..n |-> t[j]]
    BY <1>10
  <2>4. \A j \in 1..n : (IF t[j] = <<head.frame, total + j>> THEN t[j] ELSE Garbled) = t[j]
    BY <1>10
  <2> QED
    BY <2>2, <2>3, <2>4
<1>13. Counted(n) /\ handed' = handed \o t /\ call' = <<>>
  <2>1. Len(call \o t) = n /\ SubSeq(call \o t, 1, n) = t
    BY <1>10, <1>11
  <2>2. ~(n < need) /\ ~(n > Buf)
    BY <1>3, <1>5, <1>7
  <2> HIDE DEF t
  <2>3. \/ /\ Counted(n)
           /\ handed' = handed \o Unmasked(SubSeq(call \o t, 1, n))
           /\ call' = <<>>
        \/ Len(call \o t) < need
        \/ Len(call \o t) > Buf
    BY <1>1 DEF t
  <2> QED
    BY <1>12, <2>1, <2>2, <2>3
<1>14. phase' # "crashed"
  BY <1>13 DEF Counted
<1>15. ReaderInv'
  <2>1. kind = "controller" /\ ~cut' => n = head.len - total
    BY <1>2
  <2> QED
    BY <1>2, <1>5, <1>7, <1>13, <2>1, Counts
<1> QED
  BY <1>14, <1>15

\* A round of readData keeps the invariant.
LEMMA TerminalStep ==
  ASSUME StreamInv, TerminalReceive
  PROVE  StreamInv'
<1>1. TypeInv /\ WireInv /\ ReaderInv
  BY DEF StreamInv
<1>2. kind = "terminal"
  BY DEF TerminalReceive, InText
<1>3. PICK n \in 1..Least(head.len - total, Buf) : Receive(n, Least(head.len - total, Buf))
  BY DEF TerminalReceive
<1>4. Least(head.len - total, Buf) \in Int /\ n \in Int
  BY <1>1, StreamAssumption DEF TypeInv, Least
<1>5. n \in 0..Len(wire) /\ Take(n)
  BY <1>1, <1>3, <1>4, Received
<1>6. kind' = kind
  BY <1>5 DEF Take
<1>7. TypeInv' /\ WireInv'
  BY <1>1, <1>5, TerminalTypes, WireTaken
<1>8. ReaderInv' /\ (Orderly' => phase' # "crashed")
  <2>1. Orderly' => phase' # "crashed" /\ ReaderInv'
    BY <1>1, TerminalReader
  <2> QED
    BY <2>1 DEF ReaderInv
<1>9. CrashInv'
  BY <1>2, <1>6, <1>8 DEF CrashInv, Orderly
<1>10. HistoryInv'
  BY <1>2, <1>6 DEF HistoryInv, Apart
<1> QED
  BY <1>7, <1>8, <1>9, <1>10 DEF StreamInv

\* Every step but a status inside a line keeps the invariant of the loop.
LEMMA UndisturbedStep ==
  ASSUME StreamInv, body = <<>>, Next \/ UNCHANGED vars, ~WriteInside
  PROVE  StreamInv' /\ UNCHANGED <<body, inside>>
<1>1. CASE WriteFrame
  BY <1>1, WriteStep DEF WriteFrame
<1>2. CASE Close \/ ReadHeadFails \/ ReceiveFails \/ HandedOn \/ UNCHANGED vars
  <2>1. UNCHANGED <<body, inside>>
    BY <1>2 DEF Close, ReadHeadFails, ReceiveFails, HandedOn, vars, streamVars
  <2> QED
    BY <1>2, <2>1, RestStep
<1>3. CASE ReadHead
  BY <1>3, ReadHeadStep DEF ReadHead, Take
<1>4. CASE ServerReceive
  BY <1>4, ServerStep DEF ServerReceive, Receive, Take
<1>5. CASE ControllerReceive
  BY <1>5, ControllerStep DEF ControllerReceive, Receive, Take
<1>6. CASE ClientReceive
  BY <1>6, ClientStep DEF ClientReceive, Receive, Take
<1>7. CASE ClientCommand
  BY <1>7, CommandStep DEF ClientCommand, Take
<1>8. CASE TerminalReceive
  BY <1>8, TerminalStep DEF TerminalReceive, Receive, Take
<1>9. ~WriteBody
  BY DEF WriteBody
<1> QED
  BY <1>1, <1>2, <1>3, <1>4, <1>5, <1>6, <1>7, <1>8, <1>9 DEF Next, Read

-----------------------------------------------------------------------------
(* A status inside a line. *)

\* The bytes of a frame are of that frame.
LEMMA FrameBytes ==
  ASSUME NEW k \in Nat \ {0}, NEW len \in Nat
  PROVE  /\ HeadOf(k) \in Seq(Byte) /\ Among(HeadOf(k), k)
         /\ DataOf(k, len) \in Seq(Byte) /\ Among(DataOf(k, len), k)
<1>1. HeadLen \in Nat /\ k \in 1..k
  BY StreamAssumption
<1>2. /\ \A m \in 1..HeadLen : <<k, m - HeadLen>> \in Byte /\ <<k, m - HeadLen>>[1] = k
      /\ \A m \in 1..len : <<k, m>> \in Byte /\ <<k, m>>[1] = k
  BY <1>1, InByte
<1>3. HeadOf(k) \in Seq(Byte) /\ Len(HeadOf(k)) = HeadLen
      /\ \A m \in 1..HeadLen : HeadOf(k)[m] = <<k, m - HeadLen>>
  BY <1>1, <1>2 DEF HeadOf
<1>4. DataOf(k, len) \in Seq(Byte) /\ Len(DataOf(k, len)) = len
      /\ \A m \in 1..len : DataOf(k, len)[m] = <<k, m>>
  BY <1>1, <1>2 DEF DataOf
<1>5. Among(HeadOf(k), k)
  BY <1>1, <1>2, <1>3 DEF Among
<1>6. Among(DataOf(k, len), k)
  BY <1>1, <1>2, <1>4 DEF Among
<1> QED
  BY <1>3, <1>4, <1>5, <1>6

\* Bytes of some of the first frames, one behind the other, and of more frames.
LEMMA AmongAll ==
  ASSUME NEW s \in Seq(Byte), NEW t \in Seq(Byte), NEW m \in Nat, NEW n \in Nat,
         Among(s, m), Among(t, n), m <= n
  PROVE  s \o t \in Seq(Byte) /\ Among(s, n) /\ Among(s \o t, n)
<1>1. \A j \in 1..Len(s) : s[j][1] \in 1..n
  BY DEF Among
<1>2. \A j \in 1..Len(t) : t[j][1] \in 1..n
  BY DEF Among
<1>3. /\ s \o t \in Seq(Byte) /\ Len(s \o t) = Len(s) + Len(t)
      /\ \A i \in 1..Len(s) : (s \o t)[i] = s[i]
      /\ \A i \in 1..Len(t) : (s \o t)[Len(s) + i] = t[i]
  BY ConcatAt
<1>4. ASSUME NEW j \in 1..Len(s \o t) PROVE (s \o t)[j][1] \in 1..n
  <2>1. j \in 1..Len(s) \/ (j - Len(s) \in 1..Len(t) /\ j = Len(s) + (j - Len(s)))
    BY <1>3
  <2> QED
    BY <1>1, <1>2, <1>3, <2>1
<1> QED
  BY <1>1, <1>3, <1>4 DEF Among

\* What a recv leaves is of the frames that it was of.
LEMMA AmongTaken ==
  ASSUME TypeInv, NEW n \in 0..Len(wire), Take(n), Among(wire, Len(written)),
         Among(body, Len(written))
  PROVE  Among(wire', Len(written')) /\ Among(body', Len(written'))
<1>1. /\ Len(wire') = Len(wire) - n /\ UNCHANGED <<written, body>>
      /\ \A i \in 1..(Len(wire) - n) : wire'[i] = wire[n + i]
  BY Taken DEF Take, TypeInv
<1>2. Len(wire) \in Nat /\ \A i \in 1..(Len(wire) - n) : n + i \in 1..Len(wire)
  BY DEF TypeInv
<1> QED
  BY <1>1, <1>2 DEF Among

\* A status inside a line, with or without one before it.
LEMMA WriteInsideStep ==
  ASSUME TypeInv, phase # "crashed", Among(wire, Len(written)), WriteInside
  PROVE  InsideInv' /\ inside'
<1> DEFINE k == Len(written) + 1
           R == [op : {"text", "other"}, len : Lengths]
<1>1. PICK len \in Lengths \ {0} :
        /\ written' = written \o <<[op |-> "text", len |-> len], [op |-> "other", len |-> 0]>>
        /\ wire' = wire \o HeadOf(k) \o HeadOf(k + 1)
        /\ body' = DataOf(k, len)
  BY DEF WriteInside
<1>2. /\ kind = "server" /\ inside' = TRUE
      /\ UNCHANGED <<kind, link, phase, head, total, call, handed, history, handing>>
      /\ UNCHANGED <<together, cut>>
  BY DEF WriteInside, readerVars, outVars
<1>3. /\ Len(written) \in Nat /\ k \in Nat \ {0} /\ k + 1 \in Nat \ {0}
      /\ len \in Nat /\ 0 \in Lengths /\ written \in Seq(R)
  BY FrameFacts, StreamAssumption DEF Lengths, TypeInv
<1>4. /\ written' \in Seq(R) /\ Len(written') = k + 1
      /\ \A j \in 1..Len(written) : written'[j] = written[j]
      /\ written'[k] = [op |-> "text", len |-> len]
      /\ written'[k + 1] = [op |-> "other", len |-> 0]
  <2> DEFINE a == [op |-> "text", len |-> len]
             b == [op |-> "other", len |-> 0]
  <2>1. a \in R /\ b \in R /\ written' = written \o <<a, b>>
    BY <1>1, <1>3
  <2> HIDE DEF a, b, R
  <2>2. <<a, b>> \in Seq(R) /\ Len(<<a, b>>) = 2 /\ <<a, b>>[1] = a /\ <<a, b>>[2] = b
    BY <2>1
  <2>3. /\ written' \in Seq(R) /\ Len(written') = Len(written) + 2
        /\ \A j \in 1..Len(written) : written'[j] = written[j]
        /\ \A j \in 1..2 : written'[Len(written) + j] = <<a, b>>[j]
    BY <1>3, <2>1, <2>2, ConcatAt
  <2>4. Len(written) + 2 = k + 1 /\ 1 \in 1..2 /\ 2 \in 1..2
    BY <1>3
  <2>5. written'[k] = a /\ written'[k + 1] = b
    BY <2>2, <2>3, <2>4
  <2> QED
    BY <2>3, <2>4, <2>5 DEF a, b
<1>5. \A j \in 1..Len(written') : written'[j] \in Sent(kind)
  <2>1. \A j \in 1..(k + 1) : j \in 1..Len(written) \/ j = k \/ j = k + 1
    BY <1>3
  <2>2. \A j \in 1..Len(written) : written[j] \in Sent(kind)
    BY DEF TypeInv
  <2>3. /\ [op |-> "text", len |-> len] \in Sent(kind)
        /\ [op |-> "other", len |-> 0] \in Sent(kind)
    BY <1>2 DEF Sent
  <2> QED
    BY <1>4, <2>1, <2>2, <2>3
<1>6. (\A j \in 1..Len(written) : written[j] \in Sent(kind))'
  BY <1>2, <1>5 DEF Sent
<1>7. /\ wire \in Seq(Byte) /\ HeadOf(k) \in Seq(Byte) /\ Among(HeadOf(k), k)
      /\ HeadOf(k + 1) \in Seq(Byte) /\ Among(HeadOf(k + 1), k + 1)
      /\ DataOf(k, len) \in Seq(Byte) /\ Among(DataOf(k, len), k)
  BY <1>3, FrameBytes DEF TypeInv
<1> HIDE DEF k, R
<1>8. wire \o HeadOf(k) \in Seq(Byte) /\ Among(wire \o HeadOf(k), k)
  <2>1. Len(written) <= k
    BY <1>3 DEF k
  <2> QED
    BY <1>3, <1>7, <2>1, AmongAll
<1>9. wire' \in Seq(Byte) /\ Among(wire', k + 1)
  <2>1. k <= k + 1
    BY <1>3
  <2> QED
    BY <1>1, <1>3, <1>7, <1>8, <2>1, AmongAll
<1>10. body' \in Seq(Byte) /\ Among(body', k + 1)
  <2>1. k <= k + 1
    BY <1>3
  <2> QED
    BY <1>1, <1>3, <1>7, <2>1, AmongAll
<1>11. TypeInv'
  BY <1>2, <1>4, <1>6, <1>9, <1>10 DEF TypeInv, R
<1> QED
  BY <1>2, <1>4, <1>9, <1>10, <1>11 DEF InsideInv

\* Every step after that keeps what is left of the invariant.
LEMMA InsideStep ==
  ASSUME InsideInv, inside, Next \/ UNCHANGED vars
  PROVE  InsideInv' /\ inside'
<1>1. /\ TypeInv /\ kind = "server" /\ phase # "crashed"
      /\ Among(wire, Len(written)) /\ Among(body, Len(written))
  BY DEF InsideInv
<1>2. ASSUME TypeInv', kind' = kind, inside' = inside, phase' # "crashed",
             Among(wire', Len(written')), Among(body', Len(written'))
      PROVE  InsideInv' /\ inside'
  BY <1>1, <1>2 DEF InsideInv
<1>3. CASE WriteFrame
  <2>1. PICK f \in Sent(kind) :
          LET k == Len(written) + 1 IN
            /\ written' = Append(written, f)
            /\ wire' = wire \o HeadOf(k) \o DataOf(k, f.len)
    BY <1>3 DEF WriteFrame
  <2> DEFINE k == Len(written) + 1
  <2>2. /\ f.len \in Nat /\ Len(written') = k
    BY <1>1, <2>1, NewFrame
  <2>3. Len(written) \in Nat /\ k \in Nat \ {0} /\ Len(written) <= k /\ k <= k
    BY <1>1, FrameFacts
  <2>4. /\ wire \in Seq(Byte) /\ HeadOf(k) \in Seq(Byte) /\ Among(HeadOf(k), k)
        /\ DataOf(k, f.len) \in Seq(Byte) /\ Among(DataOf(k, f.len), k)
    BY <1>1, <2>2, <2>3, FrameBytes DEF TypeInv
  <2>5. wire' = wire \o HeadOf(k) \o DataOf(k, f.len)
    BY <2>1
  <2> HIDE DEF k
  <2>6. wire \o HeadOf(k) \in Seq(Byte) /\ Among(wire \o HeadOf(k), k)
    BY <1>1, <2>3, <2>4, AmongAll
  <2>7. Among(wire', k)
    BY <2>3, <2>4, <2>5, <2>6, AmongAll
  <2>8. Among(body', k)
    BY <1>3, <2>3 DEF WriteFrame, Among
  <2> QED
    BY <1>1, <1>2, <1>3, <2>2, <2>7, <2>8, WriteTypes DEF WriteFrame, readerVars
<1>4. CASE WriteInside
  BY <1>1, <1>4, WriteInsideStep
<1>5. CASE WriteBody
  <2>1. /\ wire' = wire \o body /\ body' = <<>>
        /\ UNCHANGED <<kind, written, inside, link, phase, head, total, call>>
        /\ UNCHANGED <<handed, history, handing, together, cut>>
    BY <1>5 DEF WriteBody, readerVars, outVars
  <2>2. Len(written) \in Nat /\ wire \in Seq(Byte) /\ body \in Seq(Byte)
    BY <1>1, FrameFacts DEF TypeInv
  <2>3. wire' \in Seq(Byte) /\ Among(wire', Len(written'))
    BY <1>1, <2>1, <2>2, AmongAll
  <2>4. body' \in Seq(Byte) /\ Among(body', Len(written'))
    BY <2>1 DEF Among
  <2>5. (\A k \in 1..Len(written) : written[k] \in Sent(kind))'
    BY <1>1, <2>1 DEF TypeInv, Sent
  <2>6. TypeInv'
    BY <1>1, <2>1, <2>3, <2>4, <2>5 DEF TypeInv
  <2> QED
    BY <1>1, <1>2, <2>1, <2>3, <2>4, <2>6
<1>6. CASE Close \/ ReadHeadFails \/ ReceiveFails \/ HandedOn \/ UNCHANGED vars
  <2>1. UNCHANGED <<kind, written, wire, body, inside>>
    BY <1>6 DEF Close, ReadHeadFails, ReceiveFails, HandedOn, vars, streamVars
  <2>2. phase' # "crashed"
    BY <1>1, <1>6
       DEF Close, ReadHeadFails, ReceiveFails, HandedOn, Quit, InText, vars, readerVars
  <2>3. TypeInv'
    BY <1>1, <1>6, RestTypes
  <2> QED
    BY <1>1, <1>2, <2>1, <2>2, <2>3
<1>7. CASE ReadHead
  <2>1. Take(HeadLen) /\ HeadLen \in 0..Len(wire)
    <3>1. Len(wire) >= HeadLen /\ Len(wire) \in Nat /\ HeadLen \in Nat /\ Take(HeadLen)
      BY <1>1, <1>7, PlaceType DEF ReadHead
    <3> QED
      BY <3>1
  <2>2. phase' # "crashed"
    <3>1. \A h : Begin(h) => phase' # "crashed"
      BY DEF Begin, Quit
    <3>2. Quit \/ \E h : Begin(h)
      BY <1>7 DEF ReadHead
    <3> QED
      BY <3>1, <3>2 DEF Quit
  <2>3. TypeInv'
    BY <1>1, <1>7, ReadHeadTypes
  <2>4. Among(wire', Len(written')) /\ Among(body', Len(written'))
    BY <1>1, <2>1, AmongTaken
  <2> QED
    BY <1>1, <1>2, <2>1, <2>2, <2>3, <2>4 DEF Take
<1>8. CASE ServerReceive
  <2>1. PICK n \in 1..(Buf - 1) :
          /\ Receive(n, Buf - 1)
          /\ \/ n > head.len /\ Quit
             \/ /\ n <= head.len
                /\ Counted(n)
                /\ handed' = handed \o Piece(n)
                /\ history' = history \o (IF IsT(wire[1]) THEN Tail(Piece(n)) ELSE <<>>)
                /\ UNCHANGED <<call, handing>>
    BY <1>8 DEF ServerReceive
  <2>2. n \in Int /\ Buf - 1 \in Int
    BY StreamAssumption
  <2>3. n \in 0..Len(wire) /\ Take(n)
    BY <1>1, <2>1, <2>2, Received
  <2>4. phase' # "crashed"
    BY <2>1 DEF Quit, Counted
  <2>5. TypeInv'
    <3>1. CASE n > head.len /\ Quit
      BY <1>1, <2>1, <2>2, <3>1, PlainTypes
    <3>2. CASE /\ Counted(n)
               /\ handed' = handed \o Piece(n)
               /\ history' = history \o (IF IsT(wire[1]) THEN Tail(Piece(n)) ELSE <<>>)
               /\ UNCHANGED <<call, handing>>
      <4>1. /\ history' = history \o Tail(Piece(n)) \/ history' = history \o <<>>
            /\ handing' \in BOOLEAN
        BY <1>1, <3>2 DEF TypeInv
      <4> QED
        BY <1>1, <2>1, <2>2, <3>2, <4>1, PlainTypes
    <3> QED
      BY <2>1, <3>1, <3>2
  <2>6. Among(wire', Len(written')) /\ Among(body', Len(written'))
    BY <1>1, <2>3, AmongTaken
  <2> QED
    BY <1>1, <1>2, <2>3, <2>4, <2>5, <2>6 DEF Take
<1>9. ~ControllerReceive /\ ~ClientReceive /\ ~ClientCommand /\ ~TerminalReceive
  BY <1>1 DEF ControllerReceive, ClientReceive, ClientCommand, TerminalReceive, InText
<1> QED
  BY <1>3, <1>4, <1>5, <1>6, <1>7, <1>8, <1>9 DEF Next, Read

\* Every step keeps the invariant.
LEMMA NextStep == FrameInv /\ [Next]_vars => FrameInv'
<1> SUFFICES ASSUME FrameInv, [Next]_vars PROVE FrameInv'
  OBVIOUS
<1>1. CASE inside
  BY <1>1, InsideStep DEF FrameInv
<1>2. CASE ~inside /\ ~WriteInside
  BY <1>2, UndisturbedStep DEF FrameInv
<1>3. CASE ~inside /\ WriteInside
  <2>1. TypeInv /\ WireInv /\ ReaderInv /\ CrashInv /\ kind = "server" /\ link = "open"
    BY <1>3 DEF FrameInv, StreamInv, WriteInside
  <2>2. Among(wire, Len(written)) /\ phase # "crashed"
    BY <2>1 DEF WireInv, Written, Among, CrashInv
  <2> QED
    BY <1>3, <2>1, <2>2, WriteInsideStep DEF FrameInv
<1> QED
  BY <1>1, <1>2, <1>3

\* The invariant holds in every behaviour.
THEOREM StreamInvariance == Spec => []FrameInv
<1>1. Init => FrameInv
  BY InitInv DEF FrameInv, Init
<1>2. FrameInv /\ [Next]_vars => FrameInv'
  BY NextStep
<1> QED
  BY <1>1, <1>2, PTL DEF Spec

-----------------------------------------------------------------------------
(* What it implies. *)

\* A reader that has handed on what is before the place, and has the rest on the
\* wire, is in step.
LEMMA WholeInStep ==
  ASSUME TypeInv, WireInv, HandedInv, call = <<>>
  PROVE  InStep
<1> DEFINE h == Len(handed)
           w == Len(wire)
           all == handed \o wire
<1>1. /\ handed \in Seq(Byte) /\ wire \in Seq(Byte) /\ h \in Nat /\ w \in Nat
      /\ \A i \in 1..h : handed[i] \in Byte
      /\ \A j \in 1..w : wire[j] \in Byte
  BY ElementAt DEF TypeInv
<1>2. handed \o call = handed /\ handed \o call \o wire = all
  <2>1. handed \o <<>> = handed
    BY <1>1
  <2> QED
    BY <2>1
<1>3. /\ all \in Seq(Byte) /\ Len(all) = h + w
      /\ \A i \in 1..h : all[i] = handed[i]
      /\ \A j \in 1..w : all[h + j] = wire[j]
  BY <1>1, ConcatAt
<1> HIDE DEF h, w, all
<1>4. /\ \A i \in 1..(h + w) : i \in 1..h \/ \E j \in 1..w : i = h + j
      /\ \A j \in 1..w : h + j \in 1..(h + w)
      /\ \A i \in 1..h : i \in 1..(h + w)
  <2>1. ASSUME NEW i \in 1..(h + w), ~(i \in 1..h) PROVE \E j \in 1..w : i = h + j
    <3>1. i - h \in 1..w /\ i = h + (i - h)
      BY <1>1, <2>1
    <3> QED
      BY <3>1
  <2>2. /\ \A j \in 1..w : h + j \in 1..(h + w)
        /\ \A i \in 1..h : i \in 1..(h + w)
    BY <1>1
  <2> QED
    BY <2>1, <2>2
<1>5. \A i \in 1..h : handed[i] \in Data /\ Before(handed[i], Place)
  BY DEF HandedInv, h
<1>6. \A b \in Data : b \in Byte /\ IsData(b)
  BY DataFacts, Pairs DEF IsData
<1>7. \A j \in 1..w : wire[j] \in Data <=> IsData(wire[j])
  <2>1. \A j \in 1..w : Written(wire[j])
    BY DEF WireInv, w
  <2> QED
    BY <1>1, <2>1, DataFacts DEF IsData
<1>8. \A b : b \in ToSet(all) <=> \E i \in 1..(h + w) : all[i] = b
  <2>1. \A b : b \in ToSet(all) <=> \E i \in 1..Len(all) : all[i] = b
    BY <1>3, OrderOf
  <2> QED
    BY <1>3, <2>1
<1>9. \A b \in ToSet(handed) : IsData(b)
  <2>1. \A b \in ToSet(handed) : \E i \in 1..h : handed[i] = b
    BY <1>1, OrderOf DEF h
  <2> QED
    BY <1>5, <1>6, <2>1
<1>10. {b \in ToSet(all) : IsData(b)} = Data
  <2>1. ASSUME NEW b \in ToSet(all), IsData(b) PROVE b \in Data
    <3>1. PICK i \in 1..(h + w) : all[i] = b
      BY <1>8
    <3>2. CASE i \in 1..h
      BY <1>3, <1>5, <3>1, <3>2
    <3>3. ASSUME NEW j \in 1..w, i = h + j PROVE b \in Data
      BY <1>3, <1>7, <2>1, <3>1, <3>3
    <3> QED
      BY <1>4, <3>2, <3>3
  <2>2. ASSUME NEW b \in Data PROVE b \in ToSet(all)
    <3>1. CASE Before(b, Place)
      <4>1. PICK i \in 1..h : handed[i] = b
        BY <3>1 DEF HandedInv, h
      <4> QED
        BY <1>3, <1>4, <1>8, <4>1
    <3>2. CASE ~Before(b, Place)
      <4>1. PICK j \in 1..w : wire[j] = b
        BY <3>2 DEF WireInv, w
      <4> QED
        BY <1>3, <1>4, <1>8, <4>1
    <3> QED
      BY <3>1, <3>2
  <2> QED
    BY <1>6, <2>1, <2>2
<1>11. InOrder(all)
  <2>1. \A i, j \in 1..h : i < j => Before(handed[i], handed[j])
    BY <1>1, OrderOf DEF HandedInv, h
  <2>2. \A i, j \in 1..w : i < j => Before(wire[i], wire[j])
    BY <1>1, OrderOf DEF WireInv, w
  <2>3. ASSUME NEW i \in 1..h, NEW j \in 1..w PROVE Before(handed[i], wire[j])
    <3>1. Place \in Byte /\ Place = wire[1] /\ 1 \in 1..w
      <4>1. wire # <<>>
        BY <1>1, PlaceType DEF w
      <4> QED
        BY <4>1, PlaceType DEF w
    <3>2. j = 1 \/ Before(wire[1], wire[j])
      <4>1. j = 1 \/ 1 < j
        BY <1>1
      <4> QED
        BY <2>2, <3>1, <4>1
    <3>3. handed[i] \in Byte /\ wire[j] \in Byte /\ Before(handed[i], Place)
      BY <1>1, <1>5
    <3> QED
      BY <3>1, <3>2, <3>3, BeforeFacts
  <2>4. ASSUME NEW i \in 1..(h + w), NEW j \in 1..(h + w), i < j
        PROVE  Before(all[i], all[j])
    <3>1. CASE i \in 1..h /\ j \in 1..h
      BY <1>3, <2>1, <2>4, <3>1
    <3>2. ASSUME i \in 1..h, NEW m \in 1..w, j = h + m PROVE Before(all[i], all[j])
      BY <1>3, <2>3, <3>2
    <3>3. ASSUME NEW l \in 1..w, i = h + l, NEW m \in 1..w, j = h + m
          PROVE  Before(all[i], all[j])
      <4>1. l < m
        BY <1>1, <2>4, <3>3
      <4> QED
        BY <1>3, <2>2, <3>3, <4>1
    <3>4. ASSUME NEW l \in 1..w, i = h + l, j \in 1..h PROVE FALSE
      BY <1>1, <2>4, <3>4
    <3> QED
      BY <1>4, <3>1, <3>2, <3>3, <3>4
  <2> QED
    BY <1>3, <2>4, OrderOf
<1> QED
  BY <1>2, <1>9, <1>10, <1>11 DEF InStep

\* Frames that come apart, and frames of which each recv gets all that it asks for,
\* are handed on whole, in order and without their heads, up to the place, until a
\* status is sent inside a line.
THEOREM InStepWhenOrderly == Spec => []KeepsStep
<1>1. FrameInv => KeepsStep
  <2> SUFFICES ASSUME StreamInv, phase # "crashed", Orderly PROVE InStep
    BY DEF FrameInv, KeepsStep, Orderly
  <2> QED
    BY WholeInStep DEF StreamInv, ReaderInv
<1> QED
  BY <1>1, StreamInvariance, PTL

\* The history has all of the text but the T of every frame, and has it in order.
THEOREM HistoryWithoutT == Spec => []HistoryWhole
<1>1. FrameInv => HistoryWhole
  BY DEF FrameInv, StreamInv, HistoryInv, HistoryWhole, Apart
<1> QED
  BY <1>1, StreamInvariance, PTL

\* No loop leaves a connection or its buffer without the reason that the source has.
THEOREM LeavesForReason == Spec => []EndsForReason
<1>1. FrameInv => EndsForReason
  <2> SUFFICES ASSUME FrameInv PROVE EndsForReason
    OBVIOUS
  <2>1. CASE inside
    BY <2>1 DEF FrameInv, InsideInv, EndsForReason
  <2>2. CASE ~inside
    <3>1. kind \in Kinds /\ together \in BOOLEAN /\ cut \in BOOLEAN
      BY <2>2 DEF FrameInv, StreamInv, TypeInv
    <3>2. phase = "ended" /\ link = "open" => ~Orderly
      BY <2>2 DEF FrameInv, StreamInv, ReaderInv, Standing
    <3>3. CrashInv
      BY <2>2 DEF FrameInv, StreamInv
    <3> QED
      BY <3>1, <3>2, <3>3 DEF EndsForReason, Orderly, CrashInv
  <2> QED
    BY <2>1, <2>2
<1> QED
  BY <1>1, StreamInvariance, PTL

-----------------------------------------------------------------------------
(* Why the loops end. *)

\* How many steps a loop can still make when nothing more is written: two for a byte,
\* two for the -1 of a reset connection, what is left of its round, and the return
\* from handing on.
Fuel ==
  2 * Len(wire) + (IF link = "reset" THEN 2 ELSE 0) +
  (IF phase = "data" THEN 2 ELSE IF phase = "head" THEN 1 ELSE 0) +
  (IF handing THEN 1 ELSE 0)

\* Every step of a loop uses some of it up.
LEMMA ReadBurns ==
  ASSUME TypeInv, Read
  PROVE  Fuel \in Nat /\ Fuel' < Fuel
<1> DEFINE l == IF link = "reset" THEN 2 ELSE 0
           p == IF phase = "data" THEN 2 ELSE IF phase = "head" THEN 1 ELSE 0
           w == Len(wire)
           m == IF link' = "reset" THEN 2 ELSE 0
           q == IF phase' = "data" THEN 2 ELSE IF phase' = "head" THEN 1 ELSE 0
           v == Len(wire')
           d == IF handing' THEN 1 ELSE 0
<1>1. /\ w \in Nat /\ l \in {0, 2} /\ p \in {0, 1, 2} /\ q \in {0, 1, 2} /\ m \in {0, 2}
      /\ d \in {0, 1}
  BY DEF TypeInv
<1>0. ~handing
  BY DEF Read
<1>2. Fuel = 2 * w + l + p /\ Fuel' = 2 * v + m + q + d
  BY <1>0, <1>1 DEF Fuel
<1>3. ASSUME NEW n \in 0..w, Take(n)
      PROVE  v = w - n /\ m = l
  BY <1>1, <1>3, TakeFacts
<1>6. CASE ReadHead
  <2>1. phase = "head" /\ HeadLen \in 1..w /\ HeadLen \in 0..w /\ Take(HeadLen)
    BY <1>1, <1>6, StreamAssumption DEF ReadHead
  <2>2. v = w - HeadLen /\ m = l
    BY <1>1, <1>3, <2>1
  <2>3. p = 1 /\ d = 0
    <3>1. \A h : Begin(h) => UNCHANGED handing
      BY DEF Begin, Quit, outVars
    <3>2. Quit \/ \E h : Begin(h)
      BY <1>6 DEF ReadHead
    <3>3. UNCHANGED handing
      BY <3>1, <3>2 DEF Quit, outVars
    <3> QED
      BY <1>0, <2>1, <3>3
  <2> HIDE DEF l, p, w, m, q, v, d
  <2> QED
    BY <1>1, <1>2, <2>1, <2>2, <2>3
<1>7. CASE ReadHeadFails
  <2>1. /\ phase = "head" /\ phase' = "ended" /\ wire' = wire /\ link' = link
        /\ handing' = handing
    BY <1>7 DEF ReadHeadFails, Quit, streamVars, outVars
  <2>2. p = 1 /\ q = 0 /\ m = l /\ v = w /\ d = 0
    BY <1>0, <2>1
  <2> HIDE DEF l, p, w, m, q, v, d
  <2> QED
    BY <1>1, <1>2, <2>2
<1>8. CASE ServerReceive
  <2>1. PICK n \in 1..(Buf - 1) : Receive(n, Buf - 1)
    BY <1>8 DEF ServerReceive
  <2>2. phase = "data" /\ n \in Nat /\ Buf - 1 \in Nat
    BY <1>8, StreamAssumption DEF ServerReceive, InText
  <2>3. n \in 1..w /\ n \in 0..w /\ Take(n)
    BY <1>1, <2>1, <2>2 DEF Receive, Least
  <2>4. v = w - n /\ m = l
    BY <1>3, <2>3
  <2>5. p = 2 /\ n \in Int /\ n >= 1
    BY <1>1, <2>2, <2>3
  <2> HIDE DEF l, p, w, m, q, v, d
  <2> QED
    BY <1>1, <1>2, <2>4, <2>5
<1>9. CASE ControllerReceive
  <2>1. PICK n \in 1..head.len : Receive(n, head.len)
    BY <1>9 DEF ControllerReceive
  <2>2. phase = "data" /\ n \in Nat /\ head.len \in Nat
    BY <1>9 DEF ControllerReceive, InText, TypeInv
  <2>3. n \in 1..w /\ n \in 0..w /\ Take(n)
    BY <1>1, <2>1, <2>2 DEF Receive, Least
  <2>4. v = w - n /\ m = l
    BY <1>3, <2>3
  <2>5. p = 2 /\ n \in Int /\ n >= 1
    BY <1>1, <2>2, <2>3
  <2> HIDE DEF l, p, w, m, q, v, d
  <2> QED
    BY <1>1, <1>2, <2>4, <2>5
<1>10. CASE ClientReceive
  <2>1. PICK n \in 1..Buf : Receive(n, Buf)
    BY <1>10 DEF ClientReceive
  <2>2. phase = "data" /\ n \in Nat /\ Buf \in Nat
    BY <1>10, StreamAssumption DEF ClientReceive, InText
  <2>3. n \in 1..w /\ n \in 0..w /\ Take(n)
    BY <1>1, <2>1, <2>2 DEF Receive, Least
  <2>4. v = w - n /\ m = l
    BY <1>3, <2>3
  <2>5. p = 2 /\ n \in Int /\ n >= 1
    BY <1>1, <2>2, <2>3
  <2> HIDE DEF l, p, w, m, q, v, d
  <2> QED
    BY <1>1, <1>2, <2>4, <2>5
<1>11. CASE TerminalReceive
  <2> DEFINE need == Least(head.len - total, Buf)
  <2>1. PICK n \in 1..need : Receive(n, need)
    BY <1>11, Zenon DEF TerminalReceive
  <2>2. need \in Int
    BY StreamAssumption DEF TypeInv, Least
  <2>3. n \in Nat /\ need \in Nat
    <3> HIDE DEF need
    <3> QED
      BY <2>1, <2>2
  <2>4. phase = "data"
    BY <1>11, Zenon DEF TerminalReceive, InText
  <2> HIDE DEF need
  <2>5. n \in 1..w /\ n \in 0..w /\ Take(n)
    BY <1>1, <2>1, <2>3 DEF Receive, Least
  <2>6. v = w - n /\ m = l
    BY <1>3, <2>5
  <2>7. p = 2 /\ n \in Int /\ n >= 1
    BY <1>1, <2>4, <2>5
  <2> HIDE DEF l, p, w, m, q, v, d
  <2> QED
    BY <1>1, <1>2, <2>6, <2>7
<1>12. CASE ClientCommand
  <2>1. /\ phase = "data" /\ phase' \in {"head", "crashed"} /\ head.len \in 0..w
        /\ Take(head.len) /\ handing' = handing
    BY <1>1, <1>12 DEF ClientCommand, TypeInv
  <2>2. v = w - head.len /\ m = l
    BY <1>3, <2>1
  <2>3. p = 2 /\ q < 2 /\ d = 0
    BY <1>0, <2>1
  <2> HIDE DEF l, p, w, m, q, v, d
  <2> QED
    BY <1>1, <1>2, <2>1, <2>2, <2>3
<1>13. CASE ReceiveFails
  <2>1. phase = "data" /\ link' = "closed" /\ wire' = wire /\ handing' = handing
    BY <1>13 DEF ReceiveFails, Starved, Quit, streamVars, outVars
  <2>2. link = "reset" \/ phase' \in {"head", "ended"}
    BY <1>13 DEF ReceiveFails, Quit
  <2>3. p = 2 /\ m = 0 /\ v = w /\ (l = 2 \/ q < 2) /\ d = 0
    BY <1>0, <2>1, <2>2
  <2> HIDE DEF l, p, w, m, q, v, d
  <2> QED
    BY <1>1, <1>2, <2>3
<1> QED
  BY <1>1, <1>2, <1>6, <1>7, <1>8, <1>9, <1>10, <1>11, <1>12, <1>13 DEF Read

\* No reader goes round for ever over what it has been sent, however it is cut and
\* whatever the heads say that it takes for heads: every step of it, the return from
\* handing on among them, leaves fewer that can follow, and so does every step at all
\* once the connection has ended.  What it may do is wait for that return.
THEOREM ReadersRunOut ==
  Spec => [][Read \/ HandedOn \/ link # "open"
               => Fuel \in Nat /\ Fuel' \in Nat /\ Fuel' < Fuel]_vars
<1> DEFINE Burns == Read \/ HandedOn \/ link # "open"
                      => Fuel \in Nat /\ Fuel' \in Nat /\ Fuel' < Fuel
<1>0. FrameInv => TypeInv
  BY DEF FrameInv, InsideInv, StreamInv
<1>1. FrameInv /\ FrameInv' /\ [Next]_vars => [Burns]_vars
  <2>1. link # "open" /\ Next => Read \/ HandedOn
    BY DEF Next, WriteFrame, WriteInside, WriteBody, Close
  <2>2. TypeInv => Fuel \in Nat
    <3> SUFFICES ASSUME TypeInv PROVE Fuel \in Nat
      OBVIOUS
    <3>1. Len(wire) \in Nat
      BY DEF TypeInv
    <3> QED
      BY <3>1 DEF Fuel
  <2>3. TypeInv' => Fuel' \in Nat
    <3> SUFFICES ASSUME TypeInv' PROVE Fuel' \in Nat
      OBVIOUS
    <3>1. Len(wire') \in Nat
      BY DEF TypeInv
    <3> QED
      BY <3>1 DEF Fuel
  <2>4. TypeInv /\ HandedOn => Fuel' < Fuel
    <3> SUFFICES ASSUME TypeInv, HandedOn PROVE Fuel' < Fuel
      OBVIOUS
    <3> DEFINE l == IF link = "reset" THEN 2 ELSE 0
               p == IF phase = "data" THEN 2 ELSE IF phase = "head" THEN 1 ELSE 0
               w == Len(wire)
    <3>1. handing /\ ~handing' /\ UNCHANGED <<wire, link, phase>>
      BY DEF HandedOn, streamVars, readerVars
    <3>2. Fuel = 2 * w + l + p + 1 /\ Fuel' = 2 * w + l + p + 0
      BY <3>1 DEF Fuel
    <3>3. w \in Nat /\ l \in {0, 2} /\ p \in {0, 1, 2}
      BY DEF TypeInv
    <3> HIDE DEF w, l, p
    <3> QED
      BY <3>2, <3>3
  <2>5. FrameInv' => TypeInv'
    BY DEF FrameInv, InsideInv, StreamInv
  <2> QED
    BY <1>0, <2>1, <2>2, <2>3, <2>4, <2>5, ReadBurns
<1> QED
  BY StreamInvariance, <1>1, PTL DEF Spec

================================================================================
