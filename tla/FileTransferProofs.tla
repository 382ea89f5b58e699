-------------------------- MODULE FileTransferProofs --------------------------
(* Proofs about FileTransfer. *)
EXTENDS FileTransfer, TLAPS

\* A run of the file: how long it is, and its bytes.
LEMMA FileLen ==
  ASSUME NEW a \in Nat, NEW b \in Nat, a <= b
  PROVE  /\ File(a, b) \in Seq(Nat)
         /\ Len(File(a, b)) = b - a
         /\ \A i \in 1..(b - a) : File(a, b)[i] = a + i - 1
<1>1. b - a \in Nat
  OBVIOUS
<1>2. File(a, b) = [i \in 1..(b - a) |-> a + i - 1]
  BY DEF File
<1>3. \A i \in 1..(b - a) : a + i - 1 \in Nat
  OBVIOUS
<1> QED
  BY <1>1, <1>2, <1>3

\* A run that ends where it begins is empty.
LEMMA FileEmpty ==
  ASSUME NEW a \in Nat, NEW b \in Nat, b <= a
  PROVE  File(a, b) = <<>>
<1>1. 1..(b - a) = {}
  OBVIOUS
<1>2. File(a, b) = [i \in {} |-> a + i - 1]
  BY <1>1 DEF File
<1> QED
  BY <1>2

\* The bytes of two sequences that are joined.
LEMMA ConcatAt ==
  ASSUME NEW S, NEW s \in Seq(S), NEW t \in Seq(S)
  PROVE  /\ s \o t \in Seq(S)
         /\ Len(s \o t) = Len(s) + Len(t)
         /\ \A i \in 1..Len(s) : (s \o t)[i] = s[i]
         /\ \A i \in (Len(s) + 1)..(Len(s) + Len(t)) : (s \o t)[i] = t[i - Len(s)]
OBVIOUS

\* Sequences of one length with the same elements are the same.
LEMMA SeqEqual ==
  ASSUME NEW S, NEW s \in Seq(S), NEW t \in Seq(S), Len(s) = Len(t),
         \A i \in 1..Len(s) : s[i] = t[i]
  PROVE  s = t
OBVIOUS

\* A run and the one behind it are one run.
LEMMA FileConcat ==
  ASSUME NEW a \in Nat, NEW b \in Nat, NEW c \in Nat, a <= b, b <= c
  PROVE  File(a, b) \o File(b, c) = File(a, c)
<1> DEFINE f == File(a, b)
           g == File(b, c)
           h == File(a, c)
<1>0. a <= c
  OBVIOUS
<1>1. /\ f \in Seq(Nat) /\ Len(f) = b - a
      /\ g \in Seq(Nat) /\ Len(g) = c - b
      /\ h \in Seq(Nat) /\ Len(h) = c - a
  BY <1>0, FileLen
<1>2. \A i \in 1..(b - a) : f[i] = a + i - 1
  BY FileLen
<1>3. \A i \in 1..(c - b) : g[i] = b + i - 1
  BY FileLen
<1>4. \A i \in 1..(c - a) : h[i] = a + i - 1
  BY <1>0, FileLen
<1> HIDE DEF f, g, h
<1>5. f \o g \in Seq(Nat) /\ Len(f \o g) = Len(f) + Len(g)
  BY <1>1, ConcatAt
<1>6. \A i \in 1..Len(f) : (f \o g)[i] = f[i]
  BY <1>1, ConcatAt
<1>7. \A i \in (Len(f) + 1)..(Len(f) + Len(g)) : (f \o g)[i] = g[i - Len(f)]
  BY <1>1, ConcatAt
<1>8. ASSUME NEW i \in 1..(c - a) PROVE (f \o g)[i] = h[i]
  <2>1. CASE i <= b - a
    BY <2>1, <1>1, <1>2, <1>4, <1>6
  <2>2. CASE i > b - a
    <3>1. (f \o g)[i] = g[i - Len(f)]
      BY <2>2, <1>1, <1>7
    <3>2. i - Len(f) \in 1..(c - b)
      BY <2>2, <1>1
    <3> QED
      BY <3>1, <3>2, <1>1, <1>3, <1>4
  <2>3. i <= b - a \/ i > b - a
    OBVIOUS
  <2> QED
    BY <2>1, <2>2, <2>3, Zenon
<1>9. Len(f \o g) = c - a
  BY <1>1, <1>5
<1>10. f \o g = h
  BY <1>1, <1>5, <1>8, <1>9, SeqEqual
<1> QED
  BY <1>10 DEF f, g, h

\* The bytes of a part of a sequence.
LEMMA SubSeqAt ==
  ASSUME NEW S, NEW s \in Seq(S), NEW m \in 1..(Len(s) + 1), NEW n \in (m - 1)..Len(s)
  PROVE  /\ SubSeq(s, m, n) \in Seq(S)
         /\ Len(SubSeq(s, m, n)) = n - m + 1
         /\ \A i \in 1..(n - m + 1) : SubSeq(s, m, n)[i] = s[m + i - 1]
OBVIOUS

\* A run that is cut is two runs.
LEMMA FileCut ==
  ASSUME NEW a \in Nat, NEW b \in Nat, a <= b, NEW k \in 0..(b - a)
  PROVE  /\ SubSeq(File(a, b), 1, k) = File(a, a + k)
         /\ SubSeq(File(a, b), k + 1, Len(File(a, b))) = File(a + k, b)
<1> DEFINE f == File(a, b)
           g == File(a, a + k)
           h == File(a + k, b)
<1>0. /\ a + k \in Nat /\ a <= a + k /\ a + k <= b
      /\ (a + k) - a = k /\ b - (a + k) = (b - a) - k
  OBVIOUS
<1>1. /\ f \in Seq(Nat) /\ Len(f) = b - a
      /\ g \in Seq(Nat) /\ Len(g) = k
      /\ h \in Seq(Nat) /\ Len(h) = (b - a) - k
  BY <1>0, FileLen
<1>2. \A i \in 1..(b - a) : f[i] = a + i - 1
  BY FileLen
<1>3. \A i \in 1..k : g[i] = a + i - 1
  BY <1>0, FileLen
<1>4. \A i \in 1..((b - a) - k) : h[i] = (a + k) + i - 1
  BY <1>0, FileLen
<1> HIDE DEF f, g, h
<1>5. SubSeq(f, 1, k) = g
  <2>1. SubSeq(f, 1, k) \in Seq(Nat) /\ Len(SubSeq(f, 1, k)) = k
    BY <1>1, SubSeqAt
  <2>2. \A i \in 1..k : SubSeq(f, 1, k)[i] = f[i]
    BY <1>1, SubSeqAt
  <2> DEFINE r == SubSeq(f, 1, k)
  <2>3. \A i \in 1..k : r[i] = g[i]
    BY <1>1, <1>2, <1>3, <2>2
  <2>4. r \in Seq(Nat) /\ Len(r) = Len(g)
    BY <1>1, <2>1
  <2> HIDE DEF r
  <2>5. r = g
    BY <1>1, <2>3, <2>4, SeqEqual
  <2> QED
    BY <2>5 DEF r
<1>6. SubSeq(f, k + 1, Len(f)) = h
  <2> DEFINE r == SubSeq(f, k + 1, Len(f))
  <2>1. r \in Seq(Nat) /\ Len(r) = (b - a) - k
    BY <1>1, SubSeqAt
  <2>2. \A i \in 1..((b - a) - k) : r[i] = f[k + i]
    BY <1>1, SubSeqAt
  <2>3. \A i \in 1..((b - a) - k) : r[i] = h[i]
    BY <1>1, <1>2, <1>4, <2>2
  <2> HIDE DEF r
  <2>4. r = h
    BY <1>1, <2>1, <2>3, SeqEqual
  <2> QED
    BY <2>4 DEF r
<1> QED
  BY <1>5, <1>6 DEF f, g, h

\* Least is the lesser of two numbers.
LEMMA LeastFacts ==
  ASSUME NEW m \in Nat, NEW n \in Nat
  PROVE  /\ Least(m, n) \in Nat /\ Least(m, n) <= m /\ Least(m, n) <= n
         /\ Least(m, n) = m \/ Least(m, n) = n
BY DEF Least

\* fread returns a run from its position on, never more than was asked for nor
\* what is behind the end of the file.
LEMMA ReadFacts ==
  ASSUME NEW p \in Nat, NEW n \in Nat, NEW z \in Nat
  PROVE  /\ Fread(p, n, z) \in Seq(Nat)
         /\ Len(Fread(p, n, z)) \in Nat /\ Len(Fread(p, n, z)) <= n
         /\ Fread(p, n, z) = File(p, p + Len(Fread(p, n, z)))
         /\ p <= z => p + Len(Fread(p, n, z)) <= z
<1> DEFINE e == Least(p + n, z)
           bytes == Fread(p, n, z)
<1>0. p + n \in Nat
  OBVIOUS
<1>1. e \in Nat /\ e <= p + n /\ e <= z
  BY <1>0, LeastFacts
<1>2. bytes = File(p, e)
  BY DEF Fread
<1> HIDE DEF e, bytes
<1>3. CASE p <= e
  <2>1. bytes \in Seq(Nat) /\ Len(bytes) = e - p
    BY <1>1, <1>2, <1>3, FileLen
  <2>2. p + Len(bytes) = e /\ Len(bytes) \in Nat /\ Len(bytes) <= n
    BY <1>1, <1>3, <2>1
  <2> QED
    BY <1>1, <1>2, <2>1, <2>2 DEF bytes
<1>4. CASE e <= p
  <2>1. bytes = <<>>
    BY <1>1, <1>2, <1>4, FileEmpty
  <2>2. File(p, p) = <<>>
    BY FileEmpty
  <2>a. <<>> \in Seq(Nat) /\ Len(<<>>) = 0
    OBVIOUS
  <2>3. Len(bytes) = 0 /\ bytes \in Seq(Nat)
    BY <2>1, <2>a, Zenon
  <2>4. p + Len(bytes) = p
    BY <2>3
  <2> QED
    BY <2>1, <2>2, <2>3, <2>4 DEF bytes
<1>5. p <= e \/ e <= p
  BY <1>1
<1> QED
  BY <1>3, <1>4, <1>5

\* The lengths of what is taken and of what is left.
LEMMA TakeFacts ==
  ASSUME NEW s \in Seq(Nat), NEW k \in 0..Len(s)
  PROVE  /\ SubSeq(s, 1, k) \in Seq(Nat) /\ Len(SubSeq(s, 1, k)) = k
         /\ SubSeq(s, k + 1, Len(s)) \in Seq(Nat)
         /\ Len(SubSeq(s, k + 1, Len(s))) = Len(s) - k
<1>1. /\ Len(s) \in Nat /\ k \in Nat
      /\ 1 \in 1..(Len(s) + 1) /\ k \in (1 - 1)..Len(s) /\ k - 1 + 1 = k
      /\ k + 1 \in 1..(Len(s) + 1) /\ Len(s) \in ((k + 1) - 1)..Len(s)
      /\ Len(s) - (k + 1) + 1 = Len(s) - k
  OBVIOUS
<1>2. SubSeq(s, 1, k) \in Seq(Nat) /\ Len(SubSeq(s, 1, k)) = k
  BY <1>1, SubSeqAt
<1>3. SubSeq(s, k + 1, Len(s)) \in Seq(Nat) /\ Len(SubSeq(s, k + 1, Len(s))) = Len(s) - k
  BY <1>1, SubSeqAt
<1> QED
  BY <1>2, <1>3

\* The sequence s has the bytes of the file from a on, without a gap.
Runs(s, a) == s = File(a, a + Len(s))

\* Nothing runs from anywhere.
LEMMA EmptyRuns ==
  ASSUME NEW a \in Nat
  PROVE  Runs(<<>>, a)
<1>1. File(a, a) = <<>> /\ Len(<<>>) = 0 /\ a + 0 = a
  BY FileEmpty
<1> QED
  BY <1>1 DEF Runs

\* A run of the file runs from its first byte.
LEMMA FileRuns ==
  ASSUME NEW a \in Nat, NEW n \in Nat
  PROVE  /\ File(a, a + n) \in Seq(Nat) /\ Len(File(a, a + n)) = n
         /\ Runs(File(a, a + n), a)
<1>1. a + n \in Nat /\ a <= a + n /\ (a + n) - a = n
  OBVIOUS
<1>2. File(a, a + n) \in Seq(Nat) /\ Len(File(a, a + n)) = n
  BY <1>1, FileLen
<1> QED
  BY <1>2 DEF Runs

\* What fread returns runs from its position.
LEMMA FreadRuns ==
  ASSUME NEW p \in Nat, NEW n \in Nat, NEW z \in Nat
  PROVE  Runs(Fread(p, n, z), p)
BY ReadFacts DEF Runs

\* A receiver that has the bytes up to b takes k of those that follow.
LEMMA RunExtend ==
  ASSUME NEW g \in Seq(Nat), NEW s \in Seq(Nat), NEW a \in Nat, NEW b \in Nat,
         Runs(g, a), Runs(s, b), b = a + Len(g), NEW k \in 0..Len(s)
  PROVE  /\ g \o SubSeq(s, 1, k) \in Seq(Nat)
         /\ Len(g \o SubSeq(s, 1, k)) = Len(g) + k
         /\ Runs(g \o SubSeq(s, 1, k), a)
<1> DEFINE c == b + Len(s)
           t == SubSeq(s, 1, k)
<1>1. /\ c \in Nat /\ b <= c /\ c - b = Len(s) /\ a <= b
      /\ b + k \in Nat /\ b <= b + k /\ a + (Len(g) + k) = b + k
      /\ k \in 0..(c - b)
  OBVIOUS
<1>2. t = File(b, b + k)
  <2>1. s = File(b, c)
    BY DEF Runs
  <2> HIDE DEF c
  <2>2. SubSeq(File(b, c), 1, k) = File(b, b + k)
    BY <1>1, FileCut, Zenon
  <2>3. SubSeq(s, 1, k) = SubSeq(File(b, c), 1, k)
    BY <2>1, Zenon
  <2> QED
    BY <2>2, <2>3, Zenon
<1>3. t \in Seq(Nat) /\ Len(t) = k
  BY TakeFacts
<1> HIDE DEF t
<1>4. g \o t \in Seq(Nat) /\ Len(g \o t) = Len(g) + k
  BY <1>3, ConcatAt
<1>5. g = File(a, b)
  BY DEF Runs
<1>6. File(a, b) \o File(b, b + k) = File(a, b + k)
  BY <1>1, FileConcat
<1>7. g \o t = File(a, b + k)
  BY <1>2, <1>5, <1>6, Zenon
<1>8. Runs(g \o t, a)
  BY <1>1, <1>4, <1>7 DEF Runs
<1> QED
  BY <1>4, <1>8 DEF t

\* What is left of a run once k bytes were taken from it.
LEMMA RunRest ==
  ASSUME NEW s \in Seq(Nat), NEW b \in Nat, Runs(s, b), NEW k \in 0..Len(s)
  PROVE  /\ SubSeq(s, k + 1, Len(s)) \in Seq(Nat)
         /\ Len(SubSeq(s, k + 1, Len(s))) = Len(s) - k
         /\ Runs(SubSeq(s, k + 1, Len(s)), b + k)
<1> DEFINE c == b + Len(s)
           t == SubSeq(s, k + 1, Len(s))
<1>1. /\ c \in Nat /\ b <= c /\ c - b = Len(s)
      /\ b + k \in Nat /\ (b + k) + (Len(s) - k) = c
      /\ k \in 0..(c - b)
  OBVIOUS
<1>2. s = File(b, c)
  BY DEF Runs
<1> HIDE DEF c
<1>3. SubSeq(File(b, c), k + 1, Len(File(b, c))) = File(b + k, c)
  BY <1>1, FileCut, Zenon
<1>4. t = SubSeq(File(b, c), k + 1, Len(File(b, c)))
  BY <1>2, Zenon
<1>5. t \in Seq(Nat) /\ Len(t) = Len(s) - k
  BY TakeFacts
<1> HIDE DEF t
<1>6. t = File(b + k, c)
  BY <1>3, <1>4, Zenon
<1>7. Runs(t, b + k)
  BY <1>1, <1>5, <1>6 DEF Runs
<1> QED
  BY <1>5, <1>7 DEF t

-----------------------------------------------------------------------------
(* Lengths. *)

\* The length that parseHeader computes from Content-Length is that of the file,
\* whatever the boundary and the header lines of the part (request.h:161-198).
THEOREM SurplusIsFile ==
  ASSUME NEW n \in Nat
  PROVE  fileLength(n) = n
BY TransferAssumption DEF fileLength, ContentLength

\* A range has a first byte, and is announced as no longer than the file.
LEMMA RangeFacts ==
  ASSUME job \in Jobs, size \in Sizes
  PROVE  /\ RangeFirst \in Nat /\ Start \in Nat
         /\ RangeLength \in Nat /\ RangeLength <= size
<1>1. job.header \in Headers
  BY DEF Jobs, Headers, NoRange, Sizes
<1>2. getRange(job.header, "first") \in Int /\ getRange(job.header, "last") \in Int
  BY <1>1, TransferAssumption DEF getRange, Headers, Sizes, Absent
<1>3. RangeFirst \in Nat
  BY <1>2 DEF RangeFirst
<1>4. size \in Nat
  BY TransferAssumption DEF Sizes
<1> DEFINE asked == IF RangeLast > 0 THEN RangeLast - RangeFirst + 1 ELSE size - RangeFirst
<1>5. asked \in Int
  BY <1>2, <1>3, <1>4 DEF RangeLast
<1>6. RangeLength = Least(asked % SizeT, size)
  BY DEF RangeLength
<1> HIDE DEF asked
<1>7. asked % SizeT \in Nat
  BY <1>5, TransferAssumption
<1>8. RangeLength \in Nat /\ RangeLength <= size
  BY <1>4, <1>6, <1>7, LeastFacts
<1> QED
  BY <1>3, <1>8 DEF Start

-----------------------------------------------------------------------------
(* The inductive invariant. *)

\* What has left the reader towards the receiver.
Out == Len(got) + Len(wire)

\* The reader of a file of web/ stands behind what was sent, as long as nothing was
\* lost, and what it has yet to read is what is yet to come of what was announced.
FileInv ==
  job.what = "file" =>
    /\ ~stray
    /\ phase \in {"route", "whole", "range", "done"}
    /\ phase = "route" => got = <<>>
    /\ phase \in {"whole", "range"} => Len(got) <= announced
    /\ phase \in {"whole", "range"} /\ browser = "up" => pos = Start + Len(got)
    /\ phase = "whole" => Start = 0 /\ announced = size /\ pos <= size
    /\ phase = "range" => left + pos = announced + Start

\* The bytes under way to the game server follow those it has stored, and while its
\* connection lasts the buffer follows those.
UploadInv ==
  job.what = "upload" =>
    /\ phase \in {"route", "read", "send", "ack", "done"}
    /\ phase = "route" => announced = None /\ pos = 0 /\ got = <<>> /\ wire = <<>>
    /\ Runs(wire, Len(got))
    /\ phase = "read" /\ link # "down" => pos = Out
    /\ phase = "send" /\ link # "down" /\ buffer # <<>> =>
         Runs(buffer, Out) /\ pos = Out + Len(buffer)
    /\ link # "down" => resent = 0

\* The bytes under way to the manager follow those that the browser got, and those
\* that viewfile has yet to read follow them.
ViewInv ==
  job.what = "view" =>
    /\ ~stray
    /\ phase \in {"route", "relay", "done"}
    /\ phase = "route" => got = <<>>
    /\ head < 0 => pos = 0 /\ wire = <<>> /\ got = <<>>
    /\ head >= 0 /\ gs = "open" => pos + left = head
    /\ phase # "done" => Runs(wire, Len(got))
    /\ phase # "done" /\ head >= 0 => Out <= head
    /\ phase # "done" /\ gs = "open" => pos = Out
    /\ phase = "relay" => announced = head /\ head >= 0

Inv == TypeOK /\ InOrder /\ FileInv /\ UploadInv /\ ViewInv

-----------------------------------------------------------------------------
(* Types. *)

\* The types at the start.
LEMMA InitType ==
  Init => TypeOK
<1> SUFFICES ASSUME Init PROVE TypeOK
  OBVIOUS
<1>1. size \in Sizes /\ <<>> \in Seq(Nat)
  BY DEF Init
<1> QED
  BY <1>1 DEF Init, TypeOK, None

\* A step of a file from web/ keeps the types.
LEMMA FileType ==
  ASSUME TypeOK, OutputFile \/ SendFile
  PROVE  TypeOK'
<1>0. size \in Nat /\ Chunk \in Nat /\ job \in Jobs
  BY TransferAssumption DEF TypeOK, Sizes
<1>1. CASE OutputFile
  <2>1. RangeFirst \in Nat /\ RangeLength \in Nat
    BY RangeFacts DEF TypeOK
  <2>2. announced' \in Nat /\ pos' \in Nat /\ left' \in Nat
    BY <1>0, <1>1, <2>1 DEF OutputFile
  <2>3. phase' \in {"whole", "range", "done"} /\ browser' \in {"up", "stalled", "down"}
    BY <1>1 DEF OutputFile, TypeOK
  <2> QED
    BY <1>1, <2>2, <2>3 DEF OutputFile, TypeOK, loopVars, peerVars
<1>2. CASE SendFile
  <2> DEFINE asked == IF phase = "whole" THEN Chunk ELSE Least(Chunk, left)
             bytes == Fread(pos, asked, size)
             count == Len(bytes)
  <2>1. asked \in Nat /\ (phase # "whole" => asked <= left)
    BY <1>0, LeastFacts DEF TypeOK
  <2>2. pos \in Nat /\ left \in Nat /\ got \in Seq(Nat)
    BY DEF TypeOK
  <2>3. PICK k \in Accepts(browser, count) :
          /\ pos' = pos + count
          /\ left' = IF phase = "range" THEN left - count ELSE left
          /\ got' = got \o SubSeq(bytes, 1, k)
          /\ browser' = After(browser, k, count)
          /\ phase' = IF count < asked \/ k = 0 THEN "done" ELSE phase
    BY <1>2 DEF SendFile
  <2> HIDE DEF asked
  <2>4. bytes \in Seq(Nat) /\ count \in Nat /\ count <= asked
    BY <1>0, <2>1, <2>2, ReadFacts
  <2> HIDE DEF bytes
  <2>5. k \in 0..count
    BY <2>4 DEF Accepts
  <2>6. SubSeq(bytes, 1, k) \in Seq(Nat)
    BY <2>4, <2>5, TakeFacts
  <2>7. got' \in Seq(Nat)
    BY <2>2, <2>3, <2>6, ConcatAt
  <2>8. pos' \in Nat /\ left' \in Nat
    BY <2>1, <2>2, <2>3, <2>4
  <2>9. browser' \in {"up", "stalled", "down"}
    BY <2>3 DEF After, TypeOK
  <2>10. phase' \in {"whole", "range", "done"}
    BY <1>2, <2>3 DEF SendFile
  <2> QED
    BY <1>2, <2>7, <2>8, <2>9, <2>10 DEF SendFile, TypeOK, loopVars, peerVars
<1> QED
  BY <1>1, <1>2

\* A step of an upload keeps the types.
LEMMA UploadType ==
  ASSUME TypeOK,
         \/ StartUpload \/ ReadUpload \/ SendUpload \/ AwaitOK
         \/ Store \/ StoreReset \/ StoreFails
  PROVE  TypeOK'
<1>0. size \in Nat /\ Chunk \in Nat /\ job \in Jobs /\ job.len \in Nat
  BY TransferAssumption DEF TypeOK, Sizes, Jobs
<1>1. CASE StartUpload
  <2>1. left' \in Nat /\ announced' \in Nat \cup {None}
    BY <1>0, <1>1, SurplusIsFile DEF StartUpload, Answer, TypeOK
  <2> QED
    BY <1>1, <2>1 DEF StartUpload, Answer, TypeOK, loopVars, peerVars
<1>2. CASE ReadUpload
  <2> DEFINE n == Least(Chunk, left)
  <2>1. n \in Nat /\ n <= left /\ left \in Nat /\ pos \in Nat /\ total \in Nat
    BY <1>0, LeastFacts DEF TypeOK
  <2>2. left' = left - n /\ total' = total + Len(buffer')
    BY <1>2 DEF ReadUpload
  <2>3. buffer' \in Seq(Nat) /\ pos' \in Nat /\ missed' \in BOOLEAN
    <3>1. CASE buffer' = File(pos, pos + n) /\ pos' = pos + n /\ UNCHANGED missed
      <4>1. pos + n \in Nat /\ pos <= pos + n
        BY <2>1
      <4>2. File(pos, pos + n) \in Seq(Nat)
        BY <2>1, <4>1, FileLen
      <4> QED
        BY <3>1, <4>1, <4>2 DEF TypeOK
    <3>2. CASE missed' = TRUE /\ buffer' = <<>> /\ \E k \in 0..(n - 1) : pos' = pos + k
      BY <2>1, <3>2
    <3>3. CASE buffer' = <<>> /\ UNCHANGED <<pos, missed>>
      BY <2>1, <3>3 DEF TypeOK
    <3> QED
      BY <1>2, <3>1, <3>2, <3>3 DEF ReadUpload
  <2>4. left' \in Nat /\ total' \in Nat
    BY <2>1, <2>2, <2>3
  <2> QED
    BY <1>2, <2>3, <2>4 DEF ReadUpload, TypeOK, peerVars
<1>3. CASE SendUpload
  <2>1. Len(buffer) \in Nat /\ buffer \in Seq(Nat) /\ wire \in Seq(Nat) /\ resent \in Nat
    BY DEF TypeOK
  <2>2. wire' \in Seq(Nat)
    <3>1. wire \o buffer \in Seq(Nat)
      BY <2>1, ConcatAt
    <3>2. \A k \in 1..(Len(buffer) - 1) : wire \o SubSeq(buffer, 1, k) \in Seq(Nat)
      <4> SUFFICES ASSUME NEW k \in 1..(Len(buffer) - 1)
                   PROVE  wire \o SubSeq(buffer, 1, k) \in Seq(Nat)
        OBVIOUS
      <4>1. k \in 0..Len(buffer)
        BY <2>1
      <4>2. SubSeq(buffer, 1, k) \in Seq(Nat)
        BY <2>1, <4>1, TakeFacts
      <4> QED
        BY <2>1, <4>2, ConcatAt
    <3> QED
      BY <1>3, <2>1, <3>1, <3>2 DEF SendUpload
  <2>3. resent' \in Nat
    <3>1. (resent - 1) % SizeT \in Nat
      BY <2>1, TransferAssumption
    <3> QED
      BY <1>3, <2>1, <3>1, SMTT(30) DEF SendUpload, EndRound
  <2>4. /\ link' \in {"up", "stalled", "down"}
        /\ phase' \in {"read", "ack", "send", "done"}
        /\ answer' \in {"none", "refused", "lost", "success", "failed"}
    BY <1>3 DEF SendUpload, EndRound, Answer, TypeOK
  <2> QED
    BY <1>3, <2>2, <2>3, <2>4 DEF SendUpload, TypeOK, readVars
<1>4. CASE AwaitOK
  BY <1>4 DEF AwaitOK, Answer, TypeOK, readVars, loopVars, peerVars
<1>5. CASE Store
  <2>1. got \in Seq(Nat) /\ wire \in Seq(Nat) /\ Len(wire) \in Nat /\ Len(got) \in Nat
    BY DEF TypeOK
  <2>2. announced \in Nat
    BY <1>5 DEF Store, TypeOK
  <2>3. got' \in Seq(Nat) /\ wire' \in Seq(Nat)
    <3>1. CASE UNCHANGED <<got, wire>>
      BY <2>1, <3>1
    <3>2. CASE Len(got) < announced /\
               \E k \in 1..Least(Len(wire), announced - Len(got)) :
                 /\ got' = got \o SubSeq(wire, 1, k)
                 /\ wire' = SubSeq(wire, k + 1, Len(wire))
      <4>1. PICK k \in 1..Least(Len(wire), announced - Len(got)) :
              /\ got' = got \o SubSeq(wire, 1, k)
              /\ wire' = SubSeq(wire, k + 1, Len(wire))
        BY <3>2
      <4>a. Len(got) < announced
        BY <3>2
      <4>2. announced - Len(got) \in Nat
        BY <2>1, <2>2, <4>a
      <4>b. /\ Least(Len(wire), announced - Len(got)) \in Nat
            /\ Least(Len(wire), announced - Len(got)) <= Len(wire)
        BY <2>1, <4>2, LeastFacts
      <4>3. k \in 0..Len(wire)
        BY <2>1, <4>b
      <4>4. SubSeq(wire, 1, k) \in Seq(Nat) /\ SubSeq(wire, k + 1, Len(wire)) \in Seq(Nat)
        BY <2>1, <4>3, TakeFacts
      <4> QED
        BY <2>1, <4>1, <4>4, ConcatAt
    <3> QED
      BY <1>5, <3>1, <3>2 DEF Store
  <2>4. gs' \in {"open", "said", "gone"}
    BY <1>5 DEF Store, TypeOK
  <2> QED
    BY <1>5, <2>3, <2>4 DEF Store, TypeOK, readVars, loopVars
<1>6. CASE StoreReset
  <2>1. got' \in Seq(Nat) /\ wire' \in Seq(Nat)
    <3>1. <<>> \in Seq(Nat) /\ <<Junk>> \in Seq(Nat) /\ got \in Seq(Nat)
      BY TransferAssumption DEF TypeOK, Junk
    <3>2. got' = got \o <<>> \/ got' = got \o <<Junk>>
      BY <1>6 DEF StoreReset
    <3>3. got \o <<>> \in Seq(Nat) /\ got \o <<Junk>> \in Seq(Nat)
      BY <3>1, ConcatAt
    <3>4. wire' = <<>>
      BY <1>6 DEF StoreReset
    <3> QED
      BY <3>1, <3>2, <3>3, <3>4
  <2>2. link' = "down" /\ stray' = TRUE
    BY <1>6 DEF StoreReset
  <2> QED
    BY <1>6, <2>1, <2>2 DEF StoreReset, TypeOK, readVars, loopVars
<1>7. CASE StoreFails
  BY <1>7 DEF StoreFails, TypeOK, readVars, loopVars
<1> QED
  BY <1>1, <1>2, <1>3, <1>4, <1>5, <1>6, <1>7

\* A step of a view keeps the types.
LEMMA ViewType ==
  ASSUME TypeOK, OpenFile \/ FeedFile \/ Resize \/ GetHead \/ Relay
  PROVE  TypeOK'
<1>0. size \in Nat /\ Chunk \in Nat /\ \A s \in Sizes : s \in Nat
  BY TransferAssumption DEF TypeOK, Sizes
<1>1. CASE OpenFile
  BY <1>0, <1>1 DEF OpenFile, TypeOK, loopVars
<1>2. CASE FeedFile
  <2> DEFINE asked == Least(Chunk, left)
             bytes == Fread(pos, asked, size)
             count == Len(bytes)
  <2>1. asked \in Nat /\ asked <= left
    BY <1>0, LeastFacts DEF TypeOK
  <2>2. pos \in Nat /\ left \in Nat /\ wire \in Seq(Nat)
    BY DEF TypeOK
  <2>3. PICK k \in Accepts(link, count) :
          /\ pos' = pos + count /\ left' = left - count
          /\ wire' = wire \o SubSeq(bytes, 1, k)
          /\ link' = After(link, k, count)
          /\ gs' = IF k < count THEN "gone"
                   ELSE IF count < asked \/ left - count = 0 THEN "said" ELSE "open"
    BY <1>2 DEF FeedFile
  <2> HIDE DEF asked
  <2>4. bytes \in Seq(Nat) /\ count \in Nat /\ count <= asked
    BY <1>0, <2>1, <2>2, ReadFacts
  <2> HIDE DEF bytes
  <2>5. k \in 0..count
    BY <2>4 DEF Accepts
  <2>6. SubSeq(bytes, 1, k) \in Seq(Nat)
    BY <2>4, <2>5, TakeFacts
  <2>7. wire' \in Seq(Nat)
    BY <2>2, <2>3, <2>6, ConcatAt
  <2>8. pos' \in Nat /\ left' \in Nat
    BY <2>1, <2>2, <2>3, <2>4, SMTT(30)
  <2>9. link' \in {"up", "stalled", "down"}
    BY <2>3 DEF After, TypeOK
  <2>10. gs' \in {"open", "said", "gone"}
    BY <2>3
  <2> QED
    BY <1>2, <2>7, <2>8, <2>9, <2>10 DEF FeedFile, TypeOK, loopVars
<1>3. CASE Resize
  BY <1>3 DEF Resize, TypeOK, readVars, loopVars, peerVars
<1>4. CASE GetHead
  <2>1. announced' \in Nat \cup {None}
    BY <1>4 DEF GetHead, TypeOK, None, Refused
  <2> QED
    BY <1>4, <2>1 DEF GetHead, Answer, TypeOK, readVars, loopVars, peerVars
<1>5. CASE Relay
  <2>1. got \in Seq(Nat) /\ wire \in Seq(Nat) /\ Len(wire) \in Nat /\ total \in Nat
    BY DEF TypeOK
  <2>2. /\ got' \in Seq(Nat) /\ wire' \in Seq(Nat) /\ total' \in Nat
        /\ browser' \in {"up", "stalled", "down"}
    <3>1. CASE UNCHANGED <<got, wire, browser, total>>
      BY <2>1, <3>1 DEF TypeOK
    <3>2. ASSUME NEW n \in 1..Least(Chunk, Len(wire)), NEW k \in Accepts(browser, n),
                 /\ got' = got \o SubSeq(wire, 1, k)
                 /\ wire' = SubSeq(wire, n + 1, Len(wire))
                 /\ browser' = After(browser, k, n)
                 /\ total' = total + k
          PROVE  <2>2!1 /\ <2>2!2
      <4>a. Least(Chunk, Len(wire)) \in Nat /\ Least(Chunk, Len(wire)) <= Len(wire)
        BY <1>0, <2>1, LeastFacts
      <4>1. n \in 0..Len(wire) /\ n \in Nat
        BY <2>1, <4>a
      <4>2. k \in 0..Len(wire) /\ k \in Nat
        BY <2>1, <4>1 DEF Accepts
      <4>3. SubSeq(wire, 1, k) \in Seq(Nat) /\ SubSeq(wire, n + 1, Len(wire)) \in Seq(Nat)
        BY <2>1, <4>1, <4>2, TakeFacts
      <4>4. got' \in Seq(Nat)
        BY <2>1, <3>2, <4>3, ConcatAt
      <4>5. browser' \in {"up", "stalled", "down"}
        BY <3>2 DEF After, TypeOK
      <4> QED
        BY <2>1, <3>2, <4>2, <4>3, <4>4, <4>5
    <3> QED
      BY <1>5, <3>1, <3>2 DEF Relay
  <2>3. phase' \in {"relay", "done"}
    BY <1>5 DEF Relay
  <2> QED
    BY <1>5, <2>2, <2>3 DEF Relay, TypeOK, readVars
<1> QED
  BY <1>1, <1>2, <1>3, <1>4, <1>5

\* Every step keeps the types.
LEMMA NextType ==
  TypeOK /\ [Next]_vars => TypeOK'
<1> SUFFICES ASSUME TypeOK, [Next]_vars PROVE TypeOK'
  OBVIOUS
<1>1. CASE Manager
  BY <1>1, FileType, UploadType, ViewType DEF Manager
<1>2. CASE GameServer
  BY <1>2, UploadType, ViewType DEF GameServer
<1>3. CASE Resize
  BY <1>3, ViewType
<1>4. CASE BrowserGone
  BY <1>4 DEF BrowserGone, TypeOK, readVars, loopVars, peerVars
<1>5. CASE GameServerGone
  BY <1>5 DEF GameServerGone, TypeOK, readVars, loopVars
<1>6. CASE Stall
  <2>1. browser' \in {"up", "stalled", "down"} /\ link' \in {"up", "stalled", "down"}
    BY <1>6 DEF Stall, TypeOK
  <2> QED
    BY <1>6, <2>1 DEF Stall, TypeOK, readVars, loopVars
<1>7. CASE UNCHANGED vars
  BY <1>7 DEF TypeOK, vars, readVars, loopVars, peerVars
<1> QED
  BY <1>1, <1>2, <1>3, <1>4, <1>5, <1>7, <1>6, UploadType DEF Next

\* Every variable keeps to its type: no count of a loop goes below zero.
THEOREM TypeCorrect ==
  Spec => []TypeOK
<1>1. Init => TypeOK
  BY InitType
<1>2. TypeOK /\ [Next]_vars => TypeOK'
  BY NextType
<1> QED
  BY <1>1, <1>2, PTL DEF Spec
-----------------------------------------------------------------------------
(* The invariant is one. *)

\* The first byte of a transfer is that of its request.
LEMMA SameStart ==
  ASSUME UNCHANGED job
  PROVE  Start' = Start
BY DEF Start, RangeFirst, getRange

\* The invariant at the start.
LEMMA InitInv ==
  Init => Inv
<1> SUFFICES ASSUME Init PROVE Inv
  OBVIOUS
<1>1. TypeOK
  BY InitType
<1>2. got = <<>> /\ wire = <<>> /\ pos = 0 /\ phase = "route" /\ resent = 0 /\ head = None
      /\ announced = None /\ ~stray
  BY DEF Init
<1>3. Len(<<>>) = 0
  OBVIOUS
<1>4. Len(got) = 0 /\ Len(wire) = 0
  BY <1>2, <1>3
<1>5. Start \in Nat
  BY <1>1, RangeFacts DEF TypeOK
<1>6. Start + Len(got) = Start /\ Out = 0
  BY <1>4, <1>5 DEF Out
<1>7. Runs(got, Start) /\ Runs(wire, Len(got))
  BY <1>2, <1>4, <1>5, EmptyRuns
<1>8. InOrder
  BY <1>2, <1>7 DEF InOrder, Runs
<1>9. FileInv
  BY <1>2 DEF FileInv
<1>10. UploadInv
  BY <1>2, <1>4, <1>6, <1>7 DEF UploadInv
<1>11. ViewInv
  BY <1>2, <1>4, <1>6, <1>7 DEF ViewInv, None
<1> QED
  BY <1>1, <1>8, <1>9, <1>10, <1>11 DEF Inv

\* The loops over a file of web/.
LEMMA FileKeeps ==
  ASSUME Inv, OutputFile \/ SendFile
  PROVE  InOrder' /\ FileInv' /\ UploadInv' /\ ViewInv'
<1>k. job.what \in {"file", "upload", "view"}
  BY DEF Inv, TypeOK, Jobs
<1>0. /\ TypeOK /\ InOrder /\ FileInv
      /\ job.what = "file" /\ job' = job /\ size' = size /\ ~stray /\ ~stray'
  BY <1>k DEF Inv, OutputFile, SendFile, FileInv, UploadInv, ViewInv, peerVars
<1>1. UploadInv' /\ ViewInv'
  BY <1>0 DEF UploadInv, ViewInv
<1>2. Start' = Start /\ Start \in Nat
  BY <1>0, SameStart, RangeFacts DEF TypeOK
<1>3. size \in Nat /\ Chunk \in Nat
  BY <1>0, TransferAssumption DEF TypeOK, Sizes
<1>4. got \in Seq(Nat) /\ Len(got) \in Nat /\ pos \in Nat /\ left \in Nat
  BY <1>0 DEF TypeOK
<1>5. CASE OutputFile
  <2>1. got = <<>> /\ got' = got
    BY <1>0, <1>5 DEF FileInv, OutputFile
  <2>2. Len(got) = 0
    BY <2>1
  <2>3. InOrder'
    BY <1>0, <1>2, <2>1 DEF InOrder
  <2>4. RangeFirst \in Nat /\ RangeLength \in Nat
    BY <1>0, RangeFacts DEF TypeOK
  <2>5. CASE job.header.range = "none"
    <3>1. /\ announced' = size /\ pos' = 0
          /\ phase' \in {"whole", "done"} /\ Start = 0
      BY <1>5, <2>5 DEF OutputFile, Start
    <3>2. /\ Len(got') <= announced' /\ pos' = Start' + Len(got')
          /\ Start' = 0 /\ announced' = size' /\ pos' <= size'
      BY <1>0, <1>2, <1>3, <2>1, <2>2, <3>1
    <3>3. phase' # "route" /\ phase' # "range"
      BY <3>1
    <3> QED
      BY <1>0, <1>1, <2>3, <3>1, <3>2, <3>3 DEF FileInv
  <2>6. CASE job.header.range # "none"
    <3>1. /\ announced' = RangeLength /\ pos' = RangeFirst /\ left' = RangeLength
          /\ phase' \in {"range", "done"} /\ Start = RangeFirst
      BY <1>0, <1>5, <2>6 DEF OutputFile, Start
    <3>2. /\ Len(got') <= announced' /\ pos' = Start' + Len(got')
          /\ left' + pos' = announced' + Start'
      BY <1>2, <1>3, <2>1, <2>2, <2>4, <3>1
    <3>3. phase' # "route" /\ phase' # "whole"
      BY <3>1
    <3> QED
      BY <1>0, <1>1, <2>3, <3>1, <3>2, <3>3 DEF FileInv
  <2> QED
    BY <1>1, <2>3, <2>5, <2>6
<1>6. CASE SendFile
  <2> DEFINE asked == IF phase = "whole" THEN Chunk ELSE Least(Chunk, left)
             bytes == Fread(pos, asked, size)
             count == Len(bytes)
  <2>1. asked \in Nat /\ (phase # "whole" => asked <= left)
    BY <1>3, <1>4, LeastFacts
  <2>2. PICK k \in Accepts(browser, count) :
          /\ pos' = pos + count
          /\ left' = IF phase = "range" THEN left - count ELSE left
          /\ got' = got \o SubSeq(bytes, 1, k)
          /\ browser' = After(browser, k, count)
          /\ phase' = IF count < asked \/ k = 0 THEN "done" ELSE phase
    BY <1>6 DEF SendFile
  <2>3. announced' = announced /\ phase \in {"whole", "range"}
    BY <1>6 DEF SendFile
  <2> HIDE DEF asked
  <2>4. /\ bytes \in Seq(Nat) /\ count \in Nat /\ count <= asked
        /\ Runs(bytes, pos)
        /\ pos <= size => pos + count <= size
    BY <1>3, <1>4, <2>1, ReadFacts, FreadRuns
  <2> HIDE DEF bytes
  <2>5. announced \in Nat /\ Len(got) <= announced
    <3>1. announced \in Int
      BY <1>0 DEF TypeOK, None
    <3>2. Len(got) <= announced
      BY <1>0, <2>3 DEF FileInv
    <3> QED
      BY <1>4, <3>1, <3>2
  <2>6. Runs(got, Start)
    BY <1>0 DEF InOrder, Runs
  <2>7. CASE browser # "up"
    <3>1. k = 0
      BY <2>2, <2>7 DEF Accepts
    <3>2. phase' = "done"
      BY <2>2, <3>1
    <3>3. SubSeq(bytes, 1, 0) = <<>> /\ got \o <<>> = got
      BY <1>4, <2>4
    <3>4. got' = got
      BY <2>2, <3>1, <3>3
    <3>5. InOrder'
      BY <1>0, <1>2, <2>3, <3>4 DEF InOrder
    <3>6. FileInv'
      BY <1>0, <3>2 DEF FileInv
    <3> QED
      BY <1>1, <3>5, <3>6
  <2>8. CASE browser = "up"
    <3>1. pos = Start + Len(got)
      BY <1>0, <2>3, <2>8 DEF FileInv
    <3>2. k \in 0..count
      BY <2>2, <2>8 DEF Accepts
    <3>3. Runs(got', Start) /\ Len(got') = Len(got) + k
      <4>1. k \in 0..Len(bytes)
        BY <3>2
      <4>2. got' = got \o SubSeq(bytes, 1, k)
        BY <2>2
      <4> QED
        BY <1>2, <1>4, <2>4, <2>6, <3>1, <4>1, <4>2, RunExtend
    <3>6. /\ phase = "whole" => Start = 0 /\ announced = size /\ pos <= size
          /\ phase = "range" => left + pos = announced + Start
      BY <1>0 DEF FileInv
    <3>7. Len(got') <= announced
      <4>1. CASE phase = "whole"
        BY <1>2, <1>3, <1>4, <2>4, <2>5, <3>1, <3>2, <3>3, <3>6, <4>1
      <4>2. CASE phase = "range"
        BY <1>2, <1>4, <2>1, <2>4, <2>5, <3>1, <3>2, <3>3, <3>6, <4>2
      <4> QED
        BY <2>3, <4>1, <4>2
    <3>8. InOrder'
      BY <1>2, <2>3, <3>3, <3>7 DEF InOrder, Runs
    <3>9. browser' = "up" => pos' = Start + Len(got')
      <4>1. browser' = "up" => k = count
        BY <2>2 DEF After
      <4>2. k = count => pos' = Start + Len(got')
        BY <1>2, <1>4, <2>2, <2>4, <3>1, <3>3
      <4> QED
        BY <4>1, <4>2
    <3>10. phase = "range" => left' + pos' = announced + Start
      <4> SUFFICES ASSUME phase = "range" PROVE left' + pos' = announced + Start
        OBVIOUS
      <4>1. left + pos = announced + Start /\ left' = left - count /\ pos' = pos + count
        BY <2>2, <3>6
      <4> QED
        BY <1>2, <1>4, <2>4, <2>5, <4>1
    <3>11. phase = "whole" => pos' <= size
      BY <1>3, <1>4, <2>2, <2>4, <3>6
    <3>12. phase' \in {phase, "done"}
      BY <2>2
    <3>13. FileInv'
      BY <1>0, <1>2, <2>3, <3>6, <3>7, <3>9, <3>10, <3>11, <3>12 DEF FileInv
    <3> QED
      BY <1>1, <3>8, <3>13
  <2> QED
    BY <2>7, <2>8
<1> QED
  BY <1>5, <1>6

\* The loops of fileUpload and acceptFile.
LEMMA UploadKeeps ==
  ASSUME Inv,
         \/ StartUpload \/ ReadUpload \/ SendUpload \/ AwaitOK
         \/ Store \/ StoreReset \/ StoreFails
  PROVE  InOrder' /\ FileInv' /\ UploadInv' /\ ViewInv'
<1>k. job.what \in {"file", "upload", "view"}
  BY DEF Inv, TypeOK, Jobs
<1>0. /\ TypeOK /\ InOrder /\ UploadInv
      /\ job.what = "upload" /\ job' = job /\ size' = size
  BY <1>k DEF Inv, StartUpload, ReadUpload, SendUpload, AwaitOK, Store, StoreReset,
              StoreFails, FileInv, UploadInv, ViewInv
<1>1. FileInv' /\ ViewInv'
  BY <1>0 DEF FileInv, ViewInv
<1>2. Start' = Start /\ Start = 0
  BY <1>0, SameStart DEF Start
<1>3. /\ got \in Seq(Nat) /\ Len(got) \in Nat /\ wire \in Seq(Nat) /\ Len(wire) \in Nat
      /\ buffer \in Seq(Nat) /\ Len(buffer) \in Nat
      /\ pos \in Nat /\ left \in Nat /\ Out \in Nat
  BY <1>0 DEF TypeOK, Out
<1>4. (~stray => Runs(got, 0)) /\ Runs(wire, Len(got))
  BY <1>0, <1>2 DEF InOrder, Runs, UploadInv
<1>5. CASE StartUpload
  <2>1. got = <<>> /\ wire = <<>> /\ pos = 0
    BY <1>0, <1>5 DEF UploadInv, StartUpload
  <2>2. UNCHANGED <<got, wire, pos, link, resent, stray>> /\ phase' \in {"done", "read"}
    BY <1>5 DEF StartUpload, Answer, loopVars, peerVars
  <2>3. InOrder'
    BY <1>0, <1>2, <2>1, <2>2 DEF InOrder
  <2>4. Out = 0 /\ Out' = 0
    BY <2>1, <2>2 DEF Out
  <2>5. UploadInv'
    BY <1>0, <1>4, <2>1, <2>2, <2>4 DEF UploadInv
  <2> QED
    BY <1>1, <2>3, <2>5
<1>6. CASE ReadUpload
  <2> DEFINE n == Least(Chunk, left)
  <2>1. n \in Nat
    BY <1>3, LeastFacts, TransferAssumption
  <2>2. /\ UNCHANGED <<got, wire, link, resent, announced, stray>> /\ phase' = "send"
        /\ phase = "read"
    BY <1>6 DEF ReadUpload, peerVars
  <2>3. InOrder' /\ Out' = Out
    BY <1>0, <1>2, <2>2 DEF InOrder, Out
  <2>4. link # "down" /\ buffer' # <<>> => Runs(buffer', Out) /\ pos' = Out + Len(buffer')
    <3> SUFFICES ASSUME link # "down", buffer' # <<>>
                 PROVE  Runs(buffer', Out) /\ pos' = Out + Len(buffer')
      OBVIOUS
    <3>1. buffer' = File(pos, pos + n) /\ pos' = pos + n
      BY <1>6 DEF ReadUpload
    <3>2. pos = Out
      BY <1>0, <2>2 DEF UploadInv
    <3> HIDE DEF n
    <3>3. Len(buffer') = n /\ Runs(buffer', pos)
      BY <1>3, <2>1, <3>1, FileRuns
    <3> QED
      BY <3>1, <3>2, <3>3
  <2>5. UploadInv'
    BY <1>0, <1>4, <2>2, <2>3, <2>4 DEF UploadInv
  <2> QED
    BY <1>1, <2>3, <2>5
<1>7. CASE SendUpload
  <2>1. UNCHANGED <<got, pos, buffer, announced, stray>> /\ phase = "send"
    BY <1>7 DEF SendUpload, readVars
  <2>2. InOrder'
    BY <1>0, <1>2, <2>1 DEF InOrder
  <2>3. ASSUME link = "up", buffer # <<>>, NEW k \in 0..Len(buffer),
               wire' = wire \o SubSeq(buffer, 1, k)
        PROVE  Runs(wire', Len(got)) /\ Out' = Out + k
    <3>1. Runs(buffer, Out)
      BY <1>0, <2>1, <2>3 DEF UploadInv
    <3>2. Len(wire') = Len(wire) + k /\ Runs(wire', Len(got))
      BY <1>3, <1>4, <2>3, <3>1, RunExtend DEF Out
    <3> QED
      BY <1>3, <2>1, <3>2 DEF Out
  <2>4. CASE /\ link = "up" /\ Len(buffer) > 0
             /\ wire' = wire \o buffer
             /\ EndRound /\ UNCHANGED <<link, answer>>
    <3>1. buffer # <<>> /\ Len(buffer) \in 0..Len(buffer)
          /\ SubSeq(buffer, 1, Len(buffer)) = buffer
      BY <1>3, <2>4
    <3>2. Runs(wire', Len(got)) /\ Out' = Out + Len(buffer)
      BY <2>3, <2>4, <3>1
    <3>3. pos = Out + Len(buffer)
      BY <1>0, <2>1, <2>4, <3>1 DEF UploadInv
    <3>4. phase' \in {"read", "ack"} /\ resent' = 0
      BY <2>4 DEF EndRound
    <3>5. UploadInv'
      BY <1>0, <2>1, <3>2, <3>3, <3>4 DEF UploadInv
    <3> QED
      BY <1>1, <2>2, <3>5
  <2>5. CASE link = "up" /\ Answer("lost") /\ UNCHANGED <<wire, link, resent>>
    <3>1. phase' = "done"
      BY <2>5 DEF Answer
    <3>2. UploadInv'
      BY <1>0, <1>4, <2>1, <2>5, <3>1 DEF UploadInv
    <3> QED
      BY <1>1, <2>2, <3>2
  <2>6. CASE /\ link = "up" /\ link' = "down"
             /\ \E k \in 1..(Len(buffer) - 1) :
                  wire' = wire \o SubSeq(buffer, 1, k) /\ resent' = k
             /\ UNCHANGED <<phase, answer>>
    <3>1. PICK k \in 1..(Len(buffer) - 1) : wire' = wire \o SubSeq(buffer, 1, k)
      BY <2>6
    <3>2. k \in 0..Len(buffer) /\ buffer # <<>>
      BY <1>3, <3>1
    <3>3. Runs(wire', Len(got))
      BY <2>3, <2>6, <3>1, <3>2
    <3>4. phase' = "send" /\ link' = "down"
      BY <2>1, <2>6
    <3>5. UploadInv'
      BY <1>0, <2>1, <3>3, <3>4 DEF UploadInv
    <3> QED
      BY <1>1, <2>2, <3>5
  <2>7. CASE /\ link' = "down"
             /\ IF (resent - 1) % SizeT >= Len(buffer) THEN EndRound
                ELSE resent' = (resent - 1) % SizeT /\ UNCHANGED phase
             /\ UNCHANGED <<wire, answer>>
    <3>1. phase' \in {"read", "ack", "send"} /\ link' = "down" /\ wire' = wire
      BY <2>1, <2>7 DEF EndRound
    <3>2. UploadInv'
      BY <1>0, <1>4, <2>1, <3>1 DEF UploadInv
    <3> QED
      BY <1>1, <2>2, <3>2
  <2> QED
    BY <1>7, <2>4, <2>5, <2>6, <2>7 DEF SendUpload
<1>8. CASE AwaitOK
  <2>1. /\ UNCHANGED <<got, wire, pos, buffer, link, resent, announced, stray>>
        /\ phase' = "done"
    BY <1>8 DEF AwaitOK, Answer, readVars, loopVars, peerVars
  <2>2. InOrder'
    BY <1>0, <1>2, <2>1 DEF InOrder
  <2>3. UploadInv'
    BY <1>0, <1>4, <2>1 DEF UploadInv
  <2> QED
    BY <1>1, <2>2, <2>3
<1>9. CASE Store
  <2>1. /\ announced # None /\ ~stray
        /\ UNCHANGED <<announced, pos, buffer, phase, link, resent, stray>>
    BY <1>9 DEF Store, readVars, loopVars
  <2>2. announced \in Nat /\ phase # "route"
    BY <1>0, <2>1 DEF TypeOK, UploadInv
  <2>3. CASE UNCHANGED <<got, wire>>
    <3>1. InOrder'
      BY <1>0, <1>2, <2>1, <2>3 DEF InOrder
    <3>2. UploadInv' <=> UploadInv
      BY <1>0, <2>1, <2>3 DEF UploadInv, Out
    <3> QED
      BY <1>0, <1>1, <3>1, <3>2
  <2>4. CASE /\ Len(got) < announced
             /\ \E k \in 1..Least(Len(wire), announced - Len(got)) :
                  /\ got' = got \o SubSeq(wire, 1, k)
                  /\ wire' = SubSeq(wire, k + 1, Len(wire))
    <3>1. PICK k \in 1..Least(Len(wire), announced - Len(got)) :
            /\ got' = got \o SubSeq(wire, 1, k)
            /\ wire' = SubSeq(wire, k + 1, Len(wire))
      BY <2>4
    <3>2. Len(got) < announced /\ announced - Len(got) \in Nat
      BY <1>3, <2>2, <2>4
    <3>3. k \in 0..Len(wire) /\ Len(got) + k <= announced
      <4>1. /\ Least(Len(wire), announced - Len(got)) \in Nat
            /\ Least(Len(wire), announced - Len(got)) <= Len(wire)
            /\ Least(Len(wire), announced - Len(got)) <= announced - Len(got)
        BY <1>3, <3>2, LeastFacts
      <4> QED
        BY <1>3, <2>2, <4>1
    <3>4. Runs(got', 0) /\ Len(got') = Len(got) + k
      BY <1>3, <1>4, <2>1, <3>1, <3>3, RunExtend
    <3>5. Runs(wire', Len(got')) /\ Len(wire') = Len(wire) - k
      BY <1>3, <1>4, <3>1, <3>3, <3>4, RunRest
    <3>6. Out' = Out
      BY <1>3, <3>3, <3>4, <3>5 DEF Out
    <3>7. InOrder'
      BY <1>2, <2>1, <3>3, <3>4 DEF InOrder, Runs
    <3>8. UploadInv'
      BY <1>0, <2>1, <2>2, <3>5, <3>6 DEF UploadInv
    <3> QED
      BY <1>1, <3>7, <3>8
  <2> QED
    BY <1>9, <2>3, <2>4 DEF Store
<1>10. CASE StoreReset
  <2>1. /\ announced # None /\ UNCHANGED <<announced, phase>>
        /\ stray' = TRUE /\ link' = "down" /\ wire' = <<>>
    BY <1>10 DEF StoreReset
  <2>2. phase # "route"
    BY <1>0, <2>1 DEF UploadInv
  <2>3. Len(got') \in Nat
    BY <1>0, <1>10, UploadType DEF TypeOK
  <2>4. Runs(wire', Len(got'))
    BY <2>1, <2>3, EmptyRuns
  <2>5. UploadInv'
    BY <1>0, <2>1, <2>2, <2>4 DEF UploadInv
  <2>6. InOrder'
    BY <2>1 DEF InOrder
  <2> QED
    BY <1>1, <2>5, <2>6
<1>11. CASE StoreFails
  <2>1. stray' /\ UNCHANGED <<announced, phase, pos, buffer, wire, link, resent, got>>
    BY <1>11 DEF StoreFails, readVars, loopVars
  <2>2. UploadInv'
    BY <1>0, <2>1 DEF UploadInv, Out
  <2>3. InOrder'
    BY <2>1 DEF InOrder
  <2> QED
    BY <1>1, <2>2, <2>3
<1> QED
  BY <1>0, <1>5, <1>6, <1>7, <1>8, <1>9, <1>10, <1>11

\* The loops of viewfile and getfile.
LEMMA ViewKeeps ==
  ASSUME Inv, OpenFile \/ FeedFile \/ Resize \/ GetHead \/ Relay
  PROVE  InOrder' /\ FileInv' /\ UploadInv' /\ ViewInv'
<1>k. job.what \in {"file", "upload", "view"}
  BY DEF Inv, TypeOK, Jobs
<1>0. /\ TypeOK /\ InOrder /\ ViewInv
      /\ job.what = "view" /\ job' = job /\ ~stray /\ ~stray'
  BY <1>k DEF Inv, OpenFile, FeedFile, Resize, GetHead, Relay, FileInv, UploadInv, ViewInv,
              peerVars
<1>1. FileInv' /\ UploadInv'
  BY <1>0 DEF FileInv, UploadInv
<1>2. Start' = Start /\ Start = 0
  BY <1>0, SameStart DEF Start
<1>3. /\ got \in Seq(Nat) /\ Len(got) \in Nat /\ wire \in Seq(Nat) /\ Len(wire) \in Nat
      /\ pos \in Nat /\ left \in Nat /\ Out \in Nat
      /\ size \in Nat /\ Chunk \in Nat /\ head \in Int
  BY <1>0, TransferAssumption DEF TypeOK, Out, Sizes, None, Refused
<1>4. Runs(got, 0)
  BY <1>0, <1>2 DEF InOrder, Runs
<1>5. CASE OpenFile
  <2>1. /\ head = None /\ UNCHANGED <<got, wire, pos, phase, announced>>
        /\ gs = "open"
    BY <1>5 DEF OpenFile, loopVars
  <2>2. pos = 0 /\ wire = <<>> /\ got = <<>> /\ phase # "relay"
    BY <1>0, <2>1 DEF ViewInv, None
  <2>3. InOrder'
    BY <1>0, <1>2, <2>1 DEF InOrder
  <2>4. Out = 0 /\ Out' = 0 /\ Runs(wire', Len(got')) /\ pos' = 0
    <3>1. Len(got) = 0 /\ Len(wire) = 0
      BY <2>2
    <3> QED
      BY <2>1, <2>2, <3>1, EmptyRuns DEF Out
  <2>5. head' < 0 \/ head' = left'
    BY <1>5, <2>1 DEF OpenFile, None, Refused
  <2>6. head' \in Int /\ left' \in Nat
    BY <1>3, <1>5 DEF OpenFile, Refused
  <2>7. head' >= 0 => pos' + left' = head' /\ Out' <= head'
    <3> SUFFICES ASSUME head' >= 0 PROVE pos' + left' = head' /\ Out' <= head'
      OBVIOUS
    <3>1. Out' = 0 /\ pos' = 0
      BY <2>4
    <3>2. head' = left'
      <4>1. ~(head' < 0)
        BY <2>6
      <4> QED
        BY <2>5, <4>1
    <3>3. left' \in Nat
      BY <2>6
    <3>4. \A n \in Nat : 0 + n = n /\ 0 <= n
      OBVIOUS
    <3>5. pos' + left' = head' /\ Out' <= head'
      BY <3>1, <3>2, <3>3, <3>4, Zenon
    <3> QED
      BY <3>5, Zenon
  <2>8. ViewInv'
    BY <1>0, <2>1, <2>2, <2>4, <2>7 DEF ViewInv
  <2> QED
    BY <1>1, <2>3, <2>8
<1>6. CASE FeedFile
  <2> DEFINE asked == Least(Chunk, left)
             bytes == Fread(pos, asked, size)
             count == Len(bytes)
  <2>1. asked \in Nat /\ asked <= left
    BY <1>3, LeastFacts
  <2>2. PICK k \in Accepts(link, count) :
          /\ pos' = pos + count /\ left' = left - count
          /\ wire' = wire \o SubSeq(bytes, 1, k)
          /\ gs' = IF k < count THEN "gone"
                   ELSE IF count < asked \/ left - count = 0 THEN "said" ELSE "open"
    BY <1>6 DEF FeedFile
  <2>3. /\ UNCHANGED <<got, phase, announced, head>>
        /\ gs = "open" /\ head >= 0
    BY <1>6 DEF FeedFile
  <2> HIDE DEF asked
  <2>4. bytes \in Seq(Nat) /\ count \in Nat /\ count <= asked /\ Runs(bytes, pos)
    BY <1>3, <2>1, ReadFacts, FreadRuns
  <2> HIDE DEF bytes
  <2>5. k \in 0..count
    BY <2>2, <2>4 DEF Accepts
  <2>6. InOrder'
    BY <1>0, <1>2, <2>3 DEF InOrder
  <2>7. pos + left = head /\ pos' + left' = head'
    <3>1. pos + left = head /\ head' = head
      BY <1>0, <2>3 DEF ViewInv
    <3>2. pos' = pos + count /\ left' = left - count
      BY <2>2
    <3>3. pos \in Nat /\ left \in Nat /\ count \in Nat
      BY <1>3, <2>4
    <3> HIDE DEF count
    <3> QED
      BY ONLY <3>1, <3>2, <3>3
  <2>8. ASSUME phase # "done"
        PROVE  /\ Runs(wire', Len(got')) /\ Out' <= head'
               /\ gs' = "open" => pos' = Out'
    <3>1. pos = Out /\ Runs(wire, Len(got))
      BY <1>0, <2>3, <2>8 DEF ViewInv
    <3>2. Len(wire') = Len(wire) + k /\ Runs(wire', Len(got))
      <4>1. k \in 0..Len(bytes)
        BY <2>5
      <4> QED
        BY <1>3, <2>2, <2>4, <3>1, <4>1, RunExtend DEF Out
    <3>3. Out' = pos + k
      BY <1>3, <2>3, <2>5, <3>1, <3>2 DEF Out
    <3>4. Out' <= head'
      BY <1>3, <2>1, <2>3, <2>4, <2>5, <2>7, <3>3
    <3>5. gs' = "open" => k = count
      BY <2>2, <2>4, <2>5
    <3>6. gs' = "open" => pos' = Out'
      BY <2>2, <3>3, <3>5
    <3>7. Runs(wire', Len(got'))
      BY <2>3, <3>2
    <3> QED
      BY <3>4, <3>6, <3>7
  <2>9. head' >= 0 /\ phase' = phase
    BY <2>3
  <2>10. phase = "route" => got = <<>>
    BY <1>0 DEF ViewInv
  <2>11. phase \in {"route", "relay", "done"} /\ (phase = "relay" => announced = head)
    BY <1>0 DEF ViewInv
  <2>12. ViewInv'
    <3>1. ~(head' < 0)
      BY <1>3, <2>3
    <3> QED
      BY <1>0, <2>3, <2>7, <2>8, <2>9, <2>10, <2>11, <3>1 DEF ViewInv
  <2> QED
    BY <1>1, <2>6, <2>12
<1>7. CASE Resize
  <2>1. UNCHANGED <<got, wire, pos, left, phase, announced, head, gs>>
    BY <1>7 DEF Resize, readVars, peerVars
  <2>2. InOrder'
    BY <1>0, <1>2, <2>1 DEF InOrder
  <2>3. ViewInv'
    BY <1>0, <2>1 DEF ViewInv, Out
  <2> QED
    BY <1>1, <2>2, <2>3
<1>8. CASE GetHead
  <2>1. UNCHANGED <<got, wire, pos, left, head, gs>> /\ phase = "route"
    BY <1>8 DEF GetHead, readVars, peerVars
  <2>2. phase' = "done" \/ (phase' = "relay" /\ announced' = head /\ head >= 0)
    BY <1>8 DEF GetHead, Answer
  <2>3. got = <<>>
    BY <1>0, <2>1 DEF ViewInv
  <2>4. InOrder'
    BY <1>0, <1>2, <2>1, <2>3 DEF InOrder
  <2>5. ViewInv'
    BY <1>0, <2>1, <2>2 DEF ViewInv, Out
  <2> QED
    BY <1>1, <2>4, <2>5
<1>9. CASE Relay
  <2>1. /\ UNCHANGED <<announced, pos, left, head, gs>> /\ phase = "relay"
    BY <1>9 DEF Relay, readVars
  <2>2. /\ announced = head /\ head >= 0 /\ Runs(wire, Len(got)) /\ Out <= head
        /\ gs = "open" => pos = Out /\ pos + left = head
    BY <1>0, <2>1 DEF ViewInv
  <2>a. ~(head < 0) /\ ~(head' < 0)
    BY <1>3, <2>1, <2>2
  <2>b. gs' = "open" => pos' + left' = head'
    BY <2>1, <2>2
  <2>3. CASE phase' = "done" /\ UNCHANGED <<got, wire, browser, total>>
    <3>1. InOrder'
      BY <1>0, <1>2, <2>1, <2>3 DEF InOrder
    <3>2. ViewInv'
      BY <1>0, <2>1, <2>2, <2>3 DEF ViewInv
    <3> QED
      BY <1>1, <3>1, <3>2
  <2>4. ASSUME NEW n \in 1..Least(Chunk, Len(wire)), NEW k \in Accepts(browser, n),
               /\ got' = got \o SubSeq(wire, 1, k)
               /\ wire' = SubSeq(wire, n + 1, Len(wire))
               /\ phase' = IF k < n \/ total' >= announced THEN "done" ELSE phase
        PROVE  InOrder' /\ ViewInv'
    <3>1. n \in 0..Len(wire)
      <4>1. Least(Chunk, Len(wire)) \in Nat /\ Least(Chunk, Len(wire)) <= Len(wire)
        BY <1>3, LeastFacts
      <4> QED
        BY <1>3, <4>1
    <3>2. k \in 0..n /\ k \in 0..Len(wire)
      BY <1>3, <3>1 DEF Accepts
    <3>3. Runs(got', 0) /\ Len(got') = Len(got) + k
      BY <1>3, <1>4, <2>2, <2>4, <3>2, RunExtend
    <3>4. Len(got') <= Out /\ Len(got') <= announced
      BY <1>3, <2>2, <3>2, <3>3 DEF Out
    <3>5. InOrder'
      BY <1>2, <2>1, <3>3, <3>4 DEF InOrder, Runs
    <3>6. CASE phase' = "done"
      <4>1. phase' # "route" /\ phase' # "relay" /\ ~stray'
        BY <1>0, <3>6
      <4>2. ViewInv'
        BY <2>a, <2>b, <3>6, <4>1 DEF ViewInv
      <4> QED
        BY <3>5, <4>2
    <3>7. CASE phase' # "done"
      <4>1. k = n /\ phase' = "relay"
        BY <2>1, <2>4, <3>1, <3>2, <3>7
      <4>2. Runs(wire', Len(got')) /\ Len(wire') = Len(wire) - k
        BY <1>3, <2>2, <2>4, <3>1, <3>3, <4>1, RunRest
      <4>3. Out' = Out
        BY <1>3, <3>2, <3>3, <4>2 DEF Out
      <4>4. Out' <= head' /\ announced' = head' /\ head' >= 0
        BY <2>1, <2>2, <4>3
      <4>5. gs' = "open" => pos' = Out'
        BY <2>1, <2>2, <4>3
      <4>6. Runs(wire', Len(got'))
        BY <4>2
      <4>7. ViewInv'
        BY <1>0, <2>a, <2>b, <4>1, <4>4, <4>5, <4>6 DEF ViewInv
      <4> QED
        BY <3>5, <4>7
    <3> QED
      BY <3>5, <3>6, <3>7
  <2> QED
    BY <1>1, <1>9, <2>3, <2>4 DEF Relay
<1> QED
  BY <1>5, <1>6, <1>7, <1>8, <1>9

\* A connection that breaks, a peer that stands still, and a step that changes nothing.
LEMMA RestKeeps ==
  ASSUME Inv, BrowserGone \/ GameServerGone \/ Stall \/ UNCHANGED vars
  PROVE  InOrder' /\ FileInv' /\ UploadInv' /\ ViewInv'
<1>1. /\ TypeOK /\ InOrder /\ FileInv /\ UploadInv /\ ViewInv
      /\ UNCHANGED <<job, size, phase, pos, left, buffer, announced, head, wire, got, resent,
                     stray>>
  BY DEF Inv, BrowserGone, GameServerGone, Stall, vars, readVars, loopVars, peerVars
<1>2. Start' = Start /\ Out' = Out
  BY <1>1, SameStart DEF Out
<1>3. InOrder'
  BY <1>1, <1>2 DEF InOrder
<1>4. CASE BrowserGone
  <2>1. browser' = "down" /\ UNCHANGED <<link, gs>>
    BY <1>4 DEF BrowserGone, peerVars
  <2>2. FileInv' /\ UploadInv' /\ ViewInv'
    BY <1>1, <1>2, <2>1 DEF FileInv, UploadInv, ViewInv
  <2> QED
    BY <1>3, <2>2
<1>5. CASE GameServerGone
  <2>1. gs' = "gone" /\ link' = "down" /\ UNCHANGED browser
    BY <1>5 DEF GameServerGone
  <2>2. FileInv' /\ UploadInv' /\ ViewInv'
    BY <1>1, <1>2, <2>1 DEF FileInv, UploadInv, ViewInv
  <2> QED
    BY <1>3, <2>2
<1>6. CASE UNCHANGED vars
  <2>1. UNCHANGED <<browser, link, gs>>
    BY <1>6 DEF vars, peerVars
  <2>2. FileInv' /\ UploadInv' /\ ViewInv'
    BY <1>1, <1>2, <2>1 DEF FileInv, UploadInv, ViewInv
  <2> QED
    BY <1>3, <2>2
<1>7. CASE Stall
  <2>1. /\ browser' = "up" => browser = "up"
        /\ link' # "down" => link # "down"
        /\ gs' = gs
    BY <1>7 DEF Stall
  <2>2. FileInv' /\ UploadInv' /\ ViewInv'
    BY <1>1, <1>2, <2>1 DEF FileInv, UploadInv, ViewInv
  <2> QED
    BY <1>3, <2>2
<1> QED
  BY <1>4, <1>5, <1>6, <1>7

\* Every step keeps the invariant.
LEMMA NextInv ==
  Inv /\ [Next]_vars => Inv'
<1> SUFFICES ASSUME Inv, [Next]_vars PROVE Inv'
  OBVIOUS
<1>1. TypeOK'
  BY NextType DEF Inv
<1>2. InOrder' /\ FileInv' /\ UploadInv' /\ ViewInv'
  <2>1. CASE OutputFile \/ SendFile
    BY <2>1, FileKeeps
  <2>2. CASE \/ StartUpload \/ ReadUpload \/ SendUpload \/ AwaitOK
             \/ Store \/ StoreReset \/ StoreFails
    BY <2>2, UploadKeeps
  <2>3. CASE OpenFile \/ FeedFile \/ Resize \/ GetHead \/ Relay
    BY <2>3, ViewKeeps
  <2>4. CASE BrowserGone \/ GameServerGone \/ Stall \/ UNCHANGED vars
    BY <2>4, RestKeeps
  <2> QED
    BY <2>1, <2>2, <2>3, <2>4 DEF Next, Manager, GameServer
<1> QED
  BY <1>1, <1>2 DEF Inv

\* However the loops of outputFile, fileUpload and acceptFile, viewfile and getfile
\* interleave with connections that break or whose peer stands still, reads that fail and
\* a file that changes, the receiver has the bytes of the file in order and without a gap,
\* unless acceptFile took the -1 of a reset for a length.
THEOREM FilesInOrder ==
  Spec => []InOrder
<1>1. Init => Inv
  BY InitInv
<1>2. Inv /\ [Next]_vars => Inv'
  BY NextInv
<1>3. Inv => InOrder
  BY DEF Inv
<1> QED
  BY <1>1, <1>2, <1>3, PTL DEF Spec

-----------------------------------------------------------------------------
(* How transfers end. *)

\* A loop over a file of web/ ends, with its browser there, at the end of what was
\* announced or at the end of the file.
FileEnds ==
  job.what = "file" =>
    /\ phase # "route" =>
         announced = IF job.header.range = "none" THEN size ELSE RangeLength
    /\ phase = "whole" => job.header.range = "none"
    /\ phase = "range" => job.header.range # "none"
    /\ phase # "route" /\ browser = "up" /\ Start <= size => Start + Len(got) <= size
    /\ phase = "done" /\ browser = "up" /\ Start <= size =>
         Len(got) = announced \/ Start + Len(got) = size

\* fileUpload counts what it has read, so that it has text to send in every round
\* as long as no read failed and the body is as long as was said; and acceptFile
\* says OK when it has stored what it was told.
UploadEnds ==
  job.what = "upload" =>
    /\ announced \in {None, job.len}
    /\ gs = "said" => Len(got) = job.len
    /\ phase = "route" => total = 0 /\ ~missed
    /\ phase \in {"read", "send"} /\ ~missed => pos + left = size /\ total = pos
    /\ phase = "read" => total < job.len
    /\ phase = "send" /\ ~missed /\ job.len <= size => buffer # <<>>
    /\ phase = "done" =>
         \/ answer = "refused" /\ size = 0
         \/ answer = "lost" /\ (missed \/ job.len > size)
         \/ answer = "success" /\ (gs = "said" \/ link = "down")

\* viewfile has sent all that it announced when it is through with a file that did
\* not become shorter, and getfile counts what the browser got.
ViewEnds ==
  job.what = "view" =>
    /\ gs = "gone" => link = "down"
    /\ head >= 0 /\ ~shrunk => head <= size
    /\ phase = "route" => announced = None /\ total = 0
    /\ phase = "relay" /\ browser = "up" => total = Len(got)
    /\ phase # "done" /\ gs = "said" /\ head >= 0 /\ link = "up" /\ ~shrunk => Out = head
    /\ phase = "done" /\ browser = "up" /\ link = "up" /\ ~shrunk /\ announced # None =>
         Len(got) = announced

Ends == FileEnds /\ UploadEnds /\ ViewEnds

\* There are three kinds of transfers.
LEMMA JobKinds ==
  ASSUME TypeOK
  PROVE  job.what \in {"file", "upload", "view"}
BY DEF TypeOK, Jobs

\* At the start nothing was transferred.
LEMMA InitEnds ==
  Init => Ends
<1> SUFFICES ASSUME Init PROVE Ends
  OBVIOUS
<1>1. /\ phase = "route" /\ announced = None /\ gs = "open" /\ head = None
      /\ total = 0 /\ missed = FALSE
  BY DEF Init
<1> QED
  BY <1>1 DEF Ends, FileEnds, UploadEnds, ViewEnds, None

\* What fread returns is short at the end of the file only.
LEMMA ShortRead ==
  ASSUME NEW p \in Nat, NEW n \in Nat, NEW z \in Nat, p <= z,
         Len(Fread(p, n, z)) < n
  PROVE  p + Len(Fread(p, n, z)) = z
<1>1. Least(p + n, z) \in Nat /\ p <= Least(p + n, z)
  BY DEF Least
<1>2. Len(Fread(p, n, z)) = Least(p + n, z) - p
  BY <1>1, FileLen DEF Fread
<1>3. Least(p + n, z) = p + n \/ Least(p + n, z) = z
  BY DEF Least
<1> QED
  BY <1>1, <1>2, <1>3

\* The length of a range depends on the request and the file only.
LEMMA SameLength ==
  ASSUME UNCHANGED <<job, size>>
  PROVE  RangeLength' = RangeLength
BY DEF RangeLength, RangeFirst, RangeLast, getRange

\* The loops over a file of web/ stop at what was announced or at the end of the file.
LEMMA FileEndsStep ==
  ASSUME Inv, FileEnds, OutputFile \/ SendFile
  PROVE  FileEnds'
<1>0. /\ TypeOK /\ TypeOK' /\ FileInv /\ InOrder
      /\ UNCHANGED <<job, size>>
  BY FileType DEF Inv, OutputFile, SendFile
<1> SUFFICES ASSUME job.what = "file" PROVE FileEnds'
  BY <1>0 DEF FileEnds
<1>1. Start' = Start /\ RangeLength' = RangeLength /\ Start \in Nat
  BY <1>0, SameStart, SameLength, RangeFacts DEF TypeOK
<1>2. /\ got \in Seq(Nat) /\ Len(got) \in Nat /\ pos \in Nat /\ left \in Nat
      /\ size \in Nat /\ Chunk \in Nat \ {0} /\ announced \in Int
  BY <1>0, TransferAssumption DEF TypeOK, Sizes, None
<1>3. CASE OutputFile
  <2>1. got' = got /\ got = <<>> /\ Len(got) = 0
    BY <1>0, <1>3 DEF OutputFile, FileInv
  <2>2. announced' = IF job.header.range = "none" THEN size ELSE RangeLength
    BY <1>3 DEF OutputFile
  <2>3. /\ phase' = "done" => browser' = "down"
        /\ phase' = "whole" => job.header.range = "none"
        /\ phase' = "range" => job.header.range # "none"
    BY <1>3 DEF OutputFile
  <2>4. Start <= size => Start + Len(got') <= size
    BY <1>1, <1>2, <2>1
  <2> QED
    BY <1>0, <1>1, <2>2, <2>3, <2>4 DEF FileEnds
<1>4. CASE SendFile
  <2> DEFINE asked == IF phase = "whole" THEN Chunk ELSE Least(Chunk, left)
             bytes == Fread(pos, asked, size)
             count == Len(bytes)
  <2>0. phase \in {"whole", "range"} /\ announced' = announced
    BY <1>4 DEF SendFile
  <2>b. phase = "range" => asked = Least(Chunk, left)
    OBVIOUS
  <2>c. phase = "whole" => asked = Chunk
    OBVIOUS
  <2>1. asked \in Nat /\ (phase = "whole" => asked > 0)
    <3> HIDE DEF asked
    <3>a. Chunk \in Nat /\ left \in Nat /\ Chunk > 0
      BY <1>2
    <3>1. Least(Chunk, left) \in Nat
      BY <3>a, LeastFacts
    <3> QED
      BY <2>0, <2>b, <2>c, <3>a, <3>1
  <2>2. PICK k \in Accepts(browser, count) :
          /\ pos' = pos + count
          /\ got' = got \o SubSeq(bytes, 1, k)
          /\ browser' = After(browser, k, count)
          /\ phase' = IF count < asked \/ k = 0 THEN "done" ELSE phase
    BY <1>4 DEF SendFile
  <2>a. phase = "range" => (asked = 0 => left = 0)
    BY <1>2, <2>b DEF Least
  <2> HIDE DEF asked
  <2>3. bytes \in Seq(Nat) /\ count \in Nat /\ count <= asked
    BY <1>2, <2>1, ReadFacts
  <2>4. pos <= size => pos + count <= size /\ (count < asked => pos + count = size)
    BY <1>2, <2>1, ReadFacts, ShortRead
  <2> HIDE DEF bytes
  <2>5. k \in 0..Len(bytes)
    BY <2>3 DEF Accepts
  <2>6. Len(got') = Len(got) + k
    <3>1. SubSeq(bytes, 1, k) \in Seq(Nat) /\ Len(SubSeq(bytes, 1, k)) = k
      BY <2>3, <2>5, TakeFacts
    <3> QED
      BY <1>2, <2>2, <3>1, ConcatAt
  <2>7. announced = IF job.header.range = "none" THEN size ELSE RangeLength
    BY <2>0 DEF FileEnds
  <2>8. phase' \in {phase, "done"}
    BY <2>2
  <2>9. ASSUME browser' = "up", Start <= size
        PROVE  /\ Start + Len(got') <= size
               /\ phase' = "done" => Len(got') = announced \/ Start + Len(got') = size
    <3>1. browser = "up" /\ k = count
      BY <2>2, <2>9 DEF After
    <3>2. pos = Start + Len(got) /\ Start + Len(got) <= size
      BY <1>0, <2>0, <2>9, <3>1 DEF FileInv, FileEnds
    <3>3. Start + Len(got') = pos + count
      BY <1>1, <1>2, <2>3, <2>6, <3>1, <3>2
    <3>4. pos <= size /\ Start + Len(got') <= size
      BY <2>4, <3>2, <3>3
    <3>5. ASSUME phase' = "done", ~(count < asked)
          PROVE  Len(got') = announced
      <4>1. k = 0 /\ count = 0 /\ asked = 0
        BY <2>0, <2>1, <2>2, <2>3, <3>1, <3>5
      <4>2. phase = "range" /\ left = 0
        BY <2>0, <2>1, <2>a, <4>1
      <4>3. left + pos = announced + Start
        BY <1>0, <4>2 DEF FileInv
      <4> QED
        BY <1>1, <1>2, <2>6, <3>2, <4>1, <4>2, <4>3
    <3> QED
      BY <2>4, <3>3, <3>4, <3>5
  <2> QED
    BY <1>0, <1>1, <2>0, <2>7, <2>8, <2>9 DEF FileEnds
<1> QED
  BY <1>3, <1>4

\* What fileUpload reads and sends, and what acceptFile stores.
LEMMA UploadEndsStep ==
  ASSUME Inv, UploadEnds,
         \/ StartUpload \/ ReadUpload \/ SendUpload \/ AwaitOK
         \/ Store \/ StoreReset \/ StoreFails
  PROVE  UploadEnds'
<1>0. /\ TypeOK /\ TypeOK' /\ UploadInv
      /\ UNCHANGED <<job, size>>
  BY UploadType DEF Inv, StartUpload, ReadUpload, SendUpload, AwaitOK, Store, StoreReset,
                    StoreFails
<1> SUFFICES ASSUME job.what = "upload" PROVE UploadEnds'
  BY <1>0 DEF UploadEnds
<1>1. /\ size \in Nat /\ Chunk \in Nat \ {0} /\ job.len \in Nat \ {0}
      /\ pos \in Nat /\ left \in Nat /\ total \in Nat
      /\ Len(got) \in Nat /\ Len(buffer) \in Nat /\ missed \in BOOLEAN
  <2>1. job.len \in Sizes \ {0}
    BY <1>0 DEF TypeOK, Jobs
  <2>2. \A s \in Sizes : s \in Nat
    BY TransferAssumption DEF Sizes
  <2> QED
    BY <1>0, <2>1, <2>2, TransferAssumption DEF TypeOK
<1>2. /\ announced \in {None, job.len}
      /\ gs = "said" => Len(got) = job.len
      /\ phase = "read" => total < job.len
      /\ phase \in {"read", "send"} /\ ~missed => pos + left = size /\ total = pos
  BY DEF UploadEnds
<1>3. CASE StartUpload
  <2>1. /\ UNCHANGED <<got, gs, pos, total, missed>>
        /\ phase = "route" /\ pos = 0 /\ total = 0 /\ ~missed
    BY <1>0, <1>3 DEF StartUpload, loopVars, peerVars, UploadInv, UploadEnds
  <2>2. CASE size = 0 /\ Answer("refused") /\ UNCHANGED <<announced, left>>
    BY <1>0, <1>2, <2>1, <2>2 DEF Answer, UploadEnds
  <2>3. CASE left' = fileLength(size) /\ announced' = job.len /\ phase' = "read"
    <3>1. left' = size
      BY <1>1, <2>3, SurplusIsFile
    <3>2. pos' + left' = size' /\ total' = pos' /\ total' < job'.len
      BY <1>0, <1>1, <2>1, <3>1
    <3> QED
      BY <1>0, <1>2, <2>1, <2>3, <3>2 DEF UploadEnds
  <2> QED
    BY <1>3, <2>2, <2>3 DEF StartUpload
<1>4. CASE ReadUpload
  <2> DEFINE n == Least(Chunk, left)
  <2>1. n \in Nat /\ n <= left /\ (left > 0 => n > 0)
    BY <1>1, LeastFacts DEF Least
  <2>2. /\ UNCHANGED <<announced, got, gs>> /\ phase = "read" /\ phase' = "send"
        /\ left' = left - n /\ total' = total + Len(buffer')
    BY <1>4 DEF ReadUpload, peerVars
  <2>3. ASSUME ~missed'
        PROVE  /\ pos' + left' = size /\ total' = pos'
               /\ job.len <= size => buffer' # <<>>
    <3>1. CASE n > 0 /\ buffer' = File(pos, pos + n) /\ pos' = pos + n /\ UNCHANGED missed
      <4> HIDE DEF n
      <4>1. Len(buffer') = n /\ buffer' \in Seq(Nat)
        BY <1>1, <2>1, <3>1, FileRuns
      <4>2. buffer' # <<>>
        BY <3>1, <4>1
      <4> QED
        BY <1>1, <1>2, <2>1, <2>2, <2>3, <3>1, <4>1, <4>2
    <3>2. CASE n = 0 /\ buffer' = <<>> /\ UNCHANGED <<pos, missed>>
      <4>1. left = 0 /\ Len(buffer') = 0
        BY <1>1, <2>1, <3>2
      <4>2. pos = size /\ total = size /\ total < job.len
        BY <1>1, <1>2, <2>2, <2>3, <3>2, <4>1
      <4> QED
        BY <1>1, <2>1, <2>2, <3>2, <4>1, <4>2
    <3> QED
      BY <1>4, <2>3, <3>1, <3>2 DEF ReadUpload
  <2> QED
    BY <1>0, <1>2, <2>2, <2>3 DEF UploadEnds
<1>5. CASE SendUpload
  <2>1. /\ UNCHANGED <<announced, got, gs, pos, left, total, buffer, missed>>
        /\ phase = "send"
    BY <1>5 DEF SendUpload, readVars
  <2>2. CASE phase' = IF total < job.len THEN "read" ELSE "ack"
    BY <1>0, <1>2, <2>1, <2>2 DEF UploadEnds
  <2>3. CASE Len(buffer) = 0 /\ Answer("lost")
    <3>1. buffer = <<>>
      BY <1>0, <2>3 DEF TypeOK
    <3>2. missed \/ job.len > size
      BY <1>1, <2>1, <3>1 DEF UploadEnds
    <3> QED
      BY <1>0, <1>2, <2>1, <2>3, <3>2 DEF UploadEnds, Answer
  <2>4. CASE phase' = phase
    BY <1>0, <1>2, <2>1, <2>4 DEF UploadEnds
  <2> QED
    BY <1>5, <2>2, <2>3, <2>4 DEF SendUpload, EndRound
<1>6. CASE AwaitOK
  <2>1. /\ UNCHANGED <<announced, got, gs, link>>
        /\ phase' = "done" /\ answer' = "success" /\ (gs = "said" \/ link = "down")
    BY <1>6 DEF AwaitOK, Answer, peerVars
  <2> QED
    BY <1>0, <1>2, <2>1 DEF UploadEnds
<1>7. CASE Store
  <2>1. /\ UNCHANGED <<announced, phase, pos, left, total, missed, buffer, answer, link>>
        /\ gs = "open" /\ announced # None
        /\ gs' = "said" => Len(got') = announced
    BY <1>7 DEF Store, readVars, loopVars
  <2> QED
    BY <1>0, <1>2, <2>1 DEF UploadEnds
<1>8. CASE StoreReset \/ StoreFails
  <2>1. /\ UNCHANGED <<announced, phase, pos, left, total, missed, buffer, answer>>
        /\ gs = "open" /\ gs' # "said" /\ (link = "down" => link' = "down")
    BY <1>8 DEF StoreReset, StoreFails, readVars, loopVars
  <2> QED
    BY <1>0, <1>2, <2>1 DEF UploadEnds
<1> QED
  BY <1>3, <1>4, <1>5, <1>6, <1>7, <1>8

\* What viewfile sends, and what getfile hands on.
LEMMA ViewEndsStep ==
  ASSUME Inv, ViewEnds, OpenFile \/ FeedFile \/ Resize \/ GetHead \/ Relay
  PROVE  ViewEnds'
<1>0. /\ TypeOK /\ TypeOK' /\ ViewInv
      /\ job' = job
  BY ViewType DEF Inv, OpenFile, FeedFile, Resize, GetHead, Relay
<1> SUFFICES ASSUME job.what = "view" PROVE ViewEnds'
  BY <1>0 DEF ViewEnds
<1>1. /\ size \in Nat /\ Chunk \in Nat \ {0} /\ head \in Int /\ total \in Nat
      /\ pos \in Nat /\ left \in Nat /\ got \in Seq(Nat) /\ wire \in Seq(Nat)
      /\ Len(got) \in Nat /\ Len(wire) \in Nat /\ Out \in Nat /\ shrunk \in BOOLEAN
  BY <1>0, TransferAssumption DEF TypeOK, Sizes, None, Refused, Out
<1>2. /\ gs = "gone" => link = "down"
      /\ head >= 0 /\ ~shrunk => head <= size
      /\ phase = "route" => announced = None /\ total = 0
      /\ phase = "relay" /\ browser = "up" => total = Len(got)
      /\ phase # "done" /\ gs = "said" /\ head >= 0 /\ link = "up" /\ ~shrunk => Out = head
  BY DEF ViewEnds
<1>3. CASE OpenFile
  <2>1. /\ UNCHANGED <<size, phase, announced, total, link, got, wire, browser, shrunk>>
        /\ head = None /\ gs = "open"
    BY <1>3 DEF OpenFile, loopVars
  <2>2. Out' = 0 /\ head < 0
    <3>1. got = <<>> /\ wire = <<>>
      BY <1>0, <2>1 DEF ViewInv, None
    <3> QED
      BY <2>1, <3>1 DEF Out, None
  <2>3. gs' = "gone" => link' = "down"
    BY <1>3 DEF OpenFile
  <2>4. head' >= 0 => head' = size /\ (gs' = "said" => size = 0)
    BY <1>1, <1>3, <2>1 DEF OpenFile, None, Refused
  <2>5. head' >= 0 => head' <= size' /\ (gs' = "said" => Out' = head')
    BY <1>1, <2>1, <2>2, <2>4
  <2> QED
    BY <1>0, <1>2, <2>1, <2>3, <2>5 DEF ViewEnds
<1>4. CASE FeedFile
  <2> DEFINE asked == Least(Chunk, left)
             bytes == Fread(pos, asked, size)
             count == Len(bytes)
  <2>1. /\ UNCHANGED <<size, phase, announced, head, total, got, browser, shrunk>>
        /\ gs = "open" /\ head >= 0
    BY <1>4 DEF FeedFile, loopVars
  <2>2. PICK k \in Accepts(link, count) :
          /\ left' = left - count
          /\ wire' = wire \o SubSeq(bytes, 1, k)
          /\ link' = After(link, k, count)
          /\ gs' = IF k < count THEN "gone"
                   ELSE IF count < asked \/ left - count = 0 THEN "said" ELSE "open"
    BY <1>4 DEF FeedFile
  <2>3. asked \in Nat /\ asked <= left
    BY <1>1, LeastFacts
  <2> HIDE DEF asked
  <2>4. bytes \in Seq(Nat) /\ count \in Nat /\ count <= asked
    BY <1>1, <2>3, ReadFacts
  <2>5. pos <= size /\ count < asked => pos + count = size
    BY <1>1, <2>3, ShortRead
  <2> HIDE DEF bytes
  <2>6. k \in 0..Len(bytes) /\ k \in Nat
    BY <2>4 DEF Accepts
  <2>7. Out' = Out + k
    <3>1. SubSeq(bytes, 1, k) \in Seq(Nat) /\ Len(SubSeq(bytes, 1, k)) = k
      BY <2>4, <2>6, TakeFacts
    <3>2. Len(wire') = Len(wire) + k
      BY <1>1, <2>2, <3>1, ConcatAt
    <3> QED
      BY <1>1, <2>1, <2>6, <3>2 DEF Out
  <2>8. gs' = "gone" => link' = "down"
    <3>1. gs' = "gone" => k < count
      BY <2>2
    <3> QED
      BY <2>2, <2>4, <2>6, <3>1 DEF After
  <2>9. ASSUME phase # "done", gs' = "said", ~shrunk
        PROVE  Out' = head
    <3>a. k < count => gs' = "gone"
      BY <2>2, <2>4, <2>6
    <3>1. k = count
      BY <2>4, <2>6, <2>9, <3>a
    <3>2. pos = Out /\ pos + left = head /\ head <= size
      BY <1>0, <1>2, <2>1, <2>9 DEF ViewInv
    <3>3. ~(count < asked)
      BY <1>1, <2>3, <2>4, <2>5, <3>2
    <3>4. left - count = 0
      BY <2>2, <2>9, <3>1, <3>3
    <3> QED
      BY <1>1, <2>4, <2>7, <3>1, <3>2, <3>4
  <2>10. link' = "up" => link = "up"
    BY <2>2 DEF After
  <2>11. /\ head' >= 0 /\ ~shrunk' => head' <= size'
         /\ phase' = "route" => announced' = None /\ total' = 0
         /\ phase' = "relay" /\ browser' = "up" => total' = Len(got')
         /\ phase' # "done" /\ gs' = "said" /\ ~shrunk' => Out' = head'
    BY <1>2, <2>1, <2>9
  <2>12. phase' = "done" /\ browser' = "up" /\ link' = "up" /\ ~shrunk' /\ announced' # None =>
           Len(got') = announced'
    BY <2>1, <2>10 DEF ViewEnds
  <2> QED
    BY <1>0, <2>8, <2>11, <2>12 DEF ViewEnds
<1>5. CASE Resize
  <2>1. /\ UNCHANGED <<phase, announced, total, head, link, gs, got, wire, browser>>
        /\ size' \in Nat /\ shrunk' = (shrunk \/ size' < size)
    BY <1>5, TransferAssumption DEF Resize, loopVars, peerVars, Sizes
  <2>2. Out' = Out
    BY <2>1 DEF Out
  <2>3. ~shrunk' => ~shrunk /\ size <= size'
    <3>1. ~shrunk' => ~shrunk /\ ~(size' < size)
      BY <2>1, Zenon
    <3>2. ~(size' < size) => size <= size'
      BY <1>1, <2>1
    <3> QED
      BY <3>1, <3>2, Zenon
  <2>4. head' >= 0 /\ ~shrunk' => head' <= size'
    BY <1>1, <1>2, <2>1, <2>3
  <2> QED
    BY <1>0, <1>2, <2>1, <2>2, <2>3, <2>4 DEF ViewEnds
<1>6. CASE GetHead
  <2>1. /\ UNCHANGED <<size, total, head, link, gs, got, wire, shrunk>>
        /\ phase = "route" /\ got = <<>> /\ total = 0
    BY <1>0, <1>2, <1>6 DEF GetHead, loopVars, peerVars, ViewInv
  <2>2. Len(got) = 0 /\ Out' = Out
    BY <2>1 DEF Out
  <2>3. \/ phase' = "done" /\ announced' = None
        \/ phase' = "done" /\ announced' = 0
        \/ phase' = "relay"
    BY <1>2, <1>6 DEF GetHead, Answer
  <2> QED
    BY <1>0, <1>2, <2>1, <2>2, <2>3 DEF ViewEnds
<1>7. CASE Relay
  <2>1. /\ UNCHANGED <<size, announced, head, link, gs, shrunk>> /\ phase = "relay"
        /\ announced = head /\ head >= 0 /\ Out <= head
    BY <1>0, <1>7 DEF Relay, ViewInv
  <2>2. CASE /\ link = "down" \/ (gs # "open" /\ wire = <<>>)
             /\ phase' = "done" /\ UNCHANGED <<got, wire, browser, total>>
    <3>1. ASSUME link = "up", ~shrunk PROVE Len(got) = announced
      <4>1. gs = "said" /\ wire = <<>>
        BY <1>0, <1>2, <2>2, <3>1 DEF TypeOK
      <4>2. Out = head /\ Len(wire) = 0
        BY <1>2, <2>1, <3>1, <4>1
      <4> QED
        BY <1>1, <2>1, <4>2 DEF Out
    <3> QED
      BY <1>0, <1>2, <2>1, <2>2, <3>1 DEF ViewEnds
  <2>3. ASSUME NEW n \in 1..Least(Chunk, Len(wire)), NEW k \in Accepts(browser, n),
               /\ got' = got \o SubSeq(wire, 1, k)
               /\ wire' = SubSeq(wire, n + 1, Len(wire))
               /\ browser' = After(browser, k, n)
               /\ total' = total + k
               /\ phase' = IF k < n \/ total' >= announced THEN "done" ELSE phase
        PROVE  ViewEnds'
    <3>1. n \in 1..Len(wire) /\ n \in Nat
      <4>1. Least(Chunk, Len(wire)) \in Nat /\ Least(Chunk, Len(wire)) <= Len(wire)
        BY <1>1, LeastFacts
      <4> QED
        BY <1>1, <4>1
    <3>2. k \in 0..n /\ k \in 0..Len(wire) /\ k \in Nat /\ n \in 0..Len(wire)
      BY <1>1, <3>1 DEF Accepts
    <3>3. Len(got') = Len(got) + k
      <4>1. SubSeq(wire, 1, k) \in Seq(Nat) /\ Len(SubSeq(wire, 1, k)) = k
        BY <1>1, <3>2, TakeFacts
      <4> QED
        BY <1>1, <2>3, <4>1, ConcatAt
    <3>4. browser' = "up" => browser = "up" /\ k = n
      BY <2>3 DEF After
    <3>5. browser' = "up" => total' = Len(got')
      BY <1>2, <2>1, <2>3, <3>3, <3>4
    <3>6. browser' = "up" /\ phase' = "done" => Len(got') = announced
      <4> SUFFICES ASSUME browser' = "up", phase' = "done" PROVE Len(got') = announced
        OBVIOUS
      <4>1. ~(k < n) /\ total' = Len(got')
        BY <3>1, <3>2, <3>4, <3>5
      <4>2. total' >= announced
        BY <2>1, <2>3, <4>1
      <4>3. Len(got') <= Out /\ Len(got') \in Nat
        BY <1>1, <3>2, <3>3 DEF Out
      <4>4. announced \in Int /\ Out <= announced
        BY <1>1, <2>1
      <4>5. Len(got') >= announced
        BY <4>1, <4>2
      <4> HIDE DEF Out
      <4> QED
        BY ONLY <1>1, <4>3, <4>4, <4>5
    <3>7. phase' # "done" => Out' = Out
      <4> SUFFICES ASSUME phase' # "done" PROVE Out' = Out
        OBVIOUS
      <4>1. k = n
        BY <2>3, <3>1, <3>2
      <4>2. Len(wire') = Len(wire) - n
        BY <1>1, <2>3, <3>2, TakeFacts
      <4> QED
        BY <1>1, <3>1, <3>3, <4>1, <4>2 DEF Out
    <3>8. phase' \in {"relay", "done"}
      BY <2>1, <2>3
    <3> QED
      BY <1>0, <1>2, <2>1, <3>5, <3>6, <3>7, <3>8 DEF ViewEnds
  <2> QED
    BY <1>7, <2>2, <2>3 DEF Relay
<1> QED
  BY <1>3, <1>4, <1>5, <1>6, <1>7

\* A connection that breaks, a peer that stands still, and a step that changes nothing.
LEMMA RestEnds ==
  ASSUME Ends, BrowserGone \/ GameServerGone \/ Stall \/ UNCHANGED vars
  PROVE  Ends'
<1>1. UNCHANGED <<job, size, phase, pos, left, buffer, total, missed, announced, head, wire,
                  got, answer, shrunk>>
  BY DEF BrowserGone, GameServerGone, Stall, vars, readVars, loopVars, peerVars
<1>2. /\ Start' = Start /\ RangeLength' = RangeLength /\ Out' = Out
  BY <1>1, SameStart, SameLength DEF Out
<1>3. /\ browser' = "up" => browser = "up"
      /\ link' = "up" => link = "up"
      /\ gs' \in {gs, "gone"} /\ (gs' = gs \/ link' = "down")
      /\ gs' # gs => gs = "open"
      /\ link = "down" => link' = "down"
  BY DEF BrowserGone, GameServerGone, Stall, vars, peerVars
<1>4. FileEnds'
  BY <1>1, <1>2, <1>3 DEF Ends, FileEnds
<1>5. UploadEnds'
  BY <1>1, <1>3 DEF Ends, UploadEnds
<1>6. ViewEnds'
  BY <1>1, <1>2, <1>3 DEF Ends, ViewEnds
<1> QED
  BY <1>4, <1>5, <1>6 DEF Ends

\* Every step keeps what is said of the ends.
LEMMA NextEnds ==
  Inv /\ Ends /\ [Next]_vars => Ends'
<1> SUFFICES ASSUME Inv, Ends, [Next]_vars PROVE Ends'
  OBVIOUS
<1>0. FileEnds /\ UploadEnds /\ ViewEnds /\ job.what \in {"file", "upload", "view"}
  BY JobKinds DEF Ends, Inv
<1>1. CASE OutputFile \/ SendFile
  <2>1. job' = job /\ job.what = "file"
    BY <1>0, <1>1 DEF OutputFile, SendFile, Inv, UploadInv, ViewInv
  <2> QED
    BY <1>0, <1>1, <2>1, FileEndsStep DEF Ends, UploadEnds, ViewEnds
<1>2. CASE \/ StartUpload \/ ReadUpload \/ SendUpload \/ AwaitOK
           \/ Store \/ StoreReset \/ StoreFails
  <2>1. job' = job /\ job.what = "upload"
    BY <1>0, <1>2 DEF StartUpload, ReadUpload, SendUpload, AwaitOK, Store, StoreReset,
                      StoreFails, Inv, FileInv, ViewInv
  <2> QED
    BY <1>0, <1>2, <2>1, UploadEndsStep DEF Ends, FileEnds, ViewEnds
<1>3. CASE OpenFile \/ FeedFile \/ Resize \/ GetHead \/ Relay
  <2>1. job' = job /\ job.what = "view"
    BY <1>0, <1>3 DEF OpenFile, FeedFile, Resize, GetHead, Relay, Inv, FileInv, UploadInv
  <2> QED
    BY <1>0, <1>3, <2>1, ViewEndsStep DEF Ends, FileEnds, UploadEnds
<1>4. CASE BrowserGone \/ GameServerGone \/ Stall \/ UNCHANGED vars
  BY <1>4, RestEnds
<1> QED
  BY <1>1, <1>2, <1>3, <1>4 DEF Next, Manager, GameServer

\* A range that can be served is that of its first byte to its last, or to the end
\* of the file: the size_t of outputFile does not wrap for it.
LEMMA RangeServed ==
  ASSUME TypeOK, Satisfiable
  PROVE  /\ RangeFirst = job.header.first /\ RangeFirst <= size
         /\ job.header.last = Absent => RangeLength = size - RangeFirst
         /\ job.header.last # Absent => RangeLength = Least(job.header.last - RangeFirst + 1, size)
<1> DEFINE h == job.header
<1>1. h \in Headers
  BY DEF TypeOK, Jobs, Headers, NoRange, Sizes
<1>2. /\ h.range = "bytes" /\ h.first \in Nat /\ h.first < size /\ size \in Nat /\ size <= MaxSize
      /\ MaxSize \in Nat
      /\ h.last = Absent \/ (h.last \in Nat /\ h.last <= MaxSize /\ h.last >= h.first /\ h.last > 0)
  BY <1>1, TransferAssumption DEF Satisfiable, Headers, Sizes, TypeOK
<1>3. getRange(h, "first") = h.first
  BY <1>1, <1>2 DEF getRange, Satisfiable
<1>4. RangeFirst = h.first
  BY <1>2, <1>3 DEF RangeFirst
<1>5. CASE h.last = Absent
  <2>1. RangeLast = 0
    BY <1>2, <1>5 DEF RangeLast, getRange
  <2>2. RangeLength = Least((size - h.first) % SizeT, size)
    BY <1>4, <2>1 DEF RangeLength
  <2>3. (size - h.first) % SizeT = size - h.first
    BY <1>2, TransferAssumption
  <2> QED
    BY <1>2, <1>4, <1>5, <2>2, <2>3 DEF Least
<1>6. CASE h.last # Absent
  <2>1. RangeLast = h.last /\ h.last > 0
    BY <1>2, <1>6 DEF RangeLast, getRange
  <2>2. RangeLength = Least((h.last - h.first + 1) % SizeT, size)
    BY <1>2, <1>4, <2>1 DEF RangeLength
  <2>3. (h.last - h.first + 1) % SizeT = h.last - h.first + 1
    BY <1>2, <1>6, TransferAssumption
  <2> QED
    BY <1>2, <1>4, <1>6, <2>2, <2>3
<1> QED
  BY <1>5, <1>6

\* The loops over the files of web/ and those of viewfile and getfile end with all
\* that the browser asked for, for files, chunks and ranges of any length.
THEOREM FilesServed ==
  Spec => []Served
<1>1. Init => Inv /\ Ends
  BY InitInv, InitEnds
<1>2. Inv /\ Ends /\ [Next]_vars => (Inv /\ Ends)'
  BY NextInv, NextEnds
<1>3. Inv /\ Ends => Served
  <2> SUFFICES ASSUME Inv, Ends, phase = "done", browser = "up" PROVE Served
    BY DEF Served
  <2>0. /\ TypeOK /\ InOrder /\ Len(got) \in Nat /\ size \in Nat
    BY TransferAssumption DEF Inv, TypeOK, Sizes
  <2>1. ASSUME job.what = "file", job.header.range = "none"
        PROVE  Len(got) = size /\ announced = size
    <3>1. Start = 0 /\ announced = size
      BY <2>1 DEF Ends, FileEnds, Start
    <3> QED
      BY <2>0, <2>1, <3>1 DEF Ends, FileEnds
  <2>2. ASSUME job.what = "file", Satisfiable
        PROVE  LET end == IF job.header.last = Absent THEN size
                          ELSE Least(job.header.last + 1, size)
               IN /\ Len(got) = end - job.header.first
                  /\ job.header.last < size => announced = Len(got)
    <3> DEFINE first == job.header.first
               last == job.header.last
               end == IF last = Absent THEN size ELSE Least(last + 1, size)
    <3>1. /\ first \in Nat /\ first < size
          /\ last = Absent \/ (last \in Nat /\ last >= first)
          /\ job.header.range # "none"
      <4>1. job.header \in Headers
        BY <2>0 DEF TypeOK, Jobs, Headers, NoRange, Sizes
      <4> QED
        BY <2>2, <4>1, TransferAssumption DEF Satisfiable, Headers, Sizes
    <3>2. /\ RangeFirst = first
          /\ last = Absent => RangeLength = size - first
          /\ last # Absent => RangeLength = Least(last - first + 1, size)
      BY <2>0, <2>2, RangeServed
    <3>3. Start = first /\ announced = RangeLength
      BY <2>2, <3>1, <3>2 DEF Ends, FileEnds, Start
    <3>4. first + Len(got) <= size /\ (Len(got) = announced \/ first + Len(got) = size)
      BY <2>0, <2>2, <3>1, <3>3 DEF Ends, FileEnds
    <3>5. announced \in Nat
      BY <2>0, <3>3, RangeFacts DEF TypeOK
    <3>6. Len(got) <= announced
      <4>1. CASE got = <<>>
        BY <2>0, <3>5, <4>1
      <4>2. CASE got # <<>>
        BY <2>0, <2>2, <4>2 DEF InOrder, Inv, FileInv
      <4> QED
        BY <4>1, <4>2
    <3>7. CASE last = Absent
      BY <2>0, <3>1, <3>2, <3>3, <3>4, <3>6, <3>7 DEF Absent
    <3>8. CASE last # Absent
      <4>1. end = Least(last + 1, size) /\ last \in Nat /\ last >= first
        BY <3>1, <3>8
      <4>2. announced = Least(last - first + 1, size)
        BY <3>2, <3>3, <3>8
      <4> HIDE DEF end, last, first
      <4>3. Len(got) = end - first
        BY <2>0, <3>1, <3>4, <3>6, <4>1, <4>2 DEF Least
      <4>4. last < size => announced = Len(got)
        BY <2>0, <3>1, <4>1, <4>2, <4>3 DEF Least
      <4> QED
        BY <4>3, <4>4 DEF end, last, first
    <3> QED
      BY <3>7, <3>8
  <2>3. ASSUME job.what = "view", announced # None, link = "up", ~shrunk
        PROVE  Len(got) = announced
    BY <2>3 DEF Ends, ViewEnds
  <2> QED
    BY <2>1, <2>2, <2>3 DEF Served
<1> QED
  BY <1>1, <1>2, <1>3, PTL DEF Spec

\* fileUpload and acceptFile agree on what was stored, for files and chunks of any
\* length.
THEOREM UploadsStored ==
  Spec => []Stored
<1>1. Init => Inv /\ Ends
  BY InitInv, InitEnds
<1>2. Inv /\ Ends /\ [Next]_vars => (Inv /\ Ends)'
  BY NextInv, NextEnds
<1>3. Inv /\ Ends => Stored
  <2> SUFFICES ASSUME Inv, Ends, job.what = "upload", phase = "done", link = "up" PROVE Stored
    BY DEF Stored
  <2>1. \/ answer = "refused" /\ size = 0
        \/ answer = "lost" /\ (missed \/ job.len > size)
        \/ answer = "success" /\ gs = "said"
    BY DEF Ends, UploadEnds
  <2>2. gs = "said" => Len(got) = job.len
    BY DEF Ends, UploadEnds
  <2>3. size \in Nat /\ job.len \in Nat
    BY TransferAssumption DEF Inv, TypeOK, Sizes, Jobs
  <2> QED
    BY <2>1, <2>2, <2>3 DEF Stored
<1> QED
  BY <1>1, <1>2, <1>3, PTL DEF Spec

-----------------------------------------------------------------------------
(* Why transfers end. *)

Upload == StartUpload \/ ReadUpload \/ SendUpload \/ AwaitOK

\* The loop that sends goes back by less than the buffer holds.
RoundInv ==
  job.what = "upload" =>
    /\ Len(buffer) <= Chunk
    /\ resent > 0 => phase = "send" /\ resent < Len(buffer)
    /\ phase = "route" => left = 0

\* What is left of a round of fileUpload, and of the rounds: at most so many calls
\* as the buffer has bytes for the -1 of every send.
Round ==
  IF phase = "route" THEN MaxSize * (Chunk + 4) + 3
  ELSE IF phase = "read" THEN IF left = 0 THEN 4 ELSE 2
  ELSE IF phase = "send" THEN IF buffer = <<>> THEN 3
                              ELSE IF link = "down" THEN resent + 5 ELSE Chunk + 5
  ELSE IF phase = "ack" THEN 1 ELSE 0

UploadWork == left * (Chunk + 4) + Round

\* The numbers of an upload.
LEMMA RoundFacts ==
  ASSUME TypeOK, UploadInv, RoundInv, job.what = "upload"
  PROVE  /\ size \in Nat /\ size <= MaxSize /\ MaxSize \in Nat /\ Chunk \in Nat \ {0}
         /\ left \in Nat /\ resent \in Nat /\ total \in Nat /\ job.len \in Nat
         /\ buffer \in Seq(Nat) /\ Len(buffer) \in 0..Chunk /\ (buffer = <<>> <=> Len(buffer) = 0)
         /\ link \in {"up", "stalled", "down"} /\ (link # "down" => resent = 0)
         /\ phase \in {"route", "read", "send", "ack", "done"}
<1>1. size \in Nat /\ size <= MaxSize /\ MaxSize \in Nat /\ Chunk \in Nat \ {0}
  BY TransferAssumption DEF TypeOK, Sizes
<1>2. job.len \in Nat
  <2>1. job.len \in Sizes \ {0}
    BY DEF TypeOK, Jobs
  <2> QED
    BY <2>1, TransferAssumption DEF Sizes
<1>3. buffer \in Seq(Nat) /\ (buffer = <<>> <=> Len(buffer) = 0) /\ Len(buffer) \in Nat
  BY DEF TypeOK
<1>4. Len(buffer) \in 0..Chunk
  BY <1>1, <1>3 DEF RoundInv
<1>5. left \in Nat /\ resent \in Nat /\ total \in Nat /\ link \in {"up", "stalled", "down"}
  BY DEF TypeOK
<1>6. /\ link # "down" => resent = 0
      /\ phase \in {"route", "read", "send", "ack", "done"}
  BY DEF UploadInv
<1> QED
  BY <1>1, <1>2, <1>3, <1>4, <1>5, <1>6

\* How a total_resend_len that goes back by one is compared with what was read.
LEMMA Backwards ==
  ASSUME NEW m \in Nat, NEW n \in 0..Chunk, m = 0 \/ m < n
  PROVE  /\ m = 0 => (m - 1) % SizeT >= n
         /\ m > 0 => (m - 1) % SizeT = m - 1 /\ m - 1 < n
<1>1. Chunk \in Nat /\ SizeT \in Nat /\ SizeT > Chunk /\ SizeT > 1
  BY TransferAssumption
<1>2. CASE m = 0
  <2>1. (0 - 1) % SizeT = SizeT - 1
    BY <1>1
  <2>2. m - 1 = 0 - 1
    BY <1>2
  <2> QED
    BY <1>1, <1>2, <2>1, <2>2
<1>3. CASE m > 0
  <2>1. m - 1 \in 0..(SizeT - 1) /\ m - 1 < n
    BY <1>1, <1>3
  <2> QED
    BY <1>1, <1>3, <2>1
<1> QED
  BY <1>2, <1>3

\* One call of send, by what becomes of the round.
LEMMA SendFacts ==
  ASSUME TypeOK, UploadInv, RoundInv, job.what = "upload", SendUpload
  PROVE  /\ UNCHANGED <<job, left, buffer, total>> /\ phase = "send"
         /\ \/ /\ resent' = 0 /\ phase' = (IF total < job.len THEN "read" ELSE "ack")
               /\ link = "down" \/ buffer # <<>>
            \/ phase' = "done" /\ link' = link /\ resent' = resent
            \/ /\ phase' = "send" /\ link' = "down" /\ buffer # <<>> /\ resent' < Len(buffer)
               /\ link = "up" \/ resent' < resent
<1> DEFINE n == Len(buffer)
<1>1. /\ n \in 0..Chunk /\ resent \in Nat /\ (link = "up" => resent = 0)
      /\ (buffer = <<>> <=> n = 0) /\ (resent > 0 => resent < n)
  BY RoundFacts DEF RoundInv
<1>2. UNCHANGED <<job, left, buffer, total>> /\ phase = "send"
  BY DEF SendUpload, readVars
<1>3. CASE link = "up" /\ n > 0 /\ EndRound
  BY <1>1, <1>2, <1>3 DEF EndRound
<1>4. CASE Answer("lost") /\ UNCHANGED <<link, resent>>
  BY <1>2, <1>4 DEF Answer
<1>5. CASE link = "up" /\ link' = "down" /\ UNCHANGED phase /\ \E k \in 1..(n - 1) : resent' = k
  BY <1>1, <1>2, <1>5
<1>6. CASE /\ link = "down" \/ n > 0
           /\ link' = "down"
           /\ IF (resent - 1) % SizeT >= n THEN EndRound
              ELSE resent' = (resent - 1) % SizeT /\ UNCHANGED phase
  <2>1. /\ resent = 0 => (resent - 1) % SizeT >= n
        /\ resent > 0 => (resent - 1) % SizeT = resent - 1 /\ resent - 1 < n
    <3>1. resent = 0 \/ resent < n
      BY <1>1
    <3> HIDE DEF n
    <3> QED
      BY <1>1, <3>1, Backwards
  <2>2. CASE resent = 0
    <3>1. EndRound
      BY <1>4, <1>6, <2>1, <2>2
    <3> QED
      BY <1>1, <1>2, <1>6, <3>1 DEF EndRound
  <2>3. CASE resent > 0
    <3>1. resent' = resent - 1 /\ phase' = phase
      BY <1>1, <1>6, <2>1, <2>3
    <3> QED
      BY <1>1, <1>2, <1>6, <2>3, <3>1
  <2> QED
    BY <1>1, <2>2, <2>3
<1> QED
  BY <1>3, <1>4, <1>5, <1>6 DEF SendUpload

\* Every step keeps what is said of a round.
LEMMA RoundStep ==
  ASSUME Inv, RoundInv, [Next]_vars
  PROVE  RoundInv'
<1>0. TypeOK /\ UploadInv /\ FileInv /\ ViewInv
  BY DEF Inv
<1>1. job' = job
  BY DEF Next, Manager, GameServer, OutputFile, SendFile, StartUpload, ReadUpload, SendUpload,
         AwaitOK, Store, StoreReset, StoreFails, OpenFile, FeedFile, Resize, GetHead, Relay,
         BrowserGone, GameServerGone, Stall, vars
<1> SUFFICES ASSUME job.what = "upload" PROVE RoundInv'
  BY <1>1 DEF RoundInv
<1>2. /\ Len(buffer) \in 0..Chunk /\ left \in Nat /\ resent \in Nat /\ Chunk \in Nat \ {0}
      /\ (resent > 0 => phase = "send" /\ resent < Len(buffer))
      /\ (phase = "route" => left = 0) /\ (link # "down" => resent = 0)
  BY <1>0, RoundFacts DEF RoundInv
<1>3. CASE StartUpload
  <2>1. UNCHANGED <<buffer, resent>> /\ phase = "route" /\ phase' \in {"done", "read"}
    BY <1>3 DEF StartUpload, Answer, loopVars
  <2> QED
    BY <1>1, <1>2, <2>1 DEF RoundInv
<1>4. CASE ReadUpload
  <2> DEFINE n == Least(Chunk, left)
  <2>1. phase = "read" /\ phase' = "send" /\ resent' = resent
    BY <1>4 DEF ReadUpload
  <2>2. n \in Nat /\ n <= Chunk
    BY <1>2, LeastFacts
  <2>3. Len(buffer') <= Chunk
    <3>1. buffer' = File(pos, pos + n) \/ buffer' = <<>>
      BY <1>4 DEF ReadUpload
    <3>2. pos \in Nat
      BY <1>0 DEF TypeOK
    <3>3. Len(File(pos, pos + n)) = n
      <4> HIDE DEF n
      <4> QED
        BY <2>2, <3>2, FileRuns
    <3> QED
      BY <1>2, <2>2, <3>1, <3>3
  <2>4. ~(resent > 0)
    BY <1>2, <2>1
  <2> QED
    BY <1>1, <2>1, <2>3, <2>4 DEF RoundInv
<1>5. CASE SendUpload
  <2>1. UNCHANGED <<left, buffer>> /\ phase' # "route"
        /\ (resent' > 0 => phase' = "send" /\ resent' < Len(buffer))
    <3>1. \/ resent' = 0 /\ phase' \in {"read", "ack"}
          \/ phase' = "done" /\ link' = link /\ resent' = resent
          \/ phase' = "send" /\ resent' < Len(buffer)
      BY <1>0, <1>5, SendFacts
    <3>2. phase' = "done" => link = "up"
      BY <1>5 DEF SendUpload, EndRound, Answer
    <3> QED
      BY <1>0, <1>2, <1>5, <3>1, <3>2, SendFacts
  <2> QED
    BY <1>1, <1>2, <2>1 DEF RoundInv
<1>6. CASE AwaitOK
  <2>1. UNCHANGED <<buffer, resent>> /\ phase = "ack" /\ phase' = "done"
    BY <1>6 DEF AwaitOK, Answer, loopVars
  <2> QED
    BY <1>1, <1>2, <2>1 DEF RoundInv
<1>7. CASE \/ Store \/ StoreReset \/ StoreFails
           \/ BrowserGone \/ GameServerGone \/ Stall \/ UNCHANGED vars
  <2>1. UNCHANGED <<buffer, resent, phase, left>>
    BY <1>7 DEF Store, StoreReset, StoreFails, BrowserGone, GameServerGone, Stall, vars,
                loopVars, readVars
  <2> QED
    BY <1>1, <1>2, <2>1 DEF RoundInv
<1>8. ~(OutputFile \/ SendFile \/ OpenFile \/ FeedFile \/ Resize \/ GetHead \/ Relay)
  BY <1>0 DEF OutputFile, SendFile, OpenFile, FeedFile, Resize, GetHead, Relay, UploadInv
<1> QED
  BY <1>3, <1>4, <1>5, <1>6, <1>7, <1>8 DEF Next, Manager, GameServer

\* Every step of fileUpload leaves less to do, but in the loop that Dry is.
LEMMA UploadWorks ==
  ASSUME Inv, RoundInv, Upload, ~Dry
  PROVE  UploadWork \in Nat /\ UploadWork' < UploadWork
<1>0. TypeOK /\ UploadInv /\ FileInv /\ ViewInv
  BY DEF Inv
<1>1. job.what = "upload" /\ job' = job
  <2>1. job.what \in {"file", "upload", "view"}
    BY <1>0, JobKinds
  <2> QED
    BY <1>0, <2>1 DEF Upload, StartUpload, ReadUpload, SendUpload, AwaitOK, FileInv, ViewInv
<1> DEFINE k == Chunk + 4
<1>2. /\ size \in Nat /\ size <= MaxSize /\ MaxSize \in Nat /\ Chunk \in Nat \ {0}
      /\ left \in Nat /\ resent \in Nat /\ total \in Nat /\ job.len \in Nat
      /\ Len(buffer) \in 0..Chunk /\ (buffer = <<>> <=> Len(buffer) = 0)
      /\ link \in {"up", "stalled", "down"} /\ (link # "down" => resent = 0)
      /\ phase \in {"route", "read", "send", "ack", "done"}
      /\ (resent > 0 => resent < Len(buffer)) /\ (phase = "route" => left = 0)
  BY <1>0, <1>1, RoundFacts DEF RoundInv
<1>3. Round \in Nat /\ k \in Nat /\ MaxSize * k \in Nat
  BY <1>2 DEF Round
<1>4. UploadWork = left * k + Round /\ left * k \in Nat /\ UploadWork \in Nat
  BY <1>2, <1>3 DEF UploadWork
<1>5. UploadWork' = left' * k + Round'
  BY DEF UploadWork
<1>6. left' = left /\ Round' \in Nat /\ Round' < Round => UploadWork' < UploadWork
  <2> DEFINE a == left * k
             r == Round
             s == Round'
  <2>1. UploadWork = a + r /\ a \in Nat /\ r \in Nat
    BY <1>3, <1>4
  <2>2. left' = left => UploadWork' = a + s
    BY <1>5
  <2>3. s \in Nat /\ s < r => a + s < a + r
    <3> HIDE DEF a, r, s
    <3> QED
      BY <2>1
  <2> QED
    BY <2>1, <2>2, <2>3
<1>7. CASE StartUpload
  <2>1. phase = "route" /\ Round = MaxSize * k + 3 /\ left = 0
    BY <1>2, <1>7 DEF StartUpload, Round
  <2>2. CASE phase' = "done" /\ left' = left
    <3>1. Round' = 0
      BY <2>2 DEF Round
    <3> QED
      BY <1>3, <1>4, <1>6, <2>1, <2>2, <3>1
  <2>3. CASE left' = fileLength(size) /\ phase' = "read" /\ size > 0
    <3>1. left' = size
      BY <1>2, <2>3, SurplusIsFile
    <3>2. Round' = 2
      BY <1>2, <2>3, <3>1 DEF Round
    <3>3. size * k <= MaxSize * k
      <4>1. MaxSize - size \in Nat /\ (MaxSize - size) * k = MaxSize * k - size * k
        BY <1>2
      <4>2. (MaxSize - size) * k \in Nat
        BY <1>3, <4>1
      <4> HIDE DEF k
      <4> QED
        BY <1>2, <1>3, <4>1, <4>2
    <3>4. 0 * k = 0 /\ size * k \in Nat
      BY <1>2, <1>3
    <3> HIDE DEF k
    <3> QED
      BY <1>3, <1>4, <1>5, <2>1, <3>1, <3>2, <3>3, <3>4
  <2> QED
    BY <1>7, <2>2, <2>3 DEF StartUpload, Answer
<1>8. CASE ReadUpload
  <2> DEFINE n == Least(Chunk, left)
  <2>1. phase = "read" /\ phase' = "send" /\ left' = left - n /\ resent' = resent /\ link' = link
    BY <1>8 DEF ReadUpload, peerVars
  <2>2. n \in Nat /\ n <= left /\ (left > 0 => n > 0) /\ (n = 0 => buffer' = <<>>)
    BY <1>2, <1>8, LeastFacts DEF Least, ReadUpload
  <2>3. resent = 0
    BY <1>1, <1>2, <2>1 DEF RoundInv
  <2>4. CASE left = 0
    <3>1. n = 0 /\ left' = left /\ buffer' = <<>>
      BY <1>2, <2>1, <2>2, <2>4
    <3>2. Round = 4 /\ Round' = 3
      BY <2>1, <2>4, <3>1 DEF Round
    <3> QED
      BY <1>4, <1>6, <3>1, <3>2
  <2>5. CASE left > 0
    <3>1. Round = 2
      BY <1>2, <2>1, <2>5 DEF Round
    <3>2. Round' \in Nat /\ Round' <= Chunk + 5
      BY <1>2, <2>1, <2>3 DEF Round
    <3>3. left' * k = left * k - n * k /\ n * k >= k
      <4>0. n - 1 \in Nat /\ n \in Nat /\ left \in Nat /\ n <= left
        BY <1>2, <2>2, <2>5
      <4> HIDE DEF n, k
      <4>1. n * k = (n - 1) * k + k /\ (n - 1) * k \in Nat
        BY <1>3, <4>0
      <4>2. (left - n) * k = left * k - n * k
        BY <1>3, <4>0
      <4> QED
        BY <1>3, <2>1, <4>1, <4>2
    <3>4. n * k \in Nat
      BY <1>3, <2>2
    <3> DEFINE a == left * k
               b == n * k
               r == Round'
    <3>5. UploadWork = a + 2 /\ UploadWork' = (a - b) + r /\ b >= Chunk + 4 /\ a \in Nat /\ b \in Nat
          /\ r \in Nat /\ r <= Chunk + 5 /\ Chunk \in Nat
      BY <1>2, <1>4, <1>5, <3>1, <3>2, <3>3, <3>4
    <3> HIDE DEF a, b, r
    <3>6. (a - b) + r < a + 2
      BY <3>5
    <3> QED
      BY <3>5, <3>6
  <2> QED
    BY <1>2, <2>4, <2>5
<1>9. CASE SendUpload
  <2>1. UNCHANGED <<left, buffer, total>> /\ phase = "send"
    BY <1>0, <1>1, <1>9, SendFacts
  <2>2. Round = IF buffer = <<>> THEN 3 ELSE IF link = "down" THEN resent + 5 ELSE Chunk + 5
    BY <2>1 DEF Round
  <2>3. CASE /\ resent' = 0 /\ phase' = (IF total < job.len THEN "read" ELSE "ack")
             /\ link = "down" \/ buffer # <<>>
    <3>1. CASE phase' = "ack"
      <4>1. Round' = 1
        BY <3>1 DEF Round
      <4> QED
        BY <1>2, <1>4, <1>6, <2>1, <2>2, <4>1
    <3>2. CASE phase' = "read"
      <4>1. total < job.len
        BY <2>3, <3>2
      <4>2. Round' = IF left = 0 THEN 4 ELSE 2
        BY <2>1, <3>2 DEF Round
      <4>3. left = 0 => link # "down"
        BY <1>2, <2>1, <4>1 DEF Dry
      <4>4. left = 0 => buffer # <<>>
        BY <2>3, <4>3
      <4> QED
        BY <1>2, <1>4, <1>6, <2>1, <2>2, <4>2, <4>4
    <3> QED
      BY <2>3, <3>1, <3>2
  <2>4. CASE phase' = "done"
    <3>1. Round' = 0
      BY <2>4 DEF Round
    <3> QED
      BY <1>2, <1>4, <1>6, <2>1, <2>2, <3>1
  <2>5. CASE /\ phase' = "send" /\ link' = "down" /\ buffer # <<>> /\ resent' < Len(buffer)
             /\ link = "up" \/ resent' < resent
    <3>1. Round' = resent' + 5
      BY <2>1, <2>5 DEF Round
    <3>2. resent' \in Nat
      BY <1>0, <1>9, UploadType DEF TypeOK
    <3> DEFINE m == resent'
    <3>3. m \in Nat /\ Round' = m + 5 /\ m < Len(buffer) /\ (link = "up" \/ m < resent)
      BY <2>5, <3>1, <3>2
    <3> HIDE DEF m
    <3>4. Round = (IF link = "down" THEN resent + 5 ELSE Chunk + 5) /\ m < Chunk
      BY <1>2, <2>2, <2>5, <3>3
    <3>5. Round' \in Nat /\ Round' < Round
      BY <1>2, <3>3, <3>4
    <3> QED
      BY <1>4, <1>6, <2>1, <3>5
  <2> QED
    BY <1>0, <1>1, <1>9, <2>3, <2>4, <2>5, SendFacts
<1>10. CASE AwaitOK
  <2>1. phase = "ack" /\ phase' = "done" /\ left' = left
    BY <1>10 DEF AwaitOK, Answer, readVars
  <2>2. Round = 1 /\ Round' = 0
    BY <2>1 DEF Round
  <2> QED
    BY <1>4, <1>6, <2>1, <2>2
<1> QED
  BY <1>4, <1>7, <1>8, <1>9, <1>10 DEF Upload

\* What acceptFile has yet to do: to store bytes, and to say OK or to give up; once it
\* took -1 for a length, the recv that ends it.
Unstored ==
  IF gs # "open" THEN 0 ELSE IF stray THEN 1 ELSE 2 + job.len - Len(got)

\* How many turns the loops over a file of web/ can still make.
FileWork ==
  IF phase = "route" THEN MaxSize + 2
  ELSE IF phase = "whole" THEN size - pos + 1
  ELSE IF phase = "range" THEN left + 1 ELSE 0

\* The same of viewfile and getfile: a byte of the file is read and then relayed.
ViewWork ==
  (IF gs # "open" THEN 0 ELSE IF head = None THEN 2 * MaxSize + 2 ELSE 1)
  + 2 * left + Len(wire)
  + (IF phase = "route" THEN 2 ELSE IF phase = "relay" THEN 1 ELSE 0)

ToDo ==
  IF job.what = "file" THEN FileWork
  ELSE IF job.what = "upload" THEN UploadWork + Unstored ELSE ViewWork

\* Nothing that happens to a file of web/ makes it longer to send, and every turn of a
\* loop makes it shorter.
LEMMA FileWorks ==
  ASSUME Inv, Next, job.what = "file"
  PROVE  /\ FileWork \in Nat /\ FileWork' \in Nat /\ FileWork' <= FileWork
         /\ Manager \/ GameServer \/ StoreReset => FileWork' < FileWork
<1>0. TypeOK /\ FileInv
  BY DEF Inv
<1>1. /\ MaxSize \in Nat /\ Chunk \in Nat \ {0}
      /\ size \in Nat /\ size <= MaxSize /\ pos \in Nat /\ left \in Nat
      /\ phase \in {"route", "whole", "range", "done"}
      /\ (phase = "whole" => pos <= size)
  BY <1>0, TransferAssumption DEF TypeOK, Sizes, FileInv
<1>2. FileWork \in Nat
  BY <1>1 DEF FileWork
<1>3. CASE OutputFile
  <2>1. phase = "route" /\ FileWork = MaxSize + 2 /\ size' = size
    BY <1>3 DEF OutputFile, FileWork
  <2>2. RangeLength \in Nat /\ RangeLength <= size
    BY <1>0, RangeFacts DEF TypeOK
  <2>3. CASE phase' = "whole"
    <3>1. pos' = 0
      BY <1>3, <2>3 DEF OutputFile
    <3>2. FileWork' = size - 0 + 1
      BY <2>1, <2>3, <3>1 DEF FileWork
    <3> QED
      BY <1>1, <2>1, <3>2
  <2>4. CASE phase' = "range"
    <3>1. left' = RangeLength
      BY <1>3, <2>4 DEF OutputFile
    <3>2. FileWork' = RangeLength + 1
      BY <2>4, <3>1 DEF FileWork
    <3> QED
      BY <1>1, <2>1, <2>2, <3>2
  <2>5. CASE phase' = "done"
    <3>1. FileWork' = 0
      BY <2>5 DEF FileWork
    <3> QED
      BY <1>1, <2>1, <3>1
  <2> QED
    BY <1>2, <1>3, <2>3, <2>4, <2>5 DEF OutputFile
<1>4. CASE SendFile
  <2> DEFINE asked == IF phase = "whole" THEN Chunk ELSE Least(Chunk, left)
             count == Len(Fread(pos, asked, size))
  <2>1. phase \in {"whole", "range"} /\ size' = size
    BY <1>4 DEF SendFile
  <2>2. PICK k \in Accepts(browser, count) :
          /\ pos' = pos + count
          /\ left' = IF phase = "range" THEN left - count ELSE left
          /\ phase' = IF count < asked \/ k = 0 THEN "done" ELSE phase
    BY <1>4 DEF SendFile
  <2>3. asked \in Nat /\ (phase = "range" => asked <= left)
    BY <1>1, <2>1, LeastFacts
  <2> HIDE DEF asked
  <2>4. count \in Nat /\ count <= asked /\ (pos <= size => pos + count <= size)
    BY <1>1, <2>3, ReadFacts
  <2> HIDE DEF count
  <2>5. k \in 0..count
    BY <2>2, <2>4 DEF Accepts
  <2>6. CASE phase' = "done"
    <3>1. FileWork' = 0
      BY <2>6 DEF FileWork
    <3>2. FileWork > 0
      BY <1>1, <2>1 DEF FileWork
    <3> QED
      BY <1>2, <3>1, <3>2
  <2>7. CASE phase' = phase /\ k # 0
    <3>1. count >= 1
      BY <2>4, <2>5, <2>7
    <3>2. CASE phase = "whole"
      <4>1. FileWork = size - pos + 1 /\ FileWork' = size - (pos + count) + 1
        BY <2>1, <2>2, <2>7, <3>2 DEF FileWork
      <4>2. pos + count <= size
        BY <1>1, <2>4, <3>2
      <4> QED
        BY <1>1, <2>4, <3>1, <4>1, <4>2
    <3>3. CASE phase = "range"
      <4>1. FileWork = left + 1 /\ FileWork' = (left - count) + 1
        BY <2>2, <2>7, <3>3 DEF FileWork
      <4> QED
        BY <1>1, <2>3, <2>4, <3>1, <3>3, <4>1
    <3> QED
      BY <2>1, <3>2, <3>3
  <2> QED
    BY <1>2, <2>1, <2>2, <2>6, <2>7
<1>5. BrowserGone \/ GameServerGone \/ Stall => FileWork' = FileWork
  <2>1. BrowserGone \/ GameServerGone \/ Stall => UNCHANGED <<phase, size, pos, left>>
    BY DEF BrowserGone, GameServerGone, Stall, readVars
  <2> QED
    BY <2>1 DEF FileWork
<1>6. ~(\/ StartUpload \/ ReadUpload \/ SendUpload \/ AwaitOK \/ GetHead \/ Relay
        \/ Store \/ StoreReset \/ StoreFails \/ OpenFile \/ FeedFile \/ Resize)
  BY <1>0, <1>1 DEF StartUpload, ReadUpload, SendUpload, AwaitOK, GetHead, Relay, Store,
                    StoreReset, StoreFails, OpenFile, FeedFile, Resize, FileInv
<1> QED
  BY <1>2, <1>3, <1>4, <1>5, <1>6 DEF Next, Manager, GameServer

\* Nothing that happens to an upload leaves more to do than before, and every step of
\* fileUpload and acceptFile less, but in the loop that Dry is.
LEMMA UploadShrinks ==
  ASSUME Inv, Ends, RoundInv, Next, job.what = "upload", ~Dry
  PROVE  LET now == UploadWork + Unstored IN
           /\ now \in Nat /\ now' \in Nat /\ now' <= now
           /\ Manager \/ GameServer \/ StoreReset => now' < now
<1> DEFINE w == UploadWork
           u == Unstored
           v == UploadWork'
           t == Unstored'
<1>0. TypeOK /\ UploadInv /\ InOrder /\ UploadEnds
  BY DEF Inv, Ends
<1>1. Inv' /\ Ends' /\ RoundInv'
  BY NextInv, NextEnds, RoundStep
<1>2. job' = job
  BY DEF Next, Manager, GameServer, OutputFile, SendFile, StartUpload, ReadUpload, SendUpload,
         AwaitOK, Store, StoreReset, StoreFails, OpenFile, FeedFile, Resize, GetHead, Relay,
         BrowserGone, GameServerGone, Stall
<1>3. Round \in Nat /\ w \in Nat
  <2>1. /\ size \in Nat /\ MaxSize \in Nat /\ Chunk \in Nat /\ left \in Nat /\ resent \in Nat
    BY <1>0, RoundFacts
  <2>2. Round \in Nat /\ left * (Chunk + 4) \in Nat
    BY <2>1 DEF Round
  <2> QED
    BY <2>2 DEF UploadWork
<1>4. v \in Nat
  <2>1. MaxSize \in Nat /\ Chunk \in Nat /\ left' \in Nat /\ resent' \in Nat
    BY <1>1, TransferAssumption DEF Inv, TypeOK
  <2> DEFINE l == left'
             r == resent'
             m == MaxSize * (Chunk + 4)
  <2>2. l \in Nat /\ r \in Nat /\ MaxSize \in Nat /\ Chunk \in Nat
    BY <2>1
  <2>3. UploadWork' = l * (Chunk + 4) + Round'
    BY DEF UploadWork
  <2>4. Round' \in {m + 3, 4, 2, 3, Chunk + 5, r + 5, 1, 0}
    BY DEF Round
  <2> HIDE DEF l, r
  <2>5. l * (Chunk + 4) \in Nat /\ m \in Nat
    BY <2>2
  <2> HIDE DEF m
  <2>6. Round' \in Nat
    BY <2>2, <2>4, <2>5
  <2> QED
    BY <2>3, <2>5, <2>6
<1>5. job.len \in Nat /\ Len(got) \in Nat /\ (~stray => Len(got) <= job.len)
  <2>1. job.len \in Nat
    BY <1>0, RoundFacts
  <2>2. Len(got) \in Nat /\ (got = <<>> => Len(got) = 0)
    BY <1>0 DEF TypeOK
  <2>3. ~stray /\ got # <<>> => Len(got) <= job.len
    BY <1>0, <2>2 DEF InOrder, UploadEnds, None
  <2> QED
    BY <2>1, <2>2, <2>3
<1>6. Len(got') \in Nat /\ (~stray' => Len(got') <= job.len)
  <2>1. Len(got') \in Nat /\ (got' = <<>> => Len(got') = 0)
    BY <1>1 DEF Inv, TypeOK
  <2>2. announced' \in {None, job.len} /\ (~stray' /\ got' # <<>> => Len(got') <= announced')
    BY <1>1, <1>2 DEF Inv, InOrder, Ends, UploadEnds
  <2> QED
    BY <1>5, <2>1, <2>2 DEF None
<1>7. /\ u = IF gs # "open" THEN 0 ELSE IF stray THEN 1 ELSE 2 + job.len - Len(got)
      /\ t = IF gs' # "open" THEN 0 ELSE IF stray' THEN 1 ELSE 2 + job.len - Len(got')
      /\ u \in Nat /\ t \in Nat
  BY <1>2, <1>5, <1>6 DEF Unstored
<1>8. CASE Upload
  <2>1. v < w
    BY <1>8, UploadWorks
  <2>2. UNCHANGED <<got, gs, stray>>
    BY <1>8 DEF Upload, StartUpload, ReadUpload, SendUpload, AwaitOK, peerVars
  <2>3. t = u
    BY <1>2, <2>2 DEF Unstored
  <2> HIDE DEF w, u, v, t
  <2>4. w + u \in Nat /\ v + t \in Nat /\ v + t < w + u
    BY <1>3, <1>4, <1>7, <2>1, <2>3
  <2> QED
    BY <2>4 DEF w, u, v, t
<1>9. CASE Store
  <2>1. v = w
    BY <1>9 DEF Store, UploadWork, Round, readVars, loopVars
  <2>2. t < u
    <3>0. gs = "open" /\ ~stray /\ stray' = stray
      BY <1>9 DEF Store
    <3>1. CASE gs' = gs /\ \E k \in 1..Least(Len(wire), announced - Len(got)) :
                 got' = got \o SubSeq(wire, 1, k) /\ Len(got) < announced
      <4>1. PICK k \in 1..Least(Len(wire), announced - Len(got)) :
                 got' = got \o SubSeq(wire, 1, k) /\ Len(got) < announced
        BY <3>1
      <4>2. wire \in Seq(Nat) /\ got \in Seq(Nat) /\ Len(wire) \in Nat
        BY <1>0 DEF TypeOK
      <4>3. announced - Len(got) \in Nat
        BY <1>0, <1>5, <1>9, <4>1 DEF UploadEnds, Store
      <4>4. k \in 0..Len(wire) /\ k >= 1
        <5> DEFINE n == Least(Len(wire), announced - Len(got))
        <5>1. n \in Nat /\ n <= Len(wire)
          BY <4>2, <4>3, LeastFacts
        <5>2. k \in 1..n
          BY <4>1
        <5> HIDE DEF n
        <5> QED
          BY <4>2, <5>1, <5>2
      <4>5. Len(got') = Len(got) + k
        BY <4>1, <4>2, <4>4, TakeFacts
      <4> QED
        BY <1>5, <1>7, <3>0, <3>1, <4>4, <4>5, SMTT(30)
    <3>2. CASE gs' = "said" /\ got' = got
      BY <1>5, <1>7, <3>0, <3>2
    <3> QED
      BY <1>9, <3>1, <3>2 DEF Store
  <2> HIDE DEF w, u, v, t
  <2>3. w + u \in Nat /\ v + t \in Nat /\ v + t < w + u
    BY <1>3, <1>4, <1>7, <2>1, <2>2
  <2> QED
    BY <2>3 DEF w, u, v, t
<1>10. BrowserGone => v = w /\ t = u
  BY DEF BrowserGone, UploadWork, Round, Unstored, readVars, loopVars, peerVars
<1>11. Stall => v = w /\ t = u
  <2> SUFFICES ASSUME Stall PROVE v = w /\ t = u
    OBVIOUS
  <2>1. /\ UNCHANGED <<job, phase, left, buffer, resent, got, gs, stray>>
        /\ link' = "down" <=> link = "down"
    BY DEF Stall, readVars, loopVars
  <2>2. Round' = Round
    BY <2>1 DEF Round
  <2>3. v = w /\ t = u
    BY <2>1, <2>2 DEF UploadWork, Unstored
  <2> QED
    BY <2>3
<1>12. CASE GameServerGone \/ StoreReset \/ StoreFails
  <2>1. /\ UNCHANGED <<job, phase, left, buffer, resent>>
        /\ gs = "open" /\ (link' = "down" \/ link' = link)
    BY <1>12 DEF GameServerGone, StoreReset, StoreFails, readVars, loopVars
  <2>2. t < u
    <3>1. gs' = "gone" \/ (stray' /\ ~stray)
      BY <1>12 DEF GameServerGone, StoreReset, StoreFails
    <3> QED
      BY <1>5, <1>7, <2>1, <3>1
  <2>3. Round' <= Round
    <3>1. Chunk \in Nat /\ resent \in Nat /\ (link # "down" => resent = 0)
      BY <1>0, RoundFacts
    <3>2. Round' \in Nat
      BY <1>3, <2>1, <3>1 DEF Round
    <3> QED
      BY <1>3, <2>1, <3>1, <3>2 DEF Round
  <2>4. v <= w
    <3> DEFINE a == left * (Chunk + 4)
    <3>1. a \in Nat /\ w = a + Round /\ v = a + Round' /\ Round \in Nat /\ Round' \in Nat
      <4>1. Chunk \in Nat /\ left \in Nat /\ resent \in Nat /\ left' = left /\ MaxSize \in Nat
        BY <1>0, <2>1, RoundFacts
      <4>2. left * (Chunk + 4) \in Nat /\ Round' \in Nat
        BY <2>1, <4>1 DEF Round
      <4> QED
        BY <1>3, <4>1, <4>2 DEF UploadWork
    <3> DEFINE x == Round
               y == Round'
    <3>2. y <= x /\ x \in Nat /\ y \in Nat /\ a \in Nat
      BY <2>3, <3>1
    <3>3. w = a + x /\ v = a + y
      BY <3>1
    <3> HIDE DEF a, x, y
    <3>4. a + y <= a + x
      BY <3>2
    <3> QED
      BY <3>3, <3>4
  <2> HIDE DEF w, u, v, t
  <2>5. w + u \in Nat /\ v + t \in Nat /\ v + t < w + u
    BY <1>3, <1>4, <1>7, <2>2, <2>4, SMTT(30)
  <2> QED
    BY <2>5 DEF w, u, v, t
<1>13. ~(OutputFile \/ SendFile \/ GetHead \/ Relay \/ OpenFile \/ FeedFile \/ Resize)
  BY <1>0 DEF OutputFile, SendFile, GetHead, Relay, OpenFile, FeedFile, Resize, UploadInv
<1>14. w + u \in Nat /\ v + t \in Nat
  <2> HIDE DEF w, u, v, t
  <2> QED
    BY <1>3, <1>4, <1>7
<1> QED
  BY <1>8, <1>9, <1>10, <1>11, <1>12, <1>13, <1>14 DEF Next, Manager, GameServer, Upload

\* Nothing that happens to a view leaves more to do than before, and every step of
\* viewfile and getfile less.
LEMMA ViewWorks ==
  ASSUME Inv, Next, job.what = "view"
  PROVE  /\ ViewWork \in Nat /\ ViewWork' \in Nat /\ ViewWork' <= ViewWork
         /\ Manager \/ GameServer \/ StoreReset => ViewWork' < ViewWork
<1> DEFINE a == IF gs # "open" THEN 0 ELSE IF head = None THEN 2 * MaxSize + 2 ELSE 1
           b == IF gs' # "open" THEN 0 ELSE IF head' = None THEN 2 * MaxSize + 2 ELSE 1
           l == left
           m == left'
           w == Len(wire)
           v == Len(wire')
           p == IF phase = "route" THEN 2 ELSE IF phase = "relay" THEN 1 ELSE 0
           q == IF phase' = "route" THEN 2 ELSE IF phase' = "relay" THEN 1 ELSE 0
<1>0. TypeOK /\ ViewInv
  BY DEF Inv
<1>1. /\ MaxSize \in Nat /\ Chunk \in Nat \ {0} /\ size \in Nat /\ size <= MaxSize
      /\ pos \in Nat /\ wire \in Seq(Nat)
      /\ gs \in {"open", "said", "gone"} /\ phase \in {"route", "relay", "done"}
  BY <1>0, TransferAssumption DEF TypeOK, Sizes, ViewInv
<1>2. /\ a \in Nat /\ l \in Nat /\ w \in Nat /\ p \in Nat
      /\ b \in Nat /\ m \in Nat /\ v \in Nat /\ q \in Nat
  <2>1. left' \in Nat /\ wire' \in Seq(Nat)
    BY NextInv DEF Inv, TypeOK
  <2> QED
    BY <1>0, <1>1, <2>1 DEF TypeOK
<1>3. ViewWork = a + 2 * l + w + p /\ ViewWork' = b + 2 * m + v + q
  BY DEF ViewWork
<1>4. CASE OpenFile
  <2>1. /\ UNCHANGED <<wire, phase>> /\ gs = "open" /\ head = None
        /\ \/ gs' = "gone" /\ left' = left
           \/ gs' = "said" /\ left' = left
           \/ head' = size /\ left' = size
    BY <1>4 DEF OpenFile
  <2>2. a = 2 * MaxSize + 2 /\ v = w /\ q = p
    BY <2>1
  <2>3. (b = 0 /\ m = l) \/ (b <= 1 /\ m <= MaxSize)
    BY <1>1, <2>1 DEF None
  <2> HIDE DEF a, b, l, m, w, v, p, q
  <2> QED
    BY <1>1, <1>2, <1>3, <2>2, <2>3
<1>5. CASE FeedFile
  <2> DEFINE asked == Least(Chunk, left)
             bytes == Fread(pos, asked, size)
             count == Len(bytes)
  <2>1. /\ UNCHANGED <<phase, head>> /\ gs = "open" /\ head # None
    BY <1>5 DEF FeedFile, None
  <2>2. PICK k \in Accepts(link, count) :
          /\ left' = left - count
          /\ wire' = wire \o SubSeq(bytes, 1, k)
          /\ gs' = IF k < count THEN "gone"
                   ELSE IF count < asked \/ left - count = 0 THEN "said" ELSE "open"
    BY <1>5 DEF FeedFile
  <2>3. asked \in Nat /\ asked <= left /\ (left # 0 => asked # 0)
    BY <1>1, <1>2, LeastFacts DEF Least
  <2> HIDE DEF asked
  <2>4. bytes \in Seq(Nat) /\ count \in Nat /\ count <= asked
    BY <1>1, <2>3, ReadFacts
  <2> HIDE DEF bytes
  <2>5. k \in 0..count
    BY <2>2, <2>4 DEF Accepts
  <2>6. v = w + k
    <3>1. SubSeq(bytes, 1, k) \in Seq(Nat) /\ Len(SubSeq(bytes, 1, k)) = k
      BY <2>4, <2>5, TakeFacts
    <3> QED
      BY <1>1, <2>2, <3>1
  <2>7. a = 1 /\ q = p /\ m = l - count
    BY <2>1, <2>2
  <2>8. b = 0 \/ (b = 1 /\ count >= 1)
    <3>1. gs' = "open" => count = asked /\ left - count # 0
      BY <2>2, <2>3, <2>4
    <3>2. gs' = "open" => count >= 1
      BY <1>2, <2>3, <2>4, <3>1
    <3> QED
      BY <2>1, <3>2
  <2>9. count <= l
    BY <1>2, <2>3, <2>4
  <2> HIDE DEF a, b, l, m, w, v, p, q, count
  <2> QED
    BY <1>2, <1>3, <2>4, <2>5, <2>6, <2>7, <2>8, <2>9
<1>6. CASE GetHead
  <2>1. UNCHANGED <<gs, head, left, wire>> /\ phase = "route" /\ phase' \in {"done", "relay"}
    BY <1>6 DEF GetHead, Answer, readVars, peerVars
  <2>2. b = a /\ m = l /\ v = w /\ p = 2 /\ q < 2
    BY <2>1
  <2> HIDE DEF a, b, l, m, w, v, p, q
  <2> QED
    BY <1>2, <1>3, <2>2
<1>7. CASE Relay
  <2>1. UNCHANGED <<gs, head, left>> /\ phase = "relay" /\ phase' \in {"relay", "done"}
    BY <1>7 DEF Relay, readVars
  <2>2. b = a /\ m = l /\ p = 1 /\ q <= 1
    BY <2>1
  <2>3. v < w \/ (v = w /\ q = 0)
    <3>1. CASE \E n \in 1..Least(Chunk, w) : wire' = SubSeq(wire, n + 1, w)
      <4>1. PICK n \in 1..Least(Chunk, w) : wire' = SubSeq(wire, n + 1, w)
        BY <3>1
      <4>2. Least(Chunk, w) \in Nat /\ Least(Chunk, w) <= w
        BY <1>1, <1>2, LeastFacts
      <4>3. n \in 1..w /\ n \in 0..w
        BY <1>2, <4>1, <4>2
      <4>4. v = w - n
        BY <1>1, <4>1, <4>3, TakeFacts
      <4> QED
        BY <1>2, <4>3, <4>4
    <3>2. CASE phase' = "done" /\ wire' = wire
      BY <3>2
    <3> QED
      BY <1>7, <3>1, <3>2 DEF Relay
  <2> HIDE DEF a, b, l, m, w, v, p, q
  <2> QED
    BY <1>2, <1>3, <2>2, <2>3
<1>8. Resize \/ BrowserGone \/ Stall => ViewWork' = ViewWork
  BY DEF Resize, BrowserGone, Stall, ViewWork, readVars, peerVars
<1>9. CASE GameServerGone
  <2>1. UNCHANGED <<left, wire, phase>> /\ gs = "open" /\ gs' = "gone"
    BY <1>9 DEF GameServerGone, readVars
  <2>2. a > 0 /\ b = 0 /\ m = l /\ v = w /\ q = p
    BY <1>1, <2>1
  <2> HIDE DEF a, b, l, m, w, v, p, q
  <2> QED
    BY <1>2, <1>3, <2>2
<1>10. ~(\/ OutputFile \/ SendFile \/ StartUpload \/ ReadUpload \/ SendUpload \/ AwaitOK
         \/ Store \/ StoreReset \/ StoreFails)
  BY <1>0, <1>1 DEF OutputFile, SendFile, StartUpload, ReadUpload, SendUpload, AwaitOK, Store,
                    StoreReset, StoreFails, ViewInv
<1>11. ViewWork \in Nat /\ ViewWork' \in Nat
  <2> HIDE DEF a, b, l, m, w, v, p, q
  <2> QED
    BY <1>2, <1>3
<1> QED
  BY <1>4, <1>5, <1>6, <1>7, <1>8, <1>9, <1>10, <1>11 DEF Next, Manager, GameServer

\* No transfer goes round without end, for files, bodies and buffers of any length, however
\* its reads and sends fall short, connections are reset and peers stand still: each step
\* of the manager and of the game server leaves less to do, and nothing else more.  An
\* upload whose body is dry and whose game server is gone is the one exception.  A reset
\* that acceptFile takes for a length makes what it waits for longer by one, once, and
\* leaves it one recv to do.  That a step can be taken is not said here: a transfer may
\* wait for a peer (TransferEnds).
THEOREM TransfersRunOut ==
  Spec => [][~Dry => /\ ToDo \in Nat /\ ToDo' \in Nat /\ ToDo' <= ToDo
                     /\ Manager \/ GameServer \/ StoreReset => ToDo' < ToDo]_vars
<1> DEFINE Shrinks == ~Dry => /\ ToDo \in Nat /\ ToDo' \in Nat /\ ToDo' <= ToDo
                              /\ Manager \/ GameServer \/ StoreReset => ToDo' < ToDo
<1>1. Init => Inv /\ Ends /\ RoundInv
  <2>1. Init => RoundInv
    BY TransferAssumption DEF Init, RoundInv
  <2> QED
    BY <2>1, InitInv, InitEnds
<1>2. Inv /\ Ends /\ RoundInv /\ [Next]_vars => (Inv /\ Ends /\ RoundInv)'
  BY NextInv, NextEnds, RoundStep
<1>3. Inv /\ Ends /\ RoundInv /\ [Next]_vars => [Shrinks]_vars
  <2> SUFFICES ASSUME Inv, Ends, RoundInv, Next, ~Dry PROVE Shrinks
    OBVIOUS
  <2>1. job' = job
    BY DEF Next, Manager, GameServer, OutputFile, SendFile, StartUpload, ReadUpload, SendUpload,
           AwaitOK, Store, StoreReset, StoreFails, OpenFile, FeedFile, Resize, GetHead, Relay,
           BrowserGone, GameServerGone, Stall
  <2>2. CASE job.what = "file"
    <3>1. ToDo = FileWork /\ ToDo' = FileWork'
      BY <2>1, <2>2 DEF ToDo
    <3> QED
      BY <2>2, <3>1, FileWorks
  <2>3. CASE job.what = "upload"
    <3>1. ToDo = UploadWork + Unstored /\ ToDo' = UploadWork' + Unstored'
      BY <2>1, <2>3 DEF ToDo
    <3> QED
      BY <2>3, <3>1, UploadShrinks
  <2>4. CASE job.what = "view"
    <3>1. ToDo = ViewWork /\ ToDo' = ViewWork'
      BY <2>1, <2>4 DEF ToDo
    <3> QED
      BY <2>4, <3>1, ViewWorks
  <2> QED
    BY <2>2, <2>3, <2>4, JobKinds DEF Inv
<1> QED
  BY <1>1, <1>2, <1>3, PTL DEF Spec

================================================================================
