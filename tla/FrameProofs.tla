------------------------------ MODULE FrameProofs ------------------------------
(***************************************************************************)
(* Lemmas about the closed form of frame, for bodies of every length and     *)
(* every chunk size.                                                        *)
(***************************************************************************)
EXTENDS ExtProcResponse, SequenceTheorems, TLAPS

\* The number of chunks: just enough of them, and one for an empty body.
LEMMA ChunkCount ==
    ASSUME NEW n \in Nat
    PROVE  /\ chunkCount(n) \in Nat \ {0}
           /\ n <= chunkCount(n) * streamChunkSize
           /\ n # 0 => (chunkCount(n) - 1) * streamChunkSize < n
           /\ n = 0 => chunkCount(n) = 1
  <1> DEFINE c == streamChunkSize
             k == (n + c - 1) \div c
  <1>1. c \in Nat \ {0}
    BY ChunkSizeAssumption
  <1>2. CASE n = 0
    BY <1>1, <1>2 DEF chunkCount
  <1>3. CASE n # 0
    <2>1. n + c - 1 \in Nat
      BY <1>1
    <2>2. k \in Int /\ c * k <= n + c - 1 /\ n + c - 1 < c * k + c
      BY <1>1, <2>1
    <2> HIDE DEF k, c
    <2>3. k >= 1
      BY <1>1, <1>3, <2>2
    <2>4. chunkCount(n) = k
      BY <1>3 DEF chunkCount, k, c
    <2>5. k * c = c * k /\ (k - 1) * c = c * k - c
      BY <1>1, <2>2
    <2> QED
      BY <1>1, <1>3, <2>2, <2>3, <2>4, <2>5 DEF c
  <1> QED
    BY <1>2, <1>3

\* There is always a chunk.
LEMMA SomeChunks == \A n \in Nat : chunkCount(n) \in Nat \ {0}
  BY ChunkCount

\* What newStreamedBodyResponse writes into the i-th chunk.
LEMMA ChunkFields ==
    ASSUME NEW m, NEW n, NEW dir, NEW t, NEW i
    PROVE  LET c == chunk(m, n, dir, t, i)
           IN  /\ c.type = "body" /\ c.dir = dir /\ c.body = m.body /\ c.length = n
               /\ c.lo = (i - 1) * streamChunkSize
               /\ c.hi = lesser(i * streamChunkSize, n)
               /\ c.eos = (i = chunkCount(n) /\ ~t)
  BY DEF chunk, newStreamedBodyResponse

\* f is m's headers, the k chunks of a body of length n, and the trailers if any.
ShapedAs(f, m, n, dir, t, k) ==
    /\ Len(f) = k + 1 + (IF t THEN 1 ELSE 0)
    /\ f = [i \in 1 .. Len(f) |-> f[i]]
    /\ f[1] = m.headers
    /\ \A i \in 1 .. k : f[i + 1] = chunk(m, n, dir, t, i)
    /\ t => f[k + 2] = TrailersResponse(dir)

\* frame has that shape.
LEMMA FrameShape ==
    ASSUME NEW m, NEW n \in Nat, NEW dir, NEW t \in BOOLEAN
    PROVE  ShapedAs(frame(m, n, dir, t), m, n, dir, t, chunkCount(n))
  <1> DEFINE k == chunkCount(n)
             body == [i \in 1 .. k |-> chunk(m, n, dir, t, i)]
             all == {m.headers} \cup {chunk(m, n, dir, t, i) : i \in 1 .. k}
                      \cup {TrailersResponse(dir)}
  <1>1. k \in Nat \ {0}
    BY ChunkCount
  <1>2. frame(m, n, dir, t) =
          <<m.headers>> \o body \o (IF t THEN <<TrailersResponse(dir)>> ELSE <<>>)
    BY DEF frame
  <1>3. body \in Seq(all) /\ Len(body) = k /\ \A i \in 1 .. k : body[i] = chunk(m, n, dir, t, i)
    BY <1>1
  <1>4. <<m.headers>> \in Seq(all) /\ Len(<<m.headers>>) = 1 /\ <<m.headers>>[1] = m.headers
    OBVIOUS
  <1> HIDE DEF k, body
  <1>5. /\ <<m.headers>> \o body \in Seq(all) /\ Len(<<m.headers>> \o body) = k + 1
        /\ (<<m.headers>> \o body)[1] = m.headers
        /\ \A i \in 1 .. k : (<<m.headers>> \o body)[i + 1] = chunk(m, n, dir, t, i)
    BY <1>1, <1>3, <1>4
  <1> DEFINE h == <<m.headers>> \o body
             f == frame(m, n, dir, t)
             T == TrailersResponse(dir)
  <1> SUFFICES ShapedAs(f, m, n, dir, t, k)
    BY DEF k
  <1>6. CASE t
    <2>1. f = h \o <<T>> /\ T \in all
      BY <1>2, <1>6
    <2> HIDE DEF f, T, all
    <2>2. /\ Len(f) = k + 2 /\ f \in Seq(all) /\ f[k + 2] = T
          /\ \A i \in 1 .. k + 1 : f[i] = h[i]
      <3>1. h \in Seq(all) /\ Len(h) = k + 1
        BY <1>5
      <3> DEFINE e == <<T>>
      <3>2. e \in Seq(all) /\ Len(e) = 1 /\ e[1] = T
        BY <2>1
      <3>3. f = h \o e
        BY <2>1
      <3> HIDE DEF h, e
      <3>4. /\ f \in Seq(all) /\ Len(f) = Len(h) + Len(e)
            /\ \A i \in 1 .. Len(h) + Len(e) : f[i] = IF i <= Len(h) THEN h[i] ELSE e[i - Len(h)]
        BY <3>1, <3>2, <3>3, ConcatProperties
      <3> QED
        BY <1>1, <3>1, <3>2, <3>4
    <2>3. f[1] = m.headers /\ \A i \in 1 .. k : f[i + 1] = chunk(m, n, dir, t, i)
      BY <1>1, <1>5, <2>2
    <2>4. (IF t THEN 1 ELSE 0) = 1
      BY <1>6
    <2>5. f = [i \in 1 .. Len(f) |-> f[i]]
      BY <2>2
    <2> HIDE DEF h
    <2> QED
      BY <1>1, <2>2, <2>3, <2>4, <2>5 DEF ShapedAs, T
  <1>7. CASE ~t
    <2>1. f = h
      BY <1>2, <1>5, <1>7
    <2> HIDE DEF f, all
    <2> QED
      BY <1>1, <1>5, <1>7, <2>1 DEF ShapedAs
  <1> QED
    BY <1>6, <1>7

\* w is a sequence, of whatever elements.
IsSeq(w) == \E S : w \in Seq(S)

\* x is what a frame has in place i, after the headers.
isItem(x, m, n, dir, t, i) ==
    \/ i - 1 \in 1 .. chunkCount(n) /\ x = chunk(m, n, dir, t, i - 1)
    \/ t /\ i = chunkCount(n) + 2 /\ x = TrailersResponse(dir)

\* Each message of a frame is its headers, one of its chunks or its trailers.
LEMMA FrameItems ==
    ASSUME NEW m, NEW n \in Nat, NEW dir, NEW t \in BOOLEAN
    PROVE  LET f == frame(m, n, dir, t)
           IN  /\ DOMAIN f = 1 .. Len(f) /\ IsSeq(f)
               /\ Len(f) \in Nat /\ Len(f) >= 2
               /\ t => Len(f) = chunkCount(n) + 2
               /\ ~t => Len(f) = chunkCount(n) + 1
               /\ f[1] = m.headers
               /\ \A i \in 2 .. Len(f) : isItem(f[i], m, n, dir, t, i)
  <1> DEFINE f == frame(m, n, dir, t)
             k == chunkCount(n)
             L == Len(f)
             R == {f[i] : i \in 1 .. L}
  <1>1. k \in Nat \ {0} /\ ShapedAs(f, m, n, dir, t, k)
    BY ChunkCount, FrameShape
  <1> HIDE DEF f, k
  <1>2. L = k + 1 + (IF t THEN 1 ELSE 0) /\ f = [i \in 1 .. L |-> f[i]] /\ f[1] = m.headers
    BY <1>1 DEF ShapedAs
  <1>3. (~t => L = k + 1) /\ (t => L = k + 2)
    BY <1>1, <1>2
  <1> HIDE DEF L
  <1>4. L \in Nat /\ L >= 2
    BY <1>1, <1>3
  <1>5. [i \in 1 .. L |-> f[i]] \in Seq(R) /\ DOMAIN [i \in 1 .. L |-> f[i]] = 1 .. L
    BY <1>4
  <1>6. IsSeq(f) /\ DOMAIN f = 1 .. L
    BY <1>2, <1>5 DEF IsSeq
  <1>7. ASSUME NEW i \in 2 .. L PROVE isItem(f[i], m, n, dir, t, i)
    <2>1. CASE i = k + 2
      BY <1>1, <1>3, <2>1 DEF ShapedAs, isItem, k
    <2>2. CASE i # k + 2
      <3>1. i - 1 \in 1 .. k /\ (i - 1) + 1 = i
        BY <1>1, <1>3, <2>2
      <3>2. f[i] = chunk(m, n, dir, t, i - 1)
        BY <1>1, <3>1 DEF ShapedAs
      <3> QED
        BY <3>1, <3>2 DEF isItem, k
    <2> QED
      BY <2>1, <2>2
  <1> HIDE DEF R
  <1> QED
    BY <1>2, <1>3, <1>4, <1>6, <1>7 DEF L, f, k
=============================================================================
