--------------------------- MODULE FrameLoopProofs ---------------------------
(***************************************************************************)
(* Proofs about the chunking loop of frame, for both directions, bodies of   *)
(* every length and every chunk size.                                       *)
(***************************************************************************)
EXTENDS FrameLoop, FrameProofs

-----------------------------------------------------------------------------
(* The inductive invariant: after j turns the loop holds the header and the  *)
(* first j chunks of the closed form, and is at the end of the j-th.         *)

\* What the loop can have appended.
Messages ==
    {m.headers, TrailersResponse(dir)}
      \cup [type : {"body"}, dir : {dir}, body : {m.body}, length : {length},
            lo : Nat, hi : Nat, eos : BOOLEAN]

\* Turns of the loop so far.
turns == Len(out) - 1

\* The first j chunks, and nothing else after the header.
Cut(j) ==
    /\ out[1] = m.headers
    /\ \A i \in 1 .. j : out[i + 1] = chunk(m, length, dir, hasTrailers, i)

\* The loop invariant: what is out is the prefix of the closed form.
FInv ==
    /\ length \in Nat /\ hasTrailers \in BOOLEAN /\ offset \in Nat
    /\ m.headers.type = "headers"
    /\ out \in Seq(Messages) /\ out # <<>>
    /\ pc \in {"loop", "trailers", "done"}
    /\ pc = "loop" =>
         Cut(turns) /\ turns < chunkCount(length) /\ offset = turns * streamChunkSize
    /\ pc = "trailers" => Cut(turns) /\ turns = chunkCount(length) /\ offset = length
    /\ pc = "done" => out = frame(m, length, dir, hasTrailers) /\ offset = length

\* The message that opens a direction is a headers message.
LEMMA HeadersType == \A d, mutation, replace : HeadersResponse(d, mutation, replace).type = "headers"
  BY DEF HeadersResponse

\* The loop starts with the headers message out.
LEMMA InitFInv == FrameInit => FInv
  <1> SUFFICES ASSUME FrameInit PROVE FInv
    OBVIOUS
  <1>1. length \in Nat
    BY DEF FrameInit
  <1>2. out = <<m.headers>> /\ Len(out) = 1 /\ out[1] = m.headers /\ out \in Seq(Messages)
    BY DEF FrameInit, Messages
  <1>3. chunkCount(length) \in Nat \ {0}
    BY <1>1, ChunkCount
  <1>5. m.headers.type = "headers"
    <2>1. ASSUME NEW body, NEW strip, m = rerouteWithBodyMutation(body, strip)
          PROVE  m.headers.type = "headers"
      BY <2>1, HeadersType DEF rerouteWithBodyMutation
    <2>2. ASSUME NEW body, NEW h, m = [headers |-> h, body |-> body], h.type = "headers"
          PROVE  m.headers.type = "headers"
      BY <2>2
    <2>3. CASE \E body \in Bodies, strip \in SUBSET ParamHeaders : m = rerouteWithBodyMutation(body, strip)
      BY <2>1, <2>3
    <2>4. CASE \E body \in Bodies :
                 m = [headers |-> HeadersResponse("response", responseMutation(length), NoBody),
                      body |-> body]
      BY <2>2, <2>4, HeadersType
    <2> QED
      BY <2>3, <2>4 DEF FrameInit, Called
  <1>4. turns = 0 /\ offset = 0 * streamChunkSize
    BY <1>2, ChunkSizeAssumption DEF turns, FrameInit
  <1> QED
    BY <1>1, <1>2, <1>3, <1>4, <1>5 DEF FrameInit, FInv, Cut

\* Fewer chunks are no longer.
LEMMA NoMore ==
    ASSUME NEW a \in Nat, NEW b \in Int, NEW c \in Nat, a <= b
    PROVE  a * c <= b * c
  <1>1. PICK d \in Nat : b = a + d
    <2>1. b - a \in Nat /\ b = a + (b - a)
      OBVIOUS
    <2> QED
      BY <2>1
  <1>2. d * c \in Nat /\ b * c = a * c + d * c /\ a * c \in Nat
    BY <1>1
  <1> QED
    BY <1>2

\* A turn cuts the next chunk of the closed form and sees correctly whether it is
\* the last.
LEMMA IterateFInv ==
    ASSUME FInv, Iterate
    PROVE  FInv'
  <1> DEFINE c    == streamChunkSize
             j    == turns + 1
             end  == lesser(length - offset, c)
             last == offset + end = length
             new  == newStreamedBodyResponse(dir, m.body, length, offset, offset + end,
                                             last /\ ~hasTrailers)
  <1>1. /\ c \in Nat \ {0} /\ length \in Nat /\ hasTrailers \in BOOLEAN /\ offset \in Nat
        /\ out \in Seq(Messages) /\ out # <<>> /\ m.headers.type = "headers"
    BY ChunkSizeAssumption DEF FInv
  <1>2. pc = "loop" /\ Cut(turns) /\ turns < chunkCount(length) /\ offset = turns * c
    BY DEF FInv, Iterate
  <1>3. turns \in Nat /\ Len(out) = j
    BY <1>1 DEF turns
  <1>4. /\ chunkCount(length) \in Nat \ {0} /\ length <= chunkCount(length) * c
        /\ length # 0 => (chunkCount(length) - 1) * c < length
        /\ length = 0 => chunkCount(length) = 1
    BY <1>1, ChunkCount
  <1>5. offset = (j - 1) * c /\ offset <= length
    <2>1. CASE length = 0
      BY <1>1, <1>2, <1>3, <1>4, <2>1
    <2>2. CASE length # 0
      <3>1. turns <= chunkCount(length) - 1
        BY <1>2, <1>3, <1>4
      <3>2. turns * c <= (chunkCount(length) - 1) * c
        <4>1. chunkCount(length) - 1 \in Int /\ c \in Nat
          BY <1>1, <1>4
        <4> HIDE DEF c
        <4> QED
          BY <1>3, <3>1, <4>1, NoMore
      <3> QED
        BY <1>1, <1>2, <1>3, <1>4, <2>2, <3>2
    <2> QED
      BY <2>1, <2>2
  <1>6. j * c = offset + c
    BY <1>1, <1>3, <1>5
  <1>7. offset + end = lesser(j * c, length) /\ end \in Nat
    BY <1>1, <1>5, <1>6 DEF lesser
  <1>8. last <=> j = chunkCount(length)
    <2>1. ASSUME j = chunkCount(length) PROVE last
      BY <1>1, <1>4, <1>6, <1>7, <2>1 DEF lesser
    <2>2. ASSUME j # chunkCount(length) PROVE ~last
      <3>1. j <= chunkCount(length) - 1 /\ length # 0
        BY <1>2, <1>3, <1>4, <2>2
      <3>2. j * c <= (chunkCount(length) - 1) * c
        <4>1. chunkCount(length) - 1 \in Int /\ c \in Nat /\ j \in Nat
          BY <1>1, <1>3, <1>4
        <4> HIDE DEF c, j
        <4> QED
          BY <3>1, <4>1, NoMore
      <3>3. j * c < length
        BY <1>1, <1>3, <1>4, <3>1, <3>2
      <3> QED
        BY <1>1, <1>6, <1>7, <3>3 DEF lesser
    <2> QED
      BY <2>1, <2>2
  <1>9. new = chunk(m, length, dir, hasTrailers, j)
    BY <1>5, <1>7, <1>8 DEF chunk
  <1>10. new \in Messages
    BY <1>1, <1>7 DEF newStreamedBodyResponse, Messages
  <1>11. out' = Append(out, new) /\ offset' = offset + end /\ pc' = (IF last THEN "trailers" ELSE "loop")
           /\ UNCHANGED <<m, length, dir, hasTrailers>>
    BY DEF Iterate, arguments
  <1>16. Messages' = Messages
    BY <1>11 DEF Messages
  <1> HIDE DEF new, last, end
  <1>12. /\ out' \in Seq(Messages) /\ out' # <<>> /\ Len(out') = j + 1 /\ turns' = j
         /\ out'[j + 1] = new /\ \A i \in 1 .. j : out'[i] = out[i]
    BY <1>1, <1>3, <1>10, <1>11 DEF turns
  <1>13. Cut(turns)'
    BY <1>2, <1>3, <1>9, <1>11, <1>12 DEF Cut
  <1>14. CASE last
    BY <1>1, <1>7, <1>8, <1>11, <1>12, <1>13, <1>14, <1>16 DEF FInv, last
  <1>15. CASE ~last
    <2>1. offset' = j * c /\ j < chunkCount(length)
      BY <1>1, <1>2, <1>3, <1>4, <1>6, <1>7, <1>8, <1>11, <1>15 DEF last, lesser
    <2>2. pc' = "loop" /\ offset' \in Nat
      BY <1>1, <1>7, <1>11, <1>15
    <2> QED
      BY <1>1, <1>11, <1>12, <1>13, <1>16, <2>1, <2>2 DEF FInv
  <1> QED
    BY <1>14, <1>15

\* What is returned is the closed form.
LEMMA TrailersFInv ==
    ASSUME FInv, AppendTrailers
    PROVE  FInv'
  <1> DEFINE f == frame(m, length, dir, hasTrailers)
             k == chunkCount(length)
  <1>1. /\ length \in Nat /\ hasTrailers \in BOOLEAN /\ out \in Seq(Messages)
        /\ Cut(k) /\ turns = k /\ m.headers.type = "headers"
    BY DEF FInv, AppendTrailers
  <1>8. UNCHANGED <<m, length, dir, hasTrailers, offset>> /\ Messages' = Messages
    BY DEF AppendTrailers, arguments, Messages
  <1>2. k \in Nat \ {0} /\ Len(out) = k + 1
    <2>1. k \in Nat \ {0}
      BY <1>1, SomeChunks
    <2> HIDE DEF k
    <2> QED
      BY <1>1, <2>1 DEF turns
  <1>3. ShapedAs(f, m, length, dir, hasTrailers, k)
    BY <1>1, FrameShape
  <1> HIDE DEF f, k
  <1>4. /\ Len(f) = k + 1 + (IF hasTrailers THEN 1 ELSE 0)
        /\ f = [i \in 1 .. Len(f) |-> f[i]]
        /\ f[1] = m.headers
        /\ \A i \in 1 .. k : f[i + 1] = chunk(m, length, dir, hasTrailers, i)
        /\ hasTrailers => f[k + 2] = TrailersResponse(dir)
    BY <1>3 DEF ShapedAs
  <1>5. \A i \in 1 .. k + 1 : out[i] = f[i]
    <2>1. out[1] = f[1]
      BY <1>1, <1>4 DEF Cut
    <2>2. \A i \in 1 .. k : out[i + 1] = f[i + 1]
      BY <1>1, <1>4 DEF Cut
    <2>3. ASSUME NEW i \in 1 .. k + 1, i # 1 PROVE i - 1 \in 1 .. k /\ i = (i - 1) + 1
      BY <1>2, <2>3
    <2> QED
      BY <2>1, <2>2, <2>3
  <1>6. out' \in Seq(Messages) /\ Len(out') = Len(f) /\ \A i \in 1 .. Len(f) : out'[i] = f[i]
    <2>1. CASE hasTrailers
      <3> DEFINE T == TrailersResponse(dir)
      <3>1. out' = Append(out, T) /\ T \in Messages /\ f[k + 2] = T
        BY <1>4, <2>1 DEF AppendTrailers, Messages
      <3> HIDE DEF T
      <3>2. /\ out' \in Seq(Messages) /\ Len(out') = k + 2 /\ out'[k + 2] = T
            /\ \A i \in 1 .. k + 1 : out'[i] = out[i]
        BY <1>1, <1>2, <3>1
      <3>3. Len(f) = k + 2
        BY <1>2, <1>4, <2>1
      <3> QED
        BY <1>2, <1>5, <3>1, <3>2, <3>3
    <2>2. CASE ~hasTrailers
      <3>1. out' = out /\ Len(f) = k + 1
        BY <1>2, <1>4, <2>2 DEF AppendTrailers
      <3> QED
        BY <1>1, <1>2, <1>5, <3>1
    <2> QED
      BY <1>1, <2>1, <2>2
  <1>7. out' = f
    <2>1. out' = [i \in 1 .. Len(f) |-> f[i]]
      BY <1>6
    <2> QED
      BY <1>4, <2>1
  <1> QED
    BY <1>1, <1>2, <1>6, <1>7, <1>8 DEF FInv, AppendTrailers, f

\* Once frame has returned, a step changes nothing.
LEMMA NextFInv == FInv /\ [FrameNext]_loopVars => FInv'
  <1> SUFFICES ASSUME FInv, [FrameNext]_loopVars PROVE FInv'
    OBVIOUS
  <1>1. CASE UNCHANGED loopVars
    BY <1>1 DEF loopVars, arguments, FInv, Cut, turns, Messages
  <1>2. CASE Iterate
    BY <1>2, IterateFInv
  <1>3. CASE AppendTrailers
    BY <1>3, TrailersFInv
  <1> QED
    BY <1>1, <1>2, <1>3 DEF FrameNext, Returned

\* The inductive invariant holds of the loop on every body.
LEMMA FrameInvariance == FrameSpec => []FInv
  BY InitFInv, NextFInv, PTL DEF FrameSpec

-----------------------------------------------------------------------------
(* The theorems.                                                            *)

\* The chunking loop of frame computes, for a rewritten call and for a translated
\* response, the closed form with which the model of a stream frames its bodies.
THEOREM LoopIsClosedForm == FrameSpec => []LoopComputesFrame
  <1>1. FInv => LoopComputesFrame
    BY DEF FInv, LoopComputesFrame
  <1> QED
    BY <1>1, FrameInvariance, PTL

\* After j turns the messages are the header, j chunks of the closed form, and at
\* the end perhaps the trailers.
TurnsDone(j) ==
    /\ out[1] = m.headers
    /\ \A i \in 1 .. j : out[i + 1] = chunk(m, length, dir, hasTrailers, i)
    /\ Len(out) = j + 1 + (IF pc = "done" /\ hasTrailers THEN 1 ELSE 0)
    /\ pc = "done" /\ hasTrailers => out[j + 2] = TrailersResponse(dir)
    /\ pc = "loop" => j < chunkCount(length) /\ offset = j * streamChunkSize
    /\ pc # "loop" => j = chunkCount(length) /\ offset = length

\* In every state some number of turns is done, as out shows.
LEMMA OutShape ==
    ASSUME FInv
    PROVE  \E j \in 0 .. chunkCount(length) : TurnsDone(j)
  <1>1. length \in Nat /\ hasTrailers \in BOOLEAN /\ out \in Seq(Messages) /\ out # <<>>
    BY DEF FInv
  <1>2. chunkCount(length) \in Nat \ {0}
    BY <1>1, SomeChunks
  <1>3. turns \in Nat /\ Len(out) = turns + 1
    BY <1>1 DEF turns
  <1>4. CASE pc = "loop"
    BY <1>1, <1>2, <1>3, <1>4 DEF FInv, Cut, TurnsDone
  <1>5. CASE pc = "trailers"
    BY <1>1, <1>2, <1>3, <1>5 DEF FInv, Cut, TurnsDone
  <1>6. CASE pc = "done"
    <2>1. ShapedAs(out, m, length, dir, hasTrailers, chunkCount(length)) /\ offset = length
      BY <1>1, <1>6, FrameShape DEF FInv
    <2> QED
      BY <1>2, <1>6, <2>1 DEF ShapedAs, TurnsDone
  <1> QED
    BY <1>4, <1>5, <1>6 DEF FInv

\* The i-th chunk begins after i - 1 full ones and is full unless it is the last.
Bounds(i) ==
    /\ out[i + 1].lo = (i - 1) * streamChunkSize
    /\ i < chunkCount(length) =>
         out[i + 1].hi = i * streamChunkSize /\ i * streamChunkSize < length
    /\ i = chunkCount(length) => out[i + 1].hi = length
    /\ out[i + 1].eos = (i = chunkCount(length) /\ ~hasTrailers)

\* The chunks among the messages, and the arithmetic of their bounds.
LEMMA ChunkBounds ==
    ASSUME FInv, NEW j \in 0 .. chunkCount(length), TurnsDone(j)
    PROVE  /\ {i \in DOMAIN out : bodyAt(i)} = 2 .. j + 1
           /\ \A i \in 1 .. j : Bounds(i)
  <1> DEFINE c == streamChunkSize
             n == chunkCount(length)
  <1>1. length \in Nat /\ hasTrailers \in BOOLEAN /\ out \in Seq(Messages) /\ c \in Nat \ {0}
    BY ChunkSizeAssumption DEF FInv
  <1>2. /\ n \in Nat \ {0} /\ length <= n * c /\ (length # 0 => (n - 1) * c < length)
        /\ length = 0 => n = 1
    BY <1>1, ChunkCount
  <1>3. j \in Nat /\ j <= n
    BY <1>2
  <1>4. \A i \in 1 .. j :
           /\ out[i + 1].type = "body"
           /\ out[i + 1].lo = (i - 1) * c
           /\ out[i + 1].hi = lesser(i * c, length)
           /\ out[i + 1].eos = (i = n /\ ~hasTrailers)
    BY ChunkFields DEF TurnsDone
  <1>5. {i \in DOMAIN out : bodyAt(i)} = 2 .. j + 1
    <2>1. out[1].type # "body" /\ (pc = "done" /\ hasTrailers => out[j + 2].type # "body")
      BY DEF FInv, TurnsDone, TrailersResponse
    <2>2. Len(out) = (IF pc = "done" /\ hasTrailers THEN j + 2 ELSE j + 1)
      BY <1>3 DEF TurnsDone
    <2>3. \A i \in 2 .. j + 1 : i - 1 \in 1 .. j /\ (i - 1) + 1 = i
      BY <1>3
    <2>4. \A i \in 2 .. j + 1 : out[i].type = "body"
      BY <1>4, <2>3
    <2>5. \A i \in DOMAIN out : i \in 2 .. j + 1 \/ i = 1 \/ (i = j + 2 /\ pc = "done" /\ hasTrailers)
      BY <1>1, <1>3, <2>2
    <2>6. 2 .. j + 1 \subseteq DOMAIN out
      BY <1>1, <1>3, <2>2
    <2> QED
      BY <2>1, <2>4, <2>5, <2>6 DEF bodyAt
  <1> HIDE DEF n, c
  <1>6. \A i \in 1 .. j : i < n => i * c < length
    <2> SUFFICES ASSUME NEW i \in 1 .. j, i < n PROVE i * c < length
      OBVIOUS
    <2>1. i \in Nat /\ n - 1 \in Nat /\ i <= n - 1
      BY <1>2, <1>3
    <2>2. i * c <= (n - 1) * c
      BY <1>1, <2>1
    <2>3. length # 0
      BY <1>2, <2>1
    <2> QED
      BY <1>1, <1>2, <2>1, <2>2, <2>3
  <1>7. \A i \in 1 .. j : (i < n => lesser(i * c, length) = i * c)
    <2> SUFFICES ASSUME NEW i \in 1 .. j, i < n PROVE lesser(i * c, length) = i * c
      OBVIOUS
    <2>1. i * c <= length
      BY <1>1, <1>3, <1>6
    <2> QED
      BY <2>1 DEF lesser
  <1>8. lesser(n * c, length) = length
    BY <1>1, <1>2 DEF lesser
  <1>9. ASSUME NEW i \in 1 .. j PROVE Bounds(i)
    BY <1>4, <1>6, <1>7, <1>8 DEF n, c, Bounds
  <1> QED
    BY <1>5, <1>9

\* At every turn the chunks follow one another from the first byte, each within
\* streamChunkSize, and in the end they cover the body.
THEOREM ChunksCoverBody == FrameSpec => []ChunksTile
  <1>1. FInv => ChunksTile
    <2> SUFFICES ASSUME FInv PROVE ChunksTile
      OBVIOUS
    <2> DEFINE c == streamChunkSize
               n == chunkCount(length)
    <2>1. length \in Nat /\ c \in Nat \ {0} /\ n \in Nat \ {0} /\ length <= n * c
            /\ (length # 0 => (n - 1) * c < length) /\ (length = 0 => n = 1)
      BY ChunkSizeAssumption, ChunkCount DEF FInv
    <2>2. PICK j \in 0 .. n : TurnsDone(j)
      BY OutShape
    <2>3. /\ {i \in DOMAIN out : bodyAt(i)} = 2 .. j + 1
          /\ \A i \in 1 .. j : Bounds(i)
      BY <2>2, ChunkBounds
    <2>4. n \in Nat /\ j \in Nat /\ j <= n /\ (pc = "loop" => j < n /\ offset = j * c)
                             /\ (pc # "loop" => j = n /\ offset = length)
      BY <2>1, <2>2 DEF TurnsDone
    <2> HIDE DEF n, c
    <2>5. ASSUME NEW k \in 1 .. j
          PROVE  /\ k > 1 => out[k + 1].lo = out[k].hi
                 /\ k = 1 => out[k + 1].lo = 0
                 /\ out[k + 1].hi - out[k + 1].lo <= c
                 /\ out[k + 1].hi = out[k + 1].lo => length = 0
      <3>1. k \in Nat /\ k - 1 \in Nat /\ k <= n /\ c \in Nat
        BY <2>1, <2>4
      <3>2. out[k + 1].lo = (k - 1) * c /\ k * c = (k - 1) * c + c /\ (k - 1) * c \in Nat
        <4>1. out[k + 1].lo = (k - 1) * c
          BY <2>3 DEF Bounds, c
        <4> QED
          BY <3>1, <4>1
      <3>3. k > 1 => out[k].hi = (k - 1) * c
        <4> SUFFICES ASSUME k > 1 PROVE out[k].hi = (k - 1) * c
          OBVIOUS
        <4> DEFINE q == k - 1
        <4>1. q \in 1 .. j /\ q < n /\ q + 1 = k
          BY <2>4, <3>1
        <4> HIDE DEF q
        <4>2. out[q + 1].hi = q * c
          BY <2>3, <4>1 DEF Bounds, n, c
        <4> QED
          BY <4>1, <4>2 DEF q
      <3>4. k = 1 => (k - 1) * c = 0
        BY <2>1
      <3>5. CASE k < n
        <4>1. out[k + 1].hi = k * c
          BY <2>3, <3>5 DEF Bounds, n, c
        <4> QED
          BY <2>1, <3>2, <3>3, <3>4, <4>1
      <3>6. CASE k = n
        <4>1. out[k + 1].hi = length
          BY <2>3, <3>6 DEF Bounds, n, c
        <4>2. length <= (k - 1) * c + c /\ (length # 0 => (k - 1) * c < length)
          BY <2>1, <3>2, <3>6
        <4> QED
          BY <2>1, <3>2, <3>3, <3>4, <4>1, <4>2
      <3> QED
        BY <2>1, <3>1, <3>5, <3>6
    <2>9. \A i \in 2 .. j + 1 :
             /\ out[i].lo = (IF i - 1 \in 2 .. j + 1 THEN out[i - 1].hi ELSE 0)
             /\ out[i].hi - out[i].lo <= c
             /\ out[i].hi = out[i].lo => length = 0
      <3> SUFFICES ASSUME NEW i \in 2 .. j + 1
                   PROVE  /\ out[i].lo = (IF i - 1 \in 2 .. j + 1 THEN out[i - 1].hi ELSE 0)
                          /\ out[i].hi - out[i].lo <= c
                          /\ out[i].hi = out[i].lo => length = 0
        OBVIOUS
      <3> DEFINE k == i - 1
      <3>1. k \in 1 .. j /\ k + 1 = i /\ (k > 1 <=> i - 1 \in 2 .. j + 1) /\ (k > 1 \/ k = 1)
        BY <2>4
      <3>2. /\ k > 1 => out[i].lo = out[k].hi
            /\ k = 1 => out[i].lo = 0
            /\ out[i].hi - out[i].lo <= c
            /\ out[i].hi = out[i].lo => length = 0
        BY <2>5, <3>1
      <3> QED
        BY <3>1, <3>2
    <2>6. offset <= length
      <3>1. CASE pc = "loop" /\ j # 0
        <4>1. j \in 1 .. j /\ j < n
          BY <2>4, <3>1
        <4>2. j * c < length
          BY <2>3, <4>1 DEF Bounds, n, c
        <4> QED
          BY <2>1, <2>4, <3>1, <4>2
      <3>2. CASE pc = "loop" /\ j = 0
        BY <2>1, <2>4, <3>2
      <3>3. CASE pc # "loop"
        BY <2>1, <2>4, <3>3
      <3> QED
        BY <3>1, <3>2, <3>3
    <2>7. 2 .. j + 1 # {} => offset = out[CHOOSE i \in 2 .. j + 1 : i + 1 \notin 2 .. j + 1].hi
      <3> SUFFICES ASSUME 2 .. j + 1 # {}
                   PROVE  offset = out[CHOOSE i \in 2 .. j + 1 : i + 1 \notin 2 .. j + 1].hi
        OBVIOUS
      <3>1. j \in 1 .. j /\ j + 1 \in 2 .. j + 1
        BY <2>4
      <3>2. (CHOOSE i \in 2 .. j + 1 : i + 1 \notin 2 .. j + 1) = j + 1
        BY <2>4, <3>1
      <3>3. offset = out[j + 1].hi
        <4>1. CASE pc = "loop"
          BY <2>3, <2>4, <3>1, <4>1 DEF Bounds, n, c
        <4>2. CASE pc # "loop"
          BY <2>3, <2>4, <3>1, <4>2 DEF Bounds, n, c
        <4> QED
          BY <4>1, <4>2
      <3> QED
        BY <3>2, <3>3
    <2>8. 2 .. j + 1 = {} => offset = 0 /\ pc = "loop"
      BY <2>1, <2>4
    <2> QED
      BY <2>3, <2>4, <2>9, <2>6, <2>7, <2>8 DEF ChunksTile, c
  <1> QED
    BY <1>1, FrameInvariance, PTL

\* Exactly the last message says that the stream ends, whether it is the last
\* chunk or the trailers.
THEOREM EndsOnce == FrameSpec => []OneTerminator
  <1>1. FInv => OneTerminator
    <2> SUFFICES ASSUME FInv, pc = "done"
                 PROVE  {i \in DOMAIN out : out[i].type = "trailers" \/ (bodyAt(i) /\ out[i].eos)}
                          = {Len(out)}
      BY DEF OneTerminator
    <2> DEFINE n == chunkCount(length)
    <2>1. n \in Nat \ {0} /\ hasTrailers \in BOOLEAN /\ out \in Seq(Messages)
      BY SomeChunks DEF FInv
    <2>2. TurnsDone(n)
      <3>1. PICK j \in 0 .. n : TurnsDone(j)
        BY OutShape
      <3>2. j = n
        BY <3>1 DEF TurnsDone
      <3> QED
        BY <3>1, <3>2
    <2>3. {i \in DOMAIN out : bodyAt(i)} = 2 .. n + 1 /\ \A i \in 1 .. n : Bounds(i)
      <3>1. n \in 0 .. n
        BY <2>1
      <3> QED
        BY <2>2, <3>1, ChunkBounds
    <2>4. out[1].type = "headers"
      BY <2>2 DEF FInv, TurnsDone
    <2>5. \A i \in 2 .. n + 1 : i \in DOMAIN out /\ bodyAt(i) /\ (out[i].eos <=> i = n + 1 /\ ~hasTrailers)
      <3>1. \A i \in 2 .. n + 1 : i - 1 \in 1 .. n /\ (i - 1) + 1 = i /\ (i - 1 = n <=> i = n + 1)
        BY <2>1
      <3>2. \A k \in 1 .. n : out[k + 1].eos = (k = n /\ ~hasTrailers)
        BY <2>3 DEF Bounds
      <3> HIDE DEF n
      <3>3. ASSUME NEW i \in 2 .. n + 1 PROVE out[i].eos <=> i = n + 1 /\ ~hasTrailers
        BY <2>1, <3>1, <3>2
      <3> QED
        BY <2>3, <3>3
    <2> HIDE DEF n
    <2>6. CASE hasTrailers
      <3>1. Len(out) = n + 2 /\ out[n + 2].type = "trailers"
        BY <2>1, <2>2, <2>6 DEF TurnsDone, TrailersResponse, n
      <3>2. \A i \in DOMAIN out : i = 1 \/ i \in 2 .. n + 1 \/ i = n + 2
        BY <2>1, <3>1
      <3>3. n + 2 \in DOMAIN out
        BY <2>1, <3>1
      <3> QED
        BY <2>1, <2>4, <2>5, <2>6, <3>1, <3>2, <3>3 DEF bodyAt
    <2>7. CASE ~hasTrailers
      <3>1. Len(out) = n + 1
        BY <2>1, <2>2, <2>7 DEF TurnsDone, n
      <3>2. \A i \in DOMAIN out : i = 1 \/ i \in 2 .. n + 1
        BY <2>1, <3>1
      <3> QED
        BY <2>1, <2>4, <2>5, <2>7, <3>1, <3>2 DEF bodyAt
    <2> QED
      BY <2>6, <2>7
  <1> QED
    BY <1>1, FrameInvariance, PTL
=============================================================================
