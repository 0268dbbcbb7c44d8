--------------------------- MODULE ExchangeProofs ---------------------------
(***************************************************************************)
(* Proofs about one HTTP request through Envoy, the processor and the API,   *)
(* for every client request, API response, body and chunking.               *)
(*                                                                         *)
(* The processor in the exchange is a stream of StreamState, so what is      *)
(* proved of the replies of a cycle holds here.  The invariant adds what     *)
(* only the composition knows: the messages in flight are what the cycle     *)
(* still waits for (Queue), the cycle is the client's request (Course), and  *)
(* the replies sent are what the API and the client have, in order (Pipe).   *)
(***************************************************************************)
EXTENDS Exchange, StreamStateProofs

-----------------------------------------------------------------------------
(* The slices of a body that are in flight.                                 *)

\* Where a body is, once its end has been sent.
reach(pos) == IF pos = Ended THEN BodyParts ELSE pos

\* c cuts the messages q out of the bytes of b, from lo to pos; the end, when it
\* was sent, is said by the last message.
Cuts(c, q, types, b, lo, pos) ==
    /\ c \in [0 .. Len(q) -> 0 .. BodyParts]
    /\ c[0] = lo /\ c[Len(q)] = reach(pos)
    /\ \A i \in 1 .. Len(q) :
          /\ q[i].type \in types
          /\ c[i - 1] <= c[i]
          /\ payloadOf(q[i]) = SubSeq(Whole(b), c[i - 1] + 1, c[i])
          /\ endsBody(q[i]) <=> (pos = Ended /\ i = Len(q))

\* The messages q carry the bytes of b that were sent since lo.
Slices(q, types, b, lo, pos) ==
    /\ pos = Ended => q # <<>>
    /\ \E c : Cuts(c, q, types, b, lo, pos)

\* Nothing was sent of the body yet.
LEMMA SlicesNone ==
    ASSUME NEW types, NEW b
    PROVE  Slices(<<>>, types, b, 0, 0)
  <1> DEFINE c == [i \in 0 .. 0 |-> 0]
  <1>1. BodyParts \in Nat \ {0}
    BY HandlerAssumption
  <1>2. 0 # Ended /\ reach(0) = 0 /\ 0 \in 0 .. BodyParts
    BY <1>1 DEF Ended, reach
  <1>3. Len(<<>>) = 0
    BY EmptySeq
  <1>4. c \in [0 .. 0 -> 0 .. BodyParts] /\ c[0] = 0
    BY <1>2
  <1> HIDE DEF c
  <1>5. Cuts(c, <<>>, types, b, 0, 0)
    BY <1>2, <1>3, <1>4 DEF Cuts
  <1> QED
    BY <1>2, <1>5 DEF Slices

\* Envoy sends the next slice.
LEMMA SlicesGrow ==
    ASSUME NEW q \in Seq(Messages), NEW types, NEW b, NEW lo, NEW pos \in 0 .. BodyParts,
           Slices(q, types, b, lo, pos),
           NEW m \in Messages, m.type \in types,
           NEW to \in pos .. BodyParts, payloadOf(m) = SubSeq(Whole(b), pos + 1, to),
           NEW next, next \in {to, Ended}, next = Ended => to = BodyParts,
           endsBody(m) <=> next = Ended
    PROVE  Slices(Append(q, m), types, b, lo, next)
  <1>1. BodyParts \in Nat \ {0}
    BY HandlerAssumption
  <1>2. pos # Ended /\ reach(pos) = pos /\ reach(next) = to /\ to \in 0 .. BodyParts
    BY <1>1 DEF Ended, reach
  <1>3. PICK c : Cuts(c, q, types, b, lo, pos)
    BY DEF Slices
  <1>4. Len(q) \in Nat
    BY LenProperties
  <1> DEFINE n == Len(q)
             a == Append(q, m)
             d == [i \in 0 .. n + 1 |-> IF i = n + 1 THEN to ELSE c[i]]
  <1>5. /\ Len(a) = n + 1 /\ a # <<>> /\ a[n + 1] = m
        /\ \A i \in 1 .. n : a[i] = q[i]
    BY AppendProperties
  <1> HIDE DEF a
  <1>6. /\ c \in [0 .. n -> 0 .. BodyParts] /\ c[0] = lo /\ c[n] = pos
        /\ \A i \in 1 .. n :
              /\ q[i].type \in types /\ c[i - 1] <= c[i]
              /\ payloadOf(q[i]) = SubSeq(Whole(b), c[i - 1] + 1, c[i])
              /\ ~endsBody(q[i])
    BY <1>2, <1>3 DEF Cuts
  <1> HIDE DEF n
  <1>7. n \in Nat
    BY <1>4 DEF n
  <1>8. /\ \A i \in 0 .. n : d[i] = c[i]
        /\ d[n + 1] = to
        /\ d \in [0 .. n + 1 -> 0 .. BodyParts]
    BY <1>2, <1>6, <1>7
  <1> HIDE DEF d
  <1>9. d[0] = lo /\ d[n] = pos
    BY <1>6, <1>7, <1>8
  <1>10. ASSUME NEW i \in 1 .. n + 1
         PROVE  /\ a[i].type \in types /\ d[i - 1] <= d[i]
                /\ payloadOf(a[i]) = SubSeq(Whole(b), d[i - 1] + 1, d[i])
                /\ endsBody(a[i]) <=> (next = Ended /\ i = n + 1)
    <2>1. CASE i = n + 1
      <3>1. i - 1 = n
        BY <1>7, <2>1
      <3> QED
        BY <1>5, <1>8, <1>9, <2>1, <3>1
    <2>2. CASE i # n + 1
      <3>1. i \in 1 .. n /\ i \in 0 .. n /\ i - 1 \in 0 .. n
        BY <1>7, <2>2
      <3> QED
        BY <1>5, <1>6, <1>8, <2>2, <3>1
    <2> QED
      BY <2>1, <2>2
  <1>11. Cuts(d, a, types, b, lo, next)
    BY <1>2, <1>5, <1>8, <1>9, <1>10 DEF Cuts
  <1> QED
    BY <1>5, <1>11 DEF Slices, a

\* The processor takes the first slice; the one that ends the body is the last.
LEMMA SlicesTake ==
    ASSUME NEW q \in Seq(Messages), q # <<>>, NEW types, NEW b, NEW lo, NEW pos,
           Slices(q, types, b, lo, pos)
    PROVE  /\ lo \in 0 .. BodyParts
           /\ Head(q).type \in types
           /\ \E mid \in lo .. BodyParts :
                /\ payloadOf(Head(q)) = SubSeq(Whole(b), lo + 1, mid)
                /\ endsBody(Head(q)) => pos = Ended /\ mid = BodyParts /\ Tail(q) = <<>>
                /\ ~endsBody(Head(q)) => Slices(Tail(q), types, b, mid, pos)
  <1>1. BodyParts \in Nat \ {0}
    BY HandlerAssumption
  <1>2. PICK c : Cuts(c, q, types, b, lo, pos)
    BY DEF Slices
  <1> DEFINE n == Len(q)
             t == Tail(q)
             d == [i \in 0 .. n - 1 |-> c[i + 1]]
  <1>3. n \in Nat \ {0}
    BY EmptySeq
  <1>4. /\ Head(q) = q[1] /\ Len(t) = n - 1 /\ t \in Seq(Messages)
        /\ \A i \in 1 .. n - 1 : t[i] = q[i + 1]
    BY HeadTailProperties
  <1> HIDE DEF t
  <1>5. /\ c \in [0 .. n -> 0 .. BodyParts] /\ c[0] = lo /\ c[n] = reach(pos)
        /\ \A i \in 1 .. n :
              /\ q[i].type \in types /\ c[i - 1] <= c[i]
              /\ payloadOf(q[i]) = SubSeq(Whole(b), c[i - 1] + 1, c[i])
              /\ endsBody(q[i]) <=> (pos = Ended /\ i = n)
    BY <1>2 DEF Cuts
  <1> HIDE DEF n
  <1>6. 1 \in 1 .. n /\ 1 - 1 = 0 /\ 0 \in 0 .. n /\ 1 \in 0 .. n
    BY <1>3
  <1>7. /\ q[1].type \in types /\ c[0] <= c[1]
        /\ payloadOf(q[1]) = SubSeq(Whole(b), c[0] + 1, c[1])
        /\ endsBody(q[1]) <=> (pos = Ended /\ 1 = n)
    BY <1>5, <1>6
  <1>8. lo \in 0 .. BodyParts /\ c[1] \in 0 .. BodyParts
    BY <1>5, <1>6
  <1>9. c[1] \in lo .. BodyParts
    BY <1>1, <1>5, <1>7, <1>8
  <1>10. ASSUME endsBody(q[1])
         PROVE  pos = Ended /\ c[1] = BodyParts /\ t = <<>>
    <2>1. pos = Ended /\ n = 1
      BY <1>7, <1>10
    <2>2. Len(t) = 0
      BY <1>4, <2>1
    <2> QED
      BY <1>4, <1>5, <2>1, <2>2, EmptySeq DEF reach
  <1>11. ASSUME ~endsBody(q[1])
         PROVE  Slices(t, types, b, c[1], pos)
    <2>1. ~(pos = Ended /\ n = 1)
      BY <1>7, <1>11
    <2>2. pos = Ended => t # <<>>
      <3>1. SUFFICES ASSUME pos = Ended, t = <<>> PROVE FALSE
        OBVIOUS
      <3>2. n - 1 = 0
        BY <1>4, <3>1, EmptySeq
      <3> QED
        BY <1>3, <2>1, <3>1, <3>2
    <2>3. /\ d \in [0 .. n - 1 -> 0 .. BodyParts]
          /\ \A i \in 0 .. n - 1 : d[i] = c[i + 1]
      BY <1>3, <1>5
    <2> HIDE DEF d
    <2>4. d[0] = c[1] /\ d[n - 1] = reach(pos)
      <3>1. 0 \in 0 .. n - 1 /\ n - 1 \in 0 .. n - 1 /\ 0 + 1 = 1 /\ (n - 1) + 1 = n
        BY <1>3
      <3>2. d[0] = c[0 + 1] /\ d[n - 1] = c[(n - 1) + 1]
        BY <2>3, <3>1
      <3> QED
        BY <1>5, <3>1, <3>2
    <2>5. ASSUME NEW i \in 1 .. n - 1
          PROVE  /\ t[i].type \in types /\ d[i - 1] <= d[i]
                 /\ payloadOf(t[i]) = SubSeq(Whole(b), d[i - 1] + 1, d[i])
                 /\ endsBody(t[i]) <=> (pos = Ended /\ i = n - 1)
      <3> DEFINE j == i + 1
      <3>1. /\ j \in 1 .. n /\ i \in 0 .. n - 1 /\ i - 1 \in 0 .. n - 1
            /\ (i - 1) + 1 = j - 1 /\ (i = n - 1 <=> j = n)
        BY <1>3
      <3>2. t[i] = q[j] /\ d[i] = c[j] /\ d[i - 1] = c[j - 1]
        <4>1. t[i] = q[j] /\ d[i] = c[j]
          BY <1>4, <2>3, <3>1
        <4>2. d[i - 1] = c[(i - 1) + 1]
          BY <2>3, <3>1
        <4> QED
          BY <3>1, <4>1, <4>2
      <3> HIDE DEF j
      <3>3. /\ q[j].type \in types /\ c[j - 1] <= c[j]
            /\ payloadOf(q[j]) = SubSeq(Whole(b), c[j - 1] + 1, c[j])
            /\ endsBody(q[j]) <=> (pos = Ended /\ j = n)
        BY <1>5, <3>1
      <3> QED
        BY <3>1, <3>2, <3>3
    <2>6. Cuts(d, t, types, b, c[1], pos)
      BY <1>4, <2>3, <2>4, <2>5 DEF Cuts
    <2> QED
      BY <2>2, <2>6 DEF Slices
  <1> QED
    BY <1>4, <1>7, <1>8, <1>9, <1>10, <1>11, <1>5 DEF t

\* Adjacent slices are one.
LEMMA SlicesJoin ==
    ASSUME NEW b \in RequestBodies \cup UpstreamBodies,
           NEW lo \in 0 .. BodyParts, NEW mid \in lo .. BodyParts
    PROVE  /\ SubSeq(Whole(b), 1, lo) \o SubSeq(Whole(b), lo + 1, mid) = SubSeq(Whole(b), 1, mid)
           /\ SubSeq(Whole(b), 1, BodyParts) = Whole(b)
           /\ SubSeq(Whole(b), 1, 0) = <<>>
  <1>1. BodyParts \in Nat \ {0}
    BY HandlerAssumption
  <1>2. Whole(b) \in Seq(Pieces) /\ Len(Whole(b)) = BodyParts
    BY <1>1 DEF Whole, Pieces
  <1>3. 1 \in 1 .. Len(Whole(b)) + 1 /\ lo \in 1 - 1 .. Len(Whole(b)) /\ mid \in lo .. Len(Whole(b))
    BY <1>1, <1>2
  <1> QED
    BY <1>1, <1>2, <1>3, ConcatAdjacentSubSeq, SubSeqFull, SubSeqEmpty

-----------------------------------------------------------------------------
(* The shapes of what Envoy holds; the processor is a stream.               *)

\* Appending to a sequence and taking its head off, whatever its elements.
LEMMA AppendSeq ==
    ASSUME NEW s, IsSeq(s), NEW x
    PROVE  /\ IsSeq(Append(s, x)) /\ Append(s, x) # <<>>
           /\ Len(s) \in Nat /\ DOMAIN s = 1 .. Len(s)
           /\ Len(Append(s, x)) = Len(s) + 1
           /\ DOMAIN Append(s, x) = 1 .. Len(s) + 1
           /\ \A i \in 1 .. Len(s) : Append(s, x)[i] = s[i]
           /\ Append(s, x)[Len(s) + 1] = x
           /\ s # <<>> => Append(s, x)[1] = s[1]
           /\ s = <<>> => Append(s, x)[1] = x
  <1>1. PICK S : s \in Seq(S)
    BY DEF IsSeq
  <1> DEFINE T == S \cup {x}
             a == Append(s, x)
  <1>2. s \in Seq(T) /\ x \in T
    BY <1>1, SeqMonotonic
  <1> HIDE DEF T
  <1>3. /\ a \in Seq(T) /\ a # <<>> /\ Len(a) = Len(s) + 1
        /\ \A i \in 1 .. Len(s) : a[i] = s[i]
        /\ a[Len(s) + 1] = x
    BY <1>2, AppendProperties
  <1>4. Len(s) \in Nat /\ DOMAIN s = 1 .. Len(s) /\ DOMAIN a = 1 .. Len(a)
    BY <1>2, <1>3, LenProperties
  <1>5. s # <<>> => Len(s) \in Nat \ {0}
    BY <1>2, EmptySeq
  <1>6. s = <<>> => Len(s) = 0
    BY EmptySeq
  <1> HIDE DEF a
  <1>7. s # <<>> => a[1] = s[1]
    BY <1>3, <1>5
  <1>8. s = <<>> => a[1] = x
    BY <1>3, <1>6
  <1> QED
    BY <1>3, <1>4, <1>7, <1>8 DEF a, IsSeq

\* The tail of a sequence is one.
LEMMA TailSeq ==
    ASSUME NEW s, IsSeq(s), s # <<>>
    PROVE  IsSeq(Tail(s))
  BY HeadTailProperties DEF IsSeq

\* The types of messages are those of the five kinds, and none is the end of the stream.
LEMMA MessageTypes ==
    ASSUME NEW m \in Messages
    PROVE  /\ m.type \in {"RequestHeaders", "ResponseHeaders", "RequestBody", "ResponseBody",
                          "RequestTrailers", "ResponseTrailers", "none"}
           /\ m # EndOfFile
  <1>1. EndOfFile.type = "EOF"
    BY DEF EndOfFile
  <1>2. m.type \in {"RequestHeaders", "ResponseHeaders", "RequestBody", "ResponseBody",
                    "RequestTrailers", "ResponseTrailers", "none"}
    BY DEF Messages, HeadersMessages, StatusMessages, BodyMessages, RequestTrailers,
           ResponseTrailers, NoMessage
  <1> QED
    BY <1>1, <1>2

\* The shapes of what Envoy holds, and that the API answers a call only and Envoy
\* relays an answer only.
ExchangeTyped ==
    /\ client \in ClientRequests
    /\ apiReply \in ApiReplies \cup {NoReply}
    /\ fed \in Unsent .. Ended
    /\ relayed \in Unsent .. Ended
    /\ toProc \in Seq(Messages \cup {EndOfFile})
    /\ IsSeq(toEnvoy) /\ IsSeq(apiGot) /\ IsSeq(clientGot)
    /\ relayed # Unsent => apiReply # NoReply
    /\ apiReply # NoReply => apiCalled

\* What Envoy sends first in each direction.
requestHeaders == RequestHeaders(client.method, client.allowed, client.headers, ~client.hasBody)
responseHeaders == ResponseHeaders(apiReply.status, ~apiReply.hasBody)

\* The fields of the request and of the response.
LEMMA HttpFields ==
    /\ ExchangeTyped =>
         /\ client.method \in {"POST", "GET", NoMethod} /\ client.allowed \in BOOLEAN
         /\ client.headers \in HeaderLists /\ client.hasBody \in BOOLEAN
         /\ client.body \in RequestBodies /\ client.trailers \in BOOLEAN
    /\ ExchangeTyped /\ apiReply # NoReply =>
         /\ apiReply.status \in Statuses /\ apiReply.hasBody \in BOOLEAN
         /\ apiReply.body \in UpstreamBodies /\ apiReply.trailers \in BOOLEAN
  <1>1. ASSUME ExchangeTyped
        PROVE  client \in [method : {"POST", "GET", NoMethod}, allowed : BOOLEAN,
                           headers : HeaderLists, hasBody : BOOLEAN, body : RequestBodies,
                           trailers : BOOLEAN]
    BY <1>1, ExchangeAssumption DEF ExchangeTyped
  <1>2. ASSUME ExchangeTyped, apiReply # NoReply
        PROVE  apiReply \in [status : Statuses, hasBody : BOOLEAN, body : UpstreamBodies,
                             trailers : BOOLEAN]
    BY <1>2, ExchangeAssumption DEF ExchangeTyped
  <1> QED
    BY <1>1, <1>2

\* The headers Envoy sends are messages.
LEMMA HeadersTyped ==
    /\ ExchangeTyped => requestHeaders \in HeadersMessages
    /\ ExchangeTyped /\ apiReply # NoReply => responseHeaders \in StatusMessages
  <1>1. ASSUME ExchangeTyped PROVE requestHeaders \in HeadersMessages
    BY <1>1, HttpFields DEF requestHeaders, RequestHeaders, HeadersMessages
  <1>2. ASSUME ExchangeTyped, apiReply # NoReply PROVE responseHeaders \in StatusMessages
    BY <1>2, HttpFields DEF responseHeaders, ResponseHeaders, StatusMessages
  <1> QED
    BY <1>1, <1>2

\* So are the slices of a body.
LEMMA BodyTyped ==
    ASSUME NEW b \in RequestBodies \cup UpstreamBodies, NEW pos \in 0 .. BodyParts,
           NEW to \in 0 .. BodyParts, NEW eos \in BOOLEAN
    PROVE  LET p == SubSeq(Whole(b), pos + 1, to)
           IN  /\ RequestBody(p, eos) \in Messages /\ ResponseBody(p, eos) \in Messages
               /\ RequestBody(p, eos).type = "RequestBody" /\ ResponseBody(p, eos).type = "ResponseBody"
               /\ payloadOf(RequestBody(p, eos)) = p /\ payloadOf(ResponseBody(p, eos)) = p
               /\ endsBody(RequestBody(p, eos)) = eos /\ endsBody(ResponseBody(p, eos)) = eos
  <1> DEFINE p == SubSeq(Whole(b), pos + 1, to)
  <1>1. p \in Payloads
    BY ExchangeAssumption
  <1> HIDE DEF p
  <1>2. RequestBody(p, eos) \in BodyMessages /\ ResponseBody(p, eos) \in BodyMessages
    BY <1>1 DEF RequestBody, ResponseBody, BodyMessages
  <1>3. /\ RequestBody(p, eos).type = "RequestBody" /\ ResponseBody(p, eos).type = "ResponseBody"
        /\ RequestBody(p, eos).payload = p /\ ResponseBody(p, eos).payload = p
        /\ RequestBody(p, eos).eos = eos /\ ResponseBody(p, eos).eos = eos
    BY DEF RequestBody, ResponseBody
  <1>4. \A m \in {RequestBody(p, eos), ResponseBody(p, eos)} : payloadOf(m) = p /\ endsBody(m) = eos
    BY <1>3 DEF payloadOf, endsBody, isTrailers
  <1> QED
    BY <1>2, <1>3, <1>4 DEF Messages, p

\* And the trailers, which carry no bytes.
LEMMA TrailersTyped ==
    /\ RequestTrailers \in Messages /\ RequestTrailers.type = "RequestTrailers"
    /\ ResponseTrailers \in Messages /\ ResponseTrailers.type = "ResponseTrailers"
    /\ \A m \in {RequestTrailers, ResponseTrailers} : payloadOf(m) = <<>> /\ endsBody(m)
  BY DEF Messages, RequestTrailers, ResponseTrailers, payloadOf, endsBody, isTrailers

\* One more message in flight to the processor.
LEMMA SentTyped ==
    ASSUME toProc \in Seq(Messages \cup {EndOfFile}), NEW m \in Messages \cup {EndOfFile}
    PROVE  Append(toProc, m) \in Seq(Messages \cup {EndOfFile})
  BY AppendProperties

\* The shapes are those of the first state.
LEMMA InitTyped == ExchangeInit => ExchangeTyped
  <1> SUFFICES ASSUME ExchangeInit PROVE ExchangeTyped
    OBVIOUS
  <1>1. BodyParts \in Nat
    BY HandlerAssumption
  <1>2. Unsent \in Unsent .. Ended
    BY <1>1 DEF Unsent, Ended
  <1>3. <<>> \in Seq(Messages \cup {EndOfFile}) /\ IsSeq(<<>>)
    BY EmptySeq DEF IsSeq
  <1> QED
    BY <1>2, <1>3 DEF ExchangeInit, ExchangeTyped

\* A step of Envoy, of the processor, of the API or of the connection keeps the shapes.
LEMMA NextTyped == ExchangeTyped /\ [ExchangeNext]_exchange => ExchangeTyped'
  <1> SUFFICES ASSUME ExchangeTyped, [ExchangeNext]_exchange PROVE ExchangeTyped'
    OBVIOUS
  <1>1. BodyParts \in Nat \ {0}
    BY HandlerAssumption
  <1>2. /\ Unsent = -1 /\ Ended = BodyParts + 1 /\ 0 \in Unsent .. Ended /\ Ended \in Unsent .. Ended
        /\ 0 .. BodyParts \subseteq Unsent .. Ended /\ 0 # Unsent /\ Ended # Unsent
        /\ Unsent \notin 0 .. BodyParts
    BY <1>1 DEF Unsent, Ended
  <1>3. ASSUME UNCHANGED envoy PROVE ExchangeTyped'
    BY <1>3 DEF envoy, ExchangeTyped, apiCalled
  <1>4. CASE FeedHeaders
    <2>1. requestHeaders \in Messages
      BY HeadersTyped DEF Messages
    <2>2. toProc' \in Seq(Messages \cup {EndOfFile})
      BY <1>4, <2>1, SentTyped DEF FeedHeaders, SendsToProcessor, requestHeaders, ExchangeTyped
    <2>3. fed' \in Unsent .. Ended
      BY <1>2, <1>4 DEF FeedHeaders
    <2> QED
      BY <1>4, <2>2, <2>3 DEF FeedHeaders, ExchangeTyped, apiCalled
  <1>5. CASE FeedBody
    <2>1. PICK to \in fed .. BodyParts, eos \in BOOLEAN :
            /\ toProc' = Append(toProc, RequestBody(SubSeq(Whole(client.body), fed + 1, to), eos))
            /\ fed' = IF eos THEN Ended ELSE to
      BY <1>5 DEF FeedBody, SendsToProcessor
    <2>2. fed \in 0 .. BodyParts /\ to \in 0 .. BodyParts
      BY <1>1, <1>5, <2>1 DEF FeedBody
    <2>3. RequestBody(SubSeq(Whole(client.body), fed + 1, to), eos) \in Messages
      BY <2>2, BodyTyped, HttpFields
    <2>4. toProc' \in Seq(Messages \cup {EndOfFile})
      BY <2>1, <2>3, SentTyped DEF ExchangeTyped
    <2>5. fed' \in Unsent .. Ended
      BY <1>2, <2>1, <2>2
    <2> QED
      BY <1>5, <2>4, <2>5 DEF FeedBody, ExchangeTyped, apiCalled
  <1>6. CASE FeedTrailers
    <2>1. toProc' \in Seq(Messages \cup {EndOfFile})
      BY <1>6, SentTyped, TrailersTyped DEF FeedTrailers, SendsToProcessor, ExchangeTyped
    <2> QED
      BY <1>2, <1>6, <2>1 DEF FeedTrailers, ExchangeTyped, apiCalled
  <1>7. CASE RelayHeaders
    <2>1. responseHeaders \in Messages
      BY <1>7, HeadersTyped DEF Messages, RelayHeaders
    <2>2. toProc' \in Seq(Messages \cup {EndOfFile})
      BY <1>7, <2>1, SentTyped DEF RelayHeaders, SendsToProcessor, responseHeaders, ExchangeTyped
    <2>3. relayed' \in Unsent .. Ended
      BY <1>2, <1>7 DEF RelayHeaders
    <2> QED
      BY <1>7, <2>2, <2>3 DEF RelayHeaders, ExchangeTyped, apiCalled
  <1>8. CASE RelayBody
    <2>1. PICK to \in relayed .. BodyParts, eos \in BOOLEAN :
            /\ toProc' = Append(toProc, ResponseBody(SubSeq(Whole(apiReply.body), relayed + 1, to), eos))
            /\ relayed' = IF eos THEN Ended ELSE to
      BY <1>8 DEF RelayBody, SendsToProcessor
    <2>2. relayed \in 0 .. BodyParts /\ to \in 0 .. BodyParts
      BY <1>1, <1>8, <2>1 DEF RelayBody
    <2>3. apiReply # NoReply
      BY <1>2, <2>2 DEF ExchangeTyped
    <2>4. ResponseBody(SubSeq(Whole(apiReply.body), relayed + 1, to), eos) \in Messages
      BY <2>2, <2>3, BodyTyped, HttpFields
    <2>5. toProc' \in Seq(Messages \cup {EndOfFile})
      BY <2>1, <2>4, SentTyped DEF ExchangeTyped
    <2>6. relayed' \in Unsent .. Ended
      BY <1>2, <2>1, <2>2
    <2> QED
      BY <1>8, <2>3, <2>5, <2>6 DEF RelayBody, ExchangeTyped, apiCalled
  <1>9. CASE RelayTrailers
    <2>1. toProc' \in Seq(Messages \cup {EndOfFile})
      BY <1>9, SentTyped, TrailersTyped DEF RelayTrailers, SendsToProcessor, ExchangeTyped
    <2>2. apiReply # NoReply
      BY <1>1, <1>2, <1>9 DEF RelayTrailers, ExchangeTyped
    <2> QED
      BY <1>2, <1>9, <2>1, <2>2 DEF RelayTrailers, ExchangeTyped, apiCalled
  <1>10. ASSUME StatusFollows PROVE IsSeq(toEnvoy')
    BY <1>10, AppendSeq DEF StatusFollows, ExchangeTyped
  <1>11. CASE ProcessMessage
    <2>1. toProc' \in Seq(Messages \cup {EndOfFile})
      BY <1>11, HeadTailProperties DEF ProcessMessage, ExchangeTyped
    <2> QED
      BY <1>10, <1>11, <2>1 DEF ProcessMessage, ExchangeTyped, apiCalled
  <1>12. CASE ProcessSend
    <2>1. IsSeq(toEnvoy')
      BY <1>12, AppendSeq DEF ProcessSend, ExchangeTyped
    <2> QED
      BY <1>12, <2>1 DEF ProcessSend, ExchangeTyped, apiCalled
  <1>13. CASE ProcessSeesReset
    BY <1>10, <1>13 DEF ProcessSeesReset, ExchangeTyped, apiCalled
  <1>14. CASE EnvoyReceives
    <2>1. toEnvoy # <<>> /\ IsSeq(toEnvoy) /\ IsSeq(apiGot) /\ IsSeq(clientGot)
      BY <1>14 DEF EnvoyReceives, ExchangeTyped
    <2>2. IsSeq(Tail(toEnvoy))
      BY <2>1, TailSeq
    <2>3. CASE ApplyRequestReply(Head(toEnvoy))
      <3>1. IsSeq(apiGot') /\ (apiCalled => apiCalled')
        BY <2>1, <2>3, AppendSeq DEF ApplyRequestReply, apiCalled
      <3> QED
        BY <2>2, <2>3, <3>1 DEF ApplyRequestReply, TakesReply, ExchangeTyped
    <2>4. CASE ApplyResponseReply(Head(toEnvoy))
      <3>1. IsSeq(clientGot')
        BY <2>1, <2>4, AppendSeq DEF ApplyResponseReply
      <3>2. toProc' \in Seq(Messages \cup {EndOfFile})
        BY <2>4, SentTyped DEF ApplyResponseReply, ExchangeTyped
      <3> QED
        BY <2>2, <2>4, <3>1, <3>2 DEF ApplyResponseReply, TakesReply, ExchangeTyped, apiCalled
    <2>5. CASE ApplyStreamEnd(Head(toEnvoy))
      BY <2>2, <2>5 DEF ApplyStreamEnd, TakesReply, ExchangeTyped, apiCalled
    <2> QED
      BY <1>14, <2>3, <2>4, <2>5 DEF EnvoyReceives
  <1>15. CASE ApiResponds
    BY <1>15 DEF ApiResponds, ExchangeTyped, apiCalled
  <1>16. CASE ClientLeaves \/ ConnectionLost \/ EnvoySeesLoss
    BY <1>16 DEF ClientLeaves, ConnectionLost, EnvoySeesLoss, ExchangeTyped, apiCalled
  <1>17. CASE UNCHANGED exchange
    BY <1>3, <1>17 DEF exchange
  <1> QED
    BY <1>4, <1>5, <1>6, <1>7, <1>8, <1>9, <1>11, <1>12, <1>13, <1>14, <1>15, <1>16, <1>17
       DEF ExchangeNext, EnvoySends, Processor

\* The processor's part of a step is a step of the stream, or none.
LEMMA StreamSteps == ExchangeTyped /\ [ExchangeNext]_exchange => [Next]_vars
  <1> SUFFICES ASSUME ExchangeTyped, [ExchangeNext]_exchange PROVE [Next]_vars
    OBVIOUS
  <1>1. CASE ProcessMessage
    <2>1. Head(toProc) \in Messages \cup {EndOfFile}
      BY <1>1, HeadTailProperties DEF ProcessMessage, ExchangeTyped
    <2> QED
      BY <1>1, <2>1 DEF ProcessMessage, Next
  <1>2. CASE ProcessSend
    BY <1>2 DEF ProcessSend, Next
  <1>3. CASE ProcessSeesReset
    BY <1>3 DEF ProcessSeesReset, Next
  <1>4. CASE EnvoySends
    BY <1>4 DEF EnvoySends, FeedHeaders, FeedBody, FeedTrailers, RelayHeaders, RelayBody, RelayTrailers
  <1>5. CASE EnvoyReceives
    BY <1>5 DEF EnvoyReceives, ApplyRequestReply, ApplyResponseReply, ApplyStreamEnd, TakesReply
  <1>6. CASE ApiResponds \/ ClientLeaves \/ ConnectionLost \/ EnvoySeesLoss
    BY <1>6 DEF ApiResponds, ClientLeaves, ConnectionLost, EnvoySeesLoss
  <1>7. CASE UNCHANGED exchange
    BY <1>7 DEF exchange
  <1> QED
    BY <1>1, <1>2, <1>3, <1>4, <1>5, <1>6, <1>7 DEF ExchangeNext, Processor

\* The processor in the exchange is a stream of StreamState: what Envoy sends is
\* among what any peer may send, so whatever StreamState promises holds here.
THEOREM ExchangeRunsStream == ExchangeSpec => Spec
  <1>1. ExchangeInit => Init
    BY DEF ExchangeInit
  <1> QED
    BY <1>1, InitTyped, NextTyped, StreamSteps, PTL DEF ExchangeSpec, Spec

-----------------------------------------------------------------------------
(* The cycle of this exchange, and what is still to come in it.             *)

requestTypes  == {"RequestBody", "RequestTrailers"}
responseTypes == {"ResponseBody", "ResponseTrailers"}

\* The request gets as far as its body.
posted == ~badMethod(client) /\ client.allowed /\ client.hasBody

\* The cycle was refused before its body was complete.
RefusedCycle == ~posted /\ RefusalFrame(wire)

\* The cycle's call was answered, with all of both bodies.
AnsweredCycle ==
    /\ posted /\ Answered
    /\ reqBytes = Whole(client.body)
    /\ apiReply # NoReply /\ upstream = responseHeaders
    /\ apiReply.hasBody => respBytes = Whole(apiReply.body)

\* What the stream remembers of the cycle is this exchange: its one cycle is
\* opened by the client's headers, a body that was completed is the client's or
\* the API's, and nothing but the client's request refuses the cycle early.
Course ==
    /\ cycles = 0 => state = AwaitingRequestHeaders /\ Unused
    /\ cycles # 0 => opened = requestHeaders
    /\ state = DrainingRequest => cycles # 0 /\ client.hasBody /\ ~posted
    /\ state = BufferingRequest => cycles # 0 /\ posted
    /\ state \in {AwaitingResponseHeaders, BufferingResponse} =>
         cycles # 0 /\ posted /\ reqBytes = Whole(client.body)
    /\ state = BufferingResponse =>
         apiReply # NoReply /\ apiReply.hasBody /\ upstream = responseHeaders
    /\ state = AwaitingRequestHeaders /\ cycles # 0 => RefusedCycle \/ AnsweredCycle

\* What is still to come when q is in flight, by the point the cycle has reached:
\* not begun,
Opening(q) ==
    /\ cycles = 0
    /\ \/ fed = Unsent /\ q = <<>>
       \/ /\ fed # Unsent /\ q # <<>> /\ Head(q) = requestHeaders
          /\ client.hasBody  => Slices(Tail(q), requestTypes, client.body, 0, fed)
          /\ ~client.hasBody => fed = Ended /\ Tail(q) = <<>>

\* in its request body,
Uploading(q) ==
    /\ state \in {DrainingRequest, BufferingRequest} /\ fed # Unsent
    /\ \E lo : /\ reqBytes = SubSeq(Whole(client.body), 1, lo)
               /\ Slices(q, requestTypes, client.body, lo, fed)

\* refused for its method while its body is on the way,
Refusing(q) ==
    /\ state = AwaitingRequestHeaders /\ cycles # 0 /\ fed # Unsent
    /\ badMethod(client) /\ client.hasBody
    /\ Slices(q, requestTypes, client.body, 0, fed)

\* upstream,
Calling(q) ==
    /\ state = AwaitingResponseHeaders /\ fed = Ended
    /\ \/ relayed = Unsent /\ q = <<>>
       \/ /\ relayed # Unsent /\ q # <<>> /\ Head(q) = responseHeaders
          /\ apiReply.hasBody  => Slices(Tail(q), responseTypes, apiReply.body, 0, relayed)
          /\ ~apiReply.hasBody => relayed = Ended /\ Tail(q) = <<>>

\* in its response body,
Downloading(q) ==
    /\ state = BufferingResponse /\ fed = Ended /\ relayed # Unsent
    /\ \E lo : /\ respBytes = SubSeq(Whole(apiReply.body), 1, lo)
               /\ Slices(q, responseTypes, apiReply.body, lo, relayed)

\* or over.
Settled(q) ==
    /\ state = AwaitingRequestHeaders /\ cycles # 0 /\ fed = Ended /\ q = <<>>
    /\ posted => relayed = Ended

Ahead(q) == \/ Opening(q) \/ Uploading(q) \/ Refusing(q)
            \/ Calling(q) \/ Downloading(q) \/ Settled(q)

\* While the processor reads, the messages in flight are what is still to come,
\* and after them the end of the stream if Envoy has closed it.
InFlight(q) ==
    /\ q \in Seq(Messages)
    /\ toProc = q \/ (link = "closed" /\ toProc = Append(q, EndOfFile))

Queue == rc = "running" => \E q : InFlight(q) /\ Ahead(q)

\* The cases in which the processor reports a protocol violation.
KnownViolation ==
    \/ badMethod(client) /\ client.hasBody
    \/ requestKind = "notification" /\ apiReply # NoReply

-----------------------------------------------------------------------------
(* One message taken by the processor, at each point of the cycle.          *)

\* In each state, handle does one of a few things or reports a violation.
LEMMA HandlerStates ==
    ASSUME NEW m, Handle(m), ~ProtocolViolation(m)
    PROVE  /\ state = AwaitingRequestHeaders =>
                /\ m.type = "RequestHeaders"
                /\ \/ MethodNotAllowed(m) \/ Forbidden(m) \/ MissingBody(m)
                   \/ StartDraining(m) \/ StartBufferingRequest(m)
           /\ state = DrainingRequest => DiscardRequestBody(m) \/ RejectDrained(m)
           /\ state = BufferingRequest => AppendRequestBody(m) \/ FinalizeRequest(m)
           /\ state = AwaitingResponseHeaders =>
                StartBufferingResponse(m) \/ ReplaceEmptyResponse(m)
           /\ state = BufferingResponse => AppendResponseBody(m) \/ FinalizeResponse(m)
  <1>1. MethodNotAllowed(m) \/ Forbidden(m) \/ MissingBody(m) \/ StartDraining(m)
          \/ StartBufferingRequest(m) =>
          state = AwaitingRequestHeaders /\ m.type = "RequestHeaders"
    BY DEF MethodNotAllowed, Forbidden, MissingBody, StartDraining, StartBufferingRequest,
           RefuseAtHeaders, Opens, Receives
  <1>2. DiscardRequestBody(m) \/ RejectDrained(m) => state = DrainingRequest
    BY DEF DiscardRequestBody, RejectDrained, ReceivesRequestBody, Receives
  <1>3. AppendRequestBody(m) \/ FinalizeRequest(m) => state = BufferingRequest
    BY DEF AppendRequestBody, FinalizeRequest, ReceivesRequestBody, Receives
  <1>4. StartBufferingResponse(m) \/ ReplaceEmptyResponse(m) => state = AwaitingResponseHeaders
    BY DEF StartBufferingResponse, ReplaceEmptyResponse, ReceivesToolResponse, Receives
  <1>5. AppendResponseBody(m) \/ FinalizeResponse(m) => state = BufferingResponse
    BY DEF AppendResponseBody, FinalizeResponse, ReceivesResponseBody, Receives
  <1> QED
    BY <1>1, <1>2, <1>3, <1>4, <1>5, StatesDiffer DEF Handle

\* A message that is expected violates nothing.
LEMMA ExpectedMessages ==
    ASSUME NEW m, ProtocolViolation(m)
    PROVE  /\ state = AwaitingRequestHeaders => m.type # "RequestHeaders"
           /\ state \in {DrainingRequest, BufferingRequest} => m.type \notin requestTypes
           /\ state = AwaitingResponseHeaders =>
                m.type # "ResponseHeaders" \/ ~isToolCall(request)
           /\ state = BufferingResponse => m.type \notin responseTypes
  <1>1. m.type \notin expected(state)
    BY DEF ProtocolViolation
  <1>2. CASE state = AwaitingRequestHeaders
    BY <1>1, <1>2, StatesDiffer DEF expected
  <1>3. CASE state \in {DrainingRequest, BufferingRequest}
    BY <1>1, <1>3, StatesDiffer DEF expected, requestTypes
  <1>4. CASE state = AwaitingResponseHeaders
    BY <1>1, <1>4, StatesDiffer DEF expected
  <1>5. CASE state = BufferingResponse
    BY <1>1, <1>5, StatesDiffer DEF expected, responseTypes
  <1> QED
    BY <1>2, <1>3, <1>4, <1>5, StatesDiffer

\* What a step of the processor leaves alone.
EnvoyStill == UNCHANGED <<client, fed, apiReply, relayed>>

\* The headers open the cycle.
LEMMA OpeningSteps ==
    ASSUME ExchangeTyped, WireInv, Course, EnvoyStill,
           NEW q \in Seq(Messages), q # <<>>, Opening(q), Handle(Head(q))
    PROVE  Course' /\ Ahead(Tail(q))' /\ ~ProtocolViolation(Head(q))
  <1> DEFINE m == Head(q)
             t == Tail(q)
  <1>1. /\ m = requestHeaders /\ state = AwaitingRequestHeaders /\ cycles = 0 /\ fed # Unsent
        /\ client.hasBody  => Slices(t, requestTypes, client.body, 0, fed)
        /\ ~client.hasBody => fed = Ended /\ t = <<>>
    BY DEF Opening, Course
  <1>2. m \in Messages
    BY HeadTailProperties
  <1>3. /\ m.type = "RequestHeaders" /\ m.method = client.method
        /\ m.allowed = client.allowed /\ m.eos = ~client.hasBody
    BY <1>1 DEF requestHeaders, RequestHeaders
  <1>4. badMethod(m) <=> badMethod(client)
    BY <1>3 DEF badMethod
  <1>5. client.hasBody \in BOOLEAN /\ client.allowed \in BOOLEAN /\ client.body \in RequestBodies
    BY HttpFields
  <1>6. ~ProtocolViolation(m)
    BY <1>1, <1>3, ExpectedMessages
  <1>7. MethodNotAllowed(m) \/ Forbidden(m) \/ MissingBody(m) \/ StartDraining(m)
          \/ StartBufferingRequest(m)
    BY <1>1, <1>6, HandlerStates
  <1>8. opened' = m /\ cycles' = cycles + 1 /\ reqBytes' = <<>>
    BY <1>7 DEF MethodNotAllowed, Forbidden, MissingBody, StartDraining, StartBufferingRequest,
                RefuseAtHeaders, Opens
  <1>9. cycles' # 0
    BY <1>1, <1>8
  <1>10. opened' = requestHeaders' /\ (posted' <=> posted)
    BY <1>1, <1>8 DEF EnvoyStill, requestHeaders, posted
  <1> HIDE DEF m, t
  <1>11. CASE MethodNotAllowed(m) \/ Forbidden(m) \/ MissingBody(m)
    <2>1. state' = AwaitingRequestHeaders
      BY <1>1, <1>11 DEF MethodNotAllowed, Forbidden, MissingBody, RefuseAtHeaders, Opens
    <2>2. RefusalFrame(wire)'
      BY <1>2, <1>11, RefusalEndsCycle
    <2>3. ~posted
      BY <1>3, <1>4, <1>5, <1>11
         DEF MethodNotAllowed, Forbidden, MissingBody, posted
    <2>4. RefusedCycle'
      BY <1>10, <2>2, <2>3 DEF RefusedCycle
    <2>5. Course'
      BY <1>9, <1>10, <2>1, <2>4, StatesDiffer DEF Course
    <2>6. CASE client.hasBody
      <3>1. badMethod(client)
        BY <1>3, <1>4, <1>5, <1>11, <2>6 DEF MethodNotAllowed, Forbidden, MissingBody
      <3>2. Refusing(t)'
        BY <1>1, <1>9, <2>1, <2>6, <3>1 DEF EnvoyStill, Refusing
      <3> QED
        BY <2>5, <3>2, <1>6 DEF Ahead, m, t
    <2>7. CASE ~client.hasBody
      <3>1. Settled(t)'
        BY <1>1, <1>9, <1>10, <2>1, <2>3, <2>7 DEF EnvoyStill, Settled
      <3> QED
        BY <2>5, <3>1, <1>6 DEF Ahead, m, t
    <2> QED
      BY <2>6, <2>7
  <1>12. CASE StartDraining(m) \/ StartBufferingRequest(m)
    <2>1. client.hasBody
      BY <1>3, <1>5, <1>12 DEF StartDraining, StartBufferingRequest
    <2>2. \/ state' = DrainingRequest /\ ~posted
          \/ state' = BufferingRequest /\ posted
      BY <1>3, <1>4, <1>5, <1>12, <2>1 DEF StartDraining, StartBufferingRequest, posted
    <2>3. Course'
      BY <1>9, <1>10, <2>1, <2>2, StatesDiffer DEF Course, EnvoyStill
    <2>4. reqBytes' = SubSeq(Whole(client.body), 1, 0)
      <3>1. BodyParts \in Nat
        BY HandlerAssumption
      <3>2. 0 \in 0 .. BodyParts
        BY <3>1
      <3> QED
        BY <1>5, <1>8, <3>2, SlicesJoin
    <2>5. Uploading(t)'
      BY <1>1, <2>1, <2>2, <2>4 DEF EnvoyStill, Uploading
    <2> QED
      BY <2>3, <2>5, <1>6 DEF Ahead, m, t
  <1> QED
    BY <1>7, <1>11, <1>12

-----------------------------------------------------------------------------
(* An admissible call is one that both eras let through.                    *)

\* The name of an admissible modern call was not said in broken Base64.
LEMMA SaidNameDecodes ==
    ASSUME NEW headers \in HeaderLists, NEW value, says(headers, headerMCPName, value)
    PROVE  nameEncoding(headers) # "badBase64"
  <1>1. DOMAIN headers \subseteq Nat \ {0}
    BY HeaderAssumption
  <1>2. PICK i \in DOMAIN headers :
           /\ headers[i].key = headerMCPName /\ headers[i].enc # "badBase64"
           /\ \A j \in 1 .. i - 1 : headers[j].key # headerMCPName
    BY DEF says
  <1>3. PICK k \in DOMAIN headers :
           /\ headers[k].key = headerMCPName
           /\ \A j \in DOMAIN headers : headers[j].key = headerMCPName => k <= j
           /\ nameEncoding(headers) = headers[k].enc
    <2> DEFINE at == {j \in DOMAIN headers : headers[j].key = headerMCPName}
               first == CHOOSE j \in at : \A l \in at : j <= l
    <2>1. at \subseteq Nat /\ at # {}
      BY <1>1, <1>2
    <2>2. nameEncoding(headers) = headers[first].enc
      BY <2>1 DEF nameEncoding
    <2>3. \A j \in DOMAIN headers : headers[j].key = headerMCPName => j \in at
      OBVIOUS
    <2>4. \A j \in at : j \in DOMAIN headers /\ headers[j].key = headerMCPName
      OBVIOUS
    <2> HIDE DEF at
    <2>5. \E j \in at : \A l \in at : j <= l
      BY <2>1, LeastNat
    <2>6. first \in at /\ \A j \in at : first <= j
      BY <2>5
    <2> HIDE DEF first
    <2> QED
      BY <2>2, <2>3, <2>4, <2>6
  <1>4. i \in Nat \ {0} /\ k \in Nat \ {0} /\ k <= i
    BY <1>1, <1>2, <1>3
  <1>5. k \notin 1 .. i - 1
    BY <1>2, <1>3
  <1>6. k = i
    BY <1>4, <1>5
  <1> QED
    BY <1>2, <1>3, <1>6

\* An admissible call passes the checks of both eras.
LEMMA AdmissiblePasses ==
    ASSUME NEW m \in JsonRpcMessages, NEW headers \in HeaderLists, isAdmissible(m, headers)
    PROVE  LET c == captureMCPRequestHeaders(headers)
               declared == metaProtocolVersion(m.params)
               e == resolveEra(m.method, declared, c.protocolVersion)
           IN  e.ok /\ serves(e.era, m.method) /\ validateHeaders(e.era, m, declared, c)
  <1> DEFINE c == captureMCPRequestHeaders(headers)
             declared == metaProtocolVersion(m.params)
             e == resolveEra(m.method, declared, c.protocolVersion)
             spoken == isModernVersion(declared) \/ isModernVersion(c.protocolVersion)
  <1>1. /\ m.method = methodToolsCall /\ m.params.shape = "object" /\ m.params.name \in Tools
        /\ declared = m.params.meta
    BY DEF isAdmissible, metaProtocolVersion
  <1>2. /\ c.protocolVersion = firstHeaderValue(headers, headerMCPProtocolVersion, EmptyVersion)
        /\ c.method = firstHeaderValue(headers, headerMCPMethod, "")
        /\ c.name = firstHeaderValue(headers, headerMCPName, "")
        /\ c.enc = nameEncoding(headers)
    BY DEF captureMCPRequestHeaders
  <1> HIDE DEF c
  <1>3. methodToolsCall \notin {methodInitialize, methodNotificationsInitialized}
    BY DEF methodToolsCall, methodInitialize, methodNotificationsInitialized
  <1>4. CASE ~spoken
    <2>1. e = [era |-> Legacy, requested |-> EmptyVersion, ok |-> TRUE]
      BY <1>1, <1>3, <1>4 DEF resolveEra
    <2>2. e.ok /\ e.era = Legacy /\ Legacy # Modern
      BY <2>1 DEF Legacy, Modern
    <2> HIDE DEF e, declared
    <2>3. serves(Legacy, methodToolsCall)
      BY DEF serves, legacyMethods, Legacy, Modern
    <2> QED
      BY <1>1, <2>2, <2>3 DEF validateHeaders, e, c, declared
  <1>5. CASE spoken
    <2>1. ASSUME isModernVersion(c.protocolVersion)
          PROVE  /\ says(headers, headerMCPProtocolVersion, c.protocolVersion)
                 /\ c.protocolVersion \in {headers[i].value : i \in {j \in DOMAIN headers :
                       headers[j].key = headerMCPProtocolVersion}}
      <3>1. c.protocolVersion # EmptyVersion
        BY <2>1 DEF isModernVersion, firstModernVersion, v20260728, EmptyVersion
      <3>2. headerMCPProtocolVersion # headerMCPName
        BY DEF headerMCPProtocolVersion, headerMCPName
      <3>3. says(headers, headerMCPProtocolVersion, c.protocolVersion)
        BY <1>2, <3>1, <3>2, CapturedIsSaid
      <3> QED
        BY <3>3 DEF says
    <2>2. /\ m.params.meta = v20260728
          /\ says(headers, headerMCPProtocolVersion, v20260728)
          /\ says(headers, headerMCPMethod, methodToolsCall)
          /\ says(headers, headerMCPName, m.params.name)
      BY <1>5, <2>1 DEF isAdmissible
    <2>3. /\ c.protocolVersion = v20260728 /\ c.method = methodToolsCall
          /\ c.name = m.params.name /\ c.enc # "badBase64"
      BY <1>2, <2>2, SaidIsCaptured, SaidNameDecodes
    <2>4. isModernVersion(v20260728) /\ isSupportedVersion(v20260728)
      <3>1. DOMAIN supportedProtocolVersions = 1 .. 3 /\ supportedProtocolVersions[1] = v20260728
        BY DEF supportedProtocolVersions
      <3>2. 1 \in 1 .. 3 /\ v20260728 >= v20260728
        BY DEF v20260728
      <3> QED
        BY <3>1, <3>2 DEF isModernVersion, isSupportedVersion, firstModernVersion
    <2>5. e.ok /\ e.era = Modern
      BY <1>1, <1>3, <2>2, <2>3, <2>4 DEF resolveEra
    <2>6. serves(Modern, methodToolsCall)
      BY DEF serves, modernMethods
    <2>7. m.params.name # ""
      BY <1>1, HandlerAssumption
    <2>8. v20260728 # EmptyVersion /\ methodToolsCall # ""
      BY DEF v20260728, EmptyVersion, methodToolsCall
    <2>9. validateModernHeaders(m, declared, c)
      BY <1>1, <2>2, <2>3, <2>7, <2>8
         DEF validateModernHeaders, nameMissing, decodeHeaderValue, decodesName
    <2> HIDE DEF e, declared
    <2> QED
      BY <1>1, <2>5, <2>6, <2>9 DEF validateHeaders, e, c, declared
  <1> QED
    BY <1>4, <1>5

\* Two bodies with the same bytes are the same.
LEMMA WholeDiffers ==
    ASSUME NEW a, NEW b, Whole(a) = Whole(b)
    PROVE  a = b
  <1>1. 1 \in 1 .. BodyParts
    <2>1. BodyParts \in Nat \ {0}
      BY HandlerAssumption
    <2> QED
      BY <2>1
  <1>2. Whole(a)[1] = [of |-> a, part |-> 1] /\ Whole(b)[1] = [of |-> b, part |-> 1]
    BY <1>1 DEF Whole
  <1>3. [of |-> a, part |-> 1] = [of |-> b, part |-> 1]
    BY <1>2
  <1>4. [of |-> a, part |-> 1].of = [of |-> b, part |-> 1].of
    BY <1>3
  <1> QED
    BY <1>4

\* mcpRequestHandler refuses no admissible call.
LEMMA AdmissibleForwarded ==
    ASSUME NEW m \in RequestBodies, NEW o, o.headers \in HeaderLists,
           isAdmissible(m, o.headers)
    PROVE  callOf(o, Whole(m)).Reroute # NoReroute
  <1> DEFINE c == captureMCPRequestHeaders(o.headers)
             n == CHOOSE n \in RequestBodies : decodesTo(Whole(m), n)
  <1>1. m.kind = "request" /\ m \in JsonRpcMessages
    BY HandlerAssumption DEF isAdmissible
  <1>2. decodesTo(Whole(m), m)
    BY <1>1 DEF decodesTo
  <1>3. n \in RequestBodies /\ decodesTo(Whole(m), n)
    BY <1>2
  <1>4. Whole(m) = Whole(n)
    BY <1>3 DEF decodesTo
  <1>5. n = m
    BY <1>4, WholeDiffers
  <1>6. mcpRequestHandler(Whole(m), c) = handleRequest(n, c)
    BY <1>1, <1>2, <1>5 DEF mcpRequestHandler
  <1> HIDE DEF n, c
  <1>7. callOf(o, Whole(m)) = handleRequest(m, c)
    BY <1>5, <1>6 DEF callOf, c
  <1>8. handleRequest(m, c) =
          dispatch(resolveEra(m.method, metaProtocolVersion(m.params), c.protocolVersion).era, m, c)
    BY <1>1, AdmissiblePasses DEF handleRequest, c
  <1>9. ASSUME NEW era PROVE dispatch(era, m, c) = handleToolCall(era, m, c.paramHeaderNames)
    <2>1. /\ m.method = methodToolsCall
          /\ methodToolsCall \notin {methodInitialize, methodNotificationsInitialized,
                                     methodDiscover, methodToolsList}
      BY DEF isAdmissible, methodInitialize, methodNotificationsInitialized,
             methodDiscover, methodToolsList, methodToolsCall
    <2> QED
      BY <2>1 DEF dispatch
  <1>10. ASSUME NEW era, NEW strip
         PROVE  handleToolCall(era, m, strip).Reroute =
                  rerouteWithBodyMutation(Endpoint(m.params.name, m.params), strip)
    <2>1. /\ decodesCall(m.params) /\ m.params.name \in Tools /\ m.params.args # "rejected"
      BY DEF isAdmissible, decodesCall
    <2> QED
      BY <2>1 DEF handleToolCall
  <1> QED
    BY <1>7, <1>8, <1>9, <1>10, RerouteHasBody

\* The next piece of the request body.
LEMMA UploadingSteps ==
    ASSUME ExchangeTyped, WireInv, Course, EnvoyStill, relayed = Unsent,
           NEW q \in Seq(Messages), q # <<>>, Uploading(q), Handle(Head(q))
    PROVE  Course' /\ Ahead(Tail(q))' /\ ~ProtocolViolation(Head(q))
  <1> DEFINE m == Head(q)
             t == Tail(q)
  <1>1. state \in {DrainingRequest, BufferingRequest} /\ fed # Unsent
    BY DEF Uploading
  <1>2. PICK lo : /\ reqBytes = SubSeq(Whole(client.body), 1, lo)
                  /\ Slices(q, requestTypes, client.body, lo, fed)
    BY DEF Uploading
  <1>3. lo \in 0 .. BodyParts /\ m.type \in requestTypes
    BY <1>2, SlicesTake
  <1>4. PICK mid \in lo .. BodyParts :
           /\ payloadOf(m) = SubSeq(Whole(client.body), lo + 1, mid)
           /\ endsBody(m) => fed = Ended /\ mid = BodyParts /\ t = <<>>
           /\ ~endsBody(m) => Slices(t, requestTypes, client.body, mid, fed)
    BY <1>2, SlicesTake
  <1>5. m \in Messages /\ client.body \in RequestBodies
    BY HeadTailProperties, HttpFields
  <1>6. ~ProtocolViolation(m)
    BY <1>1, <1>3, ExpectedMessages
  <1> HIDE DEF m, t
  <1>7. \/ state = DrainingRequest /\ (DiscardRequestBody(m) \/ RejectDrained(m))
        \/ state = BufferingRequest /\ (AppendRequestBody(m) \/ FinalizeRequest(m))
    BY <1>1, <1>6, HandlerStates DEF m
  <1>8. /\ reqBytes' = reqBytes \o payloadOf(m)
        /\ UNCHANGED <<opened, upstream, respBytes, cycles>>
    BY <1>7 DEF DiscardRequestBody, RejectDrained, AppendRequestBody, FinalizeRequest,
                ReceivesRequestBody
  <1>9. /\ reqBytes' = SubSeq(Whole(client.body), 1, mid)
        /\ SubSeq(Whole(client.body), 1, BodyParts) = Whole(client.body)
    BY <1>2, <1>3, <1>4, <1>5, <1>8, SlicesJoin
  <1>10. /\ cycles' # 0 /\ opened' = requestHeaders' /\ (posted' <=> posted)
         /\ client' = client /\ fed' = fed /\ relayed' = relayed
    BY <1>1, <1>8, StatesDiffer DEF Course, EnvoyStill, requestHeaders, posted
  <1>11. CASE DiscardRequestBody(m) \/ AppendRequestBody(m)
    <2>1. state' = state /\ ~endsBody(m)
      BY <1>11 DEF DiscardRequestBody, AppendRequestBody
    <2>2. Course'
      BY <1>1, <1>10, <2>1, StatesDiffer DEF Course
    <2>3. Uploading(t)'
      BY <1>1, <1>4, <1>9, <1>10, <2>1 DEF Uploading
    <2> QED
      BY <1>6, <2>2, <2>3 DEF Ahead, m, t
  <1>12. CASE RejectDrained(m)
    <2>1. state = DrainingRequest /\ state' = AwaitingRequestHeaders /\ endsBody(m)
      BY <1>12 DEF RejectDrained, ReceivesRequestBody, Receives
    <2>2. RefusalFrame(wire)'
      BY <1>5, <1>12, RefusalEndsCycle
    <2>3. ~posted
      BY <2>1 DEF Course
    <2>4. RefusedCycle'
      BY <1>10, <2>2, <2>3 DEF RefusedCycle
    <2>5. Course'
      BY <1>10, <2>1, <2>4, StatesDiffer DEF Course
    <2>6. Settled(t)'
      BY <1>4, <1>10, <2>1, <2>3 DEF Settled
    <2> QED
      BY <1>6, <2>5, <2>6 DEF Ahead, m, t
  <1>13. CASE FinalizeRequest(m)
    <2>1. state = BufferingRequest /\ state' = AwaitingResponseHeaders /\ endsBody(m)
      BY <1>13 DEF FinalizeRequest, ReceivesRequestBody, Receives
    <2>2. posted
      BY <2>1 DEF Course
    <2>3. reqBytes' = Whole(client.body)
      BY <1>4, <1>9, <2>1
    <2>4. Course'
      BY <1>10, <2>1, <2>2, <2>3, StatesDiffer DEF Course
    <2>5. Calling(t)'
      BY <1>4, <1>10, <2>1 DEF Calling
    <2> QED
      BY <1>6, <2>4, <2>5 DEF Ahead, m, t
  <1> QED
    BY <1>7, <1>11, <1>12, <1>13

\* Nothing that Course speaks of changes, except that the API may answer.
LEMMA QuietCourse ==
    ASSUME Course, UNCHANGED <<client, state, opened, reqBytes, upstream, respBytes, cycles>>,
           wire' = wire, Unused => Unused', apiReply' = apiReply \/ apiReply = NoReply
    PROVE  Course'
  <1>1. /\ requestHeaders' = requestHeaders /\ (posted' <=> posted)
        /\ apiReply # NoReply => apiReply' = apiReply /\ responseHeaders' = responseHeaders
    BY DEF requestHeaders, responseHeaders, posted
  <1>2. Answered => Answered'
    BY DEF Answered
  <1>3. RefusedCycle => RefusedCycle'
    BY <1>1 DEF RefusedCycle
  <1>4. AnsweredCycle => AnsweredCycle'
    BY <1>1, <1>2 DEF AnsweredCycle
  <1> QED
    BY <1>1, <1>3, <1>4 DEF Course

\* A violation changes nothing but the fate of the stream.
LEMMA ViolationKeepsCourse ==
    ASSUME Course, EnvoyStill, NEW m, ProtocolViolation(m)
    PROVE  Course'
  BY QuietCourse DEF EnvoyStill, ProtocolViolation, history, wire, Unused

\* The body of a request refused for its method fails the stream.
LEMMA RefusingSteps ==
    ASSUME Course, EnvoyStill,
           NEW q \in Seq(Messages), q # <<>>, Refusing(q), Handle(Head(q))
    PROVE  Course' /\ ProtocolViolation(Head(q)) /\ KnownViolation
  <1>1. state = AwaitingRequestHeaders /\ badMethod(client) /\ client.hasBody
    BY DEF Refusing
  <1>2. Head(q).type \in requestTypes
    BY SlicesTake DEF Refusing
  <1>3. ProtocolViolation(Head(q))
    BY <1>1, <1>2, HandlerStates DEF requestTypes
  <1> QED
    BY <1>1, <1>3, ViolationKeepsCourse DEF KnownViolation

\* The call that goes upstream is the client's, and the client's is refused only
\* if it is no call.
LEMMA CallIsClients ==
    ASSUME ExchangeTyped, posted, opened = requestHeaders, reqBytes = Whole(client.body)
    PROVE  /\ callOf(opened, reqBytes).Reroute = NoReroute => ~isCall
           /\ callOf(opened, reqBytes).Reroute # NoReroute =>
                /\ isCall
                /\ IsCall(client.body, opened, reqBytes)
                /\ client.body.params.name \in Tools
  <1>1. /\ client.body \in RequestBodies /\ client.headers \in HeaderLists
        /\ client.allowed /\ client.hasBody /\ client.method \in {"POST", NoMethod}
    BY HttpFields DEF posted, badMethod
  <1>2. opened \in HeadersMessages
    BY HeadersTyped
  <1>3. opened.headers = client.headers /\ opened.method = client.method /\ opened.allowed = client.allowed
    BY DEF requestHeaders, RequestHeaders
  <1>4. Admitted(opened)
    BY <1>1, <1>2, <1>3 DEF Admitted, badMethod
  <1>5. ASSUME callOf(opened, reqBytes).Reroute = NoReroute, isCall PROVE FALSE
    BY <1>1, <1>3, <1>5, AdmissibleForwarded DEF isCall
  <1>6. ASSUME callOf(opened, reqBytes).Reroute # NoReroute
        PROVE  /\ isCall
               /\ IsCall(client.body, opened, reqBytes)
               /\ client.body.params.name \in Tools
    <2>1. PICK m : IsCall(m, opened, reqBytes)
      BY <1>4, <1>6, RefusedCall
    <2>2. Whole(m) = Whole(client.body)
      BY <2>1 DEF IsCall
    <2>3. m = client.body
      BY <2>2, WholeDiffers
    <2>4. isAdmissible(client.body, client.headers)
      BY <1>3, <2>1, <2>3 DEF IsCall
    <2>5. client.body.params.name \in Tools
      BY <2>4 DEF isAdmissible
    <2> QED
      BY <1>1, <2>1, <2>3, <2>4, <2>5 DEF isCall
  <1> QED
    BY <1>5, <1>6

\* The head of the API's response.
LEMMA CallingSteps ==
    ASSUME ExchangeTyped, IInv, WireInv, Course, EnvoyStill,
           callOf(opened, reqBytes).Reroute # NoReroute,
           NEW q \in Seq(Messages), q # <<>>, Calling(q), Handle(Head(q))
    PROVE  /\ Course'
           /\ ~ProtocolViolation(Head(q)) => Ahead(Tail(q))'
           /\ ProtocolViolation(Head(q)) => KnownViolation
  <1> DEFINE m == Head(q)
             t == Tail(q)
  <1>1. /\ m = responseHeaders /\ state = AwaitingResponseHeaders /\ fed = Ended
        /\ relayed # Unsent /\ apiReply # NoReply
        /\ apiReply.hasBody  => Slices(t, responseTypes, apiReply.body, 0, relayed)
        /\ ~apiReply.hasBody => relayed = Ended /\ t = <<>>
    BY DEF Calling, ExchangeTyped
  <1>2. m \in Messages
    BY HeadTailProperties
  <1>3. m.type = "ResponseHeaders" /\ m.eos = ~apiReply.hasBody
    BY <1>1 DEF responseHeaders, ResponseHeaders
  <1>4. apiReply.hasBody \in BOOLEAN /\ apiReply.body \in UpstreamBodies
    BY <1>1, HttpFields
  <1>5. cycles # 0 /\ posted /\ reqBytes = Whole(client.body) /\ opened = requestHeaders
    BY <1>1 DEF Course
  <1> HIDE DEF m, t
  <1>6. CASE ProtocolViolation(m)
    <2>1. ~isToolCall(request)
      BY <1>1, <1>3, <1>6, ExpectedMessages
    <2>2. request = [contextOf(opened, reqBytes, upstream) EXCEPT !.status = 0]
      BY <1>1, ContextKnown
    <2>3. /\ request.id = callOf(opened, reqBytes).Id
          /\ request.config = callOf(opened, reqBytes).ToolResponseConfig
      BY <2>2 DEF contextOf
    <2>4. isCall /\ IsCall(client.body, opened, reqBytes) /\ client.body.params.name \in Tools
      BY <1>5, CallIsClients
    <2>5. request.id = client.body.id /\ request.config # NoTool
      BY <2>3, <2>4, HandlerAssumption DEF IsCall
    <2>6. client.body.id = NoId
      BY <2>1, <2>5 DEF isToolCall
    <2>7. requestKind = "notification"
      BY <2>4, <2>6 DEF requestKind
    <2> QED
      BY <1>1, <1>6, <2>7, ViolationKeepsCourse DEF KnownViolation, m
  <1>7. CASE ~ProtocolViolation(m)
    <2>1. StartBufferingResponse(m) \/ ReplaceEmptyResponse(m)
      BY <1>1, <1>7, HandlerStates DEF m
    <2>2. /\ upstream' = m /\ respBytes' = <<>> /\ UNCHANGED <<opened, reqBytes, cycles>>
          /\ client' = client /\ apiReply' = apiReply /\ fed' = fed /\ relayed' = relayed
      BY <2>1 DEF StartBufferingResponse, ReplaceEmptyResponse, ReceivesToolResponse, EnvoyStill
    <2>3. /\ opened' = requestHeaders' /\ upstream' = responseHeaders' /\ (posted' <=> posted)
      BY <1>1, <1>5, <2>2 DEF requestHeaders, responseHeaders, posted
    <2>4. CASE StartBufferingResponse(m)
      <3>1. state' = BufferingResponse /\ apiReply.hasBody
        BY <1>3, <1>4, <2>4 DEF StartBufferingResponse
      <3>2. Course'
        BY <1>1, <1>5, <2>2, <2>3, <3>1, StatesDiffer DEF Course
      <3>3. respBytes' = SubSeq(Whole(apiReply.body), 1, 0)
        <4>1. BodyParts \in Nat
          BY HandlerAssumption
        <4>2. 0 \in 0 .. BodyParts
          BY <4>1
        <4> QED
          BY <1>4, <2>2, <4>2, SlicesJoin
      <3>4. Downloading(t)'
        BY <1>1, <2>2, <3>1, <3>3 DEF Downloading
      <3> QED
        BY <1>7, <3>2, <3>4 DEF Ahead, m, t
    <2>5. CASE ReplaceEmptyResponse(m)
      <3>1. state' = AwaitingRequestHeaders /\ ~apiReply.hasBody
        BY <1>3, <1>4, <2>5 DEF ReplaceEmptyResponse, ReceivesToolResponse
      <3>2. Answered'
        BY <1>2, <2>5, AnswerEndsCycle
      <3>3. AnsweredCycle'
        BY <1>1, <1>5, <2>2, <2>3, <3>1, <3>2 DEF AnsweredCycle
      <3>4. Course'
        BY <1>5, <2>2, <2>3, <3>1, <3>3, StatesDiffer DEF Course
      <3>5. Settled(t)'
        BY <1>1, <1>5, <2>2, <3>1 DEF Settled
      <3> QED
        BY <1>7, <3>4, <3>5 DEF Ahead, m, t
    <2> QED
      BY <2>1, <2>4, <2>5
  <1> QED
    BY <1>6, <1>7 DEF m, t

\* The next piece of the response body.
LEMMA DownloadingSteps ==
    ASSUME ExchangeTyped, IInv, WireInv, Course, EnvoyStill,
           NEW q \in Seq(Messages), q # <<>>, Downloading(q), Handle(Head(q))
    PROVE  Course' /\ Ahead(Tail(q))' /\ ~ProtocolViolation(Head(q))
  <1> DEFINE m == Head(q)
             t == Tail(q)
  <1>1. /\ state = BufferingResponse /\ fed = Ended /\ relayed # Unsent
        /\ apiReply # NoReply /\ apiReply.hasBody /\ upstream = responseHeaders
        /\ cycles # 0 /\ posted /\ reqBytes = Whole(client.body) /\ opened = requestHeaders
    BY DEF Downloading, Course
  <1>2. PICK lo : /\ respBytes = SubSeq(Whole(apiReply.body), 1, lo)
                  /\ Slices(q, responseTypes, apiReply.body, lo, relayed)
    BY DEF Downloading
  <1>3. lo \in 0 .. BodyParts /\ m.type \in responseTypes
    BY <1>2, SlicesTake
  <1>4. PICK mid \in lo .. BodyParts :
           /\ payloadOf(m) = SubSeq(Whole(apiReply.body), lo + 1, mid)
           /\ endsBody(m) => relayed = Ended /\ mid = BodyParts /\ t = <<>>
           /\ ~endsBody(m) => Slices(t, responseTypes, apiReply.body, mid, relayed)
    BY <1>2, SlicesTake
  <1>5. m \in Messages /\ apiReply.body \in UpstreamBodies
    BY <1>1, HeadTailProperties, HttpFields
  <1>6. ~ProtocolViolation(m)
    BY <1>1, <1>3, ExpectedMessages
  <1> HIDE DEF m, t
  <1>7. AppendResponseBody(m) \/ FinalizeResponse(m)
    BY <1>1, <1>6, HandlerStates DEF m
  <1>8. /\ respBytes' = respBytes \o payloadOf(m)
        /\ UNCHANGED <<opened, reqBytes, upstream, cycles>>
        /\ client' = client /\ apiReply' = apiReply /\ fed' = fed /\ relayed' = relayed
    BY <1>7 DEF AppendResponseBody, FinalizeResponse, ReceivesResponseBody, EnvoyStill
  <1>9. /\ respBytes' = SubSeq(Whole(apiReply.body), 1, mid)
        /\ SubSeq(Whole(apiReply.body), 1, BodyParts) = Whole(apiReply.body)
    BY <1>2, <1>3, <1>4, <1>5, <1>8, SlicesJoin
  <1>10. opened' = requestHeaders' /\ upstream' = responseHeaders' /\ (posted' <=> posted)
    BY <1>1, <1>8 DEF requestHeaders, responseHeaders, posted
  <1>11. CASE AppendResponseBody(m)
    <2>1. state' = state /\ ~endsBody(m)
      BY <1>11 DEF AppendResponseBody
    <2>2. Course'
      BY <1>1, <1>8, <1>10, <2>1, StatesDiffer DEF Course
    <2>3. Downloading(t)'
      BY <1>1, <1>4, <1>8, <1>9, <2>1 DEF Downloading
    <2> QED
      BY <1>6, <2>2, <2>3 DEF Ahead, m, t
  <1>12. CASE FinalizeResponse(m)
    <2>1. state' = AwaitingRequestHeaders /\ endsBody(m)
      BY <1>12 DEF FinalizeResponse
    <2>2. Answered'
      BY <1>5, <1>12, AnswerEndsCycle
    <2>3. respBytes' = Whole(apiReply.body)
      BY <1>4, <1>9, <2>1
    <2>4. AnsweredCycle'
      BY <1>1, <1>8, <1>10, <2>2, <2>3 DEF AnsweredCycle
    <2>5. Course'
      BY <1>1, <1>8, <1>10, <2>1, <2>4, StatesDiffer DEF Course
    <2>6. Settled(t)'
      BY <1>1, <1>4, <1>8, <2>1 DEF Settled
    <2> QED
      BY <1>6, <2>5, <2>6 DEF Ahead, m, t
  <1> QED
    BY <1>7, <1>11, <1>12

-----------------------------------------------------------------------------
(* Three parts of one sequence: what Envoy turned into the API's request,   *)
(* into the client's response, and what it has not applied yet.             *)

\* Each part is where it should be in the whole.
LEMMA PartsOfWhole ==
    ASSUME NEW a, NEW c, NEW r, NEW z, IsSeq(a), IsSeq(c), IsSeq(r), IsSeq(z)
    PROVE  LET w == ((a \o c) \o r) \o z
           IN  /\ IsSeq(w) /\ DOMAIN w = 1 .. Len(w) /\ Len(w) \in Nat
               /\ Len(a) \in Nat /\ Len(c) \in Nat /\ Len(r) \in Nat
               /\ DOMAIN a = 1 .. Len(a) /\ DOMAIN c = 1 .. Len(c)
               /\ Len(a) + Len(c) + Len(r) <= Len(w)
               /\ \A i \in 1 .. Len(a) : w[i] = a[i]
               /\ \A i \in 1 .. Len(c) : w[Len(a) + i] = c[i]
               /\ r # <<>> => Len(r) # 0 /\ w[Len(a) + Len(c) + 1] = Head(r)
               /\ a # <<>> => Len(a) # 0
               /\ c # <<>> => Len(c) # 0
  <1>1. PICK A : a \in Seq(A)
    BY DEF IsSeq
  <1>2. PICK B : c \in Seq(B)
    BY DEF IsSeq
  <1>3. PICK C : r \in Seq(C)
    BY DEF IsSeq
  <1>4. PICK D : z \in Seq(D)
    BY DEF IsSeq
  <1> DEFINE S == A \cup B \cup C \cup D
             ac == a \o c
             acr == ac \o r
             w == acr \o z
  <1>5. a \in Seq(S) /\ c \in Seq(S) /\ r \in Seq(S) /\ z \in Seq(S)
    BY <1>1, <1>2, <1>3, <1>4, SeqMonotonic
  <1> HIDE DEF S
  <1>6. /\ ac \in Seq(S) /\ Len(ac) = Len(a) + Len(c)
        /\ \A i \in 1 .. Len(a) + Len(c) : ac[i] = IF i <= Len(a) THEN a[i] ELSE c[i - Len(a)]
    BY <1>5, ConcatProperties
  <1>7. ac \in Seq(S)
    BY <1>6
  <1> HIDE DEF ac
  <1>8. /\ acr \in Seq(S) /\ Len(acr) = Len(ac) + Len(r)
        /\ \A i \in 1 .. Len(ac) + Len(r) : acr[i] = IF i <= Len(ac) THEN ac[i] ELSE r[i - Len(ac)]
    BY <1>5, <1>7, ConcatProperties
  <1>9. acr \in Seq(S)
    BY <1>8
  <1> HIDE DEF acr
  <1>10. /\ w \in Seq(S) /\ Len(w) = Len(acr) + Len(z)
        /\ \A i \in 1 .. Len(acr) + Len(z) : w[i] = IF i <= Len(acr) THEN acr[i] ELSE z[i - Len(acr)]
    BY <1>5, <1>9, ConcatProperties
  <1>11. w \in Seq(S)
    BY <1>10
  <1> HIDE DEF w
  <1>12. /\ Len(a) \in Nat /\ Len(c) \in Nat /\ Len(r) \in Nat /\ Len(z) \in Nat
        /\ DOMAIN a = 1 .. Len(a) /\ DOMAIN c = 1 .. Len(c) /\ DOMAIN w = 1 .. Len(w)
    BY <1>5, <1>11, LenProperties
  <1>13. ASSUME NEW i \in 1 .. Len(a) PROVE w[i] = a[i]
    BY <1>6, <1>8, <1>10, <1>12
  <1>14. ASSUME NEW i \in 1 .. Len(c) PROVE w[Len(a) + i] = c[i]
    <2> DEFINE j == Len(a) + i
    <2>1. /\ j \in 1 .. Len(ac) /\ j \in 1 .. Len(ac) + Len(r) /\ j \in 1 .. Len(acr) + Len(z)
          /\ j <= Len(ac) /\ j <= Len(acr) /\ ~(j <= Len(a)) /\ j - Len(a) = i
      BY <1>6, <1>8, <1>12
    <2> HIDE DEF j
    <2>2. w[j] = acr[j] /\ acr[j] = ac[j] /\ ac[j] = c[j - Len(a)]
      BY <1>6, <1>8, <1>10, <2>1
    <2> QED
      BY <2>1, <2>2 DEF j
  <1>15. ASSUME r # <<>> PROVE Len(r) # 0 /\ w[Len(a) + Len(c) + 1] = Head(r)
    <2>1. Len(r) \in Nat \ {0} /\ Head(r) = r[1]
      BY <1>5, <1>15, EmptySeq
    <2> DEFINE j == Len(a) + Len(c) + 1
    <2>2. /\ j \in 1 .. Len(ac) + Len(r) /\ j \in 1 .. Len(acr) + Len(z)
          /\ ~(j <= Len(ac)) /\ j <= Len(acr) /\ j - Len(ac) = 1
      BY <1>6, <1>8, <1>12, <2>1
    <2> HIDE DEF j
    <2>3. w[j] = acr[j] /\ acr[j] = r[j - Len(ac)]
      BY <1>8, <1>10, <2>2
    <2> QED
      BY <2>1, <2>2, <2>3 DEF j
  <1>16. (a # <<>> => Len(a) # 0) /\ (c # <<>> => Len(c) # 0)
    BY <1>5, EmptySeq
  <1>17. Len(a) + Len(c) + Len(r) <= Len(w) /\ Len(w) \in Nat
    BY <1>6, <1>8, <1>10, <1>12
  <1>18. IsSeq(w)
    BY <1>10 DEF IsSeq
  <1> QED
    BY <1>12, <1>13, <1>14, <1>15, <1>16, <1>17, <1>18 DEF w, acr, ac

\* The next element moves to the end of one of the first two parts; the third grows.
LEMMA PartsMove ==
    ASSUME NEW a, NEW c, NEW r, IsSeq(a), IsSeq(c), IsSeq(r), NEW x
    PROVE  /\ r # <<>> => (a \o c) \o r = (a \o Append(c, Head(r))) \o Tail(r)
           /\ r # <<>> /\ c = <<>> => (a \o c) \o r = (Append(a, Head(r)) \o c) \o Tail(r)
           /\ Append((a \o c) \o r, x) = (a \o c) \o Append(r, x)
  <1>1. PICK A : a \in Seq(A)
    BY DEF IsSeq
  <1>2. PICK B : c \in Seq(B)
    BY DEF IsSeq
  <1>3. PICK C : r \in Seq(C)
    BY DEF IsSeq
  <1> DEFINE S == A \cup B \cup C \cup {x}
  <1>4. a \in Seq(S) /\ c \in Seq(S) /\ r \in Seq(S) /\ x \in S /\ <<x>> \in Seq(S)
    BY <1>1, <1>2, <1>3, SeqMonotonic
  <1> HIDE DEF S
  <1>5. a \o c \in Seq(S) /\ (a \o c) \o r \in Seq(S)
    BY <1>4, ConcatProperties
  <1>6. Append((a \o c) \o r, x) = (a \o c) \o Append(r, x)
    <2>1. Append((a \o c) \o r, x) = ((a \o c) \o r) \o <<x>>
      BY <1>4, <1>5, AppendIsConcat
    <2>2. Append(r, x) = r \o <<x>>
      BY <1>4, AppendIsConcat
    <2> DEFINE p == a \o c
               e == <<x>>
    <2>3. p \in Seq(S) /\ e \in Seq(S) /\ r \in Seq(S)
      BY <1>4, <1>5
    <2> HIDE DEF p, e
    <2>4. (p \o r) \o e = p \o (r \o e)
      BY <2>3, ConcatAssociative
    <2> QED
      BY <2>1, <2>2, <2>4 DEF p, e
  <1>7. ASSUME r # <<>>
        PROVE  /\ (a \o c) \o r = (a \o Append(c, Head(r))) \o Tail(r)
               /\ c = <<>> => (a \o c) \o r = (Append(a, Head(r)) \o c) \o Tail(r)
    <2> DEFINE h == Head(r)
               t == Tail(r)
    <2>1. h \in S /\ t \in Seq(S) /\ <<h>> \in Seq(S)
      BY <1>4, <1>7, HeadTailProperties
    <2>2. r = <<h>> \o t
      <3>1. Len(r) \in Nat \ {0}
        BY <1>4, <1>7, EmptySeq
      <3>2. 1 \in 1 .. Len(r) /\ Len(r) \in 1 .. Len(r)
        BY <3>1
      <3>3. SubSeq(r, 1, Len(r)) = <<r[1]>> \o SubSeq(r, 1 + 1, Len(r))
        BY <1>4, <3>2, SubSeqRecursiveFirst
      <3>4. SubSeq(r, 1, Len(r)) = r /\ t = SubSeq(r, 2, Len(r)) /\ h = r[1]
        BY <1>4, <1>7, SubSeqFull, TailIsSubSeq
      <3> QED
        BY <3>3, <3>4
    <2> HIDE DEF h, t
    <2>3. (a \o c) \o r = ((a \o c) \o <<h>>) \o t
      <3>1. PICK ac : ac = a \o c
        OBVIOUS
      <3>2. ac \in Seq(S)
        BY <1>5, <3>1
      <3>3. ac \o (<<h>> \o t) = (ac \o <<h>>) \o t
        BY <2>1, <3>2, ConcatAssociative
      <3> QED
        BY <2>2, <3>1, <3>3
    <2>4. (a \o c) \o <<h>> = a \o (c \o <<h>>)
      BY <1>4, <2>1, ConcatAssociative
    <2>5. c \o <<h>> = Append(c, h) /\ a \o <<h>> = Append(a, h)
      BY <1>4, <2>1, AppendIsConcat
    <2>6. (a \o c) \o r = (a \o Append(c, h)) \o t
      BY <2>3, <2>4, <2>5
    <2>7. ASSUME c = <<>> PROVE (a \o c) \o r = (Append(a, h) \o c) \o t
      <3>1. c \o <<h>> = <<h>>
        BY <2>1, <2>7, ConcatEmptySeq
      <3>2. Append(a, h) \in Seq(S)
        BY <1>4, <2>1, AppendProperties
      <3>3. Append(a, h) \o c = Append(a, h)
        BY <2>7, <3>2, ConcatEmptySeq
      <3> QED
        BY <2>3, <2>4, <2>5, <3>1, <3>3
    <2> QED
      BY <2>6, <2>7 DEF h, t
  <1> QED
    BY <1>6, <1>7

-----------------------------------------------------------------------------
(* What the replies of this exchange are.                                   *)

\* Part of the API's request; part of the client's response; the end of it.
forApi(r) == r.type \in wireTypes /\ r.dir = "request"
forClient(r) == IF r.type = "immediate" THEN TRUE ELSE r.type \in wireTypes /\ r.dir = "response"
ends(r) == IF r.type = "immediate" THEN TRUE ELSE isTerminator(r)

\* The call f and, if there is one, its answer g.
CallOnWire(f, g) ==
    /\ wire = f \o g
    /\ SendsCall(f, client.body, opened)
    /\ g # <<>> => SendsAnswer(g, answerNow) /\ OwnsAnswer /\ AnsweredCycle

\* Nothing is on the wire, or the refusal of what is no call, or the call.
LEMMA WireForm ==
    ASSUME ExchangeTyped, IInv, WireInv, Course
    PROVE  /\ (cycles = 0 \/ state \in {DrainingRequest, BufferingRequest}) => wire = <<>>
           /\ \/ wire = <<>>
              \/ ~isCall /\ RefusalFrame(wire)
              \/ isCall /\ IsCall(client.body, opened, reqBytes) /\ \E f, g : CallOnWire(f, g)
  <1>1. state \in States
    BY DEF IInv, TypeOK
  <1>2. sent = <<>> /\ reps = <<>> => wire = <<>>
    BY EmptyParts DEF wire, WireInv
  <1>3. ASSUME ~posted, isCall PROVE FALSE
    BY <1>3 DEF posted, isCall, badMethod
  <1>4. ASSUME state # AwaitingRequestHeaders, state \notin {DrainingRequest, BufferingRequest}
        PROVE  /\ posted /\ opened = requestHeaders /\ reqBytes = Whole(client.body)
               /\ Admitted(opened)
               /\ \/ RefusalFrame(wire) /\ callOf(opened, reqBytes).Reroute = NoReroute
                  \/ RequestFrame(wire, opened, reqBytes)
    BY <1>1, <1>4, StatesDiffer DEF Course, WireInv, RequestOnWire, AwaitsAnswer
  <1>5. ASSUME posted, opened = requestHeaders, reqBytes = Whole(client.body), Admitted(opened),
               NEW f, RequestFrame(f, opened, reqBytes)
        PROVE  isCall /\ IsCall(client.body, opened, reqBytes) /\ SendsCall(f, client.body, opened)
    <2>1. PICK m : IsCall(m, opened, reqBytes) /\ SendsCall(f, m, opened)
      BY <1>5, RequestFacts
    <2>2. Whole(m) = Whole(client.body)
      BY <1>5, <2>1 DEF IsCall
    <2>3. m = client.body
      BY <2>2, WholeDiffers
    <2>4. isCall
      BY <1>5, CallIsClients DEF RequestFrame
    <2> QED
      BY <2>1, <2>3, <2>4
  <1>6. CASE cycles = 0 \/ state \in {DrainingRequest, BufferingRequest}
    <2>1. sent = <<>> /\ reps = <<>>
      BY <1>6 DEF Course, Unused, WireInv
    <2> QED
      BY <1>2, <2>1
  <1>7. CASE cycles # 0 /\ state \notin {DrainingRequest, BufferingRequest, AwaitingRequestHeaders}
    <2>1. CASE RefusalFrame(wire) /\ callOf(opened, reqBytes).Reroute = NoReroute
      BY <1>4, <1>7, <2>1, CallIsClients
    <2>2. CASE RequestFrame(wire, opened, reqBytes)
      <3>1. isCall /\ IsCall(client.body, opened, reqBytes) /\ SendsCall(wire, client.body, opened)
        BY <1>4, <1>5, <1>7, <2>2
      <3>2. IsSeq(wire)
        BY <3>1 DEF SendsCall
      <3>3. wire = wire \o <<>>
        BY <3>2, EmptyParts
      <3>4. CallOnWire(wire, <<>>)
        BY <3>1, <3>3 DEF CallOnWire
      <3> QED
        BY <1>7, <3>1, <3>4
    <2> QED
      BY <1>4, <1>7, <2>1, <2>2
  <1>8. CASE cycles # 0 /\ state = AwaitingRequestHeaders
    <2>1. CASE RefusedCycle
      BY <1>3, <1>8, <2>1, StatesDiffer DEF RefusedCycle
    <2>2. CASE AnsweredCycle
      <3>1. PICK f, g : /\ wire = f \o g /\ RequestFrame(f, opened, reqBytes)
                        /\ ResponseFrame(g, opened, reqBytes, upstream, respBytes)
        BY <2>2 DEF AnsweredCycle, Answered
      <3>2. isCall /\ IsCall(client.body, opened, reqBytes) /\ SendsCall(f, client.body, opened)
        BY <1>5, <1>8, <2>2, <3>1 DEF AnsweredCycle, Answered, Course
      <3>3. SendsAnswer(g, answerNow) /\ OwnsAnswer
        BY <3>1, ResponseFacts DEF answerNow, ResponseFrame, OwnsAnswer
      <3>4. CallOnWire(f, g)
        BY <2>2, <3>1, <3>2, <3>3 DEF CallOnWire
      <3> QED
        BY <1>8, <3>2, <3>4, StatesDiffer
    <2> QED
      BY <1>8, <2>1, <2>2 DEF Course
  <1> QED
    BY <1>1, <1>6, <1>7, <1>8

\* Each reply of a call is for the API, up to the end of the call, or else for the
\* client.
LEMMA CallItems ==
    ASSUME NEW f, NEW g, CallOnWire(f, g)
    PROVE  /\ Len(f) \in Nat /\ Len(f) >= 2 /\ DOMAIN f = 1 .. Len(f)
           /\ DOMAIN wire = 1 .. Len(wire) /\ Len(wire) \in Nat /\ Len(f) <= Len(wire)
           /\ wire # <<>> /\ wire[1].mutation # EmptyMutation
           /\ \A i \in 1 .. Len(f) : /\ wire[i] = f[i] /\ forApi(wire[i])
                                     /\ isTerminator(wire[i]) <=> i = Len(f)
           /\ \A i \in DOMAIN wire : i > Len(f) =>
                 /\ i - Len(f) \in DOMAIN g /\ wire[i] = g[i - Len(f)] /\ g # <<>>
                 /\ forClient(wire[i]) /\ ~forApi(wire[i]) /\ wire[i].type # "immediate"
           /\ g # <<>> => /\ DOMAIN g = 1 .. Len(g) /\ Len(g) \in Nat \ {0}
                          /\ Len(wire) = Len(f) + Len(g)
  <1>1. /\ IsSeq(f) /\ Len(f) \in Nat /\ Len(f) >= 2 /\ DOMAIN f = 1 .. Len(f)
        /\ isDirection(f, "request") /\ OfWireTypes(f)
        /\ f[1].mutation # EmptyMutation
    BY DEF CallOnWire, SendsCall
  <1>2. f # <<>>
    BY <1>1 DEF isDirection
  <1>3. \A i \in 1 .. Len(f) : forApi(f[i]) /\ (isTerminator(f[i]) <=> i = Len(f))
    BY <1>1 DEF isDirection, OfWireTypes, forApi
  <1>4. 1 \in 1 .. Len(f)
    BY <1>1
  <1>5. ASSUME g = <<>>
        PROVE  wire = f /\ IsSeq(g) /\ (\A i \in DOMAIN f : ~(i > Len(f)))
    BY <1>1, <1>5, EmptyParts DEF CallOnWire
  <1>6. ASSUME g # <<>>
        PROVE  /\ DOMAIN g = 1 .. Len(g) /\ Len(g) \in Nat \ {0}
               /\ Len(wire) = Len(f) + Len(g) /\ Len(wire) \in Nat
               /\ DOMAIN wire = 1 .. Len(wire)
               /\ \A i \in 1 .. Len(f) : wire[i] = f[i]
               /\ \A i \in DOMAIN wire : \/ i \in DOMAIN f /\ wire[i] = f[i]
                                         \/ i - Len(f) \in DOMAIN g /\ wire[i] = g[i - Len(f)]
               /\ \A i \in DOMAIN g : forClient(g[i]) /\ ~forApi(g[i]) /\ g[i].type # "immediate"
    <2>1. IsSeq(g) /\ isDirection(g, "response") /\ OfWireTypes(g)
      BY <1>6 DEF CallOnWire, SendsAnswer
    <2>2. /\ IsSeq(wire) /\ Len(wire) \in Nat /\ Len(wire) = Len(f) + Len(g)
          /\ DOMAIN wire = 1 .. Len(wire)
          /\ \A i \in DOMAIN f : i \in DOMAIN wire /\ wire[i] = f[i]
          /\ \A i \in DOMAIN wire : \/ i \in DOMAIN f /\ wire[i] = f[i]
                                    \/ i - Len(f) \in DOMAIN g /\ wire[i] = g[i - Len(f)]
      BY <1>1, <1>2, <1>6, <2>1, Joined DEF CallOnWire
    <2>3. \A i \in DOMAIN g : forClient(g[i]) /\ ~forApi(g[i]) /\ g[i].type # "immediate"
      BY <2>1 DEF isDirection, OfWireTypes, forClient, forApi
    <2>4. PICK B : g \in Seq(B)
      BY <2>1 DEF IsSeq
    <2>5. DOMAIN g = 1 .. Len(g) /\ Len(g) \in Nat \ {0}
      BY <1>6, <2>4, EmptySeq, LenProperties
    <2> QED
      BY <1>1, <2>2, <2>3, <2>5
  <1>7. DOMAIN wire = 1 .. Len(wire) /\ Len(wire) \in Nat /\ Len(f) <= Len(wire)
    BY <1>1, <1>5, <1>6
  <1>8. ASSUME NEW i \in 1 .. Len(f)
        PROVE  /\ wire[i] = f[i] /\ forApi(wire[i])
               /\ isTerminator(wire[i]) <=> i = Len(f)
    <2>1. wire[i] = f[i]
      BY <1>5, <1>6
    <2> QED
      BY <1>3, <2>1
  <1>9. ASSUME NEW i \in DOMAIN wire, i > Len(f)
        PROVE  /\ i - Len(f) \in DOMAIN g /\ wire[i] = g[i - Len(f)] /\ g # <<>>
               /\ forClient(wire[i]) /\ ~forApi(wire[i]) /\ wire[i].type # "immediate"
    <2>1. g # <<>>
      BY <1>5, <1>9
    <2>2. ~(i \in DOMAIN f)
      BY <1>1, <1>7, <1>9
    <2>3. i - Len(f) \in DOMAIN g /\ wire[i] = g[i - Len(f)]
      BY <1>6, <2>1, <2>2
    <2> QED
      BY <1>6, <2>1, <2>3
  <1>10. wire # <<>> /\ wire[1].mutation # EmptyMutation
    <2>1. wire[1] = f[1]
      BY <1>4, <1>8
    <2>2. wire # <<>>
      <3>1. 1 \in DOMAIN wire
        BY <1>1, <1>7
      <3> QED
        BY <3>1, EmptySeq
    <2> QED
      BY <1>1, <2>1, <2>2
  <1> QED
    BY <1>1, <1>6, <1>7, <1>8, <1>9, <1>10

-----------------------------------------------------------------------------
(* What Envoy has made of the replies.                                      *)

\* The replies sent are those Envoy turned into the API's request, then those it
\* turned into the client's response, then those in flight; the status of the
\* stream follows them.
Pipe ==
    \E rest :
      /\ IsSeq(rest)
      /\ sent = (apiGot \o clientGot) \o rest
      /\ link = "open" => toEnvoy = IF rc = "running" THEN rest ELSE Append(rest, StreamEnd)

\* Each reply went where it belongs.
Sorted ==
    /\ \A i \in DOMAIN apiGot : forApi(apiGot[i])
    /\ \A i \in DOMAIN clientGot : forClient(clientGot[i])

\* The end of the client's response is the last Envoy takes, and it decides the
\* outcome; while the stream is open nothing is decided and only a protocol
\* violation may have ended Process.
Closing ==
    /\ \A i \in DOMAIN clientGot : ends(clientGot[i]) =>
          i = Len(clientGot) /\ outcome \in {"refused", "answered"}
    /\ outcome = "answered" =>
          /\ clientGot # <<>>
          /\ isTerminator(clientGot[Len(clientGot)])
          /\ clientGot[Len(clientGot)].type # "immediate"
    /\ link = "open" => outcome = "pending" /\ rc \in {"running", "FailedPrecondition"}
    /\ outcome = "refused" => clientGot # <<>> /\ clientGot[Len(clientGot)].type = "immediate"

\* A protocol violation comes when all replies are sent, and after the refusal
\* of a method or with the answer to a notification.
ViolationInv ==
    rc = "FailedPrecondition" =>
      /\ reps = <<>>
      /\ \/ badMethod(client) /\ client.hasBody /\ RefusalFrame(wire)
         \/ requestKind = "notification" /\ apiReply # NoReply

\* What each part of the system relies on in the others.
XInv == /\ ExchangeTyped /\ IInv /\ WireInv /\ Course /\ Queue
        /\ Pipe /\ Sorted /\ Closing /\ ViolationInv

\* The replies Envoy has applied, and the next one, on the wire.
LEMMA GotParts ==
    ASSUME ExchangeTyped, WireInv, NEW rest, IsSeq(rest), sent = (apiGot \o clientGot) \o rest
    PROVE  /\ DOMAIN wire = 1 .. Len(wire) /\ Len(wire) \in Nat
           /\ Len(apiGot) \in Nat /\ Len(clientGot) \in Nat /\ Len(rest) \in Nat
           /\ DOMAIN apiGot = 1 .. Len(apiGot) /\ DOMAIN clientGot = 1 .. Len(clientGot)
           /\ Len(apiGot) + Len(clientGot) + Len(rest) <= Len(wire)
           /\ \A i \in 1 .. Len(apiGot) : wire[i] = apiGot[i]
           /\ \A i \in 1 .. Len(clientGot) : wire[Len(apiGot) + i] = clientGot[i]
           /\ rest # <<>> => Len(rest) # 0 /\ wire[Len(apiGot) + Len(clientGot) + 1] = Head(rest)
           /\ apiGot # <<>> => Len(apiGot) # 0
           /\ clientGot # <<>> => Len(clientGot) # 0
  <1>1. wire = ((apiGot \o clientGot) \o rest) \o reps
    BY DEF wire
  <1>2. IsSeq(apiGot) /\ IsSeq(clientGot) /\ IsSeq(reps)
    BY DEF ExchangeTyped, WireInv
  <1> QED
    BY <1>1, <1>2, PartsOfWhole

\* What the wire holds of a refusal.
LEMMA RefusalItems ==
    ASSUME RefusalFrame(wire)
    PROVE  /\ DOMAIN wire = 1 .. 2 /\ wire # <<>>
           /\ forApi(wire[1]) /\ ~forClient(wire[1]) /\ wire[1].mutation = EmptyMutation
           /\ forClient(wire[2]) /\ ~forApi(wire[2]) /\ wire[2].type = "immediate"
  <1> DEFINE h == HeadersResponse("request", EmptyMutation, NoBody)
  <1>1. PICK x : x.type = "immediate" /\ wire = <<h, x>>
    BY DEF RefusalFrame, immediateResponse
  <1>2. h.type = "headers" /\ h.dir = "request" /\ h.mutation = EmptyMutation
    BY MessageFields
  <1> HIDE DEF h
  <1>3. DOMAIN wire = 1 .. 2 /\ wire[1] = h /\ wire[2] = x /\ wire # <<>>
    BY <1>1
  <1>4. "headers" \in wireTypes /\ "immediate" \notin wireTypes
    BY DEF wireTypes
  <1> QED
    BY <1>1, <1>2, <1>3, <1>4 DEF forApi, forClient

\* What is for the API is not for the client.
LEMMA OneSide == ASSUME NEW r, forApi(r) PROVE ~forClient(r) /\ r.type # "immediate" /\ r # StreamEnd
  <1>1. r.type \in {"headers", "body", "trailers"} /\ r.dir = "request"
    BY DEF forApi, wireTypes
  <1>2. StreamEnd.type = "status"
    BY DEF StreamEnd
  <1> QED
    BY <1>1, <1>2 DEF forClient

\* The client's replies come after the API's.
LEMMA OrderOnWire ==
    ASSUME ExchangeTyped, IInv, WireInv, Course,
           NEW i \in DOMAIN wire, NEW j \in DOMAIN wire, i < j, forClient(wire[i])
    PROVE  ~forApi(wire[j])
  <1>1. CASE wire = <<>>
    BY <1>1, EmptySeq
  <1>2. CASE RefusalFrame(wire)
    BY <1>2, RefusalItems
  <1>3. CASE \E f, g : CallOnWire(f, g)
    <2>1. PICK f, g : CallOnWire(f, g)
      BY <1>3
    <2>2. /\ Len(f) \in Nat /\ DOMAIN wire = 1 .. Len(wire) /\ Len(wire) \in Nat
          /\ \A k \in 1 .. Len(f) : forApi(wire[k])
          /\ \A k \in DOMAIN wire : k > Len(f) => ~forApi(wire[k])
      BY <2>1, CallItems
    <2>3. i \notin 1 .. Len(f)
      BY <2>2, OneSide
    <2>4. j > Len(f)
      BY <2>2, <2>3
    <2> QED
      BY <2>2, <2>4
  <1> QED
    BY <1>1, <1>2, <1>3, WireForm

\* Nothing on the wire is the end of the stream.
LEMMA WireIsReplies ==
    ASSUME ExchangeTyped, IInv, WireInv, Course, NEW i \in DOMAIN wire
    PROVE  wire[i] # StreamEnd
  <1>1. \A r : forClient(r) => r # StreamEnd
    BY DEF forClient, wireTypes, StreamEnd
  <1>2. CASE wire = <<>>
    BY <1>2, EmptySeq
  <1>3. CASE RefusalFrame(wire)
    <2>1. i = 1 \/ i = 2
      BY <1>3, RefusalItems
    <2> QED
      BY <1>1, <1>3, <2>1, RefusalItems, OneSide
  <1>4. CASE \E f, g : CallOnWire(f, g)
    <2>1. PICK f, g : CallOnWire(f, g)
      BY <1>4
    <2>2. /\ Len(f) \in Nat /\ DOMAIN wire = 1 .. Len(wire) /\ Len(wire) \in Nat
          /\ \A k \in 1 .. Len(f) : forApi(wire[k])
          /\ \A k \in DOMAIN wire : k > Len(f) => forClient(wire[k])
      BY <2>1, CallItems
    <2>3. i \in 1 .. Len(f) \/ i > Len(f)
      BY <2>2
    <2> QED
      BY <1>1, <2>2, <2>3, OneSide
  <1> QED
    BY <1>2, <1>3, <1>4, WireForm

\* The API is called only with a call on the wire.
LEMMA CalledIsCall ==
    ASSUME ExchangeTyped, IInv, WireInv, Course, Pipe, apiCalled
    PROVE  /\ isCall /\ posted /\ wire # <<>> /\ cycles # 0
           /\ state \notin {DrainingRequest, BufferingRequest}
           /\ \E f, g : CallOnWire(f, g)
  <1>1. PICK rest : IsSeq(rest) /\ sent = (apiGot \o clientGot) \o rest
    BY DEF Pipe
  <1>2. apiGot # <<>> /\ apiGot[1].mutation # EmptyMutation
    BY DEF apiCalled
  <1>3. Len(apiGot) \in Nat \ {0} /\ DOMAIN wire = 1 .. Len(wire) /\ Len(wire) \in Nat
        /\ Len(apiGot) <= Len(wire) /\ (\A i \in 1 .. Len(apiGot) : wire[i] = apiGot[i])
    BY <1>1, <1>2, GotParts
  <1>4. wire[1] = apiGot[1] /\ 1 \in DOMAIN wire
    BY <1>3
  <1>5. wire # <<>>
    BY <1>4, EmptySeq
  <1>6. ~RefusalFrame(wire)
    BY <1>2, <1>4, RefusalItems
  <1>7. isCall /\ \E f, g : CallOnWire(f, g)
    BY <1>5, <1>6, WireForm
  <1>8. posted
    BY <1>7 DEF isCall, posted, badMethod
  <1> QED
    BY <1>5, <1>7, <1>8, WireForm

-----------------------------------------------------------------------------
(* The messages in flight.                                                  *)

\* One more message, and the end of the stream, behind those in flight.
LEMMA PushMessage ==
    ASSUME NEW q \in Seq(Messages), NEW x
    PROVE  /\ Append(q, x) # <<>>
           /\ q = <<>>  => Head(Append(q, x)) = x /\ Tail(Append(q, x)) = <<>>
           /\ q # <<>> => /\ Head(Append(q, x)) = Head(q)
                          /\ Tail(Append(q, x)) = Append(Tail(q), x)
                          /\ Head(q) \in Messages /\ Tail(q) \in Seq(Messages)
           /\ x \in Messages => Append(q, x) \in Seq(Messages)
  <1>1. IsSeq(q)
    BY DEF IsSeq
  <1> QED
    BY <1>1, AppendSeq, HeadTailAppend, HeadTailProperties, AppendProperties

\* The points of the cycle are told apart by how much Envoy has sent.
LEMMA Points ==
    /\ BodyParts \in Nat \ {0} /\ Unsent # Ended /\ 0 # Unsent /\ 0 # Ended
    /\ \A n \in 0 .. BodyParts : n # Unsent /\ n # Ended
  <1>1. BodyParts \in Nat \ {0}
    BY HandlerAssumption
  <1> QED
    BY <1>1 DEF Unsent, Ended

\* The processor's variables and the API's side of a step in which Envoy sends.
FeedStill  == UNCHANGED <<vars, client, link, apiReply, relayed>>
RelayStill == UNCHANGED <<vars, client, link, apiReply, fed>>

\* Envoy's first message.
LEMMA FeedHeadersQueue ==
    ASSUME ExchangeTyped, Queue, FeedHeaders
    PROVE  Queue'
  <1> SUFFICES ASSUME rc' = "running" PROVE (\E q : InFlight(q) /\ Ahead(q))'
    BY DEF Queue
  <1>1. /\ link = "open" /\ fed = Unsent /\ toProc' = Append(toProc, requestHeaders)
        /\ fed' = (IF client.hasBody THEN 0 ELSE Ended) /\ FeedStill
    BY DEF FeedHeaders, SendsToProcessor, requestHeaders, FeedStill
  <1>2. rc = "running"
    BY <1>1 DEF FeedStill, vars, machine
  <1>3. PICK q : InFlight(q) /\ Ahead(q)
    BY <1>2 DEF Queue
  <1>4. toProc = q /\ q \in Seq(Messages)
    BY <1>1, <1>3 DEF InFlight
  <1>5. Opening(q) /\ q = <<>>
    BY <1>1, <1>3, Points DEF Ahead, Opening, Uploading, Refusing, Calling, Downloading, Settled
  <1>6. requestHeaders \in Messages
    BY HeadersTyped DEF Messages
  <1>7. PICK p : p = Append(q, requestHeaders)
    OBVIOUS
  <1>8. p \in Seq(Messages) /\ p # <<>> /\ Head(p) = requestHeaders /\ Tail(p) = <<>>
    BY <1>4, <1>5, <1>6, PushMessage, <1>7
  <1>9. toProc' = p
    BY <1>1, <1>4, <1>7
  <1>10. requestHeaders' = requestHeaders /\ cycles' = cycles /\ client' = client
    BY <1>1 DEF FeedStill, vars, history, requestHeaders
  <1>11. client.hasBody  => Slices(Tail(p), requestTypes, client.body, 0, fed')
    BY <1>1, <1>8, SlicesNone
  <1>12. ~client.hasBody => fed' = Ended
    BY <1>1
  <1>13. fed' # Unsent
    BY <1>1, Points
  <1>14. Opening(p)'
    BY <1>5, <1>8, <1>10, <1>11, <1>12, <1>13 DEF Opening
  <1>15. InFlight(p)'
    BY <1>8, <1>9 DEF InFlight
  <1> QED
    BY <1>14, <1>15 DEF Ahead

\* One more slice of the request body, or its trailers.
LEMMA FeedQueue ==
    ASSUME ExchangeTyped, Queue, fed \in 0 .. BodyParts, link = "open", FeedStill,
           NEW m \in Messages, m.type \in requestTypes,
           NEW to \in fed .. BodyParts, payloadOf(m) = SubSeq(Whole(client.body), fed + 1, to),
           fed' \in {to, Ended}, fed' = Ended => to = BodyParts,
           endsBody(m) <=> fed' = Ended,
           toProc' = Append(toProc, m)
    PROVE  Queue'
  <1> SUFFICES ASSUME rc' = "running" PROVE (\E q : InFlight(q) /\ Ahead(q))'
    BY DEF Queue
  <1>1. /\ rc = "running" /\ link' = link
        /\ UNCHANGED <<client, state, cycles, reqBytes>>
    BY DEF FeedStill, vars, machine, history
  <1>2. PICK q : InFlight(q) /\ Ahead(q)
    BY <1>1 DEF Queue
  <1>3. toProc = q /\ q \in Seq(Messages)
    BY <1>2 DEF InFlight
  <1> DEFINE p == Append(q, m)
  <1>4. /\ p \in Seq(Messages) /\ p # <<>>
        /\ q # <<>> => Head(p) = Head(q) /\ Tail(p) = Append(Tail(q), m) /\ Tail(q) \in Seq(Messages)
    BY <1>3, PushMessage
  <1>5. fed # Unsent /\ fed # Ended
    BY Points
  <1>6. to \in 0 .. BodyParts /\ fed' # Unsent
    <2>1. to \in 0 .. BodyParts
      BY Points
    <2> QED
      BY <2>1, Points
  <1>7. ASSUME NEW s \in Seq(Messages), NEW lo, Slices(s, requestTypes, client.body, lo, fed)
        PROVE  Slices(Append(s, m), requestTypes, client.body, lo, fed')
    BY <1>7, SlicesGrow
  <1> HIDE DEF p
  <1>8. InFlight(p)'
    BY <1>3, <1>4 DEF InFlight, p
  <1>9. CASE Opening(q)
    <2>1. client.hasBody /\ q # <<>> /\ Head(q) = requestHeaders /\ cycles = 0
          /\ Slices(Tail(q), requestTypes, client.body, 0, fed)
      BY <1>5, <1>9, HttpFields DEF Opening
    <2>2. Slices(Tail(p), requestTypes, client.body, 0, fed')
      BY <1>4, <1>7, <2>1
    <2>3. requestHeaders' = requestHeaders
      BY <1>1 DEF requestHeaders
    <2>4. Opening(p)'
      BY <1>1, <1>4, <1>6, <2>1, <2>2, <2>3 DEF Opening
    <2> QED
      BY <1>8, <2>4 DEF Ahead
  <1>10. CASE Uploading(q)
    <2>1. PICK lo : /\ reqBytes = SubSeq(Whole(client.body), 1, lo)
                    /\ Slices(q, requestTypes, client.body, lo, fed)
      BY <1>10 DEF Uploading
    <2>2. Slices(p, requestTypes, client.body, lo, fed')
      BY <1>3, <1>7, <2>1 DEF p
    <2>3. state \in {DrainingRequest, BufferingRequest}
      BY <1>10 DEF Uploading
    <2>4. Uploading(p)'
      BY <1>1, <1>6, <2>1, <2>2, <2>3 DEF Uploading
    <2> QED
      BY <1>8, <2>4 DEF Ahead
  <1>11. CASE Refusing(q)
    <2>1. Slices(p, requestTypes, client.body, 0, fed')
      BY <1>3, <1>7, <1>11 DEF Refusing, p
    <2>2. Refusing(p)'
      BY <1>1, <1>6, <1>11, <2>1 DEF Refusing, badMethod
    <2> QED
      BY <1>8, <2>2 DEF Ahead
  <1>12. ~Calling(q) /\ ~Downloading(q) /\ ~Settled(q)
    BY <1>5 DEF Calling, Downloading, Settled
  <1> QED
    BY <1>2, <1>9, <1>10, <1>11, <1>12 DEF Ahead

\* The first message of the response.
LEMMA RelayHeadersQueue ==
    ASSUME ExchangeTyped, IInv, WireInv, Course, Pipe, Queue, RelayHeaders
    PROVE  Queue'
  <1> SUFFICES ASSUME rc' = "running" PROVE (\E q : InFlight(q) /\ Ahead(q))'
    BY DEF Queue
  <1>1. /\ link = "open" /\ relayed = Unsent /\ apiReply # NoReply
        /\ toProc' = Append(toProc, responseHeaders)
        /\ relayed' = (IF apiReply.hasBody THEN 0 ELSE Ended) /\ RelayStill
    BY DEF RelayHeaders, SendsToProcessor, responseHeaders, RelayStill
  <1>2. UNCHANGED <<rc, state, link, apiReply, fed>>
    BY <1>1 DEF RelayStill, vars, machine
  <1>3. PICK q : InFlight(q) /\ Ahead(q)
    BY <1>2 DEF Queue
  <1>4. toProc = q /\ q \in Seq(Messages)
    BY <1>1, <1>3 DEF InFlight
  <1>5. posted /\ cycles # 0 /\ state \notin {DrainingRequest, BufferingRequest}
    BY <1>1, CalledIsCall DEF ExchangeTyped
  <1>6. Calling(q) /\ q = <<>>
    BY <1>1, <1>3, <1>5, Points
       DEF Ahead, Opening, Uploading, Refusing, Calling, Downloading, Settled, posted
  <1>7. responseHeaders \in Messages
    BY <1>1, HeadersTyped DEF Messages
  <1>8. PICK p : p = Append(q, responseHeaders)
    OBVIOUS
  <1>9. p \in Seq(Messages) /\ p # <<>> /\ Head(p) = responseHeaders /\ Tail(p) = <<>>
    BY <1>4, <1>6, <1>7, PushMessage, <1>8
  <1>10. toProc' = p
    BY <1>1, <1>4, <1>8
  <1>11. responseHeaders' = responseHeaders
    BY <1>2 DEF responseHeaders
  <1>12. apiReply.hasBody  => Slices(Tail(p), responseTypes, apiReply.body, 0, relayed')
    BY <1>1, <1>9, SlicesNone
  <1>13. ~apiReply.hasBody => relayed' = Ended
    BY <1>1
  <1>14. relayed' # Unsent
    BY <1>1, Points
  <1>15. Calling(p)'
    BY <1>2, <1>6, <1>9, <1>11, <1>12, <1>13, <1>14 DEF Calling
  <1>16. InFlight(p)'
    BY <1>9, <1>10 DEF InFlight
  <1> QED
    BY <1>15, <1>16 DEF Ahead

\* One more slice of the response body, or its trailers.
LEMMA RelayQueue ==
    ASSUME ExchangeTyped, IInv, WireInv, Course, Pipe, Queue,
           relayed \in 0 .. BodyParts, link = "open", RelayStill,
           NEW m \in Messages, m.type \in responseTypes,
           NEW to \in relayed .. BodyParts,
           payloadOf(m) = SubSeq(Whole(apiReply.body), relayed + 1, to),
           relayed' \in {to, Ended}, relayed' = Ended => to = BodyParts,
           endsBody(m) <=> relayed' = Ended,
           toProc' = Append(toProc, m)
    PROVE  Queue'
  <1> SUFFICES ASSUME rc' = "running" PROVE (\E q : InFlight(q) /\ Ahead(q))'
    BY DEF Queue
  <1>1. UNCHANGED <<rc, state, link, apiReply, fed, respBytes>>
    BY DEF RelayStill, vars, machine, history
  <1>2. PICK q : InFlight(q) /\ Ahead(q)
    BY <1>1 DEF Queue
  <1>3. toProc = q /\ q \in Seq(Messages)
    BY <1>2 DEF InFlight
  <1> DEFINE p == Append(q, m)
  <1>4. /\ p \in Seq(Messages) /\ p # <<>>
        /\ q # <<>> => Head(p) = Head(q) /\ Tail(p) = Append(Tail(q), m) /\ Tail(q) \in Seq(Messages)
    BY <1>3, PushMessage
  <1>5. relayed # Unsent /\ relayed # Ended
    BY Points
  <1>6. to \in 0 .. BodyParts /\ relayed' # Unsent
    <2>1. to \in 0 .. BodyParts
      BY Points
    <2> QED
      BY <2>1, Points
  <1>7. ASSUME NEW s \in Seq(Messages), NEW lo, Slices(s, responseTypes, apiReply.body, lo, relayed)
        PROVE  Slices(Append(s, m), responseTypes, apiReply.body, lo, relayed')
    BY <1>7, SlicesGrow
  <1>8. apiReply # NoReply
    BY <1>5 DEF ExchangeTyped
  <1>9. posted /\ cycles # 0 /\ state \notin {DrainingRequest, BufferingRequest}
    BY <1>8, CalledIsCall DEF ExchangeTyped
  <1> HIDE DEF p
  <1>10. InFlight(p)'
    BY <1>3, <1>4 DEF InFlight, p
  <1>11. CASE Calling(q)
    <2>1. apiReply.hasBody /\ q # <<>> /\ Head(q) = responseHeaders /\ fed = Ended
          /\ state = AwaitingResponseHeaders
          /\ Slices(Tail(q), responseTypes, apiReply.body, 0, relayed)
      BY <1>5, <1>8, <1>11, HttpFields DEF Calling
    <2>2. Slices(Tail(p), responseTypes, apiReply.body, 0, relayed')
      BY <1>4, <1>7, <2>1
    <2>3. responseHeaders' = responseHeaders
      BY <1>1 DEF responseHeaders
    <2>4. Calling(p)'
      BY <1>1, <1>4, <1>6, <2>1, <2>2, <2>3 DEF Calling
    <2> QED
      BY <1>10, <2>4 DEF Ahead
  <1>12. CASE Downloading(q)
    <2>1. PICK lo : /\ respBytes = SubSeq(Whole(apiReply.body), 1, lo)
                    /\ Slices(q, responseTypes, apiReply.body, lo, relayed)
      BY <1>12 DEF Downloading
    <2>2. Slices(p, responseTypes, apiReply.body, lo, relayed')
      BY <1>3, <1>7, <2>1 DEF p
    <2>3. state = BufferingResponse /\ fed = Ended
      BY <1>12 DEF Downloading
    <2>4. Downloading(p)'
      BY <1>1, <1>6, <2>1, <2>2, <2>3 DEF Downloading
    <2> QED
      BY <1>10, <2>4 DEF Ahead
  <1>13. ~Opening(q) /\ ~Uploading(q) /\ ~Refusing(q) /\ ~Settled(q)
    BY <1>5, <1>9 DEF Opening, Uploading, Refusing, Settled, posted
  <1> QED
    BY <1>2, <1>11, <1>12, <1>13 DEF Ahead

\* A step that leaves the messages in flight alone, or closes the stream behind them.
LEMMA QuietQueue ==
    ASSUME ExchangeTyped, Queue,
           UNCHANGED <<rc, state, cycles, reqBytes, respBytes, client, fed, relayed>>,
           apiReply' = apiReply \/ apiReply = NoReply,
           \/ toProc' = toProc /\ (link = "closed" => link' = "closed")
           \/ link = "open" /\ link' = "closed" /\ toProc' = Append(toProc, EndOfFile)
    PROVE  Queue'
  <1> SUFFICES ASSUME rc' = "running" PROVE (\E q : InFlight(q) /\ Ahead(q))'
    BY DEF Queue
  <1>1. rc = "running"
    OBVIOUS
  <1>2. PICK q : InFlight(q) /\ Ahead(q)
    BY <1>1 DEF Queue
  <1>3. InFlight(q)'
    BY <1>2 DEF InFlight
  <1>4. requestHeaders' = requestHeaders /\ (posted' <=> posted)
    BY DEF requestHeaders, posted
  <1>5. relayed # Unsent => apiReply' = apiReply /\ responseHeaders' = responseHeaders
    BY DEF ExchangeTyped, responseHeaders
  <1>6. Ahead(q)'
    <2>1. Opening(q) => Opening(q)'
      BY <1>4 DEF Opening
    <2>2. Uploading(q) => Uploading(q)'
      BY DEF Uploading
    <2>3. Refusing(q) => Refusing(q)'
      BY DEF Refusing
    <2>4. Calling(q) => Calling(q)'
      BY <1>5 DEF Calling
    <2>5. Downloading(q) => Downloading(q)'
      BY <1>5 DEF Downloading
    <2>6. Settled(q) => Settled(q)'
      BY <1>4 DEF Settled
    <2> QED
      BY <1>2, <2>1, <2>2, <2>3, <2>4, <2>5, <2>6 DEF Ahead
  <1> QED
    BY <1>3, <1>6

\* Whatever Envoy sends comes next.
LEMMA SendsKeepQueue ==
    ASSUME ExchangeTyped, IInv, WireInv, Course, Pipe, Queue, EnvoySends
    PROVE  Queue'
  <1>1. CASE FeedHeaders
    BY <1>1, FeedHeadersQueue
  <1>2. CASE FeedBody
    <2>1. fed \in 0 .. BodyParts /\ link = "open" /\ FeedStill
      BY <1>2 DEF FeedBody, SendsToProcessor, FeedStill
    <2>2. PICK to \in fed .. BodyParts, eos \in BOOLEAN :
            /\ eos => to = BodyParts
            /\ toProc' = Append(toProc, RequestBody(SubSeq(Whole(client.body), fed + 1, to), eos))
            /\ fed' = IF eos THEN Ended ELSE to
      BY <1>2 DEF FeedBody, SendsToProcessor
    <2> DEFINE m == RequestBody(SubSeq(Whole(client.body), fed + 1, to), eos)
    <2>3. to \in 0 .. BodyParts
      BY <2>1, Points
    <2>4. m \in Messages /\ m.type = "RequestBody"
          /\ payloadOf(m) = SubSeq(Whole(client.body), fed + 1, to) /\ endsBody(m) = eos
      <3>1. client.body \in RequestBodies \cup UpstreamBodies
        BY HttpFields
      <3> QED
        BY <2>1, <2>3, <3>1, BodyTyped
    <2>5. fed' \in {to, Ended} /\ (fed' = Ended <=> eos)
      BY <2>2, <2>3, Points
    <2> HIDE DEF m
    <2>6. PICK x : x = m
      OBVIOUS
    <2>7. /\ x \in Messages /\ x.type \in requestTypes
          /\ payloadOf(x) = SubSeq(Whole(client.body), fed + 1, to) /\ (endsBody(x) <=> fed' = Ended)
      BY <2>4, <2>5, <2>6 DEF requestTypes
    <2>8. toProc' = Append(toProc, x)
      BY <2>2, <2>6 DEF m
    <2> QED
      BY <2>1, <2>2, <2>5, <2>7, <2>8, FeedQueue
  <1>3. CASE FeedTrailers
    <2>1. fed = BodyParts /\ link = "open" /\ FeedStill /\ fed' = Ended
          /\ toProc' = Append(toProc, RequestTrailers)
      BY <1>3 DEF FeedTrailers, SendsToProcessor, FeedStill
    <2>2. SubSeq(Whole(client.body), fed + 1, BodyParts) = <<>>
      <3>1. BodyParts + 1 > BodyParts
        BY Points
      <3>2. Whole(client.body) \in Seq(Pieces) /\ Len(Whole(client.body)) = BodyParts
        BY Points, HttpFields DEF Whole, Pieces
      <3> QED
        BY <2>1, <3>1, <3>2, Points, SubSeqEmpty
    <2>3. fed \in 0 .. BodyParts /\ BodyParts \in fed .. BodyParts
      BY <2>1, Points
    <2>4. RequestTrailers.type \in requestTypes
      BY TrailersTyped DEF requestTypes
    <2> QED
      BY <2>1, <2>2, <2>3, <2>4, TrailersTyped, FeedQueue
  <1>4. CASE RelayHeaders
    BY <1>4, RelayHeadersQueue
  <1>5. CASE RelayBody
    <2>1. relayed \in 0 .. BodyParts /\ link = "open" /\ RelayStill
      BY <1>5 DEF RelayBody, SendsToProcessor, RelayStill
    <2>2. PICK to \in relayed .. BodyParts, eos \in BOOLEAN :
            /\ eos => to = BodyParts
            /\ toProc' = Append(toProc, ResponseBody(SubSeq(Whole(apiReply.body), relayed + 1, to), eos))
            /\ relayed' = IF eos THEN Ended ELSE to
      BY <1>5 DEF RelayBody, SendsToProcessor
    <2> DEFINE m == ResponseBody(SubSeq(Whole(apiReply.body), relayed + 1, to), eos)
    <2>3. to \in 0 .. BodyParts /\ apiReply # NoReply
      BY <2>1, Points DEF ExchangeTyped
    <2>4. m \in Messages /\ m.type = "ResponseBody"
          /\ payloadOf(m) = SubSeq(Whole(apiReply.body), relayed + 1, to) /\ endsBody(m) = eos
      <3>1. apiReply.body \in RequestBodies \cup UpstreamBodies
        BY <2>3, HttpFields
      <3> QED
        BY <2>1, <2>3, <3>1, BodyTyped
    <2>5. relayed' \in {to, Ended} /\ (relayed' = Ended <=> eos)
      BY <2>2, <2>3, Points
    <2> HIDE DEF m
    <2>6. PICK x : x = m
      OBVIOUS
    <2>7. /\ x \in Messages /\ x.type \in responseTypes
          /\ payloadOf(x) = SubSeq(Whole(apiReply.body), relayed + 1, to)
          /\ (endsBody(x) <=> relayed' = Ended)
      BY <2>4, <2>5, <2>6 DEF responseTypes
    <2>8. toProc' = Append(toProc, x)
      BY <2>2, <2>6 DEF m
    <2> QED
      BY <2>1, <2>2, <2>5, <2>7, <2>8, RelayQueue
  <1>6. CASE RelayTrailers
    <2>1. relayed = BodyParts /\ link = "open" /\ RelayStill /\ relayed' = Ended
          /\ toProc' = Append(toProc, ResponseTrailers)
      BY <1>6 DEF RelayTrailers, SendsToProcessor, RelayStill
    <2>2. SubSeq(Whole(apiReply.body), relayed + 1, BodyParts) = <<>>
      <3>1. BodyParts + 1 > BodyParts
        BY Points
      <3>2. Whole(apiReply.body) \in Seq(Pieces) /\ Len(Whole(apiReply.body)) = BodyParts
        <4>1. apiReply.body \in UpstreamBodies
          BY <2>1, Points, HttpFields DEF ExchangeTyped
        <4> QED
          BY <4>1, Points DEF Whole, Pieces
      <3> QED
        BY <2>1, <3>1, <3>2, Points, SubSeqEmpty
    <2>3. relayed \in 0 .. BodyParts /\ BodyParts \in relayed .. BodyParts
      BY <2>1, Points
    <2>4. ResponseTrailers.type \in responseTypes
      BY TrailersTyped DEF responseTypes
    <2> QED
      BY <2>1, <2>2, <2>3, <2>4, TrailersTyped, RelayQueue
  <1> QED
    BY <1>1, <1>2, <1>3, <1>4, <1>5, <1>6 DEF EnvoySends

\* What handling a message may do to the status and to the replies sent.
LEMMA HandleStatus ==
    ASSUME NEW m, Handle(m)
    PROVE  /\ rc = "running" /\ reps = <<>>
           /\ ~ProtocolViolation(m) => rc' = rc
           /\ sent' = sent \/ (sent' = <<>> /\ state = AwaitingRequestHeaders /\ m.type = "RequestHeaders")
  <1>1. CASE ProtocolViolation(m)
    BY <1>1 DEF ProtocolViolation, history
  <1>2. CASE MethodNotAllowed(m) \/ Forbidden(m) \/ MissingBody(m) \/ StartDraining(m)
               \/ StartBufferingRequest(m)
    BY <1>2 DEF MethodNotAllowed, Forbidden, MissingBody, StartDraining, StartBufferingRequest,
                RefuseAtHeaders, Opens, Receives
  <1>3. CASE DiscardRequestBody(m) \/ RejectDrained(m) \/ AppendRequestBody(m) \/ FinalizeRequest(m)
    BY <1>3 DEF DiscardRequestBody, RejectDrained, AppendRequestBody, FinalizeRequest,
                ReceivesRequestBody, Receives
  <1>4. CASE StartBufferingResponse(m) \/ ReplaceEmptyResponse(m)
    BY <1>4 DEF StartBufferingResponse, ReplaceEmptyResponse, ReceivesToolResponse, Receives
  <1>5. CASE AppendResponseBody(m) \/ FinalizeResponse(m)
    BY <1>5 DEF AppendResponseBody, FinalizeResponse, ReceivesResponseBody, Receives
  <1> QED
    BY <1>1, <1>2, <1>3, <1>4, <1>5 DEF Handle

\* What kind of request it is depends on the client alone.
LEMMA KindKept == client' = client => requestKind' = requestKind /\ (isCall' <=> isCall)
  <1> SUFFICES ASSUME client' = client PROVE requestKind' = requestKind /\ (isCall' <=> isCall)
    OBVIOUS
  <1>1. isCall' <=> isCall
    BY DEF isCall
  <1> QED
    BY <1>1 DEF requestKind

\* A message of the exchange, taken by the processor.
LEMMA MessageHandled ==
    ASSUME ExchangeTyped, IInv, WireInv, Course, Pipe, EnvoyStill,
           NEW q \in Seq(Messages), q # <<>>, Ahead(q), Handle(Head(q))
    PROVE  /\ Course' /\ sent' = sent
           /\ \/ rc' = "running" /\ Ahead(Tail(q))'
              \/ rc' = "FailedPrecondition" /\ ViolationInv'
  <1> DEFINE m == Head(q)
  <1>1. /\ rc = "running" /\ reps = <<>> /\ (~ProtocolViolation(m) => rc' = rc)
        /\ sent' = sent \/ (sent' = <<>> /\ state = AwaitingRequestHeaders /\ m.type = "RequestHeaders")
    BY HandleStatus
  <1>2. m \in Messages
    BY HeadTailProperties
  <1>3. ProtocolViolation(m) =>
          rc' = "FailedPrecondition" /\ reps' = reps /\ wire' = wire /\ sent' = sent
    BY DEF ProtocolViolation, history, wire
  <1>4. client' = client /\ apiReply' = apiReply
    BY DEF EnvoyStill
  <1> HIDE DEF m
  <1>5. CASE Opening(q)
    <2>1. sent = <<>>
      BY <1>5 DEF Opening, Course, Unused
    <2>2. sent' = sent
      BY <1>1, <2>1
    <2>3. Course' /\ Ahead(Tail(q))' /\ ~ProtocolViolation(m)
      BY <1>5, OpeningSteps DEF m
    <2> QED
      BY <1>1, <2>2, <2>3
  <1>6. CASE Uploading(q)
    <2>1. state \in {DrainingRequest, BufferingRequest}
      BY <1>6 DEF Uploading
    <2>2. relayed = Unsent
      BY <2>1, CalledIsCall DEF ExchangeTyped
    <2>3. Course' /\ Ahead(Tail(q))' /\ ~ProtocolViolation(m)
      BY <1>6, <2>2, UploadingSteps DEF m
    <2> QED
      BY <1>1, <2>1, <2>3, StatesDiffer
  <1>7. CASE Refusing(q)
    <2>1. Course' /\ ProtocolViolation(m)
      BY <1>7, RefusingSteps DEF m
    <2>2. /\ state = AwaitingRequestHeaders /\ cycles # 0 /\ badMethod(client) /\ client.hasBody
          /\ ~posted
      BY <1>7 DEF Refusing, posted
    <2>3. RefusalFrame(wire)
      BY <2>2 DEF Course, RefusedCycle, AnsweredCycle
    <2>4. badMethod(client)' /\ client.hasBody' /\ RefusalFrame(wire)'
      BY <1>3, <1>4, <2>1, <2>2, <2>3
    <2>5. ViolationInv'
      BY <1>1, <1>3, <2>1, <2>4 DEF ViolationInv
    <2> QED
      BY <1>3, <2>1, <2>5
  <1>8. CASE Calling(q)
    <2>1. state = AwaitingResponseHeaders /\ relayed # Unsent /\ apiReply # NoReply
      BY <1>8 DEF Calling, ExchangeTyped
    <2>2. isCall
      BY <2>1, CalledIsCall DEF ExchangeTyped
    <2>3. posted /\ reqBytes = Whole(client.body) /\ opened = requestHeaders
      BY <2>1 DEF Course
    <2>4. callOf(opened, reqBytes).Reroute # NoReroute
      BY <2>2, <2>3, CallIsClients
    <2>5. /\ Course'
          /\ ~ProtocolViolation(m) => Ahead(Tail(q))'
          /\ ProtocolViolation(m) => KnownViolation
      BY <1>8, <2>4, CallingSteps DEF m
    <2>6. sent' = sent
      BY <1>1, <2>1, StatesDiffer
    <2>7. ASSUME ProtocolViolation(m) PROVE ViolationInv'
      <3>1. requestKind = "notification" /\ apiReply # NoReply
        BY <2>3, <2>5, <2>7 DEF KnownViolation, posted
      <3>2. (requestKind = "notification" /\ apiReply # NoReply)'
        BY <1>4, <3>1, KindKept
      <3> QED
        BY <1>1, <1>3, <2>7, <3>2 DEF ViolationInv
    <2> QED
      BY <1>1, <1>3, <2>5, <2>6, <2>7
  <1>9. CASE Downloading(q)
    <2>1. state = BufferingResponse
      BY <1>9 DEF Downloading
    <2>2. Course' /\ Ahead(Tail(q))' /\ ~ProtocolViolation(m)
      BY <1>9, DownloadingSteps DEF m
    <2> QED
      BY <1>1, <2>1, <2>2, StatesDiffer
  <1>10. ~Settled(q)
    BY DEF Settled
  <1> QED
    BY <1>5, <1>6, <1>7, <1>8, <1>9, <1>10 DEF Ahead

-----------------------------------------------------------------------------
(* Every step keeps the invariant.                                          *)

\* Steps that send and apply no reply, and do not end Process.
LEMMA QuietReplies ==
    ASSUME Pipe, Sorted, Closing, ViolationInv,
           UNCHANGED <<vars, toEnvoy, apiGot, clientGot, client>>,
           link' = "open" => link = "open" /\ outcome' = outcome,
           outcome' = outcome \/ (outcome = "pending" /\ outcome' \in {"gone", "failed"}),
           apiReply' = apiReply \/ apiReply = NoReply
    PROVE  Pipe' /\ Sorted' /\ Closing' /\ ViolationInv'
  <1>1. UNCHANGED <<rc, reps, sent, wire>>
    BY DEF vars, machine, history, wire
  <1>2. Pipe'
    <2>1. PICK rest :
            /\ IsSeq(rest) /\ sent = (apiGot \o clientGot) \o rest
            /\ link = "open" => toEnvoy = IF rc = "running" THEN rest ELSE Append(rest, StreamEnd)
      BY DEF Pipe
    <2>2. /\ sent' = (apiGot' \o clientGot') \o rest
          /\ link' = "open" => toEnvoy' = IF rc' = "running" THEN rest ELSE Append(rest, StreamEnd)
      BY <1>1, <2>1
    <2> QED
      BY <2>1, <2>2 DEF Pipe
  <1>3. Sorted'
    BY DEF Sorted
  <1>4. Closing'
    BY <1>1 DEF Closing
  <1>5. ViolationInv'
    <2>1. requestKind' = requestKind
      BY KindKept
    <2>2. RefusalFrame(wire) => RefusalFrame(wire)'
      BY <1>1
    <2>3. badMethod(client) => badMethod(client)'
      OBVIOUS
    <2> QED
      BY <1>1, <2>1, <2>2, <2>3 DEF ViolationInv
  <1> QED
    BY <1>2, <1>3, <1>4, <1>5

\* Envoy sends.
LEMMA SendsKeep ==
    ASSUME XInv, EnvoySends
    PROVE  Course' /\ Queue' /\ Pipe' /\ Sorted' /\ Closing' /\ ViolationInv'
  <1>1. UNCHANGED <<vars, client, toEnvoy, link, apiGot, apiReply, clientGot, outcome>>
    BY DEF EnvoySends, FeedHeaders, FeedBody, FeedTrailers, RelayHeaders, RelayBody, RelayTrailers
  <1>2. UNCHANGED <<client, state, opened, reqBytes, upstream, respBytes, cycles>>
          /\ wire' = wire /\ (Unused => Unused')
    BY <1>1 DEF vars, machine, history, wire, Unused
  <1>3. Course'
    BY <1>1, <1>2, QuietCourse DEF XInv
  <1>4. Queue'
    BY SendsKeepQueue DEF XInv
  <1> QED
    BY <1>1, <1>3, <1>4, QuietReplies DEF XInv

\* The API answers; the client leaves; the connection is lost, and Envoy sees it.
LEMMA OthersKeep ==
    ASSUME XInv, ApiResponds \/ ClientLeaves \/ ConnectionLost \/ EnvoySeesLoss \/ UNCHANGED exchange
    PROVE  Course' /\ Queue' /\ Pipe' /\ Sorted' /\ Closing' /\ ViolationInv'
  <1>1. /\ UNCHANGED <<vars, client, fed, toProc, toEnvoy, apiGot, relayed, clientGot>>
        /\ apiReply' = apiReply \/ apiReply = NoReply
        /\ outcome' = outcome \/ (outcome = "pending" /\ outcome' \in {"gone", "failed"})
        /\ link' = "open" => link = "open" /\ outcome' = outcome
        /\ link = "closed" => link' = "closed"
    BY DEF ApiResponds, ClientLeaves, ConnectionLost, EnvoySeesLoss, exchange, envoy
  <1>2. UNCHANGED <<rc, client, state, opened, reqBytes, upstream, respBytes, cycles>>
          /\ wire' = wire /\ (Unused => Unused')
    BY <1>1 DEF vars, machine, history, wire, Unused
  <1>3. Course'
    BY <1>1, <1>2, QuietCourse DEF XInv
  <1>4. Queue'
    BY <1>1, <1>2, QuietQueue DEF XInv
  <1> QED
    BY <1>1, <1>3, <1>4, QuietReplies DEF XInv

\* Process ends without a step of the state machine, once Envoy is done with the
\* stream.
LEMMA ReturnKeeps ==
    ASSUME XInv, link # "open", rc' \in {"nil", "Unknown"}, StatusFollows,
           UNCHANGED <<state, mcpHeaders, request, buf, reps, history>>,
           UNCHANGED <<client, fed, link, apiGot, apiReply, relayed, clientGot, outcome>>
    PROVE  Course' /\ Queue' /\ Pipe' /\ Sorted' /\ Closing' /\ ViolationInv'
  <1>1. UNCHANGED <<client, state, opened, reqBytes, upstream, respBytes, cycles>>
          /\ wire' = wire /\ (Unused => Unused') /\ sent' = sent
    BY DEF history, wire, Unused
  <1>2. Course'
    BY <1>1, QuietCourse DEF XInv
  <1>3. Queue' /\ ViolationInv'
    BY DEF Queue, ViolationInv
  <1>4. Pipe'
    BY <1>1 DEF XInv, Pipe
  <1>5. Sorted' /\ Closing'
    BY DEF XInv, Sorted, Closing
  <1> QED
    BY <1>2, <1>3, <1>4, <1>5

\* The processor takes a message.
LEMMA MessageKeeps ==
    ASSUME XInv, ProcessMessage
    PROVE  Course' /\ Queue' /\ Pipe' /\ Sorted' /\ Closing' /\ ViolationInv'
  <1>1. /\ toProc # <<>> /\ toProc' = Tail(toProc) /\ StatusFollows
        /\ UNCHANGED <<client, fed, link, apiGot, apiReply, relayed, clientGot, outcome>>
    BY DEF ProcessMessage
  <1>2. rc = "running"
    BY HandleStatus DEF ProcessMessage, RecvEnds
  <1>3. PICK q : InFlight(q) /\ Ahead(q)
    BY <1>2 DEF XInv, Queue
  <1>4. q \in Seq(Messages)
    BY <1>3 DEF InFlight
  <1>5. CASE Head(toProc) = EndOfFile
    <2>1. RecvEnds
      BY <1>5 DEF ProcessMessage
    <2>2. link # "open"
      <3>1. SUFFICES ASSUME toProc = q PROVE FALSE
        BY <1>3 DEF InFlight
      <3>2. Head(toProc) \in Messages
        BY <1>1, <1>4, <3>1, HeadTailProperties
      <3> QED
        BY <1>5, <3>2, MessageTypes
    <2> QED
      BY <1>1, <2>1, <2>2, ReturnKeeps DEF RecvEnds, Returns
  <1>6. CASE Head(toProc) # EndOfFile
    <2>1. Handle(Head(toProc))
      BY <1>6 DEF ProcessMessage
    <2>2. /\ q # <<>> /\ Head(toProc) = Head(q) /\ Tail(q) \in Seq(Messages)
          /\ toProc' = Tail(q) \/ (link = "closed" /\ toProc' = Append(Tail(q), EndOfFile))
      <3>1. CASE toProc = q
        BY <1>1, <1>4, <3>1, HeadTailProperties
      <3>2. CASE link = "closed" /\ toProc = Append(q, EndOfFile)
        <4>1. q # <<>>
          BY <1>4, <1>6, <3>2, PushMessage
        <4> QED
          BY <1>1, <1>4, <3>2, <4>1, PushMessage
      <3> QED
        BY <1>3, <3>1, <3>2 DEF InFlight
    <2>3. EnvoyStill
      BY <1>1 DEF EnvoyStill
    <2>4. /\ Course' /\ sent' = sent
          /\ \/ rc' = "running" /\ Ahead(Tail(q))'
             \/ rc' = "FailedPrecondition" /\ ViolationInv'
      BY <1>3, <1>4, <2>1, <2>2, <2>3, MessageHandled DEF XInv
    <2>5. Queue'
      <3>1. InFlight(Tail(q))'
        BY <1>1, <2>2 DEF InFlight
      <3> QED
        BY <2>4, <3>1 DEF Queue
    <2>6. Pipe'
      <3>1. PICK rest :
              /\ IsSeq(rest) /\ sent = (apiGot \o clientGot) \o rest
              /\ link = "open" => toEnvoy = IF rc = "running" THEN rest ELSE Append(rest, StreamEnd)
        BY DEF XInv, Pipe
      <3>2. link' = "open" => toEnvoy' = IF rc' = "running" THEN rest ELSE Append(rest, StreamEnd)
        BY <1>1, <1>2, <3>1 DEF StatusFollows
      <3>3. sent' = (apiGot' \o clientGot') \o rest
        BY <1>1, <2>4, <3>1
      <3> QED
        BY <3>1, <3>2, <3>3 DEF Pipe
    <2>7. Sorted'
      BY <1>1 DEF XInv, Sorted
    <2>8. Closing'
      BY <1>1, <2>4 DEF XInv, Closing
    <2>9. ViolationInv'
      BY <2>4 DEF ViolationInv
    <2> QED
      BY <2>4, <2>5, <2>6, <2>7, <2>8, <2>9
  <1> QED
    BY <1>5, <1>6

\* The processor sends a reply.
LEMMA ReplyKeeps ==
    ASSUME XInv, ProcessSend
    PROVE  Course' /\ Queue' /\ Pipe' /\ Sorted' /\ Closing' /\ ViolationInv'
  <1>1. /\ Send /\ toEnvoy' = Append(toEnvoy, Head(reps))
        /\ UNCHANGED <<client, fed, toProc, link, apiGot, apiReply, relayed, clientGot, outcome>>
    BY DEF ProcessSend
  <1>2. /\ rc = "running" /\ reps # <<>> /\ rc' = rc /\ sent' = Append(sent, Head(reps))
        /\ UNCHANGED <<state, opened, reqBytes, upstream, respBytes, cycles>>
    BY <1>1 DEF Send
  <1>3. wire' = wire
    BY <1>1, SentStaysOnWire DEF XInv, WireInv
  <1>4. Course'
    BY <1>1, <1>2, <1>3, QuietCourse DEF XInv, Unused
  <1>5. Queue'
    BY <1>1, <1>2, QuietQueue DEF XInv
  <1>6. Pipe'
    <2>1. PICK rest :
            /\ IsSeq(rest) /\ sent = (apiGot \o clientGot) \o rest
            /\ link = "open" => toEnvoy = IF rc = "running" THEN rest ELSE Append(rest, StreamEnd)
      BY DEF XInv, Pipe
    <2>2. PICK x : x = Head(reps)
      OBVIOUS
    <2>3. IsSeq(apiGot) /\ IsSeq(clientGot)
      BY DEF XInv, ExchangeTyped
    <2>4. Append((apiGot \o clientGot) \o rest, x) = (apiGot \o clientGot) \o Append(rest, x)
      <3>1. IsSeq(rest)
        BY <2>1
      <3> QED
        BY <2>3, <3>1, PartsMove
    <2>5. IsSeq(Append(rest, x))
      BY <2>1, AppendSeq
    <2>6. sent' = (apiGot' \o clientGot') \o Append(rest, x)
      BY <1>1, <1>2, <2>1, <2>2, <2>4
    <2>7. link' = "open" => toEnvoy' = Append(rest, x) /\ rc' = "running"
      BY <1>1, <1>2, <2>1, <2>2
    <2>8. PICK more : more = Append(rest, x)
      OBVIOUS
    <2> QED
      BY <2>5, <2>6, <2>7, <2>8 DEF Pipe
  <1>7. Sorted' /\ Closing'
    BY <1>1, <1>2 DEF XInv, Sorted, Closing
  <1>8. ViolationInv'
    BY <1>2 DEF ViolationInv
  <1> QED
    BY <1>4, <1>5, <1>6, <1>7, <1>8

\* What Envoy does with a reply depends on which side it is for.
LEMMA ReplySides ==
    ASSUME NEW r
    PROVE  /\ ApplyRequestReply(r) => forApi(r)
           /\ ApplyResponseReply(r) => forClient(r)
           /\ ApplyStreamEnd(r) => r = StreamEnd
           /\ forApi(StreamEnd) = FALSE /\ forClient(StreamEnd) = FALSE
  <1>1. StreamEnd.type = "status"
    BY DEF StreamEnd
  <1> QED
    BY <1>1 DEF ApplyRequestReply, ApplyResponseReply, ApplyStreamEnd, forApi, forClient, wireTypes

\* The next thing Envoy takes: a reply on the wire, or the end of the stream.
LEMMA NextReply ==
    ASSUME XInv, EnvoyReceives,
           NEW rest, IsSeq(rest), sent = (apiGot \o clientGot) \o rest,
           toEnvoy = IF rc = "running" THEN rest ELSE Append(rest, StreamEnd)
    PROVE  \/ /\ rest # <<>> /\ Head(toEnvoy) = Head(rest)
              /\ Tail(toEnvoy) = IF rc = "running" THEN Tail(rest) ELSE Append(Tail(rest), StreamEnd)
              /\ Len(apiGot) + Len(clientGot) + 1 \in DOMAIN wire
              /\ Head(rest) = wire[Len(apiGot) + Len(clientGot) + 1]
              /\ Head(rest) # StreamEnd
           \/ rest = <<>> /\ rc # "running" /\ Head(toEnvoy) = StreamEnd
  <1>1. PICK S : rest \in Seq(S)
    BY DEF IsSeq
  <1>2. toEnvoy # <<>>
    BY DEF EnvoyReceives
  <1>3. CASE rest = <<>>
    <2>1. rc # "running" /\ toEnvoy = Append(rest, StreamEnd)
      BY <1>2, <1>3
    <2> QED
      BY <1>1, <1>3, <2>1, HeadTailAppend
  <1>4. CASE rest # <<>>
    <2>1. /\ Head(toEnvoy) = Head(rest)
          /\ Tail(toEnvoy) = IF rc = "running" THEN Tail(rest) ELSE Append(Tail(rest), StreamEnd)
      BY <1>1, <1>4, HeadTailAppend
    <2>2. /\ DOMAIN wire = 1 .. Len(wire) /\ Len(wire) \in Nat
          /\ Len(apiGot) \in Nat /\ Len(clientGot) \in Nat /\ Len(rest) \in Nat /\ Len(rest) # 0
          /\ Len(apiGot) + Len(clientGot) + Len(rest) <= Len(wire)
          /\ wire[Len(apiGot) + Len(clientGot) + 1] = Head(rest)
      BY <1>4, GotParts DEF XInv
    <2>3. Len(apiGot) + Len(clientGot) + 1 \in DOMAIN wire
      BY <2>2
    <2>4. Head(rest) # StreamEnd
      BY <2>2, <2>3, WireIsReplies DEF XInv
    <2> QED
      BY <1>4, <2>1, <2>2, <2>3, <2>4
  <1> QED
    BY <1>3, <1>4

\* Envoy applies a reply.
LEMMA ReceivesKeep ==
    ASSUME XInv, EnvoyReceives
    PROVE  Course' /\ Queue' /\ Pipe' /\ Sorted' /\ Closing' /\ ViolationInv'
  <1> DEFINE r == Head(toEnvoy)
  <1>1. /\ link = "open" /\ toEnvoy' = Tail(toEnvoy)
        /\ UNCHANGED <<vars, client, fed, apiReply, relayed>>
        /\ ApplyRequestReply(r) \/ ApplyResponseReply(r) \/ ApplyStreamEnd(r)
    BY DEF EnvoyReceives, ApplyRequestReply, ApplyResponseReply, ApplyStreamEnd, TakesReply
  <1>2. outcome = "pending" /\ rc \in {"running", "FailedPrecondition"}
    BY <1>1 DEF XInv, Closing
  <1>3. UNCHANGED <<rc, client, state, opened, reqBytes, upstream, respBytes, cycles, sent, reps>>
          /\ wire' = wire /\ (Unused => Unused')
    BY <1>1 DEF vars, machine, history, wire, Unused
  <1>4. Course'
    BY <1>1, <1>3, QuietCourse DEF XInv
  <1>5. toProc' = toProc \/ (link' = "closed" /\ toProc' = Append(toProc, EndOfFile))
    BY <1>1 DEF ApplyRequestReply, ApplyResponseReply, ApplyStreamEnd
  <1>6. Queue'
    BY <1>1, <1>3, <1>5, QuietQueue DEF XInv
  <1>7. ViolationInv'
    <2>1. requestKind' = requestKind
      BY <1>1, KindKept
    <2> QED
      BY <1>1, <1>3, <2>1 DEF XInv, ViolationInv
  <1>8. PICK rest :
          /\ IsSeq(rest) /\ sent = (apiGot \o clientGot) \o rest
          /\ toEnvoy = IF rc = "running" THEN rest ELSE Append(rest, StreamEnd)
    BY <1>1 DEF XInv, Pipe
  <1>9. \/ /\ rest # <<>> /\ r = Head(rest)
           /\ Tail(toEnvoy) = IF rc = "running" THEN Tail(rest) ELSE Append(Tail(rest), StreamEnd)
           /\ Len(apiGot) + Len(clientGot) + 1 \in DOMAIN wire
           /\ r = wire[Len(apiGot) + Len(clientGot) + 1]
           /\ r # StreamEnd
        \/ rest = <<>> /\ rc # "running" /\ r = StreamEnd
    BY <1>8, NextReply
  <1>10. IsSeq(apiGot) /\ IsSeq(clientGot)
    BY DEF XInv, ExchangeTyped
  <1>11. PICK x : x = r
    OBVIOUS
  <1>12. PICK t : t = Tail(rest)
    OBVIOUS
  <1> HIDE DEF r
  <1>13. CASE ApplyRequestReply(r)
    <2>1. forApi(x) /\ x # StreamEnd
      BY <1>11, <1>13, ReplySides
    <2>2. rest # <<>> /\ x = Head(rest) /\ IsSeq(t)
      BY <1>8, <1>9, <1>11, <1>12, <2>1, TailSeq
    <2>3. UNCHANGED <<link, clientGot, outcome>> /\ apiGot' = Append(apiGot, x)
      BY <1>11, <1>13 DEF ApplyRequestReply
    <2>4. clientGot = <<>>
      <3>1. SUFFICES ASSUME clientGot # <<>> PROVE FALSE
        OBVIOUS
      <3>2. /\ DOMAIN wire = 1 .. Len(wire) /\ Len(wire) \in Nat
            /\ Len(apiGot) \in Nat /\ Len(clientGot) \in Nat \ {0}
            /\ DOMAIN clientGot = 1 .. Len(clientGot)
            /\ \A i \in 1 .. Len(clientGot) : wire[Len(apiGot) + i] = clientGot[i]
        BY <1>8, <3>1, GotParts DEF XInv
      <3>3. PICK i : i = Len(apiGot) + 1
        OBVIOUS
      <3>4. PICK j : j = Len(apiGot) + Len(clientGot) + 1
        OBVIOUS
      <3>5. 1 \in 1 .. Len(clientGot) /\ j \in DOMAIN wire /\ wire[j] = x
        BY <1>9, <1>11, <2>1, <3>2, <3>4
      <3>6. wire[i] = clientGot[1] /\ forClient(clientGot[1])
        BY <3>2, <3>3, <3>5 DEF XInv, Sorted
      <3>7. i \in DOMAIN wire /\ i < j
        BY <3>2, <3>3, <3>4, <3>5
      <3> QED
        BY <2>1, <3>5, <3>6, <3>7, OrderOnWire DEF XInv
    <2>5. (apiGot \o clientGot) \o rest = (Append(apiGot, x) \o clientGot) \o t
      BY <1>8, <1>10, <1>12, <2>2, <2>4, PartsMove
    <2>6. sent' = (apiGot' \o clientGot') \o t
      BY <1>3, <1>8, <2>3, <2>5
    <2>7. toEnvoy' = IF rc' = "running" THEN t ELSE Append(t, StreamEnd)
      BY <1>1, <1>3, <1>9, <1>11, <1>12, <2>1
    <2>8. Pipe'
      BY <2>2, <2>6, <2>7 DEF Pipe
    <2>9. Sorted'
      <3>1. /\ DOMAIN apiGot' = 1 .. Len(apiGot) + 1 /\ Len(apiGot) \in Nat
            /\ DOMAIN apiGot = 1 .. Len(apiGot)
            /\ \A i \in 1 .. Len(apiGot) : apiGot'[i] = apiGot[i]
            /\ apiGot'[Len(apiGot) + 1] = x
        BY <1>10, <2>3, AppendSeq
      <3>2. ASSUME NEW i \in DOMAIN apiGot' PROVE forApi(apiGot'[i])
        <4>1. CASE i = Len(apiGot) + 1
          BY <2>1, <3>1, <4>1
        <4>2. CASE i # Len(apiGot) + 1
          <5>1. i \in 1 .. Len(apiGot)
            BY <3>1, <4>2
          <5> QED
            BY <3>1, <5>1 DEF XInv, Sorted
        <4> QED
          BY <4>1, <4>2
      <3> QED
        BY <2>3, <3>2 DEF XInv, Sorted
    <2>10. Closing'
      BY <1>3, <2>3 DEF XInv, Closing
    <2> QED
      BY <1>4, <1>6, <1>7, <2>8, <2>9, <2>10
  <1>14. CASE ApplyResponseReply(r)
    <2>1. forClient(x) /\ x # StreamEnd
      BY <1>11, <1>14, ReplySides
    <2>2. rest # <<>> /\ x = Head(rest) /\ IsSeq(t)
      BY <1>8, <1>9, <1>11, <1>12, <2>1, TailSeq
    <2>3. /\ apiGot' = apiGot /\ clientGot' = Append(clientGot, x)
          /\ IF ends(x)
             THEN outcome' = (IF x.type = "immediate" THEN "refused" ELSE "answered") /\ link' = "closed"
             ELSE outcome' = outcome /\ link' = link
      BY <1>11, <1>14 DEF ApplyResponseReply, ends
    <2>4. (apiGot \o clientGot) \o rest = (apiGot \o Append(clientGot, x)) \o t
      BY <1>8, <1>10, <1>12, <2>2, PartsMove
    <2>5. sent' = (apiGot' \o clientGot') \o t
      BY <1>3, <1>8, <2>3, <2>4
    <2>6. toEnvoy' = IF rc' = "running" THEN t ELSE Append(t, StreamEnd)
      BY <1>1, <1>3, <1>9, <1>11, <1>12, <2>1
    <2>7. Pipe'
      BY <2>2, <2>5, <2>6 DEF Pipe
    <2>8. /\ DOMAIN clientGot' = 1 .. Len(clientGot) + 1 /\ Len(clientGot) \in Nat
          /\ DOMAIN clientGot = 1 .. Len(clientGot) /\ Len(clientGot') = Len(clientGot) + 1
          /\ \A i \in 1 .. Len(clientGot) : clientGot'[i] = clientGot[i]
          /\ clientGot'[Len(clientGot) + 1] = x /\ clientGot' # <<>>
      BY <1>10, <2>3, AppendSeq
    <2>9. ASSUME NEW i \in DOMAIN clientGot'
          PROVE  /\ forClient(clientGot'[i])
                 /\ ends(clientGot'[i]) => i = Len(clientGot') /\ outcome' \in {"refused", "answered"}
      <3>1. CASE i = Len(clientGot) + 1
        BY <2>1, <2>3, <2>8, <3>1
      <3>2. CASE i # Len(clientGot) + 1
        <4>1. i \in 1 .. Len(clientGot)
          BY <2>8, <3>2
        <4>2. forClient(clientGot[i]) /\ ~ends(clientGot[i])
          BY <1>2, <2>8, <4>1 DEF XInv, Sorted, Closing
        <4> QED
          BY <2>8, <4>1, <4>2
      <3> QED
        BY <3>1, <3>2
    <2>10. Sorted'
      BY <2>3, <2>9 DEF XInv, Sorted
    <2>11. outcome' \in {"refused", "answered"} => ends(x)
      BY <1>2, <2>3
    <2>12. /\ outcome' = "answered" => isTerminator(x) /\ x.type # "immediate"
           /\ outcome' = "refused" => x.type = "immediate"
           /\ link' = "open" => outcome' = "pending" /\ rc' \in {"running", "FailedPrecondition"}
      BY <1>2, <1>3, <2>3, <2>11 DEF ends
    <2>13. Closing'
      BY <2>8, <2>9, <2>12 DEF Closing
    <2> QED
      BY <1>4, <1>6, <1>7, <2>7, <2>10, <2>13
  <1>15. CASE ApplyStreamEnd(r)
    <2>1. UNCHANGED <<apiGot, clientGot>> /\ outcome' = "failed" /\ link' = "closed"
      BY <1>15 DEF ApplyStreamEnd
    <2>2. Pipe'
      BY <1>3, <1>8, <2>1 DEF Pipe
    <2>3. Sorted'
      BY <2>1 DEF XInv, Sorted
    <2>4. Closing'
      BY <1>2, <2>1 DEF XInv, Closing
    <2> QED
      BY <1>4, <1>6, <1>7, <2>2, <2>3, <2>4
  <1> QED
    BY <1>1, <1>13, <1>14, <1>15

\* The first state.
LEMMA InitXInv == ExchangeInit => XInv
  <1> SUFFICES ASSUME ExchangeInit PROVE XInv
    OBVIOUS
  <1>1. Init /\ fed = Unsent /\ toProc = <<>> /\ toEnvoy = <<>> /\ apiGot = <<>> /\ clientGot = <<>>
        /\ link = "open" /\ outcome = "pending"
    BY DEF ExchangeInit
  <1>2. ExchangeTyped /\ IInv /\ WireInv
    BY <1>1, InitTyped, InitIInv, InitWire
  <1>3. /\ state = AwaitingRequestHeaders /\ sent = <<>> /\ reps = <<>> /\ cycles = 0
        /\ rc = "running"
    BY <1>1 DEF Init
  <1>4. Course
    BY <1>3, StatesDiffer DEF Course, Unused
  <1>5. Queue
    <2>1. PICK q : q = toProc
      OBVIOUS
    <2>2. q \in Seq(Messages)
      BY <1>1, <2>1, EmptySeq
    <2>3. InFlight(q) /\ Opening(q)
      BY <1>1, <1>3, <2>1, <2>2 DEF InFlight, Opening
    <2> QED
      BY <2>3 DEF Queue, Ahead
  <1>6. Pipe
    <2>1. IsSeq(<<>>) /\ (<<>> \o <<>>) \o <<>> = <<>>
      BY EmptySeq, EmptyParts DEF IsSeq
    <2> QED
      BY <1>1, <1>3, <2>1 DEF Pipe
  <1>7. Sorted /\ Closing /\ ViolationInv
    <2>1. DOMAIN apiGot = {} /\ DOMAIN clientGot = {}
      BY <1>1, EmptySeq
    <2> QED
      BY <1>1, <1>3, <2>1 DEF Sorted, Closing, ViolationInv
  <1> QED
    BY <1>2, <1>4, <1>5, <1>6, <1>7 DEF XInv

\* Every step.
LEMMA NextXInv == XInv /\ [ExchangeNext]_exchange => XInv'
  <1> SUFFICES ASSUME XInv, [ExchangeNext]_exchange PROVE XInv'
    OBVIOUS
  <1>1. ExchangeTyped'
    BY NextTyped DEF XInv
  <1>2. [Next]_vars
    BY StreamSteps DEF XInv
  <1>3. IInv' /\ WireInv'
    BY <1>2, NextIInv, NextWire DEF XInv
  <1>4. Course' /\ Queue' /\ Pipe' /\ Sorted' /\ Closing' /\ ViolationInv'
    <2>1. CASE ProcessMessage
      BY <2>1, MessageKeeps
    <2>2. CASE ProcessSend
      BY <2>2, ReplyKeeps
    <2>3. CASE ProcessSeesReset
      <3>1. link # "open"
        BY <2>3 DEF ProcessSeesReset
      <3>2. /\ rc' \in {"nil", "Unknown"} /\ StatusFollows
            /\ UNCHANGED <<state, mcpHeaders, request, buf, reps, history>>
            /\ UNCHANGED <<client, fed, link, apiGot, apiReply, relayed, clientGot, outcome>>
        BY <2>3 DEF ProcessSeesReset, RecvEnds, RecvFails, SendFails, Returns
      <3> QED
        BY <3>1, <3>2, ReturnKeeps
    <2>4. CASE EnvoySends
      BY <2>4, SendsKeep
    <2>5. CASE EnvoyReceives
      BY <2>5, ReceivesKeep
    <2>6. CASE ApiResponds \/ ClientLeaves \/ ConnectionLost \/ EnvoySeesLoss \/ UNCHANGED exchange
      BY <2>6, OthersKeep
    <2> QED
      BY <2>1, <2>2, <2>3, <2>4, <2>5, <2>6 DEF ExchangeNext, Processor
  <1> QED
    BY <1>1, <1>3, <1>4 DEF XInv

\* What the parts of the system rely on in each other holds throughout.
THEOREM ExchangeInvariance == ExchangeSpec => []XInv
  BY InitXInv, NextXInv, PTL DEF ExchangeSpec

-----------------------------------------------------------------------------
(* What the API and the client have.                                        *)

\* ViolationsAreKnown holds of every exchange: under a peer that follows the ext_proc
\* protocol, stream_state.go reports a violation only for the body behind a refused
\* method and for the response to a call that was a notification.
THEOREM OnlyKnownViolations == ExchangeSpec => []ViolationsAreKnown
  <1>1. XInv => ViolationsAreKnown
    BY DEF XInv, ViolationInv, ViolationsAreKnown
  <1> QED
    BY <1>1, ExchangeInvariance, PTL

\* What Envoy sent to the API is the beginning of the call.
LEMMA ApiHasCall ==
    ASSUME XInv, NEW f, NEW g, CallOnWire(f, g)
    PROVE  /\ Len(apiGot) \in Nat /\ DOMAIN apiGot = 1 .. Len(apiGot) /\ Len(apiGot) <= Len(f)
           /\ \A i \in 1 .. Len(apiGot) : i \in DOMAIN f /\ apiGot[i] = f[i]
  <1>1. PICK rest : IsSeq(rest) /\ sent = (apiGot \o clientGot) \o rest
    BY DEF XInv, Pipe
  <1>2. /\ DOMAIN wire = 1 .. Len(wire) /\ Len(wire) \in Nat
        /\ Len(apiGot) \in Nat /\ DOMAIN apiGot = 1 .. Len(apiGot)
        /\ \A i \in 1 .. Len(apiGot) : wire[i] = apiGot[i]
    BY <1>1, GotParts DEF XInv
  <1>3. Len(apiGot) <= Len(wire)
    <2>1. Len(apiGot) + Len(clientGot) + Len(rest) <= Len(wire) /\ Len(clientGot) \in Nat /\ Len(rest) \in Nat
      BY <1>1, GotParts DEF XInv
    <2> QED
      BY <1>2, <2>1
  <1>4. /\ Len(f) \in Nat /\ DOMAIN f = 1 .. Len(f)
        /\ \A i \in 1 .. Len(f) : wire[i] = f[i]
        /\ \A i \in DOMAIN wire : i > Len(f) => ~forApi(wire[i])
    BY CallItems
  <1>5. Len(apiGot) <= Len(f)
    <2>1. SUFFICES ASSUME Len(apiGot) > Len(f) PROVE FALSE
      BY <1>2, <1>4
    <2>2. PICK n : n = Len(apiGot)
      OBVIOUS
    <2>3. n \in 1 .. Len(apiGot) /\ n \in DOMAIN wire /\ n > Len(f)
      BY <1>2, <1>3, <1>4, <2>1, <2>2
    <2>4. forApi(wire[n])
      BY <1>2, <2>3 DEF XInv, Sorted
    <2> QED
      BY <1>4, <2>3, <2>4
  <1>6. ASSUME NEW i \in 1 .. Len(apiGot) PROVE i \in DOMAIN f /\ apiGot[i] = f[i]
    <2>1. i \in 1 .. Len(f)
      BY <1>2, <1>4, <1>5
    <2> QED
      BY <1>2, <1>4, <2>1
  <1> QED
    BY <1>2, <1>5, <1>6

\* What is a beginning of chunks that follow one another are such chunks too.
LEMMA BeginningInSlices ==
    ASSUME NEW w, NEW f, Len(w) \in Nat, Chained(f),
           \A i \in 1 .. Len(w) : i \in DOMAIN f /\ w[i] = f[i]
    PROVE  inSlices(w)
  <1> SUFFICES ASSUME NEW i \in 2 .. Len(w), w[i].type = "body"
               PROVE  /\ w[i].lo = (IF i = 2 THEN 0 ELSE w[i - 1].hi)
                      /\ w[i].body = w[2].body /\ w[i].length = w[2].length
    BY DEF inSlices
  <1>1. i \in 1 .. Len(w) /\ i - 1 \in 1 .. Len(w) /\ 2 \in 1 .. Len(w)
    OBVIOUS
  <1>2. i \in DOMAIN f /\ w[i] = f[i] /\ w[i - 1] = f[i - 1] /\ w[2] = f[2]
    BY <1>1
  <1> QED
    BY <1>2 DEF Chained

\* Who has all of a body that was sent to its end has its end.
LEMMA AllReachesEnd ==
    ASSUME NEW w, NEW f, Len(w) \in Nat, DOMAIN f = 1 .. Len(w), Complete(f),
           f[1].type = "headers", \A i \in DOMAIN f : w[i] = f[i]
    PROVE  reachesEnd(w)
  <1>1. PICK last \in DOMAIN f :
           /\ f[last].type = "body"
           /\ \A i \in DOMAIN f : f[i].type = "body" => i <= last /\ f[i].length = f[last].hi
    BY DEF Complete
  <1>2. last \in 2 .. Len(w) /\ w[last] = f[last] /\ w[last].hi = w[last].length
    <2>1. last # 1
      BY <1>1
    <2> QED
      BY <1>1, <2>1
  <1>3. ASSUME NEW j \in last + 1 .. Len(w) PROVE w[j].type # "body"
    <2>1. j \in DOMAIN f /\ ~(j <= last)
      BY <1>2
    <2> QED
      BY <1>1, <2>1
  <1> QED
    BY <1>1, <1>2, <1>3 DEF reachesEnd

\* ApiGetsWholeCall holds of every exchange: the API sees the rewritten call of this
\* client, in slices that follow one another, and when its request has ended it has
\* all of the body that frame cut.
THEOREM ApiHasWholeCall == ExchangeSpec => []ApiGetsWholeCall
  <1>1. ASSUME XInv, apiCalled
        PROVE  /\ isCall
               /\ inSlices(apiGot)
               /\ \A i \in 2 .. Len(apiGot) : apiGot[i].type = "body" =>
                     apiGot[i].body = Endpoint(client.body.params.name, client.body.params)
               /\ \A i \in DOMAIN apiGot : isTerminator(apiGot[i]) => i = Len(apiGot)
               /\ apiRequestEnded => reachesEnd(apiGot)
    <2>1. isCall
      BY <1>1, CalledIsCall DEF XInv
    <2>2. PICK f, g : CallOnWire(f, g)
      BY <1>1, CalledIsCall DEF XInv
    <2>3. /\ Len(apiGot) \in Nat /\ DOMAIN apiGot = 1 .. Len(apiGot) /\ Len(apiGot) <= Len(f)
          /\ \A i \in 1 .. Len(apiGot) : i \in DOMAIN f /\ apiGot[i] = f[i]
      BY <1>1, <2>2, ApiHasCall
    <2>4. /\ Len(f) \in Nat /\ DOMAIN f = 1 .. Len(f) /\ 1 \in DOMAIN f
          /\ isDirection(f, "request") /\ Chained(f) /\ Complete(f)
          /\ \A i \in DOMAIN f : f[i].type = "body" =>
                f[i].body = Endpoint(client.body.params.name, client.body.params)
      BY <2>2 DEF CallOnWire, SendsCall
    <2>5. ASSUME NEW i \in 2 .. Len(apiGot), apiGot[i].type = "body"
          PROVE  apiGot[i].body = Endpoint(client.body.params.name, client.body.params)
      <3>1. i \in 1 .. Len(apiGot)
        BY <2>3
      <3> QED
        BY <2>3, <2>4, <2>5, <3>1
    <2>6. ASSUME NEW i \in DOMAIN apiGot, isTerminator(apiGot[i])
          PROVE  i = Len(apiGot) /\ Len(apiGot) = Len(f)
      <3>1. i \in DOMAIN f /\ isTerminator(f[i]) /\ i \in 1 .. Len(apiGot)
        BY <2>3, <2>6
      <3>2. i = Len(f)
        BY <2>4, <3>1 DEF isDirection
      <3>3. Len(apiGot) \in Nat /\ Len(f) \in Nat /\ Len(apiGot) <= Len(f)
        BY <2>3, <2>4
      <3> QED
        BY <3>1, <3>2, <3>3
    <2>7. inSlices(apiGot)
      BY <2>3, <2>4, BeginningInSlices
    <2>8. ASSUME apiRequestEnded PROVE reachesEnd(apiGot)
      <3>1. Len(apiGot) \in DOMAIN apiGot
        <4>1. IsSeq(apiGot) /\ apiGot # <<>>
          BY <1>1, <2>8 DEF XInv, ExchangeTyped, apiRequestEnded
        <4>2. Len(apiGot) # 0
          BY <4>1, EmptySeq DEF IsSeq
        <4> QED
          BY <2>3, <4>2
      <3>2. Len(apiGot) = Len(f)
        BY <2>6, <2>8, <3>1 DEF apiRequestEnded
      <3>3. f[1].type = "headers"
        BY <2>4 DEF isDirection
      <3> QED
        BY <2>3, <2>4, <3>2, <3>3, AllReachesEnd
    <2> QED
      BY <2>1, <2>5, <2>6, <2>7, <2>8
  <1>2. XInv => ApiGetsWholeCall
    BY <1>1 DEF ApiGetsWholeCall
  <1> QED
    BY <1>2, ExchangeInvariance, PTL

\* When the client's response has ended, it is the whole answer to its call.
LEMMA ClientHasAnswer ==
    ASSUME XInv, outcome = "answered"
    PROVE  \E f, g : /\ CallOnWire(f, g) /\ g # <<>>
                     /\ Len(clientGot) = Len(g) /\ Len(g) \in Nat \ {0}
                     /\ DOMAIN clientGot = DOMAIN g /\ DOMAIN g = 1 .. Len(g)
                     /\ \A i \in DOMAIN g : clientGot[i] = g[i]
  <1>1. PICK rest : IsSeq(rest) /\ sent = (apiGot \o clientGot) \o rest
    BY DEF XInv, Pipe
  <1>2. /\ clientGot # <<>> /\ isTerminator(clientGot[Len(clientGot)])
        /\ clientGot[Len(clientGot)].type # "immediate"
    BY DEF XInv, Closing
  <1>3. /\ DOMAIN wire = 1 .. Len(wire) /\ Len(wire) \in Nat
        /\ Len(apiGot) \in Nat /\ Len(clientGot) \in Nat /\ Len(rest) \in Nat
        /\ DOMAIN clientGot = 1 .. Len(clientGot)
        /\ Len(apiGot) + Len(clientGot) + Len(rest) <= Len(wire)
        /\ \A i \in 1 .. Len(clientGot) : wire[Len(apiGot) + i] = clientGot[i]
        /\ Len(clientGot) # 0
    BY <1>1, <1>2, GotParts DEF XInv
  <1> DEFINE n == Len(clientGot)
             at == Len(apiGot)
  <1>4. 1 \in 1 .. n /\ n \in 1 .. n /\ at + n \in DOMAIN wire /\ at + 1 \in DOMAIN wire
    BY <1>3
  <1>5. wire[at + n] = clientGot[n] /\ wire[at + 1] = clientGot[1]
    BY <1>3, <1>4
  <1>6. forClient(wire[at + 1]) /\ forClient(wire[at + n])
    BY <1>3, <1>4, <1>5 DEF XInv, Sorted
  <1>7. PICK f, g : CallOnWire(f, g)
    <2>1. wire # <<>>
      BY <1>4, EmptySeq
    <2>2. ~RefusalFrame(wire)
      <3>1. SUFFICES ASSUME RefusalFrame(wire) PROVE FALSE
        OBVIOUS
      <3>2. /\ DOMAIN wire = 1 .. 2 /\ ~forClient(wire[1]) /\ wire[2].type = "immediate"
        BY <3>1, RefusalItems
      <3>3. at + n = 1 \/ at + n = 2
        BY <1>4, <3>2
      <3> QED
        BY <1>2, <1>5, <1>6, <3>2, <3>3
    <2> QED
      BY <2>1, <2>2, WireForm DEF XInv
  <1>8. /\ Len(f) \in Nat /\ Len(f) <= Len(wire)
        /\ \A i \in 1 .. Len(f) : forApi(wire[i])
        /\ \A i \in DOMAIN wire : i > Len(f) => i - Len(f) \in DOMAIN g /\ wire[i] = g[i - Len(f)] /\ g # <<>>
        /\ g # <<>> => DOMAIN g = 1 .. Len(g) /\ Len(g) \in Nat \ {0} /\ Len(wire) = Len(f) + Len(g)
    BY <1>7, CallItems
  <1>9. at = Len(f)
    <2>1. at + 1 \notin 1 .. Len(f)
      BY <1>6, <1>8, OneSide
    <2>2. at <= Len(f)
      BY <1>7, ApiHasCall
    <2>3. at \in Nat /\ Len(f) \in Nat
      BY <1>3, <1>8
    <2> HIDE DEF at
    <2> QED
      BY <2>1, <2>2, <2>3
  <1>10. at \in Nat /\ n \in Nat \ {0} /\ at + n \in DOMAIN wire /\ DOMAIN wire = 1 .. Len(wire)
         /\ Len(wire) \in Nat
    BY <1>3, <1>4
  <1>11. g # <<>>
    <2>1. at + n \in DOMAIN wire /\ at + n > Len(f)
      <3> HIDE DEF at, n
      <3> QED
        BY <1>9, <1>10
    <2> QED
      BY <1>8, <2>1
  <1> HIDE DEF n
  <1>12. ASSUME NEW i \in 1 .. n PROVE i \in DOMAIN g /\ clientGot[i] = g[i]
    <2>1. at + i \in DOMAIN wire /\ at + i > Len(f) /\ (at + i) - Len(f) = i
      <3> HIDE DEF at
      <3> QED
        BY <1>9, <1>10
    <2>2. wire[at + i] = clientGot[i]
      BY <1>3 DEF n
    <2> QED
      BY <1>8, <2>1, <2>2
  <1>13. n = Len(g)
    <2>1. n \in DOMAIN g /\ clientGot[n] = g[n]
      BY <1>4, <1>12
    <2>2. isTerminator(g[n])
      BY <1>2, <2>1 DEF n
    <2>3. isDirection(g, "response")
      BY <1>7, <1>11 DEF CallOnWire, SendsAnswer
    <2> QED
      BY <2>1, <2>2, <2>3 DEF isDirection
  <1>14. DOMAIN clientGot = DOMAIN g /\ DOMAIN g = 1 .. Len(g) /\ Len(g) \in Nat \ {0}
    BY <1>3, <1>8, <1>11, <1>13 DEF n
  <1>15. \A i \in DOMAIN g : clientGot[i] = g[i]
    BY <1>12, <1>13, <1>14
  <1> QED
    BY <1>7, <1>11, <1>13, <1>14, <1>15 DEF n

\* ClientGetsItsAnswer holds of every exchange: what the client gets is one complete
\* response, to the last byte of the translated body, with its own id, the bytes and
\* the status of its own API call.
THEOREM ClientHasItsAnswer == ExchangeSpec => []ClientGetsItsAnswer
  <1> DEFINE content == IF apiReply.hasBody THEN BodyText(Whole(apiReply.body))
                        ELSE EmptyText(IF apiReply.status < 0 THEN 0 ELSE apiReply.status)
             bodies == {clientGot[i].body : i \in {j \in DOMAIN clientGot : clientGot[j].type = "body"}}
                         \cup ({clientGot[1].replace} \ {NoBody})
  <1>1. ASSUME XInv, outcome = "answered"
        PROVE  /\ \A i \in DOMAIN clientGot : isTerminator(clientGot[i]) <=> i = Len(clientGot)
               /\ clientGot[1].type = "headers"
               /\ inSlices(clientGot)
               /\ clientGot[1].replace = NoBody => reachesEnd(clientGot)
               /\ \A b \in bodies : /\ b.id = client.body.id
                                    /\ b.envelope.result.content = content
                                    /\ b.envelope.result.isError = (apiReply.status \notin 1 .. 399)
    <2>1. PICK f, g : /\ CallOnWire(f, g) /\ g # <<>>
                      /\ Len(clientGot) = Len(g) /\ Len(g) \in Nat \ {0}
                      /\ DOMAIN clientGot = DOMAIN g /\ DOMAIN g = 1 .. Len(g)
                      /\ \A i \in DOMAIN g : clientGot[i] = g[i]
      BY <1>1, ClientHasAnswer
    <2>2. isDirection(g, "response") /\ SendsAnswer(g, answerNow) /\ OwnsAnswer /\ AnsweredCycle
      BY <2>1 DEF CallOnWire, SendsAnswer
    <2>3. 1 \in DOMAIN g
      BY <2>1
    <2>4. \A i \in DOMAIN clientGot : isTerminator(clientGot[i]) <=> i = Len(clientGot)
      BY <2>1, <2>2 DEF isDirection
    <2>5. clientGot[1].type = "headers"
      BY <2>1, <2>2, <2>3 DEF isDirection
    <2>14. inSlices(clientGot)
      BY <2>1, <2>2, BeginningInSlices DEF SendsAnswer
    <2>15. clientGot[1].replace = NoBody => reachesEnd(clientGot)
      BY <2>1, <2>2, <2>3, <2>5, AllReachesEnd DEF SendsAnswer
    <2>6. ASSUME NEW b \in bodies PROVE b = answerNow
      <3>1. CASE b \in {clientGot[i].body : i \in {j \in DOMAIN clientGot : clientGot[j].type = "body"}}
        BY <2>1, <2>2, <3>1 DEF SendsAnswer
      <3>2. CASE b = clientGot[1].replace /\ b # NoBody
        BY <2>1, <2>2, <2>3, <2>5, <3>2 DEF SendsAnswer
      <3> QED
        BY <3>1, <3>2
    <2>7. IsCall(client.body, opened, reqBytes)
      <3>1. wire # <<>> /\ \E x, y : CallOnWire(x, y)
        BY <2>1, CallItems
      <3>2. ~RefusalFrame(wire)
        BY <2>1, CallItems, RefusalItems
      <3> QED
        BY <1>1, <3>1, <3>2, WireForm DEF XInv
    <2>8. /\ upstream \in StatusMessages /\ isToolCall(contextOf(opened, reqBytes, upstream))
          /\ apiReply # NoReply /\ upstream = responseHeaders
          /\ apiReply.hasBody => respBytes = Whole(apiReply.body)
      BY <2>2 DEF OwnsAnswer, AnsweredCycle
    <2>9. /\ answerNow.id = client.body.id
          /\ answerNow.envelope.result.content = textOf(opened, reqBytes, upstream, respBytes)
          /\ answerNow.envelope.result.isError = (upstream.status \notin 1 .. 399)
      BY <2>7, <2>8, AnswerFields DEF answerNow
    <2>10. upstream.status = apiReply.status /\ upstream.eos = ~apiReply.hasBody
      BY <2>8 DEF responseHeaders, ResponseHeaders
    <2>11. textOf(opened, reqBytes, upstream, respBytes) =
             IF upstream.eos THEN EmptyText(IF upstream.status < 0 THEN 0 ELSE upstream.status)
             ELSE BodyText(respBytes)
      BY <2>8, TextSays
    <2>12. apiReply.hasBody \in BOOLEAN
      BY <1>1, <2>8, HttpFields DEF XInv
    <2>13. textOf(opened, reqBytes, upstream, respBytes) = content
      BY <2>8, <2>10, <2>11, <2>12
    <2> QED
      BY <2>4, <2>5, <2>6, <2>9, <2>10, <2>13, <2>14, <2>15
  <1>2. XInv => ClientGetsItsAnswer
    BY <1>1 DEF ClientGetsItsAnswer
  <1> QED
    BY <1>2, ExchangeInvariance, PTL

-----------------------------------------------------------------------------
(* The gateway's promise.                                                   *)

\* An answered request was a call, and the API got it.
LEMMA AnsweredWasCall == XInv /\ outcome = "answered" => requestKind = "call" /\ apiCalled
  <1> SUFFICES ASSUME XInv, outcome = "answered" PROVE requestKind = "call" /\ apiCalled
    OBVIOUS
  <1>1. PICK f, g : CallOnWire(f, g) /\ g # <<>>
    BY ClientHasAnswer
  <1>2. OwnsAnswer /\ AnsweredCycle
    BY <1>1 DEF CallOnWire
  <1>3. wire # <<>> /\ wire[1].mutation # EmptyMutation
    BY <1>1, CallItems
  <1>4. isCall /\ IsCall(client.body, opened, reqBytes)
    BY <1>3, RefusalItems, WireForm DEF XInv
  <1>5. requestKind = "call"
    <2>1. contextOf(opened, reqBytes, upstream).id = client.body.id
      BY <1>4 DEF contextOf, IsCall
    <2>2. client.body.id # NoId
      BY <1>2, <2>1 DEF OwnsAnswer, isToolCall
    <2> QED
      BY <1>4, <2>2 DEF requestKind
  <1>6. apiCalled
    <2>1. apiReply # NoReply
      BY <1>2 DEF AnsweredCycle
    <2> QED
      BY <2>1 DEF XInv, ExchangeTyped
  <1> QED
    BY <1>5, <1>6

\* A refused request was no call.
LEMMA RefusedWasNone == XInv /\ outcome = "refused" => requestKind = "other"
  <1> SUFFICES ASSUME XInv, outcome = "refused" PROVE requestKind = "other"
    OBVIOUS
  <1>1. PICK rest : IsSeq(rest) /\ sent = (apiGot \o clientGot) \o rest
    BY DEF XInv, Pipe
  <1>2. clientGot # <<>> /\ clientGot[Len(clientGot)].type = "immediate"
    BY DEF XInv, Closing
  <1>3. PICK n : n = Len(apiGot) + Len(clientGot)
    OBVIOUS
  <1>4. n \in DOMAIN wire /\ wire[n] = clientGot[Len(clientGot)]
    <2>1. /\ DOMAIN wire = 1 .. Len(wire) /\ Len(wire) \in Nat
          /\ Len(apiGot) \in Nat /\ Len(clientGot) \in Nat /\ Len(rest) \in Nat
          /\ Len(apiGot) + Len(clientGot) + Len(rest) <= Len(wire)
          /\ \A i \in 1 .. Len(clientGot) : wire[Len(apiGot) + i] = clientGot[i]
          /\ Len(clientGot) # 0
      BY <1>1, <1>2, GotParts DEF XInv
    <2> QED
      BY <1>3, <2>1
  <1>5. wire # <<>> /\ wire[n].type = "immediate"
    BY <1>2, <1>4, EmptySeq
  <1>6. ASSUME NEW f, NEW g, CallOnWire(f, g) PROVE FALSE
    <2>1. /\ Len(f) \in Nat /\ DOMAIN wire = 1 .. Len(wire) /\ Len(wire) \in Nat
          /\ \A i \in 1 .. Len(f) : forApi(wire[i])
          /\ \A i \in DOMAIN wire : i > Len(f) => wire[i].type # "immediate"
      BY <1>6, CallItems
    <2>2. n \in 1 .. Len(f) \/ n > Len(f)
      BY <1>4, <2>1
    <2> QED
      BY <1>4, <1>5, <2>1, <2>2, OneSide
  <1>7. ~isCall
    BY <1>5, <1>6, WireForm DEF XInv
  <1> QED
    BY <1>7 DEF requestKind

\* The API gets a call, or a notification of one.
LEMMA CalledWasCall == XInv /\ apiCalled => requestKind # "other"
  BY CalledIsCall DEF XInv, requestKind

\* The stream ends under Envoy only after a notification went to the API.
LEMMA EndedWasNotification ==
    XInv /\ EnvoyReceives /\ Head(toEnvoy) = StreamEnd => requestKind = "notification" /\ apiCalled
  <1> SUFFICES ASSUME XInv, EnvoyReceives, Head(toEnvoy) = StreamEnd
               PROVE  requestKind = "notification" /\ apiCalled
    OBVIOUS
  <1>1. link = "open"
    BY DEF EnvoyReceives, ApplyRequestReply, ApplyResponseReply, ApplyStreamEnd, TakesReply
  <1>2. PICK rest :
          /\ IsSeq(rest) /\ sent = (apiGot \o clientGot) \o rest
          /\ toEnvoy = IF rc = "running" THEN rest ELSE Append(rest, StreamEnd)
    BY <1>1 DEF XInv, Pipe
  <1>3. rest = <<>> /\ rc # "running"
    BY <1>2, NextReply
  <1>4. outcome = "pending" /\ rc = "FailedPrecondition"
    BY <1>1, <1>3 DEF XInv, Closing
  <1>5. reps = <<>>
    BY <1>4 DEF XInv, ViolationInv
  <1>6. CASE requestKind = "notification" /\ apiReply # NoReply
    BY <1>6 DEF XInv, ExchangeTyped
  <1>7. CASE RefusalFrame(wire)
    <2>1. IsSeq(apiGot) /\ IsSeq(clientGot)
      BY DEF XInv, ExchangeTyped
    <2>2. PICK A : apiGot \in Seq(A)
      BY <2>1 DEF IsSeq
    <2>3. PICK B : clientGot \in Seq(B)
      BY <2>1 DEF IsSeq
    <2> DEFINE S == A \cup B
    <2>4. apiGot \in Seq(S) /\ clientGot \in Seq(S)
      BY <2>2, <2>3, SeqMonotonic
    <2> HIDE DEF S
    <2>5. apiGot \o clientGot \in Seq(S) /\ Len(apiGot \o clientGot) = Len(apiGot) + Len(clientGot)
      BY <2>4, ConcatProperties
    <2>6. wire = apiGot \o clientGot
      <3>1. (apiGot \o clientGot) \o <<>> = apiGot \o clientGot
        BY <2>5, ConcatEmptySeq
      <3> QED
        BY <1>2, <1>3, <1>5, <3>1 DEF wire
    <2>7. /\ DOMAIN wire = 1 .. Len(wire) /\ Len(apiGot) \in Nat /\ Len(clientGot) \in Nat
          /\ Len(wire) \in Nat /\ DOMAIN apiGot = 1 .. Len(apiGot)
          /\ DOMAIN clientGot = 1 .. Len(clientGot)
          /\ \A i \in 1 .. Len(apiGot) : wire[i] = apiGot[i]
          /\ \A i \in 1 .. Len(clientGot) : wire[Len(apiGot) + i] = clientGot[i]
      BY <1>2, GotParts DEF XInv
    <2>8. /\ DOMAIN wire = 1 .. 2 /\ ~forApi(wire[2]) /\ wire[2].type = "immediate"
      BY <1>7, RefusalItems
    <2>9. Len(apiGot) + Len(clientGot) = 2
      <3>1. Len(wire) = Len(apiGot) + Len(clientGot)
        BY <2>5, <2>6
      <3> QED
        BY <2>7, <2>8, <3>1
    <2>10. 2 \notin 1 .. Len(apiGot)
      BY <2>7, <2>8 DEF XInv, Sorted
    <2>11. PICK i : i = 2 - Len(apiGot)
      OBVIOUS
    <2>12. i \in 1 .. Len(clientGot) /\ Len(apiGot) + i = 2
      BY <2>7, <2>9, <2>10, <2>11
    <2>13. clientGot[i].type = "immediate" /\ i \in DOMAIN clientGot
      BY <2>7, <2>8, <2>12
    <2>14. outcome \in {"refused", "answered"}
      BY <2>13 DEF XInv, Closing, ends
    <2> QED
      BY <1>4, <2>14
  <1> QED
    BY <1>4, <1>6, <1>7 DEF XInv, ViolationInv

\* What only Envoy's replies, the client and the connection change.
LEMMA PromiseStutters ==
    ASSUME UNCHANGED <<client, apiGot, link, outcome>>
    PROVE  UNCHANGED Promise!gatewayVars
  <1>1. requestKind' = requestKind
    BY KindKept
  <1>2. apiCalled' <=> apiCalled
    BY DEF apiCalled
  <1> QED
    BY <1>1, <1>2 DEF Promise!gatewayVars

\* One step of the exchange is one of the gateway, or none.
LEMMA NextPromise ==
    ASSUME XInv, XInv', [ExchangeNext]_exchange
    PROVE  [Promise!Next]_Promise!gatewayVars
  <1>1. CASE EnvoySends \/ Processor \/ ApiResponds \/ UNCHANGED exchange
    <2>1. UNCHANGED <<client, apiGot, link, outcome>>
      BY <1>1 DEF EnvoySends, FeedHeaders, FeedBody, FeedTrailers, RelayHeaders, RelayBody,
                  RelayTrailers, Processor, ProcessMessage, ProcessSend, ProcessSeesReset,
                  ApiResponds, exchange, envoy
    <2> QED
      BY <2>1, PromiseStutters
  <1>2. CASE EnvoyReceives
    <2> DEFINE r == Head(toEnvoy)
    <2>1. ApplyRequestReply(r) \/ ApplyResponseReply(r) \/ ApplyStreamEnd(r)
      BY <1>2 DEF EnvoyReceives, ApplyRequestReply, ApplyResponseReply, ApplyStreamEnd, TakesReply
    <2>2. link = "open" /\ client' = client
      BY <1>2 DEF EnvoyReceives, ApplyRequestReply, ApplyResponseReply, ApplyStreamEnd, TakesReply
    <2>3. outcome = "pending" /\ requestKind' = requestKind
      BY <2>2, KindKept DEF XInv, Closing
    <2>4. CASE ApplyRequestReply(r)
      <3>1. UNCHANGED <<link, outcome>> /\ apiGot' = Append(apiGot, r)
        BY <2>4 DEF ApplyRequestReply
      <3>2. apiCalled => apiCalled'
        <4>1. IsSeq(apiGot)
          BY DEF XInv, ExchangeTyped
        <4>2. PICK x : x = r
          OBVIOUS
        <4>3. apiGot # <<>> => Append(apiGot, x) # <<>> /\ Append(apiGot, x)[1] = apiGot[1]
          BY <4>1, AppendSeq
        <4> QED
          BY <3>1, <4>2, <4>3 DEF apiCalled
      <3>3. CASE apiCalled' /\ ~apiCalled
        <4>1. (XInv /\ apiCalled => requestKind # "other")'
          BY CalledWasCall, PTL
        <4>2. requestKind # "other"
          BY <2>3, <3>3, <4>1
        <4>3. Promise!CallApi
          BY <2>2, <2>3, <3>1, <3>3, <4>2 DEF Promise!CallApi
        <4> QED
          BY <4>3 DEF Promise!Next, Promise!Resolve
      <3>4. CASE apiCalled' <=> apiCalled
        BY <2>3, <3>1, <3>4 DEF Promise!gatewayVars
      <3> QED
        BY <3>2, <3>3, <3>4
    <2>5. CASE ApplyResponseReply(r)
      <3>1. apiGot' = apiGot
        BY <2>5 DEF ApplyResponseReply
      <3>2. apiCalled' <=> apiCalled
        BY <3>1 DEF apiCalled
      <3>3. \/ UNCHANGED <<outcome, link>>
            \/ outcome' \in {"refused", "answered"} /\ link' = "closed"
        BY <2>5 DEF ApplyResponseReply
      <3>4. CASE UNCHANGED <<outcome, link>>
        BY <2>2, <3>1, <3>4, PromiseStutters
      <3>5. CASE outcome' = "refused" /\ link' = "closed"
        <4>1. (XInv /\ outcome = "refused" => requestKind = "other")'
          BY RefusedWasNone, PTL
        <4>2. Promise!Refuse
          BY <2>2, <2>3, <3>2, <3>5, <4>1 DEF Promise!Refuse
        <4> QED
          BY <4>2 DEF Promise!Next, Promise!Resolve
      <3>6. CASE outcome' = "answered" /\ link' = "closed"
        <4>1. (XInv /\ outcome = "answered" => requestKind = "call" /\ apiCalled)'
          BY AnsweredWasCall, PTL
        <4>2. Promise!Answer
          BY <2>2, <2>3, <3>2, <3>6, <4>1 DEF Promise!Answer
        <4> QED
          BY <4>2 DEF Promise!Next, Promise!Resolve
      <3> QED
        BY <3>3, <3>4, <3>5, <3>6
    <2>6. CASE ApplyStreamEnd(r)
      <3>1. UNCHANGED apiGot /\ outcome' = "failed" /\ link' = "closed" /\ r = StreamEnd
        BY <2>6 DEF ApplyStreamEnd
      <3>2. requestKind = "notification" /\ apiCalled
        BY <1>2, <3>1, EndedWasNotification
      <3>3. apiCalled'
        BY <3>1, <3>2 DEF apiCalled
      <3>4. Promise!Fail
        BY <2>2, <2>3, <3>1, <3>2, <3>3 DEF Promise!Fail
      <3> QED
        BY <3>4 DEF Promise!Next, Promise!Resolve
    <2> QED
      BY <2>1, <2>4, <2>5, <2>6
  <1>3. CASE ClientLeaves \/ ConnectionLost \/ EnvoySeesLoss
    <2>1. UNCHANGED <<client, apiGot>>
      BY <1>3 DEF ClientLeaves, ConnectionLost, EnvoySeesLoss
    <2>2. requestKind' = requestKind /\ (apiCalled' <=> apiCalled)
      BY <2>1, KindKept DEF apiCalled
    <2>3. CASE ClientLeaves
      <3>1. Promise!Leave
        BY <2>2, <2>3 DEF ClientLeaves, Promise!Leave
      <3> QED
        BY <3>1 DEF Promise!Next
    <2>4. CASE ConnectionLost
      <3>1. Promise!LoseConnection
        BY <2>2, <2>4 DEF ConnectionLost, Promise!LoseConnection
      <3> QED
        BY <3>1 DEF Promise!Next
    <2>5. CASE EnvoySeesLoss
      <3>1. Promise!Fail
        BY <2>2, <2>5 DEF EnvoySeesLoss, Promise!Fail
      <3> QED
        BY <3>1 DEF Promise!Next, Promise!Resolve
    <2> QED
      BY <1>3, <2>3, <2>4, <2>5
  <1> QED
    BY <1>1, <1>2, <1>3 DEF ExchangeNext

\* The exchange implements the safety of the gateway's promise: a request that is
\* no admissible call never reaches the API, an admissible one is never refused, and
\* no request fails but for a lost connection or a call that was a notification.
THEOREM ImplementsPromise == ExchangeSpec => Promise!Safety
  <1>1. ExchangeInit => Promise!Init
    <2> SUFFICES ASSUME ExchangeInit PROVE Promise!Init
      OBVIOUS
    <2>1. ~apiCalled /\ outcome = "pending" /\ link # "lost"
      BY DEF ExchangeInit, apiCalled
    <2>2. requestKind \in {"call", "notification", "other"}
      BY DEF requestKind
    <2> QED
      BY <2>1, <2>2 DEF Promise!Init, Promise!Kinds
  <1>2. XInv /\ XInv' /\ [ExchangeNext]_exchange => [Promise!Next]_Promise!gatewayVars
    BY NextPromise
  <1> QED
    BY <1>1, <1>2, ExchangeInvariance, PTL DEF ExchangeSpec, Promise!Safety
=============================================================================
