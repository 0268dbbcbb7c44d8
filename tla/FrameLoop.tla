------------------------------ MODULE FrameLoop ------------------------------
(***************************************************************************)
(* The chunking loop of frame (extproc_response.go), one iteration per      *)
(* step, against its closed form in ExtProcResponse.  The stream's module   *)
(* uses the closed form; this one shows that it is what the loop computes.  *)
(***************************************************************************)
EXTENDS ExtProcResponse

CONSTANTS
    MaxLength,            \* bound: the longest body framed
    Bodies,               \* what is framed, apart from its length
    ParamHeaders          \* the mcp-param-* headers a request may have

VARIABLES
    m, length,            \* the arguments: headers and body, how long it is,
    dir, hasTrailers,     \* the direction of the factory, and the flag
    offset,               \* how much of the body the slice expression has dropped
    out,                  \* reps
    pc                    \* "loop", "trailers" or "done"

arguments == <<m, length, dir, hasTrailers>>
loopVars  == <<arguments, offset, out, pc>>

\* The two calls of frame: a rewritten tool call, and a translated response.
Called ==
    \/ /\ dir = "request"
       /\ \E body \in Bodies, strip \in SUBSET ParamHeaders : m = rerouteWithBodyMutation(body, strip)
    \/ /\ dir = "response"
       /\ \E body \in Bodies :
            m = [headers |-> HeadersResponse("response", responseMutation(length), NoBody),
                 body |-> body]

FrameInit ==
    /\ length \in 0 .. MaxLength
    /\ hasTrailers \in BOOLEAN
    /\ dir \in {"request", "response"}
    /\ Called
    /\ offset = 0
    /\ out = <<m.headers>>
    /\ pc = "loop"

\* One turn of the loop: cut the next chunk, append it, stop when nothing is left.
Iterate ==
    /\ pc = "loop"
    /\ LET end  == lesser(length - offset, streamChunkSize)
           last == offset + end = length
       IN  /\ out' = Append(out, newStreamedBodyResponse(dir, m.body, length,
                                    offset, offset + end, last /\ ~hasTrailers))
           /\ offset' = offset + end
           /\ pc' = IF last THEN "trailers" ELSE "loop"
    /\ UNCHANGED arguments

\* Faulty variant: the trailers response is forgotten.
AppendTrailers_Forgotten ==
    /\ pc = "trailers"
    /\ pc' = "done"
    /\ UNCHANGED <<arguments, offset, out>>

AppendTrailers ==
    /\ pc = "trailers"
    /\ out' = IF hasTrailers THEN Append(out, TrailersResponse(dir)) ELSE out
    /\ pc' = "done"
    /\ UNCHANGED <<arguments, offset>>

Returned == pc = "done" /\ UNCHANGED loopVars

FrameNext == Iterate \/ AppendTrailers \/ Returned

FrameSpec == FrameInit /\ [][FrameNext]_loopVars

(***************************************************************************)
(* Properties.                                                              *)
(***************************************************************************)
bodyAt(i) == out[i].type = "body"

\* The loop's value is the closed form the stream model frames with.
LoopComputesFrame == pc = "done" => out = frame(m, length, dir, hasTrailers)

\* At every turn the chunks cut so far are consecutive, start at the first byte,
\* end where the remaining body starts, and none exceeds streamChunkSize or is
\* empty unless the whole body is.
ChunksTile ==
    LET chunks == {i \in DOMAIN out : bodyAt(i)}
    IN  /\ \A i \in chunks :
             /\ out[i].lo = (IF i - 1 \in chunks THEN out[i - 1].hi ELSE 0)
             /\ out[i].hi - out[i].lo <= streamChunkSize
             /\ out[i].hi = out[i].lo => length = 0
        /\ offset = (IF chunks = {} THEN 0 ELSE out[CHOOSE i \in chunks : i + 1 \notin chunks].hi)
        /\ offset <= length
        /\ pc = "done" => chunks # {} /\ offset = length

\* The end of the stream is said exactly once, by the last message.
OneTerminator ==
    LET ends == {i \in DOMAIN out : out[i].type = "trailers" \/ (bodyAt(i) /\ out[i].eos)}
    IN  pc = "done" => ends = {Len(out)}
=============================================================================
