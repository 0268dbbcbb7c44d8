--------------------------- MODULE ServerLifecycle ---------------------------
(***************************************************************************)
(* RunServer (server.go): the processes that serve one socket path, from    *)
(* their start to their return or crash.                                    *)
(*                                                                         *)
(* A process is a goroutine running RunServer, a second one that waits for  *)
(* ctx and stops the gRPC server, and the gRPC server's accept loop.  The   *)
(* file system, net.ListenUnix and the gRPC server are external: a Unix     *)
(* listener removes its path by NAME when it is closed, once, whatever is   *)
(* there by then; GracefulStop closes the listeners it knows, lets open     *)
(* streams finish and waits for the accept loop; Serve after GracefulStop   *)
(* closes the listener it was given and returns ErrServerStopped.           *)
(***************************************************************************)
EXTENDS Naturals

CONSTANTS
    Instances,    \* the processes that are started, each once
    NoSocket,     \* nothing is at the socket path
    MaxStreams    \* bound: open streams of one process

ASSUME LifecycleAssumption ==
    /\ NoSocket \notin Instances
    /\ MaxStreams \in Nat

VARIABLES
    proc,         \* the processes
    path          \* the process whose socket is at the path

lifecycleVars == <<proc, path>>

\* "unloadable": no tools in the documents, or a name of the allowlist not among them.
Configs == {"good", "invalid", "unloadable"}

\* pc is where RunServer is, stopper the goroutine that stops the server, result
\* what RunServer returned.
Processes ==
    [pc        : {"idle", "validate", "load", "remove", "listen", "spawn", "serve",
                  "accept", "wait", "returned", "crashed"},
     config    : Configs,
     cancelled : BOOLEAN,              \* ctx is done
     stopper   : {"none", "waiting", "draining", "done"},
     listening : BOOLEAN,              \* the listener is open
     contested : BOOLEAN,              \* history: others still had steps at the path
     connected : BOOLEAN,              \* Envoy holds a connection
     streams   : 0 .. MaxStreams,      \* open ext_proc streams
     result    : {"none", "config", "socket", "inUse", "accept", "ErrServerStopped", "nil"}]

NotStarted ==
    [pc |-> "idle", config |-> "good", cancelled |-> FALSE, stopper |-> "none", listening |-> FALSE,
     contested |-> FALSE, connected |-> FALSE, streams |-> 0, result |-> "none"]

LifecycleInit == proc = [i \in Instances |-> NotStarted] /\ path = NoSocket

at(i, step) == proc[i].pc = step
ended(i)    == proc[i].pc \in {"returned", "crashed"}
running(i)  == ~at(i, "idle") /\ ~ended(i)

\* GracefulStop has been entered: no new connections and streams.
quit(i) == proc[i].stopper \in {"draining", "done"}

\* A process on its way to the socket.  RunServer does not look at ctx before
\* Serve: being told to stop does not keep it from removing the path and listening.
starting(p) == p.config = "good" /\ p.pc \in {"validate", "load", "remove", "listen"}

Go(i, step) == proc' = [proc EXCEPT ![i].pc = step] /\ UNCHANGED path

\* lis.Close unlinks the path, unless this listener already did.
pathAfterClose(i) == IF proc[i].listening THEN NoSocket ELSE path

\* The return of RunServer runs the deferred lis.Close; the process exits, and
\* nothing but its result is left of it.
Return(i, r) ==
    /\ proc' = [proc EXCEPT ![i] = [NotStarted EXCEPT !.pc = "returned", !.result = r]]
    /\ path' = pathAfterClose(i)

(***************************************************************************)
(* The deployment starts, cancels and loses processes.                      *)
(***************************************************************************)
\* A process meant to serve starts when the others have ended or been told to
\* stop, wherever they are.  One with a broken configuration may be tried at any
\* time.
Start(i) ==
    /\ at(i, "idle")
    /\ \E c \in Configs :
          /\ c = "good" => \A j \in Instances \ {i} :
                running(j) => proc[j].cancelled \/ proc[j].config # "good"
          /\ proc' = [proc EXCEPT ![i].pc = "validate", ![i].config = c]
    /\ UNCHANGED path

Cancel(i) ==
    /\ running(i) /\ ~proc[i].cancelled
    /\ proc' = [proc EXCEPT ![i].cancelled = TRUE]
    /\ UNCHANGED path

\* A killed process leaves its socket file behind.
Crash(i) ==
    /\ running(i)
    /\ proc' = [proc EXCEPT ![i] = [NotStarted EXCEPT !.pc = "crashed"]]
    /\ UNCHANGED path

(***************************************************************************)
(* RunServer.                                                               *)
(***************************************************************************)
\* Faulty variant: the old socket is removed before the configuration is known
\* to be good.
Validate_RemovesFirst(i) ==
    /\ at(i, "validate")
    /\ proc' = [proc EXCEPT ![i].pc = IF proc[i].config = "invalid" THEN "returned" ELSE "load"]
    /\ path' = NoSocket

\* ctx, cfg and cfg.validate.
Validate(i) ==
    /\ at(i, "validate")
    /\ IF proc[i].config = "invalid" THEN Return(i, "config") ELSE Go(i, "load")

\* newToolRegistryFromConfig and FilterByAllowlist.
LoadTools(i) ==
    /\ at(i, "load")
    /\ IF proc[i].config = "unloadable" THEN Return(i, "config") ELSE Go(i, "remove")

\* Faulty variant: the socket file of an earlier process is not removed.
RemoveSocket_Skipped(i) == at(i, "remove") /\ Go(i, "listen")

\* os.Remove; that there is nothing to remove is no error.
RemoveSocket(i) ==
    /\ at(i, "remove")
    /\ \/ /\ path' = NoSocket
          /\ proc' = [proc EXCEPT ![i].pc = "listen",
                                  ![i].contested = \E j \in Instances \ {i} : starting(proc[j])]
       \/ path # NoSocket /\ Return(i, "socket")

ListenUnix(i) ==
    /\ at(i, "listen")
    /\ IF path # NoSocket THEN Return(i, "inUse")
       ELSE /\ path' = i
            /\ proc' = [proc EXCEPT ![i].pc = "spawn", ![i].listening = TRUE,
                                    ![i].contested = \E j \in Instances \ {i} :
                                        starting(proc[j]) \/ proc[j].listening]

\* Faulty variant: nobody waits for ctx, as if Serve were called before the go
\* statement.
SpawnStopper_Late(i) == at(i, "spawn") /\ Go(i, "serve")

\* The gRPC server is made and registered, and the goroutine that stops it starts.
SpawnStopper(i) ==
    /\ at(i, "spawn")
    /\ proc' = [proc EXCEPT ![i].pc = "serve", ![i].stopper = "waiting"]
    /\ UNCHANGED path

Serve(i) ==
    /\ at(i, "serve")
    /\ IF quit(i) THEN Return(i, "ErrServerStopped") ELSE Go(i, "accept")

\* The accept loop of Serve ends because the server stops, or for an error of
\* its own.
AcceptEnds(i) ==
    /\ at(i, "accept")
    /\ IF quit(i) THEN Go(i, "wait") ELSE Return(i, "accept")

\* Serve returns when GracefulStop has.
ServeReturns(i) == at(i, "wait") /\ proc[i].stopper = "done" /\ Return(i, "nil")

(***************************************************************************)
(* The goroutine that stops the server.                                     *)
(***************************************************************************)
\* Faulty variant: Stop instead of GracefulStop.
GracefulStop_Abrupt(i) ==
    /\ running(i) /\ proc[i].cancelled /\ proc[i].stopper = "waiting"
    /\ proc' = [proc EXCEPT ![i].stopper = "done", ![i].listening = FALSE]
    /\ path' = pathAfterClose(i)

\* GracefulStop begins: it closes the listener if Serve has been called.
GracefulStop(i) ==
    /\ running(i) /\ proc[i].cancelled /\ proc[i].stopper = "waiting"
    /\ proc' = [proc EXCEPT ![i].stopper = "draining",
                            ![i].listening = proc[i].listening /\ ~at(i, "accept")]
    /\ path' = IF at(i, "accept") THEN pathAfterClose(i) ELSE path

\* It ends when the accept loop has ended and every stream has.
Drained(i) ==
    /\ running(i) /\ proc[i].stopper = "draining" /\ ~at(i, "accept") /\ proc[i].streams = 0
    /\ proc' = [proc EXCEPT ![i].stopper = "done", ![i].connected = FALSE]
    /\ UNCHANGED path

(***************************************************************************)
(* Envoy.                                                                   *)
(***************************************************************************)
reachable(i) == path = i /\ proc[i].listening

Connect(i) ==
    /\ reachable(i) /\ at(i, "accept") /\ ~quit(i) /\ ~proc[i].connected
    /\ proc' = [proc EXCEPT ![i].connected = TRUE]
    /\ UNCHANGED path

OpenStream(i) ==
    /\ proc[i].connected /\ ~quit(i) /\ proc[i].streams < MaxStreams
    /\ proc' = [proc EXCEPT ![i].streams = @ + 1]
    /\ UNCHANGED path

EndStream(i) ==
    /\ proc[i].streams > 0
    /\ proc' = [proc EXCEPT ![i].streams = @ - 1]
    /\ UNCHANGED path

RunServer(i) ==
    \/ Validate(i) \/ LoadTools(i) \/ RemoveSocket(i) \/ ListenUnix(i) \/ SpawnStopper(i)
    \/ Serve(i) \/ AcceptEnds(i) \/ ServeReturns(i)

LifecycleNext ==
    \E i \in Instances :
       \/ Start(i) \/ Cancel(i) \/ Crash(i)
       \/ RunServer(i) \/ GracefulStop(i) \/ Drained(i)
       \/ Connect(i) \/ OpenStream(i) \/ EndStream(i)

LifecycleSafety == LifecycleInit /\ [][LifecycleNext]_lifecycleVars

\* The goroutines are scheduled, and streams end: an HTTP request is over at some
\* time, and Process then returns.  Accept need not fail.
LifecycleSpec ==
    /\ LifecycleSafety
    /\ \A i \in Instances :
          /\ WF_lifecycleVars((at(i, "accept") => quit(i)) /\ RunServer(i))
          /\ WF_lifecycleVars(GracefulStop(i) \/ Drained(i))
          /\ WF_lifecycleVars(EndStream(i))

(***************************************************************************)
(* Properties.                                                              *)
(***************************************************************************)
\* The variables have their types, and a process that serves has someone to stop it.
LifecycleTypeOK ==
    /\ proc \in [Instances -> Processes]
    /\ path \in Instances \cup {NoSocket}
    /\ \A i \in Instances : proc[i].pc \in {"serve", "accept", "wait"} => proc[i].stopper # "none"

\* server.go:78-80: RunServer serves requests "until ctx is cancelled".  Envoy can
\* reach a process that accepts connections and was not cancelled: no crash and no
\* failed start of another has taken its socket away.  The exception is a process
\* that listened while one it replaces had not closed its listener, which then
\* unlinks the new socket, or was still on its way to the socket, which it then
\* removes and binds although it was told to stop.
ServesUntilCancelled ==
    \A i \in Instances :
       at(i, "accept") /\ ~proc[i].cancelled => reachable(i) \/ proc[i].contested

\* A restart gets the socket: what a crashed process left, or one that is shutting
\* down has, never makes ListenUnix fail.  A process not told to stop finds the
\* path in use only if another was on its way to the socket when it removed it.
ListenGetsSocket ==
    \A i \in Instances :
       at(i, "listen") /\ ~proc[i].cancelled => path = NoSocket \/ proc[i].contested

\* A process that stops by request lets every stream it accepted finish: it
\* returns nil only with none open.
StreamsFinish ==
    [][\A i \in Instances :
         proc[i].result # "nil" /\ proc'[i].result = "nil" => proc[i].streams = 0]_lifecycleVars

\* A cancelled process ends, also when ctx is done before Serve is called.
CancelEnds == \A i \in Instances : running(i) /\ proc[i].cancelled ~> ended(i)
=============================================================================
