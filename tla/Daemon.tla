------------------------------- MODULE Daemon -------------------------------
(***************************************************************************)
(* pivbd as a process: serve of cmd/pivb/main.go, which runs one server    *)
(* per socket name, and Listen, Close and serveListener of internal/uds.   *)
(*                                                                         *)
(* Several daemons may be started over the same paths, one after another   *)
(* or by accident at the same time.  The file system and the kernel do one *)
(* call at a time: Lstat, connect, unlink, bind and listen are steps.  A   *)
(* path holds the socket of the daemon that bound it last; a socket whose  *)
(* daemon is gone, or that is bound but not yet listening, refuses a       *)
(* connection.  Each member of Daemons is one process, started once.       *)
(***************************************************************************)
EXTENDS FiniteSets

CONSTANTS
    Daemons,
    Sockets,      \* the socket names: control, wif, forward
    Requests,
    NoFile,       \* there is nothing at a path
    Stale,        \* the socket of a daemon that is gone
    Alien         \* something that is not a socket

ASSUME DaemonAssumption ==
    /\ IsFiniteSet(Sockets)
    /\ Sockets # {}
    /\ NoFile # Stale /\ NoFile # Alien /\ Stale # Alien
    /\ Daemons \cap {NoFile, Stale, Alien} = {}

VARIABLES
    path,         \* socket name -> what is at its path
    process,      \* daemon -> "new", "up" or "gone"
    stopping,     \* the daemons whose ctx is cancelled
    server,       \* <<daemon, socket name>> -> where uds.Serve stands
    listening,    \* the <<daemon, socket name>> whose socket accepts
    drained,      \* the daemons whose 5 s of graceful shutdown are over
    request,      \* request -> its state, and the server that has it
    settled       \* history: servers that started with no other on its way

vars == <<path, process, stopping, server, listening, drained, request, settled>>

Servers == Daemons \X Sockets

\* Steps of uds.Serve.  "unlink" and "remove2" are the two removals of Close:
\* net's own on closing the listener, and os.Remove after it.
Steps == {"off", "lstat", "dial", "remove", "bind", "listen", "chmod", "serve",
          "unlink", "remove2", "done"}

RequestState == [step : {"none", "queued", "busy", "answered", "refused", "cut"},
                 at : Servers \cup {NoFile}]

NoRequest == [step |-> "none", at |-> NoFile]

Goes(s, step) == server' = [server EXCEPT ![s] = step]

Up(d) == process[d] = "up"

\* The socket d bound at a path still has a process that listens on it.
Accepts(n) == \E d \in Daemons : path[n] = d /\ <<d, n>> \in listening

-----------------------------------------------------------------------------
(* serve.                                                                  *)

\* A server starts, in a goroutine of its own, for each socket the daemon was
\* given; the forwarding socket is optional.
Start(d) ==
    /\ process[d] = "new"
    /\ process' = [process EXCEPT ![d] = "up"]
    /\ \E given \in SUBSET Sockets \ {{}} :
          server' = [s \in Servers |-> IF s[1] = d /\ s[2] \in given THEN "lstat" ELSE server[s]]
    /\ UNCHANGED <<path, stopping, listening, drained, request, settled>>

\* SIGINT or SIGTERM.
Signal(d) ==
    /\ Up(d)
    /\ stopping' = stopping \cup {d}
    /\ UNCHANGED <<path, process, server, listening, drained, request, settled>>

\* The requests that a process takes with it.
CutShort(d) == request' = [r \in Requests |->
    IF request[r].step \in {"queued", "busy"} /\ request[r].at[1] = d
    THEN [request[r] EXCEPT !.step = "cut"] ELSE request[r]]

SiblingsStay(d) == UNCHANGED stopping    \* mutant: the siblings are not told

\* The first server to exit stops its siblings.
FirstExit(d) == stopping' = stopping \cup {d}

\* A value on errCh: serve takes it and cancels ctx.
ServerExits(d) ==
    /\ Up(d)
    /\ d \notin stopping
    /\ \E n \in Sockets : server[<<d, n>>] = "done"
    /\ FirstExit(d)
    /\ UNCHANGED <<path, process, server, listening, drained, request, settled>>

\* Every server has returned: serve returns and the process ends.  The 5 s that
\* Shutdown allows run in a goroutine nobody waits for.
Exit(d) ==
    /\ Up(d)
    /\ d \in stopping
    /\ \A n \in Sockets : server[<<d, n>>] \in {"off", "done"}
    /\ process' = [process EXCEPT ![d] = "gone"]
    /\ CutShort(d)
    /\ UNCHANGED <<path, stopping, server, listening, drained, settled>>

\* The process is killed: its sockets stay where they are and refuse.
Crash(d) ==
    /\ Up(d)
    /\ process' = [process EXCEPT ![d] = "gone"]
    /\ server' = [s \in Servers |-> IF s[1] = d THEN "done" ELSE server[s]]
    /\ listening' = {s \in listening : s[1] # d}
    /\ settled' = {s \in settled : s[1] # d}
    /\ CutShort(d)
    /\ UNCHANGED <<path, stopping, drained>>

-----------------------------------------------------------------------------
(* Listen.                                                                 *)

\* Any call may fail; a server that has bound nothing then simply returns.
Fail(s) ==
    /\ Up(s[1])
    /\ server[s] \in {"lstat", "dial", "remove", "bind"}
    /\ Goes(s, "done")
    /\ UNCHANGED <<path, process, stopping, listening, drained, request, settled>>

\* What is at the path: nothing, a socket to be dialled, or a refusal.
Lstat(s) ==
    /\ Up(s[1])
    /\ server[s] = "lstat"
    /\ Goes(s, CASE path[s[2]] = NoFile -> "bind"
                 [] path[s[2]] = Alien  -> "done"
                 [] OTHER               -> "dial")
    /\ UNCHANGED <<path, process, stopping, listening, drained, request, settled>>

\* mutant: a path that somebody listens on is taken over
DialTakesOver(n) == "remove"

\* The probe: in use, gone meanwhile, or refused.
Dialled(n) ==
    IF Accepts(n) THEN "done" ELSE IF path[n] = NoFile THEN "bind" ELSE "remove"

Dial(s) ==
    /\ Up(s[1])
    /\ server[s] = "dial"
    /\ Goes(s, Dialled(s[2]))
    /\ UNCHANGED <<path, process, stopping, listening, drained, request, settled>>

\* os.Remove fails when there is nothing to remove any more.
RemoveStale(s) ==
    /\ Up(s[1])
    /\ server[s] = "remove"
    /\ Goes(s, IF path[s[2]] = NoFile THEN "done" ELSE "bind")
    /\ path' = [path EXCEPT ![s[2]] = NoFile]
    /\ UNCHANGED <<process, stopping, listening, drained, request, settled>>

\* bind fails when there is something at the path.
Bind(s) ==
    /\ Up(s[1])
    /\ server[s] = "bind"
    /\ IF path[s[2]] = NoFile
       THEN Goes(s, "listen") /\ path' = [path EXCEPT ![s[2]] = s[1]]
       ELSE Goes(s, "done") /\ UNCHANGED path
    /\ UNCHANGED <<process, stopping, listening, drained, request, settled>>

ListenStep(s) ==
    /\ Up(s[1])
    /\ server[s] = "listen"
    /\ Goes(s, "chmod")
    /\ listening' = listening \cup {s}
    /\ UNCHANGED <<path, process, stopping, drained, request, settled>>

\* The other servers of this name: not begun, about to look, or over.
Alone(s) == \A e \in Daemons \ {s[1]} : server[<<e, s[2]>>] \in {"off", "lstat", "done"}

\* chmod goes by the path, wherever it leads by now.  Then the listener is
\* served, or taken down again.
Chmod(s) ==
    /\ Up(s[1])
    /\ server[s] = "chmod"
    /\ \/ /\ path[s[2]] # NoFile
          /\ Goes(s, "serve")
          /\ settled' = IF Alone(s) /\ path[s[2]] = s[1]
                        THEN settled \cup {s} ELSE settled
       \/ Goes(s, "unlink") /\ UNCHANGED settled
    /\ UNCHANGED <<path, process, stopping, listening, drained, request>>

-----------------------------------------------------------------------------
(* serveListener and Close.                                                *)

\* No connection is taken from here on, and Close follows.
StopServing(s) ==
    /\ Up(s[1])
    /\ server[s] = "serve"
    /\ Goes(s, "unlink")
    /\ settled' = settled \ {s}
    /\ UNCHANGED <<path, process, stopping, listening, drained, request>>

\* server.Shutdown, once ctx is cancelled.
Shutdown(s) == s[1] \in stopping /\ StopServing(s)

\* Accept has failed.
AcceptFails(s) == s[1] \notin stopping /\ StopServing(s)

\* The deadline of Shutdown, for the requests that were in flight.
DrainEnds(d) ==
    /\ Up(d)
    /\ d \in stopping
    /\ drained' = drained \cup {d}
    /\ UNCHANGED <<path, process, stopping, server, listening, request, settled>>

\* mutant: the listener is closed and its path stays
CloseKeepsPath(s) == UNCHANGED path

\* A removal by path takes whatever is there.
Unlinks(s) == path' = [path EXCEPT ![s[2]] = NoFile]

\* The first removal, and the socket is closed with the connections nobody
\* has accepted.
CloseListener(s) ==
    /\ Up(s[1])
    /\ server[s] = "unlink"
    /\ Unlinks(s)
    /\ Goes(s, "remove2")
    /\ listening' = listening \ {s}
    /\ request' = [r \in Requests |-> IF request[r].step = "queued" /\ request[r].at = s
                                     THEN [request[r] EXCEPT !.step = "cut"] ELSE request[r]]
    /\ UNCHANGED <<process, stopping, drained, settled>>

\* The second removal, and Serve returns.
RemoveAgain(s) ==
    /\ Up(s[1])
    /\ server[s] = "remove2"
    /\ Unlinks(s)
    /\ Goes(s, "done")
    /\ UNCHANGED <<process, stopping, listening, drained, request, settled>>

-----------------------------------------------------------------------------
(* Requests.                                                               *)

\* A client connects by the path.
Connect(r, n) ==
    /\ request[r].step = "none"
    /\ \E d \in Daemons :
          /\ path[n] = d
          /\ <<d, n>> \in listening
          /\ request' = [request EXCEPT ![r] = [step |-> "queued", at |-> <<d, n>>]]
    /\ UNCHANGED <<path, process, stopping, server, listening, drained, settled>>

\* The connection is accepted; requirePeer refuses one of another user.
Accept(r) ==
    /\ request[r].step = "queued"
    /\ server[request[r].at] = "serve"
    /\ \E step \in {"busy", "refused"} : request' = [request EXCEPT ![r].step = step]
    /\ UNCHANGED <<path, process, stopping, server, listening, drained, settled>>

\* The handler answers, after the touch if it needs one.
Answer(r) ==
    /\ request[r].step = "busy"
    /\ request' = [request EXCEPT ![r].step = "answered"]
    /\ UNCHANGED <<path, process, stopping, server, listening, drained, settled>>

-----------------------------------------------------------------------------
(* The specification.                                                      *)

Init ==
    /\ path \in [Sockets -> {NoFile, Stale, Alien}]
    /\ process = [d \in Daemons |-> "new"]
    /\ stopping = {}
    /\ server = [s \in Servers |-> "off"]
    /\ listening = {}
    /\ drained = {}
    /\ request = [r \in Requests |-> NoRequest]
    /\ settled = {}

\* What a server does by itself once it is started.
Proceeds(s) ==
    \/ Lstat(s) \/ Dial(s) \/ RemoveStale(s) \/ Bind(s) \/ ListenStep(s)
    \/ Chmod(s) \/ Shutdown(s) \/ CloseListener(s) \/ RemoveAgain(s)

Next ==
    \/ \E d \in Daemons : Start(d) \/ Signal(d) \/ ServerExits(d) \/ Exit(d) \/ Crash(d)
                           \/ DrainEnds(d)
    \/ \E s \in Servers : Proceeds(s) \/ Fail(s) \/ AcceptFails(s)
    \/ \E r \in Requests : Accept(r) \/ Answer(r) \/ \E n \in Sockets : Connect(r, n)

Spec == Init /\ [][Next]_vars

\* The process runs.  Nothing is assumed of signals, clients and handlers.
Fairness ==
    /\ \A s \in Servers : WF_vars(Proceeds(s))
    /\ \A d \in Daemons : WF_vars(ServerExits(d)) /\ WF_vars(Exit(d))

FairSpec == Spec /\ Fairness

-----------------------------------------------------------------------------
(* Properties.                                                             *)

\* Type invariant.
TypeOK ==
    /\ path \in [Sockets -> Daemons \cup {NoFile, Stale, Alien}]
    /\ process \in [Daemons -> {"new", "up", "gone"}]
    /\ stopping \subseteq Daemons
    /\ server \in [Servers -> Steps]
    /\ listening \subseteq Servers
    /\ drained \subseteq stopping
    /\ request \in [Requests -> RequestState]
    /\ settled \subseteq Servers

\* "socket is already in use": a daemon that came up while no other was on its
\* way over the same path keeps that path for as long as it serves, whoever
\* is started, stopped or killed meanwhile.
EstablishedKeepsPath ==
    \A s \in settled : path[s[2]] = s[1] /\ s \in listening

\* "Listener is a prepared Unix listener whose Close removes the socket path":
\* a daemon that ends by itself leaves none of its sockets behind.
ExitLeavesNoSocket == [][\A d \in Daemons : Exit(d) => \A n \in Sockets : path[n] # d]_vars

\* "The first server to exit (error or signal) stops its siblings": a daemon of
\* which one server has ended does not go on with the others.
StopsTogether ==
    \A d \in Daemons : (\E n \in Sockets : server[<<d, n>>] = "done") ~> process[d] = "gone"

\* "a daemon shutdown retains its established graceful mid-touch behavior": the
\* process does not end under a request it is working on before the 5 s of its
\* graceful shutdown are over.
GracefulMidTouch ==
    [][\A d \in Daemons : Exit(d) =>
          d \in drained \/ \A r \in Requests : ~(request[r].step = "busy" /\ request[r].at[1] = d)]_vars
=============================================================================
