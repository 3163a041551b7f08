----------------------------- MODULE HostProofs -----------------------------
(***************************************************************************)
(* Proofs about the programs of one host, for any number of daemons,       *)
(* socket names, requests and supervisors and for any staleGrace: what a   *)
(* daemon keeps and leaves at its socket paths (Daemon), and what the      *)
(* sweeps of supervisors may and must remove (AgentSession).               *)
(***************************************************************************)
EXTENDS HostMC, TLAPS

-----------------------------------------------------------------------------
(* The daemons.                                                            *)

\* A daemon that was not started has no server.
NewHasNone == \A s \in Servers : process[s[1]] = "new" => server[s] = "off"

\* From listen to Close a server's socket accepts.
ListensWhileOpen ==
    \A s \in Servers : server[s] \in {"chmod", "serve", "unlink"} => s \in listening

\* A path that leads to a daemon leads to one of its open sockets, or it was
\* killed.
PathIsOpen ==
    \A n \in Sockets, d \in Daemons :
        path[n] = d =>
            process[d] = "gone" \/ server[<<d, n>>] \in {"listen", "chmod", "serve", "unlink"}

\* What keeps the path of an established daemon: it serves, it is what the
\* path leads to and accepts, and every other server of that name has yet to
\* look, is about to be refused, or is over.
Established(s) ==
    /\ server[s] = "serve"
    /\ path[s[2]] = s[1]
    /\ s \in listening
    /\ \A e \in Daemons \ {s[1]} : server[<<e, s[2]>>] \in {"off", "lstat", "dial", "done"}

DaemonInv ==
    /\ TypeOK
    /\ NewHasNone
    /\ ListensWhileOpen
    /\ PathIsOpen
    /\ \A s \in settled : Established(s)

-----------------------------------------------------------------------------
(* The supervisors.                                                        *)

Early == {"new", "sweep", "mkdir"}
Opening == {"credential", "bind", "listen"}

\* Where a supervisor stands, its child, its relay and its directory.
Stage(s) ==
    /\ proc[s].step \in Early => ~dir[s].there
    /\ proc[s].step \in Early \cup Opening \cup {"descriptor"} =>
          child[s] = "none" /\ relay[s] = "none"
    /\ proc[s].step = "start" => child[s] = "none" /\ relay[s] \in {"serving", "stopped"}
    /\ proc[s].step = "supervise" =>
          child[s] \in {"running", "killed", "exited"} /\ relay[s] \in {"serving", "stopped"}
    /\ proc[s].step = "cancel" =>
          /\ child[s] \in {"none", "reaped"}
          /\ relay[s] \in {"serving", "cancelled", "stopped"}
    /\ proc[s].step = "terminate" =>
          child[s] \in {"running", "killed", "exited"} /\ relay[s] = "stopped"
    /\ proc[s].step \in {"cleanup", "returned"} =>
          child[s] \in {"none", "reaped"} /\ relay[s] \in {"none", "stopped"}
    /\ proc[s].step = "returned" => ~dir[s].there
    /\ proc[s].step = "crashed" => relay[s] = "none" /\ dir[s].sock # "live"

\* The two protections of a directory: before listen it is young, and after
\* it, as long as it is in use, its socket answers.
Protected(s) ==
    /\ proc[s].step \in Opening => dir[s].age < StaleGrace
    /\ Agent!InUse(s) => dir[s].there
    /\ Agent!InUse(s) /\ proc[s].step \notin Opening => dir[s].sock = "live"

\* What a sweep has found out of the directory in hand: its session is past
\* listen once it was seen to be old, and out of use once it did not answer.
Found(s) ==
    \A e \in Sessions :
        proc[s].step = "sweep" /\ sweeping[s].at = e =>
          /\ sweeping[s].step \in {"dial", "remove"} =>
                proc[e].step \notin Early \cup Opening
          /\ sweeping[s].step = "remove" => ~Agent!InUse(e)

\* What was dead and old when a sweep began stays so, and is still to be seen
\* to, in hand, or gone.
Doomed(s) ==
    /\ proc[s].step = "sweep" =>
          \A e \in sweeping[s].doomed :
              /\ proc[e].step = "crashed"
              /\ dir[e].there =>
                    /\ e \in sweeping[s].left \/ sweeping[s].at = e
                    /\ dir[e].age - sweeping[s].lag >= StaleGrace
    /\ proc[s].step = "mkdir" =>
          \A e \in sweeping[s].doomed : proc[e].step = "crashed" /\ ~dir[e].there

SessionInv ==
    /\ Agent!TypeOK
    /\ \A s \in Sessions : Stage(s) /\ Protected(s) /\ Found(s) /\ Doomed(s)
-----------------------------------------------------------------------------
(* The steps of the daemons.                                               *)

LEMMA ServerPair ==
    /\ \A s \in Servers : s[1] \in Daemons /\ s[2] \in Sockets /\ s = <<s[1], s[2]>>
    /\ \A d \in Daemons, n \in Sockets : <<d, n>> \in Servers
    /\ \A s, t \in Servers : s[1] = t[1] /\ s[2] = t[2] => s = t
BY DEF Servers

\* A path leads to a daemon, to nothing, or to what is no daemon's.
LEMMA PathKinds ==
    \A d \in Daemons : d # NoFile /\ d # Stale /\ d # Alien
BY DaemonAssumption

\* What the actions do to requests keeps their type.
LEMMA RequestTypes ==
    ASSUME TypeOK, NEW r \in Requests
    PROVE  /\ request[r] \in RequestState
           /\ \A step \in {"queued", "busy", "answered", "refused", "cut"} :
                 [request[r] EXCEPT !.step = step] \in RequestState
<1>1. request[r] \in RequestState
  BY DEF TypeOK
<1> QED BY <1>1 DEF RequestState

LEMMA CutShortTypes ==
    ASSUME TypeOK, NEW d \in Daemons, CutShort(d)
    PROVE  request' \in [Requests -> RequestState]
BY RequestTypes DEF CutShort

LEMMA DaemonTypes == TypeOK /\ [Next]_vars => TypeOK'
<1> SUFFICES ASSUME TypeOK, [Next]_vars PROVE TypeOK'
  OBVIOUS
<1> USE ServerPair
<1>1. ASSUME NEW d \in Daemons, Start(d) PROVE TypeOK'
  BY <1>1 DEF TypeOK, Start, Steps
<1>2. ASSUME NEW d \in Daemons, Signal(d) PROVE TypeOK'
  BY <1>2 DEF TypeOK, Signal
<1>3. ASSUME NEW d \in Daemons, ServerExits(d) PROVE TypeOK'
  BY <1>3 DEF TypeOK, ServerExits, FirstExit
<1>4. ASSUME NEW d \in Daemons, Exit(d) PROVE TypeOK'
  BY <1>4, CutShortTypes DEF TypeOK, Exit
<1>5. ASSUME NEW d \in Daemons, Crash(d) PROVE TypeOK'
  BY <1>5, CutShortTypes DEF TypeOK, Crash, Steps
<1>6. ASSUME NEW d \in Daemons, DrainEnds(d) PROVE TypeOK'
  BY <1>6 DEF TypeOK, DrainEnds
<1>7. ASSUME NEW s \in Servers, Lstat(s) \/ Dial(s) \/ Fail(s)
      PROVE  TypeOK'
  BY <1>7 DEF TypeOK, Lstat, Dial, Fail, Dialled, Goes, Steps
<1>8. ASSUME NEW s \in Servers, RemoveStale(s) \/ Bind(s) \/ RemoveAgain(s)
      PROVE  TypeOK'
  BY <1>8 DEF TypeOK, RemoveStale, Bind, RemoveAgain, Unlinks, Goes, Steps
<1>9. ASSUME NEW s \in Servers, ListenStep(s) \/ Chmod(s) \/ StopServing(s)
      PROVE  TypeOK'
  BY <1>9 DEF TypeOK, ListenStep, Chmod, StopServing, Goes, Steps
<1>10. ASSUME NEW s \in Servers, CloseListener(s) PROVE TypeOK'
  <2>1. request' \in [Requests -> RequestState]
    BY <1>10, RequestTypes DEF CloseListener
  <2> QED BY <1>10, <2>1 DEF TypeOK, CloseListener, Unlinks, Goes, Steps
<1>11. ASSUME NEW r \in Requests, Accept(r) \/ Answer(r) PROVE TypeOK'
  <2>0. PICK step \in {"busy", "refused", "answered"} :
            request' = [request EXCEPT ![r] = [request[r] EXCEPT !.step = step]]
    BY <1>11 DEF Accept, Answer
  <2>1. request' \in [Requests -> RequestState]
    BY <2>0, RequestTypes DEF TypeOK
  <2> QED BY <1>11, <2>1 DEF TypeOK, Accept, Answer
<1>12. ASSUME NEW r \in Requests, NEW n \in Sockets, Connect(r, n) PROVE TypeOK'
  <2>1. request' \in [Requests -> RequestState]
    BY <1>12 DEF Connect, TypeOK, RequestState
  <2> QED BY <1>12, <2>1 DEF TypeOK, Connect
<1>13. CASE UNCHANGED vars
  BY <1>13 DEF TypeOK, vars
<1> QED BY <1>1, <1>2, <1>3, <1>4, <1>5, <1>6, <1>7, <1>8, <1>9, <1>10, <1>11, <1>12,
           <1>13 DEF Next, Proceeds, Shutdown, AcceptFails
\* Where a server goes leaves the others where they are.
LEMMA GoesTo ==
    ASSUME TypeOK, NEW s \in Servers, NEW step, Goes(s, step)
    PROVE  \A t \in Servers : server'[t] = IF t = s THEN step ELSE server[t]
BY DEF TypeOK, Goes

LEMMA DaemonStepNewHasNone ==
    ASSUME DaemonInv, Next PROVE NewHasNone'
<1> USE ServerPair DEF DaemonInv, NewHasNone, TypeOK
<1>1. ASSUME NEW d \in Daemons,
             Start(d) \/ Signal(d) \/ ServerExits(d) \/ Exit(d) \/ Crash(d) \/ DrainEnds(d)
      PROVE  NewHasNone'
  BY <1>1 DEF Start, Signal, ServerExits, FirstExit, Exit, Crash, DrainEnds, Up
<1>2. ASSUME NEW s \in Servers, Proceeds(s) \/ Fail(s) \/ AcceptFails(s)
      PROVE  NewHasNone'
  <2>1. Up(s[1]) /\ UNCHANGED process /\ \E step : Goes(s, step)
    BY <1>2 DEF Proceeds, Lstat, Dial, RemoveStale, Bind, ListenStep, Chmod, Shutdown,
                StopServing, CloseListener, RemoveAgain, Fail, AcceptFails
  <2> QED BY <2>1, GoesTo DEF Up
<1>3. ASSUME NEW r \in Requests, Accept(r) \/ Answer(r) \/ \E n \in Sockets : Connect(r, n)
      PROVE  NewHasNone'
  BY <1>3 DEF Accept, Answer, Connect
<1> QED BY <1>1, <1>2, <1>3 DEF Next

LEMMA DaemonStepListens ==
    ASSUME DaemonInv, Next PROVE ListensWhileOpen'
<1> USE ServerPair DEF DaemonInv, ListensWhileOpen, TypeOK
<1>1. ASSUME NEW d \in Daemons,
             Start(d) \/ Signal(d) \/ ServerExits(d) \/ Exit(d) \/ Crash(d) \/ DrainEnds(d)
      PROVE  ListensWhileOpen'
  BY <1>1 DEF Start, Signal, ServerExits, FirstExit, Exit, Crash, DrainEnds
<1>2. ASSUME NEW s \in Servers,
             Lstat(s) \/ Dial(s) \/ RemoveStale(s) \/ Bind(s) \/ RemoveAgain(s) \/ Fail(s)
      PROVE  ListensWhileOpen'
  <2>1. /\ UNCHANGED listening
        /\ \E step \in {"bind", "done", "dial", "remove", "listen"} : Goes(s, step)
    BY <1>2 DEF Lstat, Dial, Dialled, RemoveStale, Bind, RemoveAgain, Fail
  <2> QED BY <2>1, GoesTo
<1>3. ASSUME NEW s \in Servers, ListenStep(s) \/ Chmod(s) \/ StopServing(s)
      PROVE  ListensWhileOpen'
  <2>1. /\ \E step : Goes(s, step)
        /\ s \in listening' /\ listening \subseteq listening'
    BY <1>3 DEF ListenStep, Chmod, StopServing
  <2> QED BY <2>1, GoesTo
<1>4. ASSUME NEW s \in Servers, CloseListener(s)
      PROVE  ListensWhileOpen'
  BY <1>4, GoesTo DEF CloseListener
<1>5. ASSUME NEW r \in Requests, Accept(r) \/ Answer(r) \/ \E n \in Sockets : Connect(r, n)
      PROVE  ListensWhileOpen'
  BY <1>5 DEF Accept, Answer, Connect
<1> QED BY <1>1, <1>2, <1>3, <1>4, <1>5 DEF Next, Proceeds, Shutdown, AcceptFails

LEMMA DaemonStepPath ==
    ASSUME DaemonInv, Next PROVE PathIsOpen'
<1> USE ServerPair, PathKinds DEF DaemonInv, PathIsOpen, TypeOK
<1>1. ASSUME NEW d \in Daemons, Start(d) PROVE PathIsOpen'
  <2>1. \A n \in Sockets : path[n] # d
    BY <1>1 DEF NewHasNone, Start, Up
  <2> QED BY <1>1, <2>1 DEF Start, Up
<1>2. ASSUME NEW d \in Daemons,
             Signal(d) \/ ServerExits(d) \/ Exit(d) \/ Crash(d) \/ DrainEnds(d)
      PROVE  PathIsOpen'
  BY <1>2 DEF Signal, ServerExits, FirstExit, Exit, Crash, DrainEnds, Up
<1>3. ASSUME NEW s \in Servers, Lstat(s) \/ Dial(s) \/ Fail(s)
      PROVE  PathIsOpen'
  BY <1>3, GoesTo DEF Lstat, Dial, Fail, Up
<1>4. ASSUME NEW s \in Servers, RemoveStale(s) \/ Bind(s)
      PROVE  PathIsOpen'
  BY <1>4, GoesTo DEF RemoveStale, Bind, Up
<1>5. ASSUME NEW s \in Servers, ListenStep(s) \/ Chmod(s) \/ StopServing(s)
      PROVE  PathIsOpen'
  BY <1>5, GoesTo DEF ListenStep, Chmod, StopServing, Up
<1>6. ASSUME NEW s \in Servers, CloseListener(s) \/ RemoveAgain(s)
      PROVE  PathIsOpen'
  BY <1>6, GoesTo DEF CloseListener, RemoveAgain, Unlinks, Up
<1>7. ASSUME NEW r \in Requests, Accept(r) \/ Answer(r) \/ \E n \in Sockets : Connect(r, n)
      PROVE  PathIsOpen'
  BY <1>7 DEF Accept, Answer, Connect, Up
<1> QED BY <1>1, <1>2, <1>3, <1>4, <1>5, <1>6, <1>7
        DEF Next, Proceeds, Shutdown, AcceptFails
\* Nobody moves the path of an established daemon: a server of that name that
\* looks is sent to dial, one that dials is refused, and no other is on its way.
LEMMA DaemonStepEstablished ==
    ASSUME DaemonInv, Next PROVE \A s \in settled' : Established(s)'
<1> USE ServerPair, PathKinds DEF DaemonInv, Established, TypeOK
<1>1. ASSUME NEW d \in Daemons, Start(d) PROVE \A s \in settled' : Established(s)'
  BY <1>1 DEF Start, NewHasNone
<1>2. ASSUME NEW d \in Daemons, Signal(d) \/ ServerExits(d) \/ Exit(d) \/ DrainEnds(d)
      PROVE  \A s \in settled' : Established(s)'
  BY <1>2 DEF Signal, ServerExits, FirstExit, Exit, DrainEnds
<1>3. ASSUME NEW d \in Daemons, Crash(d) PROVE \A s \in settled' : Established(s)'
  BY <1>3 DEF Crash
<1>4. ASSUME NEW s \in Servers, Lstat(s) PROVE \A t \in settled' : Established(t)'
  BY <1>4, GoesTo DEF Lstat
<1>5. ASSUME NEW s \in Servers, Dial(s) PROVE \A t \in settled' : Established(t)'
  <2>1. ASSUME NEW t \in settled, t[2] = s[2]
        PROVE  Dialled(s[2]) = "done"
    BY <2>1 DEF Dialled, Accepts
  <2> QED BY <1>5, <2>1, GoesTo DEF Dial
<1>6. ASSUME NEW s \in Servers, Fail(s) PROVE \A t \in settled' : Established(t)'
  BY <1>6, GoesTo DEF Fail
<1>7. ASSUME NEW s \in Servers, RemoveStale(s) \/ Bind(s)
      PROVE  \A t \in settled' : Established(t)'
  <2>1. \A t \in settled : t[2] # s[2]
    BY <1>7 DEF RemoveStale, Bind
  <2> QED BY <1>7, <2>1, GoesTo DEF RemoveStale, Bind
<1>8. ASSUME NEW s \in Servers, ListenStep(s) PROVE \A t \in settled' : Established(t)'
  <2>1. \A t \in settled : t[2] # s[2]
    BY <1>8 DEF ListenStep
  <2> QED BY <1>8, <2>1, GoesTo DEF ListenStep
<1>9. ASSUME NEW s \in Servers, Chmod(s) PROVE \A t \in settled' : Established(t)'
  <2>1. \A t \in settled : t[2] # s[2]
    BY <1>9 DEF Chmod
  <2>2. \A t \in settled : Established(t)'
    BY <1>9, <2>1, GoesTo DEF Chmod
  <2>3. ASSUME s \in settled', s \notin settled
        PROVE  Established(s)'
    BY <1>9, <2>3, GoesTo DEF Chmod, Alone, ListensWhileOpen
  <2> QED BY <1>9, <2>2, <2>3 DEF Chmod
<1>10. ASSUME NEW s \in Servers, StopServing(s) PROVE \A t \in settled' : Established(t)'
  <2>1. \A t \in settled : t[2] = s[2] => t = s
    BY <1>10 DEF StopServing
  <2> QED BY <1>10, <2>1, GoesTo DEF StopServing
<1>11. ASSUME NEW s \in Servers, CloseListener(s) \/ RemoveAgain(s)
       PROVE  \A t \in settled' : Established(t)'
  <2>1. \A t \in settled : t[2] # s[2]
    BY <1>11 DEF CloseListener, RemoveAgain
  <2> QED BY <1>11, <2>1, GoesTo DEF CloseListener, RemoveAgain, Unlinks
<1>12. ASSUME NEW r \in Requests, Accept(r) \/ Answer(r) \/ \E n \in Sockets : Connect(r, n)
       PROVE  \A t \in settled' : Established(t)'
  BY <1>12 DEF Accept, Answer, Connect
<1> QED BY <1>1, <1>2, <1>3, <1>4, <1>5, <1>6, <1>7, <1>8, <1>9, <1>10, <1>11, <1>12
        DEF Next, Proceeds, Shutdown, AcceptFails

LEMMA DaemonInvariant == Spec => []DaemonInv
<1>1. Init => DaemonInv
  BY ServerPair, PathKinds DEF Init, DaemonInv, TypeOK, NewHasNone, ListensWhileOpen, PathIsOpen,
     Steps, RequestState, NoRequest
<1>2. DaemonInv /\ [Next]_vars => DaemonInv'
  <2>1. CASE Next
    BY <2>1, DaemonTypes, DaemonStepNewHasNone, DaemonStepListens, DaemonStepPath,
       DaemonStepEstablished DEF DaemonInv
  <2>2. CASE UNCHANGED vars
    BY <2>2 DEF DaemonInv, TypeOK, NewHasNone, ListensWhileOpen, PathIsOpen, Established, vars
  <2> QED BY <2>1, <2>2
<1> QED BY <1>1, <1>2, PTL DEF Spec

-----------------------------------------------------------------------------
(* The theorems about the daemons.                                         *)

\* The daemon's state has its type (cmd/pivb/main.go, internal/uds).
THEOREM DaemonTypeCorrect == Spec => []TypeOK
BY DaemonInvariant, PTL DEF DaemonInv

\* uds.Listen's "socket is already in use", for any number of daemons: one
\* that came up while no other was on its way over the same path keeps that
\* path, and accepts on it, for as long as it serves.
THEOREM KeepsPath == Spec => []EstablishedKeepsPath
<1>1. DaemonInv => EstablishedKeepsPath
  BY DEF DaemonInv, Established, EstablishedKeepsPath
<1> QED BY <1>1, DaemonInvariant, PTL

\* Listener.Close removes the socket path: a daemon that ends by itself leaves
\* none of its sockets behind, whatever the other daemons bound or removed.
THEOREM LeavesNoSocket == Spec => ExitLeavesNoSocket
<1>1. DaemonInv /\ [Next]_vars =>
          [\A d \in Daemons : Exit(d) => \A n \in Sockets : path[n] # d]_vars
  <2> SUFFICES ASSUME DaemonInv, NEW d \in Daemons, Exit(d), NEW n \in Sockets
               PROVE  path[n] # d
    OBVIOUS
  <2> QED BY DEF DaemonInv, PathIsOpen, Exit, Up
<1> QED BY <1>1, DaemonInvariant, PTL DEF Spec, ExitLeavesNoSocket
-----------------------------------------------------------------------------
(* The steps of the supervisors.                                           *)

LEMMA Zeroes == 0 \in 0..StaleGrace /\ 0 \in 0..2 * StaleGrace
BY HostAssumption

LEMMA SessionFields ==
    ASSUME Agent!TypeOK, NEW s \in Sessions
    PROVE  /\ dir[s] \in Agent!Dir /\ proc[s] \in Agent!Proc /\ sweeping[s] \in Agent!Sweep
           /\ dir[s].there \in BOOLEAN /\ dir[s].age \in 0..2 * StaleGrace
           /\ dir[s].sock \in {"none", "bound", "live"}
           /\ proc[s].step \in Agent!Steps /\ proc[s].hups \in 0..2 /\ proc[s].terms \in 0..2
           /\ sweeping[s].left \in SUBSET Sessions /\ sweeping[s].at \in Sessions \cup {None}
           /\ sweeping[s].step \in {"stat", "dial", "remove"}
           /\ sweeping[s].lag \in 0..StaleGrace /\ sweeping[s].doomed \in SUBSET Sessions
<1>1. dir[s] \in Agent!Dir /\ proc[s] \in Agent!Proc /\ sweeping[s] \in Agent!Sweep
  BY DEF Agent!TypeOK
<1> QED BY <1>1 DEF Agent!Dir, Agent!Proc, Agent!Sweep

\* A supervisor takes a step.
LEMMA GoesOn ==
    ASSUME Agent!TypeOK, NEW s \in Sessions, NEW step \in Agent!Steps, Agent!Goes(s, step)
    PROVE  /\ proc' \in [Sessions -> Agent!Proc]
           /\ proc'[s].step = step
           /\ \A t \in Sessions \ {s} : proc'[t] = proc[t]
<1>1. [proc[s] EXCEPT !.step = step] \in Agent!Proc
  BY SessionFields DEF Agent!Proc
<1>2. proc' = [proc EXCEPT ![s] = [proc[s] EXCEPT !.step = step]]
  BY DEF Agent!Goes
<1>3. [proc[s] EXCEPT !.step = step].step = step
  BY SessionFields DEF Agent!Proc
<1> QED BY <1>1, <1>2, <1>3 DEF Agent!TypeOK

\* A directory gets a new value.
LEMMA DirBecomes ==
    ASSUME Agent!TypeOK, NEW s \in Sessions, NEW d \in Agent!Dir, dir' = [dir EXCEPT ![s] = d]
    PROVE  /\ dir' \in [Sessions -> Agent!Dir]
           /\ dir'[s] = d
           /\ \A t \in Sessions \ {s} : dir'[t] = dir[t]
BY DEF Agent!TypeOK

LEMMA TouchesDir ==
    ASSUME Agent!TypeOK, NEW s \in Sessions, NEW sock \in {"none", "bound", "live"},
           Agent!Touches(s, sock)
    PROVE  /\ dir' \in [Sessions -> Agent!Dir]
           /\ dir'[s].there = dir[s].there /\ dir'[s].age = 0 /\ dir'[s].sock = sock
           /\ \A t \in Sessions \ {s} : dir'[t] = dir[t]
<1> DEFINE d == [dir[s] EXCEPT !.age = 0, !.sock = sock]
<1>0. dir[s] \in Agent!Dir
  BY SessionFields
<1>1. d \in Agent!Dir /\ d.there = dir[s].there /\ d.age = 0 /\ d.sock = sock
  BY <1>0, Zeroes DEF Agent!Dir
<1>2. dir' = [dir EXCEPT ![s] = d]
  BY DEF Agent!Touches
<1> HIDE DEF d
<1> QED BY <1>1, <1>2, DirBecomes

LEMMA RecordTypes ==
    /\ Agent!NoDir \in Agent!Dir
    /\ Agent!NoSweep \in Agent!Sweep
    /\ [Agent!NoDir EXCEPT !.there = TRUE] \in Agent!Dir
BY Zeroes DEF Agent!NoDir, Agent!NoSweep, Agent!Dir, Agent!Sweep

\* A sweep gets a new value.
LEMMA SweepBecomes ==
    ASSUME Agent!TypeOK, NEW s \in Sessions, NEW w \in Agent!Sweep,
           sweeping' = [sweeping EXCEPT ![s] = w]
    PROVE  /\ sweeping' \in [Sessions -> Agent!Sweep]
           /\ sweeping'[s] = w
           /\ \A t \in Sessions \ {s} : sweeping'[t] = sweeping[t]
BY DEF Agent!TypeOK
\* A step of one supervisor, or of its relay or child, that leaves everything
\* of the others alone.
LocalTo(s) ==
    \A t \in Sessions \ {s} :
        /\ dir'[t] = dir[t] /\ proc'[t] = proc[t] /\ relay'[t] = relay[t]
        /\ child'[t] = child[t] /\ sweeping'[t] = sweeping[t]

\* What the sweeps of others rely on: a session past listen does not open
\* again, one out of use does not come into use, a dead one stays as it is.
Forward(s) ==
    /\ proc[s].step \notin Early \cup Opening =>
          /\ proc'[s].step \notin Early \cup Opening
          /\ Agent!InUse(s)' => Agent!InUse(s)
    /\ proc[s].step = "crashed" => proc'[s].step = "crashed" /\ dir'[s] = dir[s]

LEMMA LocalStepKeeps ==
    ASSUME SessionInv, NEW s \in Sessions, Agent!TypeOK', LocalTo(s), Forward(s),
           Stage(s)', Protected(s)', Found(s)', Doomed(s)'
    PROVE  SessionInv'
<1> SUFFICES ASSUME NEW t \in Sessions, t # s
             PROVE  Stage(t)' /\ Protected(t)' /\ Found(t)' /\ Doomed(t)'
  BY DEF SessionInv
<1>0. Stage(t) /\ Protected(t) /\ Found(t) /\ Doomed(t)
  BY DEF SessionInv
<1>1. Stage(t)'
  BY <1>0 DEF LocalTo, Stage
<1>2. Protected(t)'
  BY <1>0 DEF LocalTo, Protected, Agent!InUse
<1>3. Found(t)'
  <2>0. sweeping'[t] = sweeping[t] /\ proc'[t] = proc[t]
    BY DEF LocalTo
  <2>1. SUFFICES ASSUME NEW e \in Sessions, proc[t].step = "sweep", sweeping[t].at = e
                 PROVE  /\ sweeping[t].step \in {"dial", "remove"} =>
                              proc'[e].step \notin Early \cup Opening
                        /\ sweeping[t].step = "remove" => ~Agent!InUse(e)'
    BY <2>0 DEF Found
  <2>2. /\ sweeping[t].step \in {"dial", "remove"} => proc[e].step \notin Early \cup Opening
        /\ sweeping[t].step = "remove" => ~Agent!InUse(e)
    BY <1>0, <2>1 DEF Found
  <2>3. CASE e = s
    BY <2>2, <2>3 DEF Forward
  <2>4. CASE e # s
    BY <2>2, <2>4 DEF LocalTo, Agent!InUse
  <2> QED BY <2>3, <2>4
<1>4. Doomed(t)'
  <2>0. sweeping'[t] = sweeping[t] /\ proc'[t] = proc[t]
    BY DEF LocalTo
  <2>1. \A e \in sweeping[t].doomed :
            e \in Sessions /\ (proc[e].step = "crashed" =>
                                  proc'[e].step = "crashed" /\ dir'[e] = dir[e])
    BY SessionFields DEF SessionInv, Forward, LocalTo
  <2> QED BY <1>0, <2>0, <2>1 DEF Doomed
<1> QED BY <1>1, <1>2, <1>3, <1>4

\* The same for a step after which the supervisor is past its sweep.
LEMMA LaterStepKeeps ==
    ASSUME SessionInv, NEW s \in Sessions, Agent!TypeOK', LocalTo(s), Forward(s),
           Stage(s)', Protected(s)', proc'[s].step \notin {"sweep", "mkdir"}
    PROVE  SessionInv'
BY LocalStepKeeps DEF Found, Doomed
-----------------------------------------------------------------------------
(* A supervisor's startup and its end.                                     *)

LEMMA InvAt ==
    ASSUME SessionInv, NEW s \in Sessions
    PROVE  Agent!TypeOK /\ Stage(s) /\ Protected(s) /\ Found(s) /\ Doomed(s)
BY DEF SessionInv

LEMMA MkdirKeeps ==
    ASSUME SessionInv, NEW s \in Sessions, Agent!Mkdir(s)
    PROVE  SessionInv'
<1> USE InvAt
<1>1. CASE Agent!Goes(s, "credential") /\ dir' = [dir EXCEPT ![s] = [Agent!NoDir EXCEPT !.there = TRUE]]
  <2>1. /\ proc' \in [Sessions -> Agent!Proc] /\ proc'[s].step = "credential"
        /\ \A t \in Sessions \ {s} : proc'[t] = proc[t]
    BY <1>1, GoesOn DEF Agent!Steps
  <2>2. /\ dir' \in [Sessions -> Agent!Dir] /\ dir'[s] = [Agent!NoDir EXCEPT !.there = TRUE]
        /\ \A t \in Sessions \ {s} : dir'[t] = dir[t]
    BY <1>1, DirBecomes, RecordTypes
  <2>3. dir'[s].there /\ dir'[s].age = 0
    BY <2>2 DEF Agent!NoDir
  <2>4. Agent!TypeOK' /\ LocalTo(s) /\ Forward(s)
    BY <2>1, <2>2 DEF Agent!Mkdir, Agent!TypeOK, LocalTo, Forward, Early
  <2>5. Stage(s)' /\ Protected(s)'
    BY <2>1, <2>3, HostAssumption
       DEF Agent!Mkdir, Stage, Protected, Early, Opening, Agent!InUse
  <2> QED BY <2>1, <2>4, <2>5, LaterStepKeeps
<1>2. CASE Agent!Goes(s, "returned") /\ UNCHANGED dir
  <2>1. /\ proc' \in [Sessions -> Agent!Proc] /\ proc'[s].step = "returned"
        /\ \A t \in Sessions \ {s} : proc'[t] = proc[t]
    BY <1>2, GoesOn DEF Agent!Steps
  <2>4. Agent!TypeOK' /\ LocalTo(s) /\ Forward(s)
    BY <1>2, <2>1 DEF Agent!Mkdir, Agent!TypeOK, LocalTo, Forward, Early
  <2>5. Stage(s)' /\ Protected(s)'
    BY <1>2, <2>1 DEF Agent!Mkdir, Stage, Protected, Early, Opening, Agent!InUse
  <2> QED BY <2>1, <2>4, <2>5, LaterStepKeeps
<1> QED BY <1>1, <1>2 DEF Agent!Mkdir

\* A step of the startup that fails: on to the deferred removal.
LEMMA StartupFails ==
    ASSUME SessionInv, NEW s \in Sessions, proc[s].step \in Opening,
           Agent!Goes(s, "cleanup"), UNCHANGED <<dir, relay, child, sweeping>>
    PROVE  SessionInv'
<1> USE InvAt
<1>1. /\ proc' \in [Sessions -> Agent!Proc] /\ proc'[s].step = "cleanup"
      /\ \A t \in Sessions \ {s} : proc'[t] = proc[t]
  BY GoesOn DEF Agent!Steps
<1>2. Agent!TypeOK' /\ LocalTo(s) /\ Forward(s)
  BY <1>1 DEF Agent!TypeOK, LocalTo, Forward, Opening
<1>3. Stage(s)' /\ Protected(s)'
  BY <1>1 DEF Stage, Protected, Early, Opening, Agent!InUse
<1> QED BY <1>1, <1>2, <1>3, LaterStepKeeps

\* A step of the startup that changes the directory.
LEMMA StartupTouches ==
    ASSUME SessionInv, NEW s \in Sessions, proc[s].step \in {"credential", "bind"}, dir[s].there,
           NEW step \in {"bind", "listen"}, Agent!Goes(s, step),
           NEW sock \in {"none", "bound"}, Agent!Touches(s, sock),
           UNCHANGED <<relay, child, sweeping>>
    PROVE  SessionInv'
<1> USE InvAt
<1>1. /\ proc' \in [Sessions -> Agent!Proc] /\ proc'[s].step = step
      /\ \A t \in Sessions \ {s} : proc'[t] = proc[t]
  BY GoesOn DEF Agent!Steps
<1>2. /\ dir' \in [Sessions -> Agent!Dir] /\ dir'[s].there /\ dir'[s].age = 0
      /\ \A t \in Sessions \ {s} : dir'[t] = dir[t]
  BY TouchesDir
<1>3. Agent!TypeOK' /\ LocalTo(s) /\ Forward(s)
  BY <1>1, <1>2 DEF Agent!TypeOK, LocalTo, Forward, Opening
<1>4. Stage(s)' /\ Protected(s)'
  BY <1>1, <1>2, HostAssumption DEF Stage, Protected, Early, Opening, Agent!InUse
<1> QED BY <1>1, <1>3, <1>4, LaterStepKeeps

LEMMA OpeningKeeps ==
    ASSUME SessionInv, NEW s \in Sessions, Agent!WriteCredential(s) \/ Agent!Bind(s)
    PROVE  SessionInv'
BY StartupFails, StartupTouches DEF Agent!WriteCredential, Agent!Bind, Opening

LEMMA ListenKeeps ==
    ASSUME SessionInv, NEW s \in Sessions, Agent!Listen(s)
    PROVE  SessionInv'
<1> USE InvAt
<1>1. /\ proc' \in [Sessions -> Agent!Proc] /\ proc'[s].step = "descriptor"
      /\ \A t \in Sessions \ {s} : proc'[t] = proc[t]
  BY GoesOn DEF Agent!Steps, Agent!Listen
<1>2. dir[s].there
  BY DEF Agent!Listen, Protected, Agent!InUse
<1> DEFINE d == [dir[s] EXCEPT !.sock = "live"]
<1>3. d \in Agent!Dir /\ d.there /\ d.sock = "live"
  <2>1. dir[s] \in Agent!Dir
    BY SessionFields
  <2> QED BY <1>2, <2>1 DEF Agent!Dir
<1>4. dir' = [dir EXCEPT ![s] = d]
  BY <1>2 DEF Agent!Listen
<1> HIDE DEF d
<1>5. /\ dir' \in [Sessions -> Agent!Dir] /\ dir'[s] = d
      /\ \A t \in Sessions \ {s} : dir'[t] = dir[t]
  BY <1>3, <1>4, DirBecomes
<1>6. Agent!TypeOK' /\ LocalTo(s) /\ Forward(s)
  BY <1>1, <1>5 DEF Agent!Listen, Agent!TypeOK, LocalTo, Forward, Opening
<1>7. Stage(s)' /\ Protected(s)'
  BY <1>1, <1>3, <1>5 DEF Agent!Listen, Stage, Protected, Early, Opening, Agent!InUse
<1> QED BY <1>1, <1>6, <1>7, LaterStepKeeps

LEMMA WriteDescriptorKeeps ==
    ASSUME SessionInv, NEW s \in Sessions, Agent!WriteDescriptor(s)
    PROVE  SessionInv'
<1> USE InvAt
<1>1. CASE /\ dir[s].there /\ Agent!Goes(s, "start") /\ Agent!Touches(s, "live")
           /\ relay' = [relay EXCEPT ![s] = "serving"]
  <2>1. /\ proc' \in [Sessions -> Agent!Proc] /\ proc'[s].step = "start"
        /\ \A t \in Sessions \ {s} : proc'[t] = proc[t]
    BY <1>1, GoesOn DEF Agent!Steps
  <2>2. /\ dir' \in [Sessions -> Agent!Dir] /\ dir'[s].there /\ dir'[s].sock = "live"
        /\ \A t \in Sessions \ {s} : dir'[t] = dir[t]
    BY <1>1, TouchesDir
  <2>3. Agent!TypeOK' /\ LocalTo(s) /\ Forward(s)
    BY <1>1, <2>1, <2>2
       DEF Agent!WriteDescriptor, Agent!TypeOK, LocalTo, Forward, Early, Opening, Agent!InUse
  <2>4. Stage(s)' /\ Protected(s)'
    BY <1>1, <2>1, <2>2
       DEF Agent!WriteDescriptor, Agent!TypeOK, Stage, Protected, Early, Opening, Agent!InUse
  <2> QED BY <2>1, <2>3, <2>4, LaterStepKeeps
<1>2. CASE /\ Agent!Goes(s, "cleanup") /\ dir' = [dir EXCEPT ![s].sock = "none"]
           /\ UNCHANGED relay
  <2>1. /\ proc' \in [Sessions -> Agent!Proc] /\ proc'[s].step = "cleanup"
        /\ \A t \in Sessions \ {s} : proc'[t] = proc[t]
    BY <1>2, GoesOn DEF Agent!Steps
  <2>2. /\ dir' \in [Sessions -> Agent!Dir]
        /\ \A t \in Sessions \ {s} : dir'[t] = dir[t]
    <3>1. dir[s] \in Agent!Dir
      BY SessionFields
    <3>2. [dir[s] EXCEPT !.sock = "none"] \in Agent!Dir
      BY <3>1 DEF Agent!Dir
    <3> QED BY <1>2, <3>2 DEF Agent!TypeOK
  <2>3. Agent!TypeOK' /\ LocalTo(s) /\ Forward(s)
    BY <1>2, <2>1, <2>2
       DEF Agent!WriteDescriptor, Agent!TypeOK, LocalTo, Forward, Early, Opening, Agent!InUse
  <2>4. Stage(s)' /\ Protected(s)'
    BY <1>2, <2>1 DEF Agent!WriteDescriptor, Stage, Protected, Early, Opening, Agent!InUse
  <2> QED BY <2>1, <2>3, <2>4, LaterStepKeeps
<1> QED BY <1>1, <1>2 DEF Agent!WriteDescriptor
-----------------------------------------------------------------------------
(* The child, the relay and the select loop.                               *)

Late == {"start", "supervise", "cancel", "terminate", "cleanup"}

\* A step of the supervision that leaves the directory alone.
LEMMA SupervisionStep ==
    ASSUME SessionInv, NEW s \in Sessions, proc[s].step \in Late,
           NEW step \in Late, Agent!Goes(s, step), UNCHANGED <<dir, sweeping>>,
           relay' \in [Sessions -> {"none", "serving", "cancelled", "stopped"}],
           child' \in [Sessions -> {"none", "running", "killed", "exited", "reaped"}],
           \A t \in Sessions \ {s} : relay'[t] = relay[t] /\ child'[t] = child[t],
           relay'[s] = "serving" => relay[s] = "serving",
           step \in {"start", "supervise"} => proc[s].step \in {"start", "supervise"},
           Stage(s)'
    PROVE  SessionInv'
<1> USE InvAt
<1>1. /\ proc' \in [Sessions -> Agent!Proc] /\ proc'[s].step = step
      /\ \A t \in Sessions \ {s} : proc'[t] = proc[t]
  BY GoesOn DEF Agent!Steps, Late
<1>2. Agent!TypeOK' /\ LocalTo(s)
  BY <1>1 DEF Agent!TypeOK, LocalTo
<1>3. Forward(s)
  BY <1>1 DEF Forward, Early, Opening, Late, Agent!InUse
<1>4. Protected(s)'
  BY <1>1 DEF Protected, Early, Opening, Late, Agent!InUse
<1> QED BY <1>1, <1>2, <1>3, <1>4, LaterStepKeeps DEF Late

LEMMA SelectKeeps ==
    ASSUME SessionInv, NEW s \in Sessions,
           \/ Agent!StartChild(s) \/ Agent!ChildDone(s) \/ Agent!AwaitRelay(s)
           \/ Agent!RelayDone(s) \/ Agent!Reap(s)
    PROVE  SessionInv'
<1> USE InvAt DEF Agent!TypeOK, Stage, Early, Opening, Late
<1>1. CASE Agent!StartChild(s)
  <2>1. PICK step \in {"supervise", "cancel"} : Agent!Goes(s, step)
    BY <1>1 DEF Agent!StartChild
  <2>2. proc'[s].step = step
    BY <2>1, GoesOn DEF Agent!Steps
  <2>3. Stage(s)'
    BY <1>1, <2>1, <2>2, GoesOn DEF Agent!StartChild, Agent!Steps
  <2> QED BY <1>1, <2>1, <2>3, SupervisionStep DEF Agent!StartChild
<1>2. CASE Agent!ChildDone(s)
  <2>2. proc'[s].step = "cancel"
    BY <1>2, GoesOn DEF Agent!Steps, Agent!ChildDone
  <2>3. Stage(s)'
    BY <1>2, <2>2 DEF Agent!ChildDone
  <2> QED BY <1>2, <2>3, SupervisionStep DEF Agent!ChildDone
<1>3. CASE Agent!AwaitRelay(s)
  <2>2. proc'[s].step = "cleanup"
    BY <1>3, GoesOn DEF Agent!Steps, Agent!AwaitRelay
  <2>3. Stage(s)'
    BY <1>3, <2>2 DEF Agent!AwaitRelay
  <2> QED BY <1>3, <2>3, SupervisionStep DEF Agent!AwaitRelay
<1>4. CASE Agent!RelayDone(s)
  <2>2. proc'[s].step = "terminate"
    BY <1>4, GoesOn DEF Agent!Steps, Agent!RelayDone
  <2>3. Stage(s)'
    BY <1>4, <2>2 DEF Agent!RelayDone
  <2> QED BY <1>4, <2>3, SupervisionStep DEF Agent!RelayDone
<1>5. CASE Agent!Reap(s)
  <2>2. proc'[s].step = "cleanup"
    BY <1>5, GoesOn DEF Agent!Steps, Agent!Reap
  <2>3. Stage(s)'
    BY <1>5, <2>2 DEF Agent!Reap
  <2> QED BY <1>5, <2>3, SupervisionStep DEF Agent!Reap
<1> QED BY <1>1, <1>2, <1>3, <1>4, <1>5

\* A step that changes a child or a relay and no supervisor's step.
LEMMA BesideStep ==
    ASSUME SessionInv, NEW s \in Sessions, UNCHANGED sweeping,
           dir' \in [Sessions -> Agent!Dir], proc' \in [Sessions -> Agent!Proc],
           proc'[s].step = proc[s].step,
           dir'[s].there = dir[s].there,
           proc[s].step = "crashed" => dir'[s] = dir[s],
           relay' \in [Sessions -> {"none", "serving", "cancelled", "stopped"}],
           child' \in [Sessions -> {"none", "running", "killed", "exited", "reaped"}],
           \A t \in Sessions \ {s} :
              relay'[t] = relay[t] /\ child'[t] = child[t] /\ dir'[t] = dir[t] /\ proc'[t] = proc[t],
           relay'[s] = "serving" => relay[s] = "serving" /\ dir'[s] = dir[s],
           relay[s] = "none" => dir'[s] = dir[s],
           Stage(s)'
    PROVE  SessionInv'
<1> USE InvAt
<1>1. Agent!TypeOK' /\ LocalTo(s)
  BY DEF Agent!TypeOK, LocalTo
<1>2. Forward(s)
  BY DEF Forward, Early, Opening, Agent!InUse
<1>3. Protected(s)'
  BY DEF Protected, Stage, Early, Opening, Agent!InUse
<1>4. Found(s)'
  <2> SUFFICES ASSUME NEW e \in Sessions, proc[s].step = "sweep", sweeping[s].at = e
               PROVE  /\ sweeping[s].step \in {"dial", "remove"} =>
                            proc'[e].step \notin Early \cup Opening
                      /\ sweeping[s].step = "remove" => ~Agent!InUse(e)'
    BY DEF Found
  <2>1. CASE e # s
    BY <2>1 DEF Found, Agent!InUse
  <2>2. CASE e = s
    BY <2>2 DEF Found, Early
  <2> QED BY <2>1, <2>2
<1>5. Doomed(s)'
  <2>1. sweeping[s].doomed \subseteq Sessions
    BY SessionFields
  <2> QED BY <2>1 DEF Doomed
<1> QED BY <1>1, <1>2, <1>3, <1>4, <1>5, LocalStepKeeps

LEMMA ChildKeeps ==
    ASSUME SessionInv, NEW s \in Sessions,
           \/ \E state \in {"running", "killed"} : Agent!ChildExits(s, state)
           \/ Agent!GraceEnds(s) \/ Agent!CancelRelay(s)
    PROVE  SessionInv'
<1> USE InvAt DEF Agent!TypeOK
<1>1. Stage(s)'
  BY DEF Stage, Agent!ChildExits, Agent!GraceEnds, Agent!CancelRelay, Agent!CancelsRelay,
         Early, Opening
<1> QED BY <1>1, BesideStep
        DEF Agent!ChildExits, Agent!GraceEnds, Agent!CancelRelay, Agent!CancelsRelay

LEMMA SignalKeeps ==
    ASSUME SessionInv, NEW s \in Sessions, Agent!Hangup(s) \/ Agent!Terminate(s)
    PROVE  SessionInv'
<1> USE InvAt
<1>1. proc[s] \in Agent!Proc /\ proc[s].hups \in 0..2 /\ proc[s].terms \in 0..2
  BY SessionFields
<1>2. PICK p \in Agent!Proc : proc' = [proc EXCEPT ![s] = p] /\ p.step = proc[s].step
  <2>1. CASE Agent!Hangup(s)
    <3> DEFINE p == [proc[s] EXCEPT !.hups = proc[s].hups + 1]
    <3>1. p \in Agent!Proc /\ p.step = proc[s].step
      BY <1>1, <2>1 DEF Agent!Proc, Agent!Hangup, Agent!Signalled
    <3>2. proc' = [proc EXCEPT ![s] = p]
      BY <2>1 DEF Agent!Hangup
    <3> QED BY <3>1, <3>2
  <2>2. CASE Agent!Terminate(s)
    <3> DEFINE p == [proc[s] EXCEPT !.terms = proc[s].terms + 1]
    <3>1. p \in Agent!Proc /\ p.step = proc[s].step
      BY <1>1, <2>2 DEF Agent!Proc, Agent!Terminate, Agent!Signalled
    <3>2. proc' = [proc EXCEPT ![s] = p]
      BY <2>2 DEF Agent!Terminate
    <3> QED BY <3>1, <3>2
  <2> QED BY <2>1, <2>2
<1>3. PICK count : Agent!Signalled(s, count)
  BY DEF Agent!Hangup, Agent!Terminate
<1>4. /\ proc' \in [Sessions -> Agent!Proc] /\ proc'[s].step = proc[s].step
      /\ \A t \in Sessions \ {s} : proc'[t] = proc[t]
  BY <1>2 DEF Agent!TypeOK
<1>5. /\ child' \in [Sessions -> {"none", "running", "killed", "exited", "reaped"}]
      /\ \A t \in Sessions \ {s} : child'[t] = child[t]
      /\ child'[s] = child[s] \/ child'[s] = "killed"
      /\ proc[s].step = "supervise" /\ UNCHANGED <<dir, relay, sweeping>>
  BY <1>3 DEF Agent!Signalled, Agent!TypeOK
<1>6. Stage(s)'
  BY <1>4, <1>5 DEF Stage, Early, Opening
<1> QED BY <1>4, <1>5, <1>6, BesideStep DEF Agent!TypeOK

LEMMA RelayStopsKeeps ==
    ASSUME SessionInv, NEW s \in Sessions, NEW state \in {"serving", "cancelled"},
           Agent!RelayStops(s, state)
    PROVE  SessionInv'
<1> USE InvAt
<1>1. /\ dir' \in [Sessions -> Agent!Dir] /\ dir'[s].there = dir[s].there
      /\ \A t \in Sessions \ {s} : dir'[t] = dir[t]
  BY TouchesDir DEF Agent!RelayStops, Agent!TypeOK
<1>2. /\ relay' \in [Sessions -> {"none", "serving", "cancelled", "stopped"}]
      /\ relay'[s] = "stopped" /\ \A t \in Sessions \ {s} : relay'[t] = relay[t]
      /\ relay[s] = state /\ UNCHANGED <<proc, child, sweeping>>
  BY DEF Agent!RelayStops, Agent!TypeOK
<1>3. Stage(s)' /\ proc[s].step # "crashed"
  BY <1>1, <1>2 DEF Stage, Early, Opening
<1> QED BY <1>1, <1>2, <1>3, BesideStep DEF Agent!TypeOK
LEMMA CleanupKeeps ==
    ASSUME SessionInv, NEW s \in Sessions, Agent!Cleanup(s)
    PROVE  SessionInv'
<1> USE InvAt
<1>1. /\ proc' \in [Sessions -> Agent!Proc] /\ proc'[s].step = "returned"
      /\ \A t \in Sessions \ {s} : proc'[t] = proc[t]
  BY GoesOn DEF Agent!Steps, Agent!Cleanup
<1>2. /\ dir' \in [Sessions -> Agent!Dir] /\ ~dir'[s].there
      /\ \A t \in Sessions \ {s} : dir'[t] = dir[t]
  BY DirBecomes, RecordTypes DEF Agent!Cleanup, Agent!NoDir
<1>3. Agent!TypeOK' /\ LocalTo(s) /\ Forward(s)
  BY <1>1, <1>2 DEF Agent!Cleanup, Agent!TypeOK, LocalTo, Forward, Early, Opening, Agent!InUse
<1>4. Stage(s)' /\ Protected(s)'
  BY <1>1, <1>2 DEF Agent!Cleanup, Stage, Protected, Early, Opening, Agent!InUse
<1> QED BY <1>1, <1>3, <1>4, LaterStepKeeps

LEMMA CrashKeeps ==
    ASSUME SessionInv, NEW s \in Sessions, Agent!Crash(s)
    PROVE  SessionInv'
<1> USE InvAt
<1>1. /\ proc' \in [Sessions -> Agent!Proc] /\ proc'[s].step = "crashed"
      /\ \A t \in Sessions \ {s} : proc'[t] = proc[t]
      /\ proc[s].step # "crashed"
  BY GoesOn DEF Agent!Steps, Agent!Crash, Agent!Running, Agent!Ended
<1> DEFINE d == [dir[s] EXCEPT !.sock = IF dir[s].sock = "live" THEN "bound" ELSE dir[s].sock]
<1>2. d \in Agent!Dir /\ d.sock # "live"
  <2>1. dir[s] \in Agent!Dir
    BY SessionFields
  <2> QED BY <2>1 DEF Agent!Dir
<1>3. dir' = [dir EXCEPT ![s] = d]
  BY DEF Agent!Crash
<1> HIDE DEF d
<1>4. /\ dir' \in [Sessions -> Agent!Dir] /\ dir'[s].sock # "live"
      /\ \A t \in Sessions \ {s} : dir'[t] = dir[t]
  BY <1>2, <1>3, DirBecomes
<1>5. /\ sweeping' \in [Sessions -> Agent!Sweep]
      /\ \A t \in Sessions \ {s} : sweeping'[t] = sweeping[t]
  BY SweepBecomes, RecordTypes DEF Agent!Crash
<1>6. Agent!TypeOK' /\ LocalTo(s) /\ Forward(s)
  BY <1>1, <1>4, <1>5
     DEF Agent!Crash, Agent!TypeOK, LocalTo, Forward, Early, Opening, Agent!InUse
<1>7. Stage(s)' /\ Protected(s)'
  BY <1>1, <1>4 DEF Agent!Crash, Agent!TypeOK, Stage, Protected, Early, Opening, Agent!InUse
<1> QED BY <1>1, <1>6, <1>7, LaterStepKeeps

-----------------------------------------------------------------------------
(* The sweep, and time.                                                    *)

\* The list is read: it holds what is dead and old.
LEMMA BeginKeeps ==
    ASSUME SessionInv, NEW s \in Sessions, Agent!Begin(s)
    PROVE  SessionInv'
<1> USE InvAt
<1>1. /\ proc' \in [Sessions -> Agent!Proc] /\ proc'[s].step = "sweep"
      /\ \A t \in Sessions \ {s} : proc'[t] = proc[t]
  BY GoesOn DEF Agent!Steps, Agent!Begin
<1> DEFINE old == {e \in Sessions : Agent!Dead(e) /\ dir[e].age >= StaleGrace}
           w == [Agent!NoSweep EXCEPT !.left = Agent!Present, !.doomed = old]
<1>2. /\ w \in Agent!Sweep /\ w.left = Agent!Present /\ w.doomed = old /\ w.lag = 0
      /\ w.at = None
  <2>1. Agent!Present \subseteq Sessions /\ old \subseteq Sessions
    BY DEF Agent!Present
  <2> HIDE DEF old
  <2> QED BY <2>1, Zeroes DEF Agent!NoSweep, Agent!Sweep
<1>3. sweeping' = [sweeping EXCEPT ![s] = w]
  BY DEF Agent!Begin
<1> HIDE DEF w
<1>4. /\ sweeping' \in [Sessions -> Agent!Sweep] /\ sweeping'[s] = w
      /\ \A t \in Sessions \ {s} : sweeping'[t] = sweeping[t]
  BY <1>2, <1>3, SweepBecomes
<1>5. Agent!TypeOK' /\ LocalTo(s) /\ Forward(s)
  BY <1>1, <1>4 DEF Agent!Begin, Agent!TypeOK, LocalTo, Forward, Early
<1>6. Stage(s)' /\ Protected(s)'
  BY <1>1 DEF Agent!Begin, Stage, Protected, Early, Opening, Agent!InUse
<1>7. Found(s)'
  BY <1>1, <1>2, <1>4, HostAssumption DEF Found
<1>8. Doomed(s)'
  <2>1. ASSUME NEW e \in old
        PROVE  /\ e # s /\ proc[e].step = "crashed" /\ dir[e].there /\ e \in Agent!Present
               /\ dir[e].age - 0 >= StaleGrace
    BY SessionFields, HostAssumption DEF Agent!Dead, Agent!Present, Stage, Early, Agent!Begin
  <2>2. \A e \in old : proc'[e].step = "crashed"
    BY <1>1, <2>1
  <2> HIDE DEF old
  <2> QED BY <1>1, <1>2, <1>4, <2>1, <2>2 DEF Doomed, Agent!Begin
<1> QED BY <1>5, <1>6, <1>7, <1>8, LocalStepKeeps

\* A step of the sweep that changes only what is known of it.
LEMMA SweepStepKeeps ==
    ASSUME SessionInv, NEW s \in Sessions, proc[s].step = "sweep", NEW w \in Agent!Sweep,
           sweeping' = [sweeping EXCEPT ![s] = w], UNCHANGED <<dir, proc, relay, child>>,
           Found(s)', Doomed(s)'
    PROVE  SessionInv'
<1> USE InvAt
<1>1. /\ sweeping' \in [Sessions -> Agent!Sweep]
      /\ \A t \in Sessions \ {s} : sweeping'[t] = sweeping[t]
  BY SweepBecomes
<1>2. Agent!TypeOK' /\ LocalTo(s) /\ Forward(s)
  BY <1>1 DEF Agent!TypeOK, LocalTo, Forward, Early, Agent!InUse
<1>3. Stage(s)' /\ Protected(s)'
  BY DEF Stage, Protected, Agent!InUse
<1> QED BY <1>2, <1>3, LocalStepKeeps

LEMMA SweepNextKeeps ==
    ASSUME SessionInv, NEW s \in Sessions, Agent!SweepNext(s)
    PROVE  SessionInv'
<1> USE InvAt
<1>1. PICK e \in sweeping[s].left :
          sweeping' = [sweeping EXCEPT ![s] =
              [sweeping[s] EXCEPT !.left = sweeping[s].left \ {e}, !.at = e, !.step = "stat"]]
  BY DEF Agent!SweepNext
<1> DEFINE w == [sweeping[s] EXCEPT !.left = sweeping[s].left \ {e}, !.at = e, !.step = "stat"]
<1>2. sweeping[s] \in Agent!Sweep /\ e \in Sessions /\ sweeping[s].left \subseteq Sessions
  BY SessionFields
<1>3. /\ w \in Agent!Sweep /\ w.left = sweeping[s].left \ {e} /\ w.at = e /\ w.step = "stat"
      /\ w.doomed = sweeping[s].doomed /\ w.lag = sweeping[s].lag
  BY <1>2 DEF Agent!Sweep
<1>4. sweeping' = [sweeping EXCEPT ![s] = w]
  BY <1>1
<1> HIDE DEF w
<1>5. sweeping'[s] = w
  BY <1>3, <1>4, SweepBecomes
<1>6. Found(s)'
  BY <1>3, <1>5 DEF Found
<1>7. Doomed(s)'
  <2>1. \A x \in sweeping[s].doomed : x \in Sessions /\ x # None
    BY SessionFields, HostAssumption
  <2> QED BY <1>3, <1>5, <2>1 DEF Doomed, Agent!SweepNext
<1> QED BY <1>3, <1>4, <1>6, <1>7, SweepStepKeeps DEF Agent!SweepNext

\* A step on the directory in hand, by what it leaves in hand.
Turns(s, at, step) ==
    \E w \in Agent!Sweep :
        /\ sweeping' = [sweeping EXCEPT ![s] = w] /\ sweeping'[s] = w
        /\ w.at = at /\ w.step = step
        /\ w.left = sweeping[s].left /\ w.doomed = sweeping[s].doomed
        /\ w.lag = sweeping[s].lag

LEMMA SkipsTurns ==
    ASSUME Agent!TypeOK, NEW s \in Sessions, Agent!Skips(s)
    PROVE  Turns(s, None, sweeping[s].step)
<1> DEFINE w == [sweeping[s] EXCEPT !.at = None]
<1>0. sweeping[s] \in Agent!Sweep
  BY SessionFields
<1>1. /\ w \in Agent!Sweep /\ w.at = None /\ w.step = sweeping[s].step
      /\ w.left = sweeping[s].left /\ w.doomed = sweeping[s].doomed
      /\ w.lag = sweeping[s].lag
  BY <1>0 DEF Agent!Sweep
<1>2. sweeping' = [sweeping EXCEPT ![s] = w]
  BY DEF Agent!Skips
<1> HIDE DEF w
<1> QED BY <1>1, <1>2, SweepBecomes DEF Turns

LEMMA HandlesTurns ==
    ASSUME Agent!TypeOK, NEW s \in Sessions, NEW step \in {"dial", "remove"},
           Agent!Handles(s, step)
    PROVE  Turns(s, sweeping[s].at, step)
<1> DEFINE w == [sweeping[s] EXCEPT !.step = step]
<1>0. sweeping[s] \in Agent!Sweep
  BY SessionFields
<1>1. /\ w \in Agent!Sweep /\ w.at = sweeping[s].at /\ w.step = step
      /\ w.left = sweeping[s].left /\ w.doomed = sweeping[s].doomed
      /\ w.lag = sweeping[s].lag
  BY <1>0 DEF Agent!Sweep
<1>2. sweeping' = [sweeping EXCEPT ![s] = w]
  BY DEF Agent!Handles
<1> HIDE DEF w
<1> QED BY <1>1, <1>2, SweepBecomes DEF Turns

\* An old directory is of a session past listen, whose age protects it no
\* more; what is skipped was not doomed.
LEMMA SweepStatKeeps ==
    ASSUME SessionInv, NEW s \in Sessions, Agent!SweepStat(s)
    PROVE  SessionInv'
<1> USE InvAt
<1>e. PICK e \in Sessions : e = sweeping[s].at
  BY SessionFields DEF Agent!SweepStat
<1>0. /\ proc[s].step = "sweep" /\ sweeping[s].step = "stat"
      /\ UNCHANGED <<dir, proc, relay, child>>
  BY DEF Agent!SweepStat
<1>1. CASE dir[e].there /\ Agent!Old(s, e)
  <2>1. PICK w \in Agent!Sweep :
            /\ sweeping' = [sweeping EXCEPT ![s] = w] /\ sweeping'[s] = w
            /\ w.at = e /\ w.step = "dial"
            /\ w.left = sweeping[s].left /\ w.doomed = sweeping[s].doomed
            /\ w.lag = sweeping[s].lag
    BY <1>e, <1>1, HandlesTurns DEF Agent!SweepStat, Turns
  <2>2. proc[e].step \notin Early \cup Opening
    BY <1>0, <1>1, SessionFields, HostAssumption DEF Stage, Protected, Agent!Old
  <2>3. Found(s)'
    BY <1>0, <2>1, <2>2 DEF Found
  <2>4. Doomed(s)'
    BY <1>e, <1>0, <2>1 DEF Doomed
  <2> QED BY <1>0, <2>1, <2>3, <2>4, SweepStepKeeps
<1>2. CASE ~(dir[e].there /\ Agent!Old(s, e))
  <2>1. PICK w \in Agent!Sweep :
            /\ sweeping' = [sweeping EXCEPT ![s] = w] /\ sweeping'[s] = w
            /\ w.at = None
            /\ w.left = sweeping[s].left /\ w.doomed = sweeping[s].doomed
            /\ w.lag = sweeping[s].lag
    BY <1>e, <1>2, SkipsTurns DEF Agent!SweepStat, Turns
  <2>3. Found(s)'
    BY <1>0, <2>1, HostAssumption DEF Found
  <2>4. Doomed(s)'
    BY <1>e, <1>0, <1>2, <2>1 DEF Doomed, Agent!Old
  <2> QED BY <1>0, <2>1, <2>3, <2>4, SweepStepKeeps
<1> QED BY <1>1, <1>2

\* A session past listen that does not answer is out of use; a doomed one
\* does not answer.
LEMMA SweepDialKeeps ==
    ASSUME SessionInv, NEW s \in Sessions, Agent!SweepDial(s)
    PROVE  SessionInv'
<1> USE InvAt
<1>e. PICK e \in Sessions : e = sweeping[s].at
  BY SessionFields DEF Agent!SweepDial
<1>0. /\ proc[s].step = "sweep" /\ sweeping[s].step = "dial"
      /\ UNCHANGED <<dir, proc, relay, child>>
  BY DEF Agent!SweepDial
<1>1. CASE Agent!Refuses(e)
  <2>1. PICK w \in Agent!Sweep :
            /\ sweeping' = [sweeping EXCEPT ![s] = w] /\ sweeping'[s] = w
            /\ w.at = e /\ w.step = "remove"
            /\ w.left = sweeping[s].left /\ w.doomed = sweeping[s].doomed
            /\ w.lag = sweeping[s].lag
    BY <1>e, <1>1, HandlesTurns DEF Agent!SweepDial, Turns
  <2>2. proc[e].step \notin Early \cup Opening
    BY <1>e, <1>0 DEF Found
  <2>3. ~Agent!InUse(e)
    BY <1>1, <2>2 DEF Protected, Agent!Refuses
  <2>4. ~Agent!InUse(e)'
    BY <1>0, <2>3 DEF Agent!InUse
  <2>5. Found(s)'
    BY <1>0, <2>1, <2>2, <2>4 DEF Found
  <2>6. Doomed(s)'
    BY <1>e, <1>0, <2>1 DEF Doomed
  <2> QED BY <1>0, <2>1, <2>5, <2>6, SweepStepKeeps
<1>2. CASE ~Agent!Refuses(e)
  <2>1. PICK w \in Agent!Sweep :
            /\ sweeping' = [sweeping EXCEPT ![s] = w] /\ sweeping'[s] = w
            /\ w.at = None
            /\ w.left = sweeping[s].left /\ w.doomed = sweeping[s].doomed
            /\ w.lag = sweeping[s].lag
    BY <1>e, <1>2, SkipsTurns DEF Agent!SweepDial, Turns
  <2>2. e \notin sweeping[s].doomed
    BY <1>0, <1>2 DEF Doomed, Stage, Agent!Refuses
  <2>3. Found(s)'
    BY <1>0, <2>1, HostAssumption DEF Found
  <2>4. Doomed(s)'
    BY <1>e, <1>0, <2>1, <2>2 DEF Doomed
  <2> QED BY <1>0, <2>1, <2>3, <2>4, SweepStepKeeps
<1> QED BY <1>1, <1>2

LEMMA SweepEndsKeeps ==
    ASSUME SessionInv, NEW s \in Sessions, Agent!SweepEnds(s)
    PROVE  SessionInv'
<1> USE InvAt
<1>1. /\ proc' \in [Sessions -> Agent!Proc] /\ proc'[s].step = "mkdir"
      /\ \A t \in Sessions \ {s} : proc'[t] = proc[t]
  BY GoesOn DEF Agent!Steps, Agent!SweepEnds
<1>2. Agent!TypeOK' /\ LocalTo(s) /\ Forward(s)
  BY <1>1 DEF Agent!SweepEnds, Agent!TypeOK, LocalTo, Forward, Early
<1>3. Stage(s)' /\ Protected(s)'
  BY <1>1 DEF Agent!SweepEnds, Stage, Protected, Early, Opening, Agent!InUse
<1>4. Found(s)'
  BY <1>1 DEF Found
<1>5. Doomed(s)'
  <2>1. \A e \in sweeping[s].doomed : e \in Sessions /\ e # None /\ e # s
    BY SessionFields, HostAssumption DEF Doomed, Agent!SweepEnds
  <2> QED BY <1>1, <2>1 DEF Doomed, Agent!SweepEnds
<1> QED BY <1>2, <1>3, <1>4, <1>5, LocalStepKeeps

\* The one step that reaches into another's directory.
LEMMA SweepRemoveKeeps ==
    ASSUME SessionInv, NEW s \in Sessions, Agent!SweepRemove(s)
    PROVE  SessionInv'
<1> USE InvAt
<1>e. PICK e \in Sessions : e = sweeping[s].at
  BY SessionFields DEF Agent!SweepRemove
<1>0. /\ proc[s].step = "sweep" /\ sweeping[s].step = "remove"
      /\ UNCHANGED <<proc, relay, child>>
  BY DEF Agent!SweepRemove
<1>1. PICK w \in Agent!Sweep :
          /\ sweeping' = [sweeping EXCEPT ![s] = w] /\ sweeping'[s] = w
          /\ w.at = None
          /\ w.left = sweeping[s].left /\ w.doomed = sweeping[s].doomed
          /\ w.lag = sweeping[s].lag
  BY SkipsTurns DEF Agent!SweepRemove, Turns
<1>2. /\ dir' \in [Sessions -> Agent!Dir] /\ dir'[e] = Agent!NoDir
      /\ \A t \in Sessions \ {e} : dir'[t] = dir[t]
  BY <1>e, DirBecomes, RecordTypes DEF Agent!SweepRemove
<1>3. ~dir'[e].there /\ dir'[e].sock # "live"
  BY <1>2 DEF Agent!NoDir
<1>4. /\ sweeping' \in [Sessions -> Agent!Sweep]
      /\ \A t \in Sessions \ {s} : sweeping'[t] = sweeping[t]
  BY <1>1, SweepBecomes
<1>5. proc[e].step \notin Early \cup Opening /\ ~Agent!InUse(e)
  BY <1>e, <1>0 DEF Found
<1>6. \A t \in Sessions : Agent!InUse(t)' <=> Agent!InUse(t)
  BY <1>0 DEF Agent!InUse
<1>7. Agent!TypeOK'
  BY <1>0, <1>2, <1>4 DEF Agent!TypeOK
<1>8. ASSUME NEW t \in Sessions
      PROVE  Stage(t)' /\ Protected(t)'
  <2>1. CASE t = e
    BY <1>0, <1>3, <1>5, <1>6, <2>1 DEF Stage, Protected
  <2>2. CASE t # e
    BY <1>0, <1>2, <1>6, <2>2 DEF Stage, Protected
  <2> QED BY <2>1, <2>2
<1>9. ASSUME NEW t \in Sessions
      PROVE  Found(t)'
  <2>1. CASE t = s
    BY <1>0, <1>1, <2>1, HostAssumption DEF Found
  <2>2. CASE t # s
    BY <1>0, <1>4, <1>6, <2>2 DEF Found
  <2> QED BY <2>1, <2>2
<1>10. ASSUME NEW t \in Sessions
       PROVE  Doomed(t)'
  <2>0. sweeping[t].doomed \subseteq Sessions
    BY SessionFields
  <2>1. CASE t = s
    BY <1>e, <1>0, <1>1, <1>2, <1>3, <2>0, <2>1 DEF Doomed
  <2>2. CASE t # s
    BY <1>0, <1>2, <1>3, <1>4, <2>0, <2>2 DEF Doomed
  <2> QED BY <2>1, <2>2
<1> QED BY <1>7, <1>8, <1>9, <1>10 DEF SessionInv
\* Time passes for the sweeps and for the directories alike, so that what is
\* old by a sweep's clock stays so, and not past the grace of a startup.
LEMMA TickKeeps ==
    ASSUME SessionInv, Agent!Tick
    PROVE  SessionInv'
<1> USE InvAt
<1> DEFINE d(s) == IF dir[s].there THEN [dir[s] EXCEPT !.age = Agent!Older(dir[s].age)]
                   ELSE dir[s]
           w(s) == IF proc[s].step = "sweep"
                   THEN [sweeping[s] EXCEPT !.lag = sweeping[s].lag + 1] ELSE sweeping[s]
<1>1. /\ UNCHANGED <<proc, relay, child>>
      /\ dir' = [s \in Sessions |-> d(s)] /\ sweeping' = [s \in Sessions |-> w(s)]
  BY DEF Agent!Tick
<1>2. ASSUME NEW s \in Sessions
      PROVE  /\ dir[s].age \in Int
             /\ Agent!Older(dir[s].age) \in 0..2 * StaleGrace
             /\ dir[s].age + 1 <= 2 * StaleGrace =>
                   Agent!Older(dir[s].age) = dir[s].age + 1
             /\ dir[s].age + 1 > 2 * StaleGrace => Agent!Older(dir[s].age) = 2 * StaleGrace
             /\ proc[s].step \in Opening => dir[s].age + 1 < StaleGrace
             /\ proc[s].step = "sweep" => sweeping[s].lag + 1 \in 0..StaleGrace
  <2>1. dir[s].age \in 0..2 * StaleGrace /\ sweeping[s].lag \in 0..StaleGrace
    BY SessionFields
  <2>2. /\ proc[s].step \in Opening => dir[s].age + 1 < StaleGrace
        /\ proc[s].step = "sweep" => sweeping[s].lag < StaleGrace
    BY DEF Agent!Tick, Agent!Timely, Agent!Starting, Opening
  <2> QED BY <2>1, <2>2, HostAssumption DEF Agent!Older
<1>3. ASSUME NEW s \in Sessions
      PROVE  /\ d(s) \in Agent!Dir /\ d(s).there = dir[s].there /\ d(s).sock = dir[s].sock
             /\ dir[s].there => d(s).age = Agent!Older(dir[s].age)
  <2>1. dir[s] \in Agent!Dir
    BY SessionFields
  <2> QED BY <1>2, <2>1 DEF Agent!Dir
<1>4. ASSUME NEW s \in Sessions
      PROVE  /\ w(s) \in Agent!Sweep /\ w(s).at = sweeping[s].at /\ w(s).step = sweeping[s].step
             /\ w(s).left = sweeping[s].left /\ w(s).doomed = sweeping[s].doomed
             /\ proc[s].step = "sweep" => w(s).lag = sweeping[s].lag + 1
  <2>1. sweeping[s] \in Agent!Sweep
    BY SessionFields
  <2> QED BY <1>2, <2>1 DEF Agent!Sweep
<1> HIDE DEF d, w
<1>5. \A s \in Sessions : dir'[s] = d(s) /\ sweeping'[s] = w(s)
  BY <1>1
<1>6. Agent!TypeOK'
  BY <1>1, <1>3, <1>4 DEF SessionInv, Agent!TypeOK
<1>7. \A t \in Sessions : Agent!InUse(t)' <=> Agent!InUse(t)
  BY <1>1 DEF Agent!InUse
<1>8. ASSUME NEW s \in Sessions
      PROVE  Stage(s)' /\ Found(s)'
  BY <1>1, <1>3, <1>4, <1>5, <1>7 DEF Stage, Found
<1>9. ASSUME NEW s \in Sessions
      PROVE  Protected(s)'
  <2>1. proc[s].step \in Opening => dir[s].there
    BY DEF Protected, Opening, Agent!InUse
  <2>2. proc[s].step \in Opening => d(s).age < StaleGrace
    BY <1>2, <1>3, <2>1, HostAssumption
  <2> QED BY <1>1, <1>3, <1>5, <1>7, <2>2 DEF Protected
<1>10. ASSUME NEW s \in Sessions
       PROVE  Doomed(s)'
  <2>0. sweeping[s].doomed \subseteq Sessions /\ sweeping[s].lag \in Int
    BY SessionFields
  <2>1. ASSUME NEW e \in sweeping[s].doomed, proc[s].step = "sweep", dir[e].there,
               dir[e].age - sweeping[s].lag >= StaleGrace
        PROVE  d(e).age - w(s).lag >= StaleGrace
    BY <1>2, <1>3, <1>4, <2>0, <2>1, HostAssumption
  <2> QED BY <1>1, <1>3, <1>4, <1>5, <2>0, <2>1 DEF Doomed
<1> QED BY <1>6, <1>8, <1>9, <1>10 DEF SessionInv

LEMMA SessionInvariant == Agent!Spec => []SessionInv
<1>1. Agent!Init => SessionInv
  <2> SUFFICES ASSUME Agent!Init PROVE SessionInv
    OBVIOUS
  <2>1. \A s \in Sessions :
            /\ dir[s] = Agent!NoDir /\ proc[s] = [step |-> "new", hups |-> 0, terms |-> 0]
            /\ relay[s] = "none" /\ child[s] = "none" /\ sweeping[s] = Agent!NoSweep
    BY DEF Agent!Init
  <2>2. Agent!TypeOK
    BY RecordTypes DEF Agent!Init, Agent!TypeOK, Agent!Proc, Agent!Steps
  <2>3. \A s \in Sessions : Stage(s) /\ Protected(s) /\ Found(s) /\ Doomed(s)
    BY <2>1 DEF Stage, Protected, Found, Doomed, Agent!InUse, Agent!NoDir, Early, Opening
  <2> QED BY <2>2, <2>3 DEF SessionInv
<1>2. SessionInv /\ [Agent!Next]_Agent!avars => SessionInv'
  <2> SUFFICES ASSUME SessionInv, [Agent!Next]_Agent!avars PROVE SessionInv'
    OBVIOUS
  <2>1. CASE UNCHANGED Agent!avars
    BY <2>1 DEF Agent!avars, SessionInv, Agent!TypeOK, Stage, Protected, Found, Doomed, Agent!InUse
  <2>2. ASSUME NEW s \in Sessions, Agent!Own(s) PROVE SessionInv'
    BY <2>2, SweepNextKeeps, SweepEndsKeeps, SweepStatKeeps, SweepDialKeeps, SweepRemoveKeeps,
       MkdirKeeps, OpeningKeeps, ListenKeeps, WriteDescriptorKeeps, SelectKeeps, ChildKeeps,
       CleanupKeeps DEF Agent!Own
  <2>3. ASSUME NEW s \in Sessions,
               \/ Agent!Begin(s) \/ Agent!Hangup(s) \/ Agent!Terminate(s) \/ Agent!Crash(s)
               \/ \E state \in {"running", "killed"} : Agent!ChildExits(s, state)
               \/ \E state \in {"serving", "cancelled"} : Agent!RelayStops(s, state)
        PROVE  SessionInv'
    BY <2>3, BeginKeeps, SignalKeeps, CrashKeeps, ChildKeeps, RelayStopsKeeps
  <2> QED BY <2>1, <2>2, <2>3, TickKeeps DEF Agent!Next
<1> QED BY <1>1, <1>2, PTL DEF Agent!Spec

-----------------------------------------------------------------------------
(* The theorems about the supervisors.                                     *)

\* The state of agentsession's Run has its type.
THEOREM SessionTypeCorrect == Agent!Spec => []Agent!TypeOK
BY SessionInvariant, PTL DEF SessionInv

\* sweepStale, for any number of supervisors and any staleGrace: no sweep
\* removes the directory of a session in use, whatever the sweep read before
\* and the session did since.
THEOREM SweepSparesLive == Agent!Spec => []LiveSessionKept
<1>1. SessionInv => LiveSessionKept
  BY DEF SessionInv, Protected, LiveSessionKept, Agent!LiveSessionKept
<1> QED BY <1>1, SessionInvariant, PTL

\* sweepStale leaves nothing of the sessions that were dead and old when it
\* read the clock and the list.
THEOREM SweepTakesDead == Agent!Spec => []SweepComplete
<1>1. SessionInv => SweepComplete
  BY DEF SessionInv, Doomed, SweepComplete, Agent!SweepComplete
<1> QED BY <1>1, SessionInvariant, PTL

\* Run has removed the delegated capability when it returns, on every way out.
THEOREM RunEndsCapability == Agent!Spec => []CapabilityEnds
<1>1. SessionInv => CapabilityEnds
  BY DEF SessionInv, Stage, CapabilityEnds, Agent!CapabilityEnds
<1> QED BY <1>1, SessionInvariant, PTL
=============================================================================
