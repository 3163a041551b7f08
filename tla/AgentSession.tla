---------------------------- MODULE AgentSession ----------------------------
(***************************************************************************)
(* pivb agent-session: Run of internal/agentsession, for several           *)
(* supervisors under one runtime root.  A supervisor sweeps what dead      *)
(* sessions left behind, creates its own directory, listens in it, starts  *)
(* its child and supervises both the child and the relay until one ends.   *)
(*                                                                         *)
(* A session's directory is named by its process: a 128-bit ID is drawn    *)
(* afresh on a collision and is never drawn again later.  The sweep of one *)
(* supervisor interleaves with every step of the others.  A startup or a   *)
(* sweep that took longer than staleGrace, 60 s in the code, would lose    *)
(* its protection, so time is not let past it (Timely); the ages of        *)
(* directories are kept up to twice that.                                  *)
(***************************************************************************)
EXTENDS Integers, FiniteSets

CONSTANTS
    Sessions,     \* supervisors, each run once
    StaleGrace,   \* staleGrace
    None

VARIABLES
    dir,          \* session -> its directory
    proc,         \* session -> the supervisor
    relay,        \* session -> the relay's goroutine
    child,        \* session -> the child
    sweeping      \* session -> the sweep it makes

avars == <<dir, proc, relay, child, sweeping>>

\* A directory: whether it is there, the age of its mtime, and its socket,
\* "bound" when nobody listens on it (yet, or any more).
Dir == [there : BOOLEAN, age : 0..2 * StaleGrace, sock : {"none", "bound", "live"}]

NoDir == [there |-> FALSE, age |-> 0, sock |-> "none"]

\* A supervisor: its step, and how often it was sent each of the signals it
\* acts on.
Steps == {"new", "sweep", "mkdir", "credential", "bind", "listen", "descriptor", "start",
          "supervise", "cancel", "terminate", "cleanup", "returned", "crashed"}

Proc == [step : Steps, hups : 0..2, terms : 0..2]

\* A sweep: the directories listed and not yet seen to, the one in hand with
\* the step it is at, how long ago its clock was read, and, as history, what
\* was dead and old when it began.
Sweep == [left : SUBSET Sessions, at : Sessions \cup {None},
          step : {"stat", "dial", "remove"}, lag : 0..StaleGrace,
          doomed : SUBSET Sessions]

NoSweep == [left |-> {}, at |-> None, step |-> "stat", lag |-> 0, doomed |-> {}]

Goes(s, step) == proc' = [proc EXCEPT ![s].step = step]

Ended == {"returned", "crashed"}
Running(s) == proc[s].step \notin {"new"} \cup Ended

\* A change inside a directory renews its mtime.
Touches(s, sock) == dir' = [dir EXCEPT ![s] = [@ EXCEPT !.age = 0, !.sock = sock]]

-----------------------------------------------------------------------------
(* Time.                                                                   *)

\* Between mkdir and listen a session's directory must not come of age.
Starting(s) == proc[s].step \in {"credential", "bind", "listen"}

Timely ==
    \A s \in Sessions :
        /\ Starting(s) => dir[s].age + 1 < StaleGrace
        /\ proc[s].step = "sweep" => sweeping[s].lag < StaleGrace

Older(age) == IF age < 2 * StaleGrace THEN age + 1 ELSE age

\* Only a sweep looks at the time: it passes as long as one may be made.
Tick ==
    /\ Timely
    /\ \E s \in Sessions : proc[s].step \in {"new", "sweep"}
    /\ dir' = [s \in Sessions |-> IF dir[s].there THEN [dir[s] EXCEPT !.age = Older(@)]
                                  ELSE dir[s]]
    /\ sweeping' = [s \in Sessions |-> IF proc[s].step = "sweep"
                                       THEN [sweeping[s] EXCEPT !.lag = @ + 1]
                                       ELSE sweeping[s]]
    /\ UNCHANGED <<proc, relay, child>>

-----------------------------------------------------------------------------
(* sweepStale.                                                             *)

Present == {s \in Sessions : dir[s].there}

Dead(s) == dir[s].there /\ proc[s].step = "crashed"

\* prepareRoot, and the clock and the list are read.
Begin(s) ==
    /\ proc[s].step = "new"
    /\ Goes(s, "sweep")
    /\ sweeping' = [sweeping EXCEPT ![s] =
           [NoSweep EXCEPT !.left = Present,
                           !.doomed = {e \in Sessions : Dead(e) /\ dir[e].age >= StaleGrace}]]
    /\ UNCHANGED <<dir, relay, child>>

\* The next directory is in hand.
SweepNext(s) ==
    /\ proc[s].step = "sweep"
    /\ sweeping[s].at = None
    /\ \E e \in sweeping[s].left :
          sweeping' = [sweeping EXCEPT ![s].left = @ \ {e}, ![s].at = e, ![s].step = "stat"]
    /\ UNCHANGED <<dir, proc, relay, child>>

SweepEnds(s) ==
    /\ proc[s].step = "sweep"
    /\ sweeping[s].at = None
    /\ sweeping[s].left = {}
    /\ Goes(s, "mkdir")
    /\ UNCHANGED <<dir, relay, child, sweeping>>

Skips(s)     == sweeping' = [sweeping EXCEPT ![s].at = None]
Handles(s, step) == sweeping' = [sweeping EXCEPT ![s].step = step]

OldByNow(s, e) == dir[e].age >= 1     \* mutant: there is next to no grace

\* By the clock that was read when the sweep began.
Old(s, e) == dir[e].age - sweeping[s].lag >= StaleGrace

\* A directory that is gone or young is left alone.
SweepStat(s) ==
    LET e == sweeping[s].at
    IN  /\ proc[s].step = "sweep"
        /\ e # None
        /\ sweeping[s].step = "stat"
        /\ IF dir[e].there /\ Old(s, e) THEN Handles(s, "dial") ELSE Skips(s)
        /\ UNCHANGED <<dir, proc, relay, child>>

RefusesOnlyMissing(e) == dir[e].sock = "none"   \* mutant: ECONNREFUSED says nothing

\* The socket refuses or is not there.
Refuses(e) == dir[e].sock # "live"

\* The session answers, or the probe fails in a way that says nothing.
SweepDial(s) ==
    LET e == sweeping[s].at
    IN  /\ proc[s].step = "sweep"
        /\ e # None
        /\ sweeping[s].step = "dial"
        /\ IF Refuses(e) THEN Handles(s, "remove") ELSE Skips(s)
        /\ UNCHANGED <<dir, proc, relay, child>>

SweepRemove(s) ==
    LET e == sweeping[s].at
    IN  /\ proc[s].step = "sweep"
        /\ e # None
        /\ sweeping[s].step = "remove"
        /\ dir' = [dir EXCEPT ![e] = NoDir]
        /\ Skips(s)
        /\ UNCHANGED <<proc, relay, child>>

-----------------------------------------------------------------------------
(* The startup of a session.                                               *)

\* createSessionDir, or it fails and there is nothing to clean up.
Mkdir(s) ==
    /\ proc[s].step = "mkdir"
    /\ \/ Goes(s, "credential") /\ dir' = [dir EXCEPT ![s] = [NoDir EXCEPT !.there = TRUE]]
       \/ Goes(s, "returned") /\ UNCHANGED dir
    /\ UNCHANGED <<relay, child, sweeping>>

\* Every step in the directory fails when the directory is gone; on an error
\* Run returns through its deferred removal.
WriteCredential(s) ==
    /\ proc[s].step = "credential"
    /\ \/ dir[s].there /\ Goes(s, "bind") /\ Touches(s, "none")
       \/ Goes(s, "cleanup") /\ UNCHANGED dir
    /\ UNCHANGED <<relay, child, sweeping>>

\* uds.Listen: bind makes the socket, which refuses until listen.
Bind(s) ==
    /\ proc[s].step = "bind"
    /\ \/ dir[s].there /\ Goes(s, "listen") /\ Touches(s, "bound")
       \/ Goes(s, "cleanup") /\ UNCHANGED dir
    /\ UNCHANGED <<relay, child, sweeping>>

Listen(s) ==
    /\ proc[s].step = "listen"
    /\ Goes(s, "descriptor")
    /\ dir' = [dir EXCEPT ![s].sock = IF dir[s].there THEN "live" ELSE @]
    /\ UNCHANGED <<relay, child, sweeping>>

\* session.json, and the relay's goroutine; on an error the listener is closed.
WriteDescriptor(s) ==
    /\ proc[s].step = "descriptor"
    /\ \/ /\ dir[s].there
          /\ Goes(s, "start")
          /\ Touches(s, "live")
          /\ relay' = [relay EXCEPT ![s] = "serving"]
       \/ /\ Goes(s, "cleanup")
          /\ dir' = [dir EXCEPT ![s].sock = "none"]
          /\ UNCHANGED relay
    /\ UNCHANGED <<child, sweeping>>

\* cmd.Start.
StartChild(s) ==
    /\ proc[s].step = "start"
    /\ \/ Goes(s, "supervise") /\ child' = [child EXCEPT ![s] = "running"]
       \/ Goes(s, "cancel") /\ UNCHANGED child
    /\ UNCHANGED <<dir, relay, sweeping>>

-----------------------------------------------------------------------------
(* The child and the relay.                                                *)

\* The child ends in the given state: by itself or on a signal passed on to it,
\* or because it was killed.
ChildExits(s, state) ==
    /\ child[s] = state
    /\ child' = [child EXCEPT ![s] = "exited"]
    /\ UNCHANGED <<dir, proc, relay, sweeping>>

\* The relay stops: serving fails, or it was cancelled.  Its socket goes with
\* it, and relayDone has a value.
RelayStops(s, state) ==
    /\ relay[s] = state
    /\ relay' = [relay EXCEPT ![s] = "stopped"]
    /\ IF dir[s].there THEN Touches(s, "none") ELSE UNCHANGED dir
    /\ UNCHANGED <<proc, child, sweeping>>

CancelsRelay(s) ==
    relay' = [relay EXCEPT ![s] = IF @ = "serving" THEN "cancelled" ELSE @]

\* SIGHUP and SIGTERM sent to the supervisor: the first of a kind is passed on,
\* which the child may ignore, the second kills.  SIGINT and SIGQUIT reach the
\* child by themselves.
Signalled(s, count) ==
    /\ proc[s].step = "supervise"
    /\ count < 2
    /\ child' = [child EXCEPT ![s] = IF count = 1 /\ @ = "running" THEN "killed" ELSE @]
    /\ UNCHANGED <<dir, relay, sweeping>>

Hangup(s) ==
    /\ Signalled(s, proc[s].hups)
    /\ proc' = [proc EXCEPT ![s].hups = @ + 1]

SecondIgnored(s) ==       \* mutant: a repeated signal is passed on like the first
    /\ proc[s].step = "supervise"
    /\ proc[s].terms < 2
    /\ proc' = [proc EXCEPT ![s].terms = @ + 1]
    /\ UNCHANGED <<dir, relay, child, sweeping>>

Terminate(s) ==
    /\ Signalled(s, proc[s].terms)
    /\ proc' = [proc EXCEPT ![s].terms = @ + 1]

-----------------------------------------------------------------------------
(* The select loop of Run, and its ends.                                   *)

\* <-childDone.
ChildDone(s) ==
    /\ proc[s].step = "supervise"
    /\ child[s] = "exited"
    /\ child' = [child EXCEPT ![s] = "reaped"]
    /\ Goes(s, "cancel")
    /\ UNCHANGED <<dir, relay, sweeping>>

\* cancelRelay, and <-relayDone.
CancelRelay(s) ==
    /\ proc[s].step = "cancel"
    /\ relay[s] = "serving"
    /\ CancelsRelay(s)
    /\ UNCHANGED <<dir, proc, child, sweeping>>

AwaitRelay(s) ==
    /\ proc[s].step = "cancel"
    /\ relay[s] = "stopped"
    /\ Goes(s, "cleanup")
    /\ UNCHANGED <<dir, relay, child, sweeping>>

\* <-relayDone: terminateChild sends SIGTERM.
RelayDone(s) ==
    /\ proc[s].step = "supervise"
    /\ relay[s] = "stopped"
    /\ Goes(s, "terminate")
    /\ UNCHANGED <<dir, relay, child, sweeping>>

GraceForever(s) == FALSE      \* mutant: the grace has no end

\* relayFailureGrace is over and the child is killed.
GraceEnds(s) ==
    /\ proc[s].step = "terminate"
    /\ child[s] = "running"
    /\ child' = [child EXCEPT ![s] = "killed"]
    /\ UNCHANGED <<dir, proc, relay, sweeping>>

NotReaped(s) ==               \* mutant: Run does not wait for the child
    /\ proc[s].step = "terminate"
    /\ Goes(s, "cleanup")
    /\ UNCHANGED <<dir, relay, child, sweeping>>

\* <-childDone in terminateChild.
Reap(s) ==
    /\ proc[s].step = "terminate"
    /\ child[s] = "exited"
    /\ child' = [child EXCEPT ![s] = "reaped"]
    /\ Goes(s, "cleanup")
    /\ UNCHANGED <<dir, relay, sweeping>>

\* The deferred RemoveAll, and Run returns the child's status.
Cleanup(s) ==
    /\ proc[s].step = "cleanup"
    /\ dir' = [dir EXCEPT ![s] = NoDir]
    /\ Goes(s, "returned")
    /\ UNCHANGED <<relay, child, sweeping>>

\* The supervisor dies: SIGKILL, or a signal before signal.Notify.  Its socket
\* stays and refuses; a child lives on without a relay.
Crash(s) ==
    /\ Running(s)
    /\ Goes(s, "crashed")
    /\ relay' = [relay EXCEPT ![s] = "none"]
    /\ dir' = [dir EXCEPT ![s].sock = IF @ = "live" THEN "bound" ELSE @]
    /\ sweeping' = [sweeping EXCEPT ![s] = NoSweep]
    /\ UNCHANGED child
-----------------------------------------------------------------------------
Init ==
    /\ dir = [s \in Sessions |-> NoDir]
    /\ proc = [s \in Sessions |-> [step |-> "new", hups |-> 0, terms |-> 0]]
    /\ relay = [s \in Sessions |-> "none"]
    /\ child = [s \in Sessions |-> "none"]
    /\ sweeping = [s \in Sessions |-> NoSweep]

\* The steps of the supervisor that go on by themselves.
Own(s) ==
    \/ SweepNext(s) \/ SweepEnds(s) \/ SweepStat(s) \/ SweepDial(s) \/ SweepRemove(s)
    \/ Mkdir(s) \/ WriteCredential(s) \/ Bind(s) \/ Listen(s) \/ WriteDescriptor(s)
    \/ StartChild(s) \/ ChildDone(s) \/ CancelRelay(s) \/ AwaitRelay(s) \/ RelayDone(s)
    \/ GraceEnds(s) \/ Reap(s) \/ Cleanup(s)

Next ==
    \/ Tick
    \/ \E s \in Sessions :
          \/ Begin(s) \/ Own(s)
          \/ \E state \in {"running", "killed"} : ChildExits(s, state)
          \/ \E state \in {"serving", "cancelled"} : RelayStops(s, state)
          \/ Hangup(s) \/ Terminate(s) \/ Crash(s)

Spec == Init /\ [][Next]_avars

\* A goroutine of a supervisor that can go on does; a killed child and a
\* cancelled relay end.  Nobody need signal, and a child need not end by itself.
Fairness ==
    \A s \in Sessions :
        /\ WF_avars(Own(s))
        /\ WF_avars(ChildExits(s, "killed"))
        /\ WF_avars(RelayStops(s, "cancelled"))

FairSpec == Spec /\ Fairness

-----------------------------------------------------------------------------
(* Properties.                                                             *)

\* The state has its type.
TypeOK ==
    /\ dir \in [Sessions -> Dir]
    /\ proc \in [Sessions -> Proc]
    /\ relay \in [Sessions -> {"none", "serving", "cancelled", "stopped"}]
    /\ child \in [Sessions -> {"none", "running", "killed", "exited", "reaped"}]
    /\ sweeping \in [Sessions -> Sweep]

\* No sweep removes a directory in use: a session has its directory from mkdir
\* to the end of its relay, whatever other supervisors sweep in between
\* (session.go:454-466: age and dial together protect it).
InUse(s) ==
    \/ proc[s].step \in {"credential", "bind", "listen", "descriptor"}
    \/ proc[s].step \in {"start", "supervise"} /\ relay[s] = "serving"

LiveSessionKept == \A s \in Sessions : InUse(s) => dir[s].there

\* A sweep leaves nothing of the sessions that were dead and old when it
\* began, though it works from the list and the clock it read then
\* (session.go:438-470).
SweepComplete ==
    \A s \in Sessions :
        proc[s].step = "mkdir" => \A e \in sweeping[s].doomed : ~dir[e].there

\* Run "removes the delegated capability before returning the child's status":
\* when it has returned, the child is gone, the relay is down and the
\* directory with the credential is removed, on every way out of it.
CapabilityEnds ==
    \A s \in Sessions :
        proc[s].step = "returned" =>
            /\ child[s] \in {"none", "reaped"}
            /\ relay[s] \in {"none", "stopped"}
            /\ ~dir[s].there

\* A session comes to its end, though its child ignores every signal but
\* SIGKILL: when the relay has failed under it (session.go:294-303, 340-351)
\* and on the second SIGTERM (session.go:310-316).
SupervisionEnds ==
    \A s \in Sessions :
        /\ (proc[s].step = "supervise" /\ relay[s] = "stopped") ~> (proc[s].step \in Ended)
        /\ (proc[s].terms = 2) ~> (proc[s].step \in Ended)
=============================================================================
