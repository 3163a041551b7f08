----------------------------- MODULE CardAccess -----------------------------
(***************************************************************************)
(* acquireCard of internal/pivsigner: the selection of a card (card.go)    *)
(* and the recovery from contention (recovery.go), for any number of       *)
(* operations at once.                                                     *)
(*                                                                         *)
(* PC/SC cannot cancel an open, so every open runs in a worker: one per    *)
(* operation for its first open, one per shared recovery probe, and the    *)
(* diagnostic rescan.  A worker may hang for ever, and the operation that  *)
(* wanted its session may be gone when it arrives.  A worker names the     *)
(* session it opens; `open' is the reader that session is on.              *)
(*                                                                         *)
(* Durations are left out: a timer may fire at any moment after it was     *)
(* set, a context may end at any moment, and whether an episode's grace    *)
(* and budget are over is a choice wherever the code asks.  Only the       *)
(* hand-off quota looks at a clock, and its entries are kept as ages.      *)
(***************************************************************************)
EXTENDS Subsequence

CONSTANTS
    Ops,              \* operations: Sign, VerifyPIN, Describe
    Calls,            \* bound: probe calls that are alive at once
    Diag,             \* the worker of the diagnostic rescan
    NumReaders,       \* bound: readers PC/SC lists
    Exempt,           \* operations of origin local-wif or unlock
    HandoffWindow, HandoffCapacity,
    None

Readers  == 1..NumReaders
NoReader == 0
Workers  == Ops \cup Calls \cup {Diag}

ASSUME CardAccessAssumption ==
    /\ IsFiniteSet(Ops)
    /\ Ops \cap Calls = {}
    /\ Diag \notin Ops \cup Calls
    /\ None \notin Workers
    /\ NumReaders \in Nat \ {0}
    /\ Exempt \subseteq Ops
    /\ HandoffWindow \in Nat \ {0}
    /\ HandoffCapacity \in Nat \ {0}

VARIABLES
    ext,           \* the readers that another program has
    open,          \* worker -> the reader its session is open on, or NoReader
    scan,          \* worker -> its openSelectedUntracked
    calls,         \* the probeCalls
    probe,         \* h.probe
    op,            \* operation -> where it stands, and its locals
    openSessions,  \* h.openSessions: the sessions registered as self-holders
    handoffs,      \* h.handoffs, as ages
    granted,       \* history: the ages of the throttled hand-offs granted
    kept           \* history: operation -> the sessions registered ever since
                   \* it began to wait for its last probe

vars == <<ext, open, scan, calls, probe, op, openSessions, handoffs, granted, kept>>

quotaVars == <<handoffs, granted>>

-----------------------------------------------------------------------------
(* Values.                                                                 *)

\* "opening" may hang in PC/SC.  "done" has a result: the session if one is
\* open, else an error that is a sharing violation when `busy'.  "late" has a
\* session that nobody wants any more.  Reader `at' is the next to be tried.
Scan == [step : {"idle", "opening", "done", "late"}, at : Readers \cup {NoReader},
         busy : BOOLEAN]

IdleScan == [step |-> "idle", at |-> NoReader, busy |-> FALSE]

\* PC/SC lists the readers up to n; with none, or no list, the scan is over.
StartScan(n) == [step |-> IF n = 0 THEN "done" ELSE "opening", at |-> n, busy |-> FALSE]

\* probeCall; `ok' is a result without an error.
Call == [ready : BOOLEAN, ok : BOOLEAN, claimed : BOOLEAN, waiters : Int]

NewCall == [ready |-> FALSE, ok |-> FALSE, claimed |-> FALSE, waiters |-> 0]

Steps == {"idle", "open", "track", "hold", "untrack", "assess", "rescan",
          "poll", "join", "wait", "drop", "observe", "inspect", "reserve",
          "handoff"}

\* An operation: one call of acquireCard and the life of the session it gives.
\* Its context, the session it has, the probe it waits for or closes, and the
\* locals of recoverSharing.
Op == [pc : Steps, ctx : BOOLEAN, has : Workers \cup {None},
       call : Calls \cup {None}, inspected : BOOLEAN, sticky : BOOLEAN, at : 0..HandoffWindow]

IdleOp == [pc |-> "idle", ctx |-> FALSE, has |-> None, call |-> None,
           inspected |-> FALSE, sticky |-> FALSE, at |-> 0]

Goes(o, step) == op' = [op EXCEPT ![o].pc = step]

\* acquireCard returns an error; the context, which a worker may still watch,
\* is cancelled by the caller's return.
Returns(o) == op' = [op EXCEPT ![o] = IdleOp]

-----------------------------------------------------------------------------
(* The environment.                                                        *)

\* A session is exclusive.
Free(r) == r \notin ext /\ \A w \in Workers : open[w] # r

ExtTake(r) ==
    /\ Free(r)
    /\ ext' = ext \cup {r}
    /\ UNCHANGED <<open, scan, calls, probe, op, openSessions, quotaVars, kept>>

\* scdaemon gives a reader up by itself, or some time after a hand-off.
ExtRelease(r) ==
    /\ r \in ext
    /\ ext' = ext \ {r}
    /\ UNCHANGED <<open, scan, calls, probe, op, openSessions, quotaVars, kept>>

Older(age) == IF age < HandoffWindow THEN age + 1 ELSE age

\* Time passes, for the quota.
Tick ==
    /\ handoffs' = [i \in DOMAIN handoffs |-> Older(handoffs[i])]
    /\ granted' = KeptAt([i \in DOMAIN granted |-> granted[i] + 1],
                         {i \in DOMAIN granted : granted[i] + 1 < HandoffWindow})
    /\ op' = [o \in Ops |-> IF op[o].pc = "reserve"
                            THEN [op[o] EXCEPT !.at = Older(@)] ELSE op[o]]
    /\ UNCHANGED <<ext, open, scan, calls, probe, openSessions, kept>>

\* The hardware deadline, or the caller goes away.
ContextEnds(o) ==
    /\ op[o].pc # "idle"
    /\ op[o].ctx
    /\ op' = [op EXCEPT ![o].ctx = FALSE]
    /\ UNCHANGED <<ext, open, scan, calls, probe, openSessions, quotaVars, kept>>

-----------------------------------------------------------------------------
(* openSelectedUntracked, in whichever worker runs it.                     *)

\* The next reader, or the end of the list.  Only acquireCard asks whether an
\* error is a sharing violation.
Advances(w, busy) ==
    scan' = [scan EXCEPT ![w] =
        [StartScan(@.at - 1) EXCEPT !.busy = busy /\ w \in Ops]]

Stops(w) == scan' = [scan EXCEPT ![w] = StartScan(0)]

\* A second configured card: both sessions are closed.
Multiple(w) == Stops(w) /\ open' = [open EXCEPT ![w] = NoReader]

\* piv.Open and Serial on one reader.  A reader that fails is skipped, and so
\* is a card that is not configured, which is closed again.
OpenReader(w) ==
    LET r == scan[w].at
    IN  /\ scan[w].step = "opening"
        /\ \/ /\ Free(r) /\ open[w] = NoReader
              /\ open' = [open EXCEPT ![w] = r]
              /\ Advances(w, scan[w].busy)
           \/ Free(r) /\ open[w] # NoReader /\ Multiple(w)
           \/ ~Free(r) /\ Advances(w, TRUE) /\ UNCHANGED open
           \/ Advances(w, scan[w].busy) /\ UNCHANGED open
        /\ UNCHANGED <<ext, calls, probe, op, openSessions, quotaVars, kept>>

-----------------------------------------------------------------------------
(* openSelectedContext and the use of a session.                           *)

\* newRecoveryBudget, and the worker starts.  An operation of this name begins
\* again only when its last worker has ended.
Begin(o) ==
    /\ op[o].pc = "idle"
    /\ scan[o].step = "idle"
    /\ open[o] = NoReader
    /\ op' = [op EXCEPT ![o] = [IdleOp EXCEPT !.pc = "open", !.ctx = TRUE]]
    /\ \E n \in 0..NumReaders : scan' = [scan EXCEPT ![o] = StartScan(n)]
    /\ UNCHANGED <<ext, open, calls, probe, openSessions, quotaVars, kept>>

\* The rendezvous on the unbuffered channel.
TakeDirect(o) ==
    /\ op[o].pc = "open"
    /\ scan[o].step = "done"
    /\ scan' = [scan EXCEPT ![o] = IdleScan]
    /\ IF open[o] # NoReader THEN op' = [op EXCEPT ![o].pc = "track", ![o].has = o]
       ELSE IF scan[o].busy THEN Goes(o, "assess")
       ELSE Returns(o)
    /\ UNCHANGED <<ext, open, calls, probe, openSessions, quotaVars, kept>>

\* The caller stops waiting; its worker lives on.
LeaveDirect(o) ==
    /\ op[o].pc = "open"
    /\ ~op[o].ctx
    /\ Returns(o)
    /\ UNCHANGED <<ext, open, scan, calls, probe, openSessions, quotaVars, kept>>

TrackUncounted(o) ==      \* mutant: the session is used but not registered
    /\ op[o].pc = "track"
    /\ Goes(o, "hold")
    /\ UNCHANGED <<ext, open, scan, calls, probe, openSessions, quotaVars, kept>>

\* trackCard: from here on the session is a self-holder.
Track(o) ==
    /\ op[o].pc = "track"
    /\ Goes(o, "hold")
    /\ openSessions' = openSessions + 1
    /\ UNCHANGED <<ext, open, scan, calls, probe, quotaVars, kept>>

\* trackedCard.Close, in two steps: the card, then the count.
CloseCard(o) ==
    /\ op[o].pc = "hold"
    /\ open' = [open EXCEPT ![op[o].has] = NoReader]
    /\ op' = [op EXCEPT ![o].pc = "untrack", ![o].has = None]
    /\ kept' = [p \in Ops |-> kept[p] \ {o}]
    /\ UNCHANGED <<ext, scan, calls, probe, openSessions, quotaVars>>

\* Sign's one fresh attempt after a sharing violation past acquisition is an
\* operation of its own here.
Untrack(o) ==
    /\ op[o].pc = "untrack"
    /\ openSessions' = openSessions - 1
    /\ Returns(o)
    /\ UNCHANGED <<ext, open, scan, calls, probe, quotaVars, kept>>

\* A worker closes a session nobody takes: the direct one when its caller's
\* context has ended, a probe's when it had no waiter left, and the rescan's
\* always, whose result says only what it saw.
LateClose(w) ==
    /\ \/ w \in Ops /\ scan[w].step = "done" /\ ~op[w].ctx
       \/ scan[w].step = "late"
       \/ w = Diag /\ scan[w].step = "done"
    /\ scan' = [scan EXCEPT ![w] = IdleScan]
    /\ open' = [open EXCEPT ![w] = NoReader]
    /\ UNCHANGED <<ext, calls, probe, op, openSessions, quotaVars, kept>>

-----------------------------------------------------------------------------
(* The shared probe.                                                       *)

\* A call that nothing refers to any more.
Unused(k) == /\ k # probe /\ scan[k].step = "idle" /\ open[k] = NoReader
             /\ \A o \in Ops : op[o].call # k

Registered == {p \in Ops : op[p].pc = "hold"}

\* openProbeContext under probeMu, after the sleep at the head of the loop or
\* when another operation took the last result: join the probe in flight or
\* start one.
JoinProbe(o) ==
    /\ op[o].pc \in {"poll", "join"}
    /\ probe # None
    /\ calls' = [calls EXCEPT ![probe].waiters = @ + 1]
    /\ op' = [op EXCEPT ![o].pc = "wait", ![o].call = probe]
    /\ kept' = [kept EXCEPT ![o] = Registered]
    /\ UNCHANGED <<ext, open, scan, probe, openSessions, quotaVars>>

StartProbe(o) ==
    LET k == CHOOSE j \in Calls : Unused(j)
    IN  /\ op[o].pc \in {"poll", "join"}
        /\ probe = None
        /\ \E j \in Calls : Unused(j)
        /\ probe' = k
        /\ calls' = [calls EXCEPT ![k] = [NewCall EXCEPT !.waiters = 1]]
        /\ \E n \in 0..NumReaders : scan' = [scan EXCEPT ![k] = StartScan(n)]
        /\ op' = [op EXCEPT ![o].pc = "wait", ![o].call = k]
        /\ kept' = [kept EXCEPT ![o] = Registered]
        /\ UNCHANGED <<ext, open, openSessions, quotaVars>>

ForgetProbe(k) == probe' = IF probe = k THEN None ELSE probe

AbandonedNever(k) == FALSE     \* mutant: a late session is left to itself

\* Nobody is left to take the session of a call.
Abandoned(k) == calls[k].waiters = 0 /\ open[k] # NoReader

\* runProbe publishes its result, and closes it if every waiter has gone.
PublishProbe(k) ==
    /\ scan[k].step = "done"
    /\ calls' = [calls EXCEPT ![k] =
           IF @.waiters = 0 THEN NewCall
           ELSE [@ EXCEPT !.ready = TRUE, !.ok = open[k] # NoReader]]
    /\ ForgetProbe(k)
    /\ scan' = [scan EXCEPT ![k] = IF Abandoned(k) THEN [@ EXCEPT !.step = "late"]
                                   ELSE IdleScan]
    /\ UNCHANGED <<ext, open, op, openSessions, quotaVars, kept>>

ClaimableByAll(k) == TRUE      \* mutant: every waiter takes the result

Claimable(k) == ~calls[k].claimed

\* One waiter fewer; a published call without any is garbage.
Leaves(k, claimed) ==
    LET c == calls[k]
    IN  calls' = [calls EXCEPT ![k] =
            IF c.ready /\ c.waiters = 1 THEN NewCall
            ELSE [c EXCEPT !.waiters = @ - 1, !.claimed = @ \/ claimed]]

\* <-call.done: an error, the session if it is the first to come, or, when
\* another operation has claimed it, the next probe within the same deadline.
TakeProbe(o) ==
    LET k == op[o].call
        c == calls[k]
    IN  /\ op[o].pc = "wait"
        /\ c.ready
        /\ \/ /\ ~c.ok
              /\ Leaves(k, FALSE)
              /\ probe' = IF c.waiters = 1 /\ probe = k THEN None ELSE probe
              /\ op' = [op EXCEPT ![o].pc = "observe", ![o].call = None]
              /\ UNCHANGED kept
           \/ /\ c.ok /\ Claimable(k)
              /\ Leaves(k, TRUE)
              /\ ForgetProbe(k)
              /\ op' = [op EXCEPT ![o].pc = "track", ![o].call = None, ![o].has = k,
                                  ![o].inspected = FALSE, ![o].sticky = FALSE]
              /\ kept' = [kept EXCEPT ![o] = {}]
           \/ /\ c.ok /\ ~Claimable(k)
              /\ Leaves(k, FALSE)
              /\ \E step \in {"join", "observe"} :
                    op' = [op EXCEPT ![o].pc = step, ![o].call = None]
              /\ UNCHANGED <<probe, kept>>
        /\ UNCHANGED <<ext, open, scan, openSessions, quotaVars>>

LastTakes(k) ==     \* mutant: a session that another waiter claimed is closed too
    calls[k].ready /\ calls[k].waiters = 1 /\ calls[k].ok

\* The last waiter to leave a call takes a session that nobody claimed, to close it.
LastCloses(k) ==
    calls[k].ready /\ calls[k].waiters = 1 /\ calls[k].ok /\ ~calls[k].claimed

WaitsForever(o) == FALSE       \* mutant: a waiter has no deadline of its own

\* The waiter's own deadline: releaseProbeWaiter.
LeaveProbe(o) ==
    LET k == op[o].call
        c == calls[k]
    IN  /\ op[o].pc = "wait"
        /\ Leaves(k, LastCloses(k))
        /\ probe' = IF c.ready /\ c.waiters = 1 /\ probe = k THEN None ELSE probe
        /\ op' = [op EXCEPT ![o].pc = IF LastCloses(k) THEN "drop" ELSE "observe",
                            ![o].call = IF LastCloses(k) THEN k ELSE None]
        /\ UNCHANGED <<ext, open, scan, openSessions, quotaVars, kept>>

DropLate(o) ==
    /\ op[o].pc = "drop"
    /\ open' = [open EXCEPT ![op[o].call] = NoReader]
    /\ op' = [op EXCEPT ![o].pc = "observe", ![o].call = None]
    /\ UNCHANGED <<ext, scan, calls, probe, openSessions, quotaVars, kept>>

-----------------------------------------------------------------------------
(* recoverSharing.                                                         *)

SelfHeld == openSessions > 0       \* hasSelfHolder

\* recoverSharing starts an episode.
Enters(o) == op' = [op EXCEPT ![o].pc = "poll", ![o].sticky = SelfHeld]

\* acquireCard after a sharing violation.  A rescan is made unless this budget
\* has paid for one, the deadline is near or another one is running.  The budget
\* of a fresh attempt may be spent.
Assess(o) ==
    /\ op[o].pc = "assess"
    /\ \/ Enters(o) /\ UNCHANGED scan
       \/ Returns(o) /\ UNCHANGED scan
       \/ /\ scan[Diag].step = "idle"
          /\ Goes(o, "rescan")
          /\ \E n \in 0..NumReaders : scan' = [scan EXCEPT ![Diag] = StartScan(n)]
    /\ UNCHANGED <<ext, open, calls, probe, openSessions, quotaVars, kept>>

\* Its result, its latency cap or the context: the rescan changes nothing.
EndRescan(o) ==
    /\ op[o].pc = "rescan"
    /\ Enters(o)
    /\ UNCHANGED <<ext, open, scan, calls, probe, openSessions, quotaVars, kept>>

\* The head of the loop: the budget is spent or the context has ended.
Exhausted(o) ==
    /\ op[o].pc = "poll"
    /\ Returns(o)
    /\ kept' = [kept EXCEPT ![o] = {}]
    /\ UNCHANGED <<ext, open, scan, calls, probe, openSessions, quotaVars>>

ObserveBlind(o) ==    \* mutant: a self-holder is looked for only at the start
    /\ op[o].pc = "observe"
    /\ \/ Goes(o, "poll")
       \/ /\ ~op[o].inspected
          /\ \E step \in {"inspect", "poll"} :
                op' = [op EXCEPT ![o].pc = step, ![o].inspected = TRUE]
    /\ UNCHANGED <<ext, open, scan, calls, probe, openSessions, quotaVars, kept>>

\* After a probe that failed: a self-holder seen now counts for the whole
\* episode.  Once, when the grace is over, scdaemon is looked at, if there is
\* time left for it.
Observe(o) ==
    LET sticky == op[o].sticky \/ SelfHeld
    IN  /\ op[o].pc = "observe"
        /\ \/ op' = [op EXCEPT ![o].pc = "poll", ![o].sticky = sticky]
           \/ /\ ~op[o].inspected
              /\ \E step \in {"inspect", "poll"} :
                    op' = [op EXCEPT ![o].pc = step, ![o].sticky = sticky,
                                     ![o].inspected = TRUE]
        /\ UNCHANGED <<ext, open, scan, calls, probe, openSessions, quotaVars, kept>>

\* The verdicts of classifyScdaemonOutput: an Assuan OK, an ERR or no agent,
\* and anything else, a failed command included.
Verdicts == {"running", "stopped", "unknown"}

\* inspectScdaemon.  A self-holder or a stopped scdaemon rules a hand-off out,
\* and so does a budget that has ended meanwhile.
Inspect(o) ==
    /\ op[o].pc = "inspect"
    /\ \E state \in Verdicts :
          \/ Goes(o, "poll")
          \/ ~op[o].sticky /\ state # "stopped" /\ Goes(o, "reserve")
    /\ UNCHANGED <<ext, open, scan, calls, probe, openSessions, quotaVars, kept>>

RecentNone(age) == <<>>     \* mutant: every entry is taken to be out of the window

\* The entries inside the window that ends `age' ago.
Recent(age) ==
    KeptAt(handoffs, {i \in DOMAIN handoffs : handoffs[i] - age < HandoffWindow})

\* reserveHandoff, with a reading of the clock that is `at' old by the time
\* recoveryMu is had.
Reserve(o) ==
    LET recent == Recent(op[o].at)
    IN  /\ op[o].pc = "reserve"
        /\ \/ /\ o \in Exempt
              /\ op' = [op EXCEPT ![o].pc = "handoff", ![o].at = 0]
              /\ UNCHANGED quotaVars
           \/ /\ o \notin Exempt /\ Len(recent) >= HandoffCapacity
              /\ handoffs' = recent
              /\ op' = [op EXCEPT ![o].pc = "poll", ![o].at = 0]
              /\ UNCHANGED granted
           \/ /\ o \notin Exempt /\ Len(recent) < HandoffCapacity
              /\ handoffs' = Append(recent, op[o].at)
              /\ granted' = IF op[o].at < HandoffWindow
                            THEN Append(granted, op[o].at) ELSE granted
              /\ op' = [op EXCEPT ![o].pc = "handoff", ![o].at = 0]
        /\ UNCHANGED <<ext, open, scan, calls, probe, openSessions, kept>>

\* handoffScdaemon; whether it failed makes no difference to the polling.
Handoff(o) ==
    /\ op[o].pc = "handoff"
    /\ Goes(o, "poll")
    /\ UNCHANGED <<ext, open, scan, calls, probe, openSessions, quotaVars, kept>>

-----------------------------------------------------------------------------
(* The specification.                                                      *)

Init ==
    /\ ext = {}
    /\ open = [w \in Workers |-> NoReader]
    /\ scan = [w \in Workers |-> IdleScan]
    /\ calls = [k \in Calls |-> NewCall]
    /\ probe = None
    /\ op = [o \in Ops |-> IdleOp]
    /\ openSessions = 0
    /\ handoffs = <<>>
    /\ granted = <<>>
    /\ kept = [o \in Ops |-> {}]

OpStep(o) ==
    \/ ContextEnds(o)
    \/ Begin(o)
    \/ TakeDirect(o)
    \/ LeaveDirect(o)
    \/ Track(o)
    \/ CloseCard(o)
    \/ Untrack(o)
    \/ JoinProbe(o)
    \/ StartProbe(o)
    \/ TakeProbe(o)
    \/ LeaveProbe(o)
    \/ DropLate(o)
    \/ Assess(o)
    \/ EndRescan(o)
    \/ Exhausted(o)
    \/ Observe(o)
    \/ Inspect(o)
    \/ Reserve(o)
    \/ Handoff(o)

Next ==
    \/ \E r \in Readers : ExtTake(r) \/ ExtRelease(r)
    \/ Tick
    \/ \E w \in Workers : OpenReader(w) \/ LateClose(w)
    \/ \E k \in Calls : PublishProbe(k)
    \/ \E o \in Ops : OpStep(o)

Spec == Init /\ [][Next]_vars

\* Contexts and budgets end (an episode comes to the head of its loop with its
\* budget spent if it goes on for long), and what the daemon runs itself goes on.
\* Nothing is assumed of PC/SC: an open may hang for ever.  Nor is it assumed
\* that an operation ever closes the card it holds.
Fairness ==
    /\ \A o \in Ops :
          /\ WF_vars(ContextEnds(o))
          /\ SF_vars(Exhausted(o)) /\ SF_vars(LeaveProbe(o))
          /\ SF_vars(StartProbe(o))
          /\ WF_vars(TakeDirect(o) \/ LeaveDirect(o) \/ Track(o) \/ Untrack(o) \/ JoinProbe(o)
                     \/ StartProbe(o) \/ TakeProbe(o)
                     \/ LeaveProbe(o) \/ DropLate(o) \/ Assess(o) \/ EndRescan(o)
                     \/ Observe(o) \/ Inspect(o) \/ Reserve(o)
                     \/ Handoff(o))
    /\ \A w \in Workers : WF_vars(LateClose(w))
    /\ \A k \in Calls : WF_vars(PublishProbe(k))

FairSpec == Spec /\ Fairness

-----------------------------------------------------------------------------
(* Properties.                                                             *)

\* Type invariant, the quota's sequences apart.
TypeOK ==
    /\ ext \subseteq Readers
    /\ open \in [Workers -> Readers \cup {NoReader}]
    /\ scan \in [Workers -> Scan]
    /\ calls \in [Calls -> Call]
    /\ probe \in Calls \cup {None}
    /\ op \in [Ops -> Op]
    /\ openSessions \in Int
    /\ kept \in [Ops -> SUBSET Ops]

Waiting(k) == {o \in Ops : op[o].pc = "wait" /\ op[o].call = k}

\* Who has to close the session of worker w: the worker, a call that still has
\* a waiter and no taker, or an operation that was given it.
WorkerHas(w) == scan[w].step # "idle"
CallHas(w)   == w \in Calls /\ calls[w].ready /\ calls[w].ok
                /\ ~calls[w].claimed /\ Waiting(w) # {}
OpHas(o, w)  == op[o].has = w \/ (op[o].pc = "drop" /\ op[o].call = w)

\* Every open session has exactly one of these to close it: none is leaked, and
\* none is in two hands.
OneOwner ==
    \A w \in Workers : open[w] # NoReader =>
        /\ WorkerHas(w) \/ CallHas(w) \/ \E o \in Ops : OpHas(o, w)
        /\ ~(WorkerHas(w) /\ (CallHas(w) \/ \E o \in Ops : OpHas(o, w)))
        /\ ~(CallHas(w) /\ \E o \in Ops : OpHas(o, w))
        /\ \A o, p \in Ops : OpHas(o, w) /\ OpHas(p, w) => o = p

\* An operation works on a session that nobody has closed under it.
HeldIsOpen ==
    \A o \in Ops : op[o].pc \in {"track", "hold", "drop"} =>
        \E w \in Workers : OpHas(o, w) /\ open[w] # NoReader

\* README, "A PIV connection exists only for one provider description, PIN
\* verification, or signature": an open session is in exactly one hand, and
\* nobody closes it under the operation that has it, however the open, the
\* deadlines of the waiters and the claim were ordered (card.go:205-246,
\* recovery.go:303-337).
SessionsOwned == OneOwner /\ HeldIsOpen

\* The counts that decide who closes a session and whether a hand-off is ruled
\* out are exact.
CountsExact ==
    /\ \A k \in Calls : calls[k].waiters = Cardinality(Waiting(k))
    /\ openSessions = Cardinality({o \in Ops : op[o].pc \in {"hold", "untrack"}})

\* README, "Forwarded and agent-session operations share a cooperative limit of
\* two hand-offs per rolling ten seconds", although the clock is read before
\* the lock is taken and operations pass each other in between.
HandoffQuota == Len(granted) <= HandoffCapacity

\* "A transient collision or PIVB-owned session must not kill scdaemon": no
\* hand-off is made while a session of this process is open that was registered
\* when the last probe began and has been ever since.
HandoffSparesOwnSession == \A o \in Ops : op[o].pc = "handoff" => kept[o] = {}

\* acquireCard returns, with a session or without, although PC/SC hangs.
AcquireReturns == \A o \in Ops : op[o].pc # "idle" ~> op[o].pc \in {"idle", "hold"}

\* A session that is open when its scan is over is handed to an operation or
\* closed; it does not block the reader for ever.
LateSessionEnds ==
    \A w \in Workers :
        (open[w] # NoReader /\ scan[w].step # "opening") ~>
        (open[w] = NoReader \/ \E o \in Ops : op[o].pc = "hold" /\ op[o].has = w)

\* The sessions as CardSlots sees them.
Delivered(w) == \E o \in Ops : op[o].has = w

Slots == INSTANCE CardSlots WITH
    pending <- {r \in Readers : \E w \in Workers : open[w] = r /\ ~Delivered(w)},
    held <- [o \in Ops |-> IF op[o].has = None THEN NoReader ELSE open[op[o].has]]

\* Selection, probing and recovery together give out exclusive sessions: each
\* opened session is delivered once or dropped.
ImplementsSlots == Slots!Spec
=============================================================================
