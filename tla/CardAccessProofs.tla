-------------------------- MODULE CardAccessProofs --------------------------
(***************************************************************************)
(* Theorems about CardAccess for any number of operations, probe calls and *)
(* readers: its types, the counts, the one owner of each open session, the *)
(* hand-offs that spare the process's own sessions, and the refinement of  *)
(* CardSlots.                                                              *)
(***************************************************************************)
EXTENDS CardAccess, SubsequenceProofs

USE CardAccessAssumption DEF quotaVars

LEMMA Names ==
    /\ Ops \subseteq Workers /\ Calls \subseteq Workers /\ Diag \in Workers
    /\ None \notin Workers /\ None \notin Ops /\ None \notin Calls
    /\ NoReader \notin Readers
BY DEF Workers, Readers, NoReader

-----------------------------------------------------------------------------
(* Records.                                                                *)

ScanSteps == {"idle", "opening", "done", "late"}

\* A worker that is opening has a reader to open.
Sound(s) == s \in Scan /\ (s.step = "opening" => s.at # NoReader)

LEMMA Constants ==
    /\ Sound(IdleScan) /\ IdleScan.step = "idle"
    /\ NewCall \in Call /\ ~NewCall.ready /\ ~NewCall.ok /\ ~NewCall.claimed
    /\ NewCall.waiters = 0
    /\ IdleOp \in Op /\ IdleOp.pc = "idle" /\ IdleOp.has = None /\ IdleOp.call = None
    /\ IdleOp.sticky = FALSE
BY DEF IdleScan, Scan, Sound, NewCall, Call, IdleOp, Op, Steps

LEMMA StartScanType ==
    ASSUME NEW n \in 0..NumReaders, NEW b \in BOOLEAN
    PROVE  /\ Sound(StartScan(n))
           /\ Sound([StartScan(n) EXCEPT !.busy = b])
           /\ StartScan(n).step \in {"opening", "done"}
           /\ [StartScan(n) EXCEPT !.busy = b].step = StartScan(n).step
BY DEF StartScan, Sound, Scan, Readers, NoReader

LEMMA ScanFields ==
    ASSUME NEW s \in Scan
    PROVE  /\ s.step \in ScanSteps
           /\ s.at \in Readers \cup {NoReader}
           /\ s.busy \in BOOLEAN
BY DEF Scan, ScanSteps

LEMMA CallFields ==
    ASSUME NEW c \in Call
    PROVE  c.ready \in BOOLEAN /\ c.ok \in BOOLEAN /\ c.claimed \in BOOLEAN /\ c.waiters \in Int
BY DEF Call

LEMMA OpFields ==
    ASSUME NEW r \in Op
    PROVE  /\ r.pc \in Steps
           /\ r.ctx \in BOOLEAN
           /\ r.has \in Workers \cup {None}
           /\ r.call \in Calls \cup {None}
           /\ r.inspected \in BOOLEAN
           /\ r.sticky \in BOOLEAN
           /\ r.at \in 0..HandoffWindow
BY DEF Op

\* The step leaves o in the given state and the other operations alone.
OpBecomes(o, pc, has, call, sticky) ==
    /\ op' \in [Ops -> Op]
    /\ \A p \in Ops : p # o => op'[p] = op[p]
    /\ op'[o].pc = pc
    /\ op'[o].has = has
    /\ op'[o].call = call
    /\ op'[o].sticky = sticky

\* What the properties see of the operations stays.
OpSame ==
    /\ op' \in [Ops -> Op]
    /\ \A p \in Ops : /\ op'[p].pc = op[p].pc
                      /\ op'[p].has = op[p].has
                      /\ op'[p].call = op[p].call
                      /\ op'[p].sticky = op[p].sticky

ScanBecomes(w, step) ==
    /\ scan' \in [Workers -> Scan]
    /\ \A v \in Workers : v # w => scan'[v] = scan[v]
    /\ scan'[w].step = step
    /\ Sound(scan'[w])

CallBecomes(k, ready, ok, claimed, waiters) ==
    /\ calls' \in [Calls -> Call]
    /\ \A j \in Calls : j # k => calls'[j] = calls[j]
    /\ calls'[k].ready = ready
    /\ calls'[k].ok = ok
    /\ calls'[k].claimed = claimed
    /\ calls'[k].waiters = waiters

LEMMA SetOp ==
    ASSUME op \in [Ops -> Op], NEW o \in Ops, NEW r \in Op,
           op' = [op EXCEPT ![o] = r]
    PROVE  OpBecomes(o, r.pc, r.has, r.call, r.sticky)
BY DEF OpBecomes

LEMMA SetScan ==
    ASSUME scan \in [Workers -> Scan], NEW w \in Workers, NEW s, Sound(s),
           scan' = [scan EXCEPT ![w] = s]
    PROVE  ScanBecomes(w, s.step)
BY DEF ScanBecomes, Sound

LEMMA SetCall ==
    ASSUME calls \in [Calls -> Call], NEW k \in Calls, NEW c \in Call,
           calls' = [calls EXCEPT ![k] = c]
    PROVE  CallBecomes(k, c.ready, c.ok, c.claimed, c.waiters)
BY DEF CallBecomes

LEMMA GoesBecomes ==
    ASSUME op \in [Ops -> Op], NEW o \in Ops, NEW step \in Steps, Goes(o, step)
    PROVE  OpBecomes(o, step, op[o].has, op[o].call, op[o].sticky)
<1> DEFINE r == [op[o] EXCEPT !.pc = step]
<1>1. r \in Op
  BY DEF Op
<1>2. /\ r.pc = step /\ r.has = op[o].has /\ r.call = op[o].call /\ r.sticky = op[o].sticky
  BY DEF Op
<1>3. op' = [op EXCEPT ![o] = r]
  BY DEF Goes
<1> HIDE DEF r
<1>4. OpBecomes(o, r.pc, r.has, r.call, r.sticky)
  BY <1>1, <1>3, SetOp
<1> QED BY <1>2, <1>4

LEMMA ReturnsBecomes ==
    ASSUME op \in [Ops -> Op], NEW o \in Ops, Returns(o)
    PROVE  OpBecomes(o, "idle", None, None, FALSE)
<1>1. op' = [op EXCEPT ![o] = IdleOp]
  BY DEF Returns
<1>2. OpBecomes(o, IdleOp.pc, IdleOp.has, IdleOp.call, IdleOp.sticky)
  BY <1>1, Constants, SetOp
<1> QED BY <1>2, Constants

-----------------------------------------------------------------------------
(* The invariant.                                                          *)

\* Steps at which an operation has neither a session nor a call.
Quiet == Steps \ {"track", "hold", "wait", "drop"}

\* What an operation has at each step; a session of its own worker or a probe's.
Shape ==
    \A o \in Ops :
        /\ op[o].has # None <=> op[o].pc \in {"track", "hold"}
        /\ op[o].call # None <=> op[o].pc \in {"wait", "drop"}
        /\ op[o].has \in Calls \cup {o, None}

\* A result that a waiter may still claim.
Offers(w) == w \in Calls /\ calls[w].ready /\ calls[w].ok /\ ~calls[w].claimed

\* A session in an operation's hands is open, and out of everybody else's.
OpOwns ==
    \A o \in Ops, w \in Workers : OpHas(o, w) =>
        open[w] # NoReader /\ scan[w].step = "idle" /\ ~Offers(w)

Unique == \A o, p \in Ops, w \in Workers : OpHas(o, w) /\ OpHas(p, w) => o = p

\* A published call has a waiter, and its worker has ended.
Published ==
    \A k \in Calls :
        /\ calls[k].ready => scan[k].step = "idle" /\ calls[k].waiters > 0
        /\ calls[k].claimed => calls[k].ready
        /\ Offers(k) => open[k] # NoReader

\* A session that no worker has any more is offered or in an operation's hands.
NoLeak ==
    \A w \in Workers : open[w] # NoReader /\ scan[w].step = "idle" =>
        Offers(w) \/ \E o \in Ops : OpHas(o, w)

\* The probe that operations join is being opened, or about to be published.
ProbeRuns == probe # None => scan[probe].step \in {"opening", "done"}

Listed == \A w \in Workers : Sound(scan[w])

Owned == OpOwns /\ Unique /\ Published /\ NoLeak /\ ProbeRuns

\* Readers are exclusive.
Exclusive ==
    /\ \A w \in Workers : open[w] \notin ext
    /\ \A v, w \in Workers : open[v] = open[w] /\ open[w] # NoReader => v = w

\* What a hand-off rests on.
Spared ==
    \A o \in Ops :
        /\ \A p \in kept[o] : op[p].pc = "hold"
        /\ op[o].pc \in {"inspect", "reserve", "handoff"} /\ kept[o] # {} => op[o].sticky
        /\ op[o].pc \in {"reserve", "handoff"} => ~op[o].sticky

-----------------------------------------------------------------------------
(* What each action does to the state.                                     *)

\* A step from one quiet state to another.
QuietMove(o) ==
    /\ op[o].pc \in Quiet \ {"untrack"}
    /\ \E b \in Quiet \ {"untrack"}, st \in BOOLEAN : OpBecomes(o, b, None, None, st)

LEMMA QuietHas ==
    ASSUME TypeOK, Shape, NEW o \in Ops, op[o].pc \in Quiet
    PROVE  op[o].has = None /\ op[o].call = None /\ op[o].sticky \in BOOLEAN
BY OpFields DEF TypeOK, Shape, Quiet

LEMMA GoesQuiet ==
    ASSUME TypeOK, Shape, NEW o \in Ops, op[o].pc \in Quiet \ {"untrack"},
           NEW b \in Quiet \ {"untrack"}, Goes(o, b)
    PROVE  QuietMove(o)
<1>1. OpBecomes(o, b, op[o].has, op[o].call, op[o].sticky)
  BY GoesBecomes DEF TypeOK, Quiet
<1> QED BY <1>1, QuietHas DEF QuietMove

LEMMA ReturnsQuiet ==
    ASSUME TypeOK, Shape, NEW o \in Ops, op[o].pc \in Quiet \ {"untrack"}, Returns(o)
    PROVE  QuietMove(o)
<1>1. OpBecomes(o, "idle", None, None, FALSE)
  BY ReturnsBecomes DEF TypeOK
<1> QED BY <1>1 DEF QuietMove, Quiet, Steps

LEMMA TickMoves ==
    ASSUME TypeOK, Tick
    PROVE  OpSame /\ UNCHANGED <<ext, open, scan, calls, probe, openSessions, kept>>
<1> DEFINE r(o) == IF op[o].pc = "reserve" THEN [op[o] EXCEPT !.at = Older(@)] ELSE op[o]
<1>1. op' = [o \in Ops |-> r(o)]
  BY DEF Tick
<1>2. ASSUME NEW o \in Ops
      PROVE  /\ r(o) \in Op /\ r(o).pc = op[o].pc /\ r(o).has = op[o].has
             /\ r(o).call = op[o].call /\ r(o).sticky = op[o].sticky
  <2>1. op[o] \in Op
    BY DEF TypeOK
  <2>2. Older(op[o].at) \in 0..HandoffWindow
    BY <2>1, OpFields DEF Older
  <2> QED BY <2>1, <2>2 DEF Op
<1> HIDE DEF r
<1>3. OpSame
  BY <1>1, <1>2 DEF OpSame
<1> QED BY <1>3 DEF Tick

LEMMA ContextEndsMoves ==
    ASSUME TypeOK, NEW o \in Ops, ContextEnds(o)
    PROVE  OpSame /\ UNCHANGED <<ext, open, scan, calls, probe, openSessions, kept>>
<1> DEFINE r == [op[o] EXCEPT !.ctx = FALSE]
<1>0. op[o] \in Op
  BY DEF TypeOK
<1>1. /\ r \in Op /\ r.pc = op[o].pc /\ r.has = op[o].has /\ r.call = op[o].call
      /\ r.sticky = op[o].sticky
  BY <1>0 DEF Op
<1>2. op' = [op EXCEPT ![o] = r]
  BY DEF ContextEnds
<1> HIDE DEF r
<1>3. OpSame
  BY <1>1, <1>2 DEF OpSame, TypeOK
<1> QED BY <1>3 DEF ContextEnds
\* The actions of recovery that are quiet.
QuietAction(o) ==
    LeaveDirect(o) \/ EndRescan(o) \/ Exhausted(o) \/ Observe(o) \/ Inspect(o)
    \/ Reserve(o) \/ Handoff(o)

LEMMA EntersBecomes ==
    ASSUME TypeOK, Shape, NEW o \in Ops, op[o].pc \in {"assess", "rescan"}, Enters(o)
    PROVE  OpBecomes(o, "poll", None, None, SelfHeld)
<1> DEFINE r == [op[o] EXCEPT !.pc = "poll", !.sticky = SelfHeld]
<1>1. SelfHeld \in BOOLEAN
  BY DEF SelfHeld
<1>0. op[o] \in Op
  BY DEF TypeOK
<1>2. /\ r \in Op /\ r.pc = "poll" /\ r.has = op[o].has /\ r.call = op[o].call
      /\ r.sticky = SelfHeld
  BY <1>0, <1>1 DEF Op, Steps
<1>3. op' = [op EXCEPT ![o] = r]
  BY DEF Enters
<1>4. op[o].has = None /\ op[o].call = None
  BY QuietHas DEF Quiet, Steps
<1> HIDE DEF r
<1>5. OpBecomes(o, r.pc, r.has, r.call, r.sticky)
  BY <1>2, <1>3, SetOp DEF TypeOK
<1> QED BY <1>2, <1>4, <1>5

LEMMA EntersQuiet ==
    ASSUME TypeOK, Shape, NEW o \in Ops, op[o].pc \in {"assess", "rescan"}, Enters(o)
    PROVE  QuietMove(o)
<1>1. OpBecomes(o, "poll", None, None, SelfHeld)
  BY EntersBecomes
<1>2. SelfHeld \in BOOLEAN
  BY DEF SelfHeld
<1> QED BY <1>1, <1>2 DEF QuietMove, Quiet, Steps

\* A probe that failed: the operation polls or inspects, and has seen what it saw.
LEMMA ObserveBecomes ==
    ASSUME TypeOK, Shape, NEW o \in Ops, Observe(o)
    PROVE  /\ op[o].pc = "observe"
           /\ \E b \in {"poll", "inspect"} :
                 OpBecomes(o, b, None, None, op[o].sticky \/ SelfHeld)
<1> DEFINE st == op[o].sticky \/ SelfHeld
           r(b, i) == [op[o] EXCEPT !.pc = b, !.sticky = st, !.inspected = i]
           q == [op[o] EXCEPT !.pc = "poll", !.sticky = st]
<1>1. op[o].pc = "observe"
  BY DEF Observe
<1>2. op[o] \in Op /\ op[o].has = None /\ op[o].call = None /\ st \in BOOLEAN
  BY <1>1, QuietHas DEF Quiet, Steps, TypeOK, SelfHeld
<1>3. ASSUME NEW b \in {"poll", "inspect"}, NEW i \in BOOLEAN
      PROVE  /\ r(b, i) \in Op /\ r(b, i).pc = b /\ r(b, i).has = None /\ r(b, i).call = None
             /\ r(b, i).sticky = st
  BY <1>2 DEF Op, Steps
<1>4. q \in Op /\ q.pc = "poll" /\ q.has = None /\ q.call = None /\ q.sticky = st
  BY <1>2 DEF Op, Steps
<1>5. \/ op' = [op EXCEPT ![o] = q]
      \/ \E b \in {"poll", "inspect"} : op' = [op EXCEPT ![o] = r(b, TRUE)]
  <2>1. CASE op' = [op EXCEPT ![o].pc = "poll", ![o].sticky = op[o].sticky \/ SelfHeld]
    <3>1. op' = [op EXCEPT ![o] = q]
      BY <2>1
    <3> QED BY <3>1
  <2>2. ASSUME NEW b \in {"inspect", "poll"},
               op' = [op EXCEPT ![o].pc = b, ![o].sticky = op[o].sticky \/ SelfHeld,
                                ![o].inspected = TRUE]
        PROVE  \E c \in {"poll", "inspect"} : op' = [op EXCEPT ![o] = r(c, TRUE)]
    <3>1. op' = [op EXCEPT ![o] = r(b, TRUE)]
      BY <2>2
    <3> HIDE DEF r
    <3> QED BY <3>1
  <2> HIDE DEF r, q
  <2> QED BY <2>1, <2>2 DEF Observe
<1> HIDE DEF r, q, st
<1>6. CASE op' = [op EXCEPT ![o] = q]
  <2>1. OpBecomes(o, q.pc, q.has, q.call, q.sticky)
    BY <1>4, <1>6, SetOp DEF TypeOK
  <2>2. OpBecomes(o, "poll", None, None, st)
    BY <1>4, <2>1
  <2> QED BY <1>1, <2>2 DEF st
<1>7. CASE \E b \in {"poll", "inspect"} : op' = [op EXCEPT ![o] = r(b, TRUE)]
  <2>1. PICK b \in {"poll", "inspect"} : op' = [op EXCEPT ![o] = r(b, TRUE)]
    BY <1>7
  <2>2. OpBecomes(o, r(b, TRUE).pc, r(b, TRUE).has, r(b, TRUE).call, r(b, TRUE).sticky)
    BY <1>3, <2>1, SetOp DEF TypeOK
  <2>3. OpBecomes(o, b, None, None, st)
    BY <1>3, <2>2
  <2> QED BY <1>1, <2>3 DEF st
<1> QED BY <1>5, <1>6, <1>7

LEMMA ReserveBecomes ==
    ASSUME TypeOK, Shape, NEW o \in Ops, Reserve(o)
    PROVE  /\ op[o].pc = "reserve"
           /\ \E b \in {"poll", "handoff"} : OpBecomes(o, b, None, None, op[o].sticky)
<1> DEFINE r(b) == [op[o] EXCEPT !.pc = b, !.at = 0]
<1>1. op[o].pc = "reserve"
  BY DEF Reserve
<1>2. op[o] \in Op /\ op[o].has = None /\ op[o].call = None
  BY <1>1, QuietHas DEF Quiet, Steps, TypeOK
<1>3. ASSUME NEW b \in {"poll", "handoff"}
      PROVE  /\ r(b) \in Op /\ r(b).pc = b /\ r(b).has = None /\ r(b).call = None
             /\ r(b).sticky = op[o].sticky
  <2>1. 0 \in 0..HandoffWindow
    OBVIOUS
  <2> QED BY <1>2, <2>1 DEF Op, Steps
<1>4. PICK b \in {"poll", "handoff"} : op' = [op EXCEPT ![o] = r(b)]
  BY DEF Reserve
<1> HIDE DEF r
<1>5. OpBecomes(o, r(b).pc, r(b).has, r(b).call, r(b).sticky)
  BY <1>3, <1>4, SetOp DEF TypeOK
<1>6. OpBecomes(o, b, None, None, op[o].sticky)
  BY <1>3, <1>5
<1> QED BY <1>1, <1>6

LEMMA QuietMoves ==
    ASSUME TypeOK, Shape, NEW o \in Ops, QuietAction(o)
    PROVE  QuietMove(o) /\ UNCHANGED <<ext, open, scan, calls, probe, openSessions>>
<1>1. CASE LeaveDirect(o)
  BY <1>1, ReturnsQuiet DEF LeaveDirect, Quiet, Steps
<1>2. CASE EndRescan(o)
  BY <1>2, EntersQuiet DEF EndRescan
<1>3. CASE Exhausted(o)
  BY <1>3, ReturnsQuiet DEF Exhausted, Quiet, Steps
<1>4. CASE Observe(o)
  <2>1. op[o].sticky \/ SelfHeld \in BOOLEAN
    BY DEF SelfHeld
  <2> QED BY <1>4, <2>1, ObserveBecomes DEF QuietMove, Quiet, Steps, Observe
<1>5. CASE Inspect(o)
  BY <1>5, GoesQuiet DEF Inspect, Quiet, Steps
<1>6. CASE Reserve(o)
  <2>1. op[o].sticky \in BOOLEAN
    BY OpFields DEF TypeOK
  <2> QED BY <1>6, <2>1, ReserveBecomes DEF QuietMove, Quiet, Steps, Reserve
<1>7. CASE Handoff(o)
  BY <1>7, GoesQuiet DEF Handoff, Quiet, Steps
<1> QED BY <1>1, <1>2, <1>3, <1>4, <1>5, <1>6, <1>7 DEF QuietAction

\* A worker starts, or goes on, or has a result.
Opens(w) == \E step \in {"opening", "done"} : ScanBecomes(w, step)

LEMMA StartsOpens ==
    ASSUME TypeOK, NEW w \in Workers,
           \E n \in 0..NumReaders : scan' = [scan EXCEPT ![w] = StartScan(n)]
    PROVE  Opens(w)
<1>1. PICK n \in 0..NumReaders : scan' = [scan EXCEPT ![w] = StartScan(n)]
  OBVIOUS
<1>2. Sound(StartScan(n)) /\ StartScan(n).step \in {"opening", "done"}
  BY StartScanType
<1>3. ScanBecomes(w, StartScan(n).step)
  BY <1>1, <1>2, SetScan DEF TypeOK
<1> QED BY <1>2, <1>3 DEF Opens

LEMMA AssessMoves ==
    ASSUME TypeOK, Shape, NEW o \in Ops, Assess(o)
    PROVE  /\ QuietMove(o)
           /\ UNCHANGED <<ext, open, calls, probe, openSessions, kept>>
           /\ UNCHANGED scan \/ (scan[Diag].step = "idle" /\ Opens(Diag))
<1>1. CASE Enters(o) /\ UNCHANGED scan
  BY <1>1, EntersQuiet DEF Assess
<1>2. CASE Returns(o) /\ UNCHANGED scan
  BY <1>2, ReturnsQuiet DEF Assess, Quiet, Steps
<1>3. CASE /\ scan[Diag].step = "idle"
           /\ Goes(o, "rescan")
           /\ \E n \in 0..NumReaders : scan' = [scan EXCEPT ![Diag] = StartScan(n)]
  <2>1. Opens(Diag)
    BY <1>3, StartsOpens, Names
  <2>2. QuietMove(o)
    BY <1>3, GoesQuiet DEF Assess, Quiet, Steps
  <2> QED BY <1>3, <2>1, <2>2 DEF Assess
<1> QED BY <1>1, <1>2, <1>3 DEF Assess

LEMMA BeginMoves ==
    ASSUME TypeOK, Shape, NEW o \in Ops, Begin(o)
    PROVE  /\ QuietMove(o)
           /\ scan[o].step = "idle" /\ open[o] = NoReader /\ Opens(o)
           /\ UNCHANGED <<ext, open, calls, probe, openSessions, kept>>
<1> DEFINE r == [IdleOp EXCEPT !.pc = "open", !.ctx = TRUE]
<1>1. r \in Op /\ r.pc = "open" /\ r.has = None /\ r.call = None /\ r.sticky = FALSE
  BY Constants DEF Op, Steps
<1>2. op' = [op EXCEPT ![o] = r]
  BY DEF Begin
<1> HIDE DEF r
<1>3. OpBecomes(o, r.pc, r.has, r.call, r.sticky)
  BY <1>1, <1>2, SetOp DEF TypeOK
<1>4. QuietMove(o)
  BY <1>1, <1>3 DEF QuietMove, Quiet, Steps, Begin
<1>5. Opens(o)
  BY StartsOpens, Names DEF Begin
<1> QED BY <1>4, <1>5 DEF Begin

LEMMA OpenReaderMoves ==
    ASSUME TypeOK, Listed, NEW w \in Workers, OpenReader(w)
    PROVE  /\ scan[w].step = "opening" /\ Opens(w)
           /\ UNCHANGED <<ext, calls, probe, op, openSessions, kept>>
           /\ \/ \E r \in Readers : Free(r) /\ open[w] = NoReader
                                   /\ open' = [open EXCEPT ![w] = r]
              \/ open[w] # NoReader /\ open' = [open EXCEPT ![w] = NoReader]
              \/ UNCHANGED open
<1> DEFINE r == scan[w].at
<1>1. scan[w].step = "opening" /\ r \in Readers
  BY ScanFields DEF OpenReader, Listed, Sound, Scan
<1>2. ASSUME NEW b \in BOOLEAN, Advances(w, b)
      PROVE  Opens(w)
  <2> DEFINE s == [StartScan(r - 1) EXCEPT !.busy = b /\ w \in Ops]
  <2>1. r - 1 \in 0..NumReaders
    BY <1>1 DEF Readers
  <2>2. (b /\ w \in Ops) \in BOOLEAN
    OBVIOUS
  <2>3. Sound(s) /\ s.step \in {"opening", "done"}
    <3> HIDE DEF r
    <3> QED BY <2>1, <2>2, StartScanType
  <2>4. scan' = [scan EXCEPT ![w] = s]
    BY <1>2 DEF Advances
  <2> HIDE DEF s
  <2>5. ScanBecomes(w, s.step)
    BY <2>3, <2>4, SetScan DEF TypeOK
  <2> QED BY <2>3, <2>5 DEF Opens
<1>3. ASSUME Stops(w)
      PROVE  Opens(w)
  <2>1. 0 \in 0..NumReaders
    OBVIOUS
  <2> QED BY <1>3, <2>1, StartsOpens DEF Stops
<1>4. scan[w].busy \in BOOLEAN
  BY ScanFields DEF TypeOK
<1>5. UNCHANGED <<ext, calls, probe, op, openSessions, kept>>
  BY DEF OpenReader
<1>6. CASE /\ Free(r) /\ open[w] = NoReader
           /\ open' = [open EXCEPT ![w] = r]
           /\ Advances(w, scan[w].busy)
  BY <1>1, <1>2, <1>4, <1>5, <1>6
<1>7. CASE Free(r) /\ open[w] # NoReader /\ Multiple(w)
  BY <1>1, <1>3, <1>5, <1>7 DEF Multiple
<1>8. CASE Advances(w, TRUE) /\ UNCHANGED open
  BY <1>1, <1>2, <1>5, <1>8
<1>9. CASE Advances(w, scan[w].busy) /\ UNCHANGED open
  BY <1>1, <1>2, <1>4, <1>5, <1>9
<1> QED BY <1>6, <1>7, <1>8, <1>9 DEF OpenReader

LEMMA ScanEnds ==
    ASSUME TypeOK, NEW w \in Workers, scan' = [scan EXCEPT ![w] = IdleScan]
    PROVE  ScanBecomes(w, "idle")
<1>1. ScanBecomes(w, IdleScan.step)
  BY Constants, SetScan DEF TypeOK
<1> QED BY <1>1, Constants

LEMMA TakeDirectMoves ==
    ASSUME TypeOK, Shape, NEW o \in Ops, TakeDirect(o)
    PROVE  /\ scan[o].step = "done" /\ ScanBecomes(o, "idle")
           /\ UNCHANGED <<ext, open, calls, probe, openSessions, kept>>
           /\ op[o].pc = "open"
           /\ \/ open[o] # NoReader /\ OpBecomes(o, "track", o, None, op[o].sticky)
              \/ open[o] = NoReader /\ QuietMove(o)
<1> DEFINE r == [op[o] EXCEPT !.pc = "track", !.has = o]
<1>1. /\ op[o].pc = "open" /\ scan[o].step = "done"
      /\ UNCHANGED <<ext, open, calls, probe, openSessions, kept>>
  BY DEF TakeDirect
<1>2. op[o] \in Op /\ op[o].call = None /\ op[o].pc \in Quiet \ {"untrack"}
  BY <1>1, QuietHas DEF Quiet, Steps, TypeOK
<1>3. ScanBecomes(o, "idle")
  BY ScanEnds, Names DEF TakeDirect
<1>4. r \in Op /\ r.pc = "track" /\ r.has = o /\ r.call = None /\ r.sticky = op[o].sticky
  BY <1>2, Names DEF Op, Steps
<1>5. CASE open[o] # NoReader
  <2>1. op' = [op EXCEPT ![o] = r]
    BY <1>5 DEF TakeDirect
  <2> HIDE DEF r
  <2>2. OpBecomes(o, r.pc, r.has, r.call, r.sticky)
    BY <1>4, <2>1, SetOp DEF TypeOK
  <2>3. OpBecomes(o, "track", o, None, op[o].sticky)
    BY <1>4, <2>2
  <2> QED BY <1>1, <1>3, <1>5, <2>3
<1>6. CASE open[o] = NoReader
  <2>1. Goes(o, "assess") \/ Returns(o)
    BY <1>6 DEF TakeDirect
  <2>2. QuietMove(o)
    BY <1>2, <2>1, GoesQuiet, ReturnsQuiet DEF Quiet, Steps
  <2> QED BY <1>1, <1>3, <1>6, <2>2
<1> QED BY <1>5, <1>6

LEMMA TrackMoves ==
    ASSUME TypeOK, Shape, NEW o \in Ops, Track(o)
    PROVE  /\ op[o].pc = "track"
           /\ OpBecomes(o, "hold", op[o].has, op[o].call, op[o].sticky)
           /\ openSessions' = openSessions + 1
           /\ UNCHANGED <<ext, open, scan, calls, probe, kept>>
BY GoesBecomes DEF TypeOK, Track, Steps

LEMMA CloseCardMoves ==
    ASSUME TypeOK, Shape, NEW o \in Ops, CloseCard(o)
    PROVE  /\ op[o].pc = "hold" /\ op[o].has \in Workers
           /\ open' = [open EXCEPT ![op[o].has] = NoReader]
           /\ OpBecomes(o, "untrack", None, None, op[o].sticky)
           /\ kept' = [p \in Ops |-> kept[p] \ {o}]
           /\ UNCHANGED <<ext, scan, calls, probe, openSessions>>
<1> DEFINE r == [op[o] EXCEPT !.pc = "untrack", !.has = None]
<1>1. op[o].pc = "hold"
  BY DEF CloseCard
<1>2. op[o] \in Op /\ op[o].call = None /\ op[o].has \in Workers
  BY <1>1, OpFields DEF TypeOK, Shape
<1>3. r \in Op /\ r.pc = "untrack" /\ r.has = None /\ r.call = None /\ r.sticky = op[o].sticky
  BY <1>2 DEF Op, Steps
<1>4. op' = [op EXCEPT ![o] = r]
  BY DEF CloseCard
<1> HIDE DEF r
<1>5. OpBecomes(o, r.pc, r.has, r.call, r.sticky)
  BY <1>3, <1>4, SetOp DEF TypeOK
<1>6. OpBecomes(o, "untrack", None, None, op[o].sticky)
  BY <1>3, <1>5
<1> QED BY <1>1, <1>2, <1>6 DEF CloseCard

LEMMA UntrackMoves ==
    ASSUME TypeOK, NEW o \in Ops, Untrack(o)
    PROVE  /\ op[o].pc = "untrack"
           /\ OpBecomes(o, "idle", None, None, FALSE)
           /\ openSessions' = openSessions - 1
           /\ UNCHANGED <<ext, open, scan, calls, probe, kept>>
BY ReturnsBecomes DEF TypeOK, Untrack

LEMMA LateCloseMoves ==
    ASSUME TypeOK, NEW w \in Workers, LateClose(w)
    PROVE  /\ scan[w].step # "idle" /\ ScanBecomes(w, "idle")
           /\ open' = [open EXCEPT ![w] = NoReader]
           /\ w \in Calls => scan[w].step = "late"
           /\ UNCHANGED <<ext, calls, probe, op, openSessions, kept>>
BY ScanEnds DEF LateClose

LEMMA DropLateMoves ==
    ASSUME TypeOK, Shape, NEW o \in Ops, DropLate(o)
    PROVE  /\ op[o].pc = "drop" /\ op[o].call \in Calls
           /\ open' = [open EXCEPT ![op[o].call] = NoReader]
           /\ OpBecomes(o, "observe", None, None, op[o].sticky)
           /\ UNCHANGED <<ext, scan, calls, probe, openSessions, kept>>
<1> DEFINE r == [op[o] EXCEPT !.pc = "observe", !.call = None]
<1>1. op[o].pc = "drop"
  BY DEF DropLate
<1>2. op[o] \in Op /\ op[o].has = None /\ op[o].call \in Calls
  BY <1>1, OpFields DEF TypeOK, Shape
<1>3. r \in Op /\ r.pc = "observe" /\ r.has = None /\ r.call = None /\ r.sticky = op[o].sticky
  BY <1>2 DEF Op, Steps
<1>4. op' = [op EXCEPT ![o] = r]
  BY DEF DropLate
<1> HIDE DEF r
<1>5. OpBecomes(o, r.pc, r.has, r.call, r.sticky)
  BY <1>3, <1>4, SetOp DEF TypeOK
<1>6. OpBecomes(o, "observe", None, None, op[o].sticky)
  BY <1>3, <1>5
<1> QED BY <1>1, <1>2, <1>6 DEF DropLate

LEMMA WaitsBecomes ==
    ASSUME TypeOK, Shape, NEW o \in Ops, NEW k \in Calls, op[o].pc \in {"poll", "join"},
           op' = [op EXCEPT ![o].pc = "wait", ![o].call = k]
    PROVE  OpBecomes(o, "wait", None, k, op[o].sticky)
<1> DEFINE r == [op[o] EXCEPT !.pc = "wait", !.call = k]
<1>1. op[o] \in Op /\ op[o].has = None
  BY QuietHas DEF Quiet, Steps, TypeOK
<1>2. r \in Op /\ r.pc = "wait" /\ r.has = None /\ r.call = k /\ r.sticky = op[o].sticky
  BY <1>1 DEF Op, Steps
<1>3. op' = [op EXCEPT ![o] = r]
  OBVIOUS
<1> HIDE DEF r
<1>4. OpBecomes(o, r.pc, r.has, r.call, r.sticky)
  BY <1>2, <1>3, SetOp DEF TypeOK
<1> QED BY <1>2, <1>4

LEMMA JoinProbeMoves ==
    ASSUME TypeOK, Shape, NEW o \in Ops, JoinProbe(o)
    PROVE  /\ op[o].pc \in {"poll", "join"} /\ probe \in Calls
           /\ CallBecomes(probe, calls[probe].ready, calls[probe].ok,
                          calls[probe].claimed, calls[probe].waiters + 1)
           /\ OpBecomes(o, "wait", None, probe, op[o].sticky)
           /\ kept' = [kept EXCEPT ![o] = Registered]
           /\ UNCHANGED <<ext, open, scan, probe, openSessions>>
<1> DEFINE c == [calls[probe] EXCEPT !.waiters = @ + 1]
<1>1. op[o].pc \in {"poll", "join"} /\ probe \in Calls
  BY DEF JoinProbe, TypeOK
<1>2. /\ c \in Call /\ c.ready = calls[probe].ready /\ c.ok = calls[probe].ok
      /\ c.claimed = calls[probe].claimed /\ c.waiters = calls[probe].waiters + 1
  <2>1. calls[probe] \in Call
    BY <1>1 DEF TypeOK
  <2>2. calls[probe].waiters + 1 \in Int
    BY <2>1, CallFields
  <2> QED BY <2>1, <2>2 DEF Call
<1>3. calls' = [calls EXCEPT ![probe] = c]
  BY DEF JoinProbe
<1> HIDE DEF c
<1>4. CallBecomes(probe, c.ready, c.ok, c.claimed, c.waiters)
  BY <1>1, <1>2, <1>3, SetCall DEF TypeOK
<1>5. OpBecomes(o, "wait", None, probe, op[o].sticky)
  BY <1>1, WaitsBecomes DEF JoinProbe
<1> QED BY <1>1, <1>2, <1>4, <1>5 DEF JoinProbe

LEMMA StartProbeMoves ==
    ASSUME TypeOK, Shape, NEW o \in Ops, StartProbe(o)
    PROVE  \E k \in Calls :
             /\ op[o].pc \in {"poll", "join"} /\ Unused(k) /\ probe' = k
             /\ CallBecomes(k, FALSE, FALSE, FALSE, 1)
             /\ Opens(k)
             /\ OpBecomes(o, "wait", None, k, op[o].sticky)
             /\ kept' = [kept EXCEPT ![o] = Registered]
             /\ UNCHANGED <<ext, open, openSessions>>
<1> DEFINE k == CHOOSE j \in Calls : Unused(j)
           c == [NewCall EXCEPT !.waiters = 1]
<1>1. /\ op[o].pc \in {"poll", "join"} /\ probe' = k
      /\ \E j \in Calls : Unused(j)
      /\ calls' = [calls EXCEPT ![k] = c]
      /\ \E n \in 0..NumReaders : scan' = [scan EXCEPT ![k] = StartScan(n)]
      /\ op' = [op EXCEPT ![o].pc = "wait", ![o].call = k]
      /\ kept' = [kept EXCEPT ![o] = Registered]
      /\ UNCHANGED <<ext, open, openSessions>>
  BY DEF StartProbe
<1>2. k \in Calls /\ Unused(k)
  BY <1>1
<1>3. /\ c \in Call /\ c.ready = NewCall.ready /\ c.ok = NewCall.ok
      /\ c.claimed = NewCall.claimed /\ c.waiters = 1
  BY Constants DEF Call
<1> HIDE DEF k, c
<1>4. NewCall.ready = FALSE /\ NewCall.ok = FALSE /\ NewCall.claimed = FALSE
  BY DEF NewCall
<1>5. CallBecomes(k, c.ready, c.ok, c.claimed, c.waiters)
  BY <1>1, <1>2, <1>3, SetCall DEF TypeOK
<1>6. CallBecomes(k, FALSE, FALSE, FALSE, 1)
  BY <1>3, <1>4, <1>5
<1>7. Opens(k)
  BY <1>1, <1>2, Names, StartsOpens
<1>8. OpBecomes(o, "wait", None, k, op[o].sticky)
  BY <1>1, <1>2, WaitsBecomes
<1> QED BY <1>1, <1>2, <1>6, <1>7, <1>8

LEMMA PublishProbeMoves ==
    ASSUME TypeOK, NEW k \in Calls, PublishProbe(k)
    PROVE  /\ scan[k].step = "done"
           /\ probe' \in {probe, None} /\ probe' # k
           /\ UNCHANGED <<ext, open, op, openSessions, kept>>
           /\ \/ /\ calls[k].waiters = 0 /\ CallBecomes(k, FALSE, FALSE, FALSE, 0)
                 /\ \/ open[k] = NoReader /\ ScanBecomes(k, "idle")
                    \/ open[k] # NoReader /\ ScanBecomes(k, "late")
              \/ /\ calls[k].waiters # 0 /\ ScanBecomes(k, "idle")
                 /\ CallBecomes(k, TRUE, open[k] # NoReader,
                                calls[k].claimed, calls[k].waiters)
<1> DEFINE c == [calls[k] EXCEPT !.ready = TRUE, !.ok = open[k] # NoReader]
           s == [scan[k] EXCEPT !.step = "late"]
<1>1. /\ scan[k].step = "done" /\ probe' \in {probe, None} /\ probe' # k
      /\ UNCHANGED <<ext, open, op, openSessions, kept>>
  BY Names DEF PublishProbe, ForgetProbe
<1>2. calls[k] \in Call /\ scan[k] \in Scan
  BY Names DEF TypeOK
<1>3. (open[k] # NoReader) \in BOOLEAN
  OBVIOUS
<1>4. /\ c \in Call /\ c.ready = TRUE /\ c.ok = (open[k] # NoReader)
      /\ c.claimed = calls[k].claimed /\ c.waiters = calls[k].waiters
  BY <1>2, <1>3 DEF Call
<1>5. Sound(s) /\ s.step = "late"
  BY <1>2 DEF Scan, Sound
<1>6. CASE calls[k].waiters = 0
  <2>1. calls' = [calls EXCEPT ![k] = NewCall]
    BY <1>6 DEF PublishProbe
  <2>2. CallBecomes(k, NewCall.ready, NewCall.ok, NewCall.claimed, NewCall.waiters)
    BY <2>1, Constants, SetCall DEF TypeOK
  <2>3. CallBecomes(k, FALSE, FALSE, FALSE, 0)
    BY <2>2 DEF NewCall
  <2>4. CASE open[k] = NoReader
    <3>1. ScanBecomes(k, "idle")
      BY <2>4, ScanEnds, Names DEF PublishProbe, Abandoned
    <3> QED BY <1>1, <1>6, <2>3, <2>4, <3>1
  <2>5. CASE open[k] # NoReader
    <3>1. scan' = [scan EXCEPT ![k] = s]
      BY <1>6, <2>5 DEF PublishProbe, Abandoned
    <3> HIDE DEF s
    <3>2. ScanBecomes(k, s.step)
      BY <1>5, <3>1, SetScan, Names DEF TypeOK
    <3> QED BY <1>1, <1>5, <1>6, <2>3, <2>5, <3>2
  <2> QED BY <2>4, <2>5
<1>7. CASE calls[k].waiters # 0
  <2>1. calls' = [calls EXCEPT ![k] = c]
    BY <1>7 DEF PublishProbe
  <2>2. ScanBecomes(k, "idle")
    BY <1>7, ScanEnds, Names DEF PublishProbe, Abandoned
  <2> HIDE DEF c
  <2>3. CallBecomes(k, c.ready, c.ok, c.claimed, c.waiters)
    BY <1>4, <2>1, SetCall DEF TypeOK
  <2>4. CallBecomes(k, TRUE, open[k] # NoReader, calls[k].claimed, calls[k].waiters)
    BY <1>4, <2>3
  <2> QED BY <1>1, <1>7, <2>2, <2>4
<1> QED BY <1>6, <1>7

LEMMA LeavesBecomes ==
    ASSUME TypeOK, NEW k \in Calls, NEW b \in BOOLEAN, Leaves(k, b)
    PROVE  \/ /\ calls[k].ready /\ calls[k].waiters = 1
              /\ CallBecomes(k, FALSE, FALSE, FALSE, 0)
           \/ /\ ~(calls[k].ready /\ calls[k].waiters = 1)
              /\ CallBecomes(k, calls[k].ready, calls[k].ok, calls[k].claimed \/ b,
                             calls[k].waiters - 1)
<1> DEFINE c == [calls[k] EXCEPT !.waiters = @ - 1, !.claimed = @ \/ b]
<1>1. CASE calls[k].ready /\ calls[k].waiters = 1
  <2>1. calls' = [calls EXCEPT ![k] = NewCall]
    BY <1>1 DEF Leaves
  <2>2. CallBecomes(k, NewCall.ready, NewCall.ok, NewCall.claimed, NewCall.waiters)
    BY <2>1, Constants, SetCall DEF TypeOK
  <2> QED BY <1>1, <2>2 DEF NewCall
<1>2. CASE ~(calls[k].ready /\ calls[k].waiters = 1)
  <2>1. calls[k] \in Call
    BY DEF TypeOK
  <2>2. calls[k].waiters - 1 \in Int /\ (calls[k].claimed \/ b) \in BOOLEAN
    BY <2>1, CallFields
  <2>3. /\ c \in Call /\ c.ready = calls[k].ready /\ c.ok = calls[k].ok
        /\ c.claimed = (calls[k].claimed \/ b) /\ c.waiters = calls[k].waiters - 1
    BY <2>1, <2>2 DEF Call
  <2>4. calls' = [calls EXCEPT ![k] = IF calls[k].ready /\ calls[k].waiters = 1
                                      THEN NewCall ELSE c]
    BY DEF Leaves
  <2> HIDE DEF c
  <2>5. calls' = [calls EXCEPT ![k] = c]
    BY <1>2, <2>4
  <2>6. CallBecomes(k, c.ready, c.ok, c.claimed, c.waiters)
    BY <2>3, <2>5, SetCall DEF TypeOK
  <2> QED BY <1>2, <2>3, <2>6
<1> QED BY <1>1, <1>2

LEMMA Waits ==
    ASSUME TypeOK, Shape, NEW o \in Ops, op[o].pc = "wait"
    PROVE  op[o] \in Op /\ op[o].call \in Calls /\ op[o].has = None
           /\ op[o].sticky \in BOOLEAN
BY OpFields DEF TypeOK, Shape

LEMMA StopsWaiting ==
    ASSUME TypeOK, Shape, NEW o \in Ops, op[o].pc = "wait",
           NEW step \in {"join", "observe"},
           op' = [op EXCEPT ![o].pc = step, ![o].call = None]
    PROVE  OpBecomes(o, step, None, None, op[o].sticky)
<1> DEFINE r == [op[o] EXCEPT !.pc = step, !.call = None]
<1>1. r \in Op /\ r.pc = step /\ r.has = None /\ r.call = None /\ r.sticky = op[o].sticky
  <2>1. op[o] \in Op /\ op[o].has = None
    BY Waits DEF TypeOK
  <2> QED BY <2>1, Constants DEF Op, Steps
<1>2. op' = [op EXCEPT ![o] = r]
  OBVIOUS
<1> HIDE DEF r
<1>3. OpBecomes(o, r.pc, r.has, r.call, r.sticky)
  BY <1>1, <1>2, SetOp DEF TypeOK
<1> QED BY <1>1, <1>3

LEMMA TakeProbeMoves ==
    ASSUME TypeOK, Shape, NEW o \in Ops, TakeProbe(o)
    PROVE  /\ op[o].pc = "wait" /\ calls[op[o].call].ready
           /\ probe' \in {probe, None}
           /\ UNCHANGED <<ext, open, scan, openSessions>>
           /\ \/ /\ ~Offers(op[o].call)
                 /\ Leaves(op[o].call, FALSE)
                 /\ \E step \in {"join", "observe"} :
                       OpBecomes(o, step, None, None, op[o].sticky)
                 /\ UNCHANGED kept
              \/ /\ Offers(op[o].call)
                 /\ Leaves(op[o].call, TRUE)
                 /\ OpBecomes(o, "track", op[o].call, None, FALSE)
                 /\ kept' = [kept EXCEPT ![o] = {}]
<1> DEFINE k == op[o].call
           r == [op[o] EXCEPT !.pc = "track", !.call = None, !.has = k,
                              !.inspected = FALSE, !.sticky = FALSE]
<1>1. /\ op[o].pc = "wait" /\ calls[k].ready /\ probe' \in {probe, None}
      /\ UNCHANGED <<ext, open, scan, openSessions>>
  BY DEF TakeProbe, ForgetProbe
<1>2. op[o] \in Op /\ k \in Calls
  BY <1>1, Waits
<1>3. CASE /\ ~calls[k].ok
           /\ Leaves(k, FALSE)
           /\ op' = [op EXCEPT ![o].pc = "observe", ![o].call = None]
           /\ UNCHANGED kept
  BY <1>1, <1>3, StopsWaiting DEF Offers
<1>4. CASE /\ calls[k].ok /\ Claimable(k)
           /\ Leaves(k, TRUE)
           /\ op' = [op EXCEPT ![o].pc = "track", ![o].call = None, ![o].has = k,
                               ![o].inspected = FALSE, ![o].sticky = FALSE]
           /\ kept' = [kept EXCEPT ![o] = {}]
  <2>1. /\ r \in Op /\ r.pc = "track" /\ r.has = k /\ r.call = None /\ r.sticky = FALSE
    BY <1>2, Names DEF Op, Steps
  <2>2. op' = [op EXCEPT ![o] = r]
    BY <1>4
  <2> HIDE DEF r
  <2>3. OpBecomes(o, r.pc, r.has, r.call, r.sticky)
    BY <2>1, <2>2, SetOp DEF TypeOK
  <2>4. OpBecomes(o, "track", k, None, FALSE)
    BY <2>1, <2>3
  <2> QED BY <1>1, <1>2, <1>4, <2>4 DEF Offers, Claimable
<1>5. CASE /\ calls[k].ok /\ ~Claimable(k)
           /\ Leaves(k, FALSE)
           /\ \E step \in {"join", "observe"} :
                 op' = [op EXCEPT ![o].pc = step, ![o].call = None]
           /\ UNCHANGED kept
  BY <1>1, <1>5, StopsWaiting DEF Offers, Claimable
<1> QED BY <1>3, <1>4, <1>5 DEF TakeProbe

LEMMA LeaveProbeMoves ==
    ASSUME TypeOK, Shape, NEW o \in Ops, LeaveProbe(o)
    PROVE  /\ op[o].pc = "wait"
           /\ probe' \in {probe, None}
           /\ Leaves(op[o].call, LastCloses(op[o].call))
           /\ UNCHANGED <<ext, open, scan, openSessions, kept>>
           /\ \/ /\ ~LastCloses(op[o].call)
                 /\ OpBecomes(o, "observe", None, None, op[o].sticky)
              \/ /\ LastCloses(op[o].call)
                 /\ OpBecomes(o, "drop", None, op[o].call, op[o].sticky)
<1> DEFINE k == op[o].call
           r == [op[o] EXCEPT !.pc = "drop", !.call = k]
<1>1. /\ op[o].pc = "wait" /\ probe' \in {probe, None}
      /\ Leaves(k, LastCloses(k))
      /\ UNCHANGED <<ext, open, scan, openSessions, kept>>
  BY DEF LeaveProbe
<1>2. op[o] \in Op /\ k \in Calls
  BY <1>1, Waits
<1>3. CASE ~LastCloses(k)
  <2>1. op' = [op EXCEPT ![o].pc = "observe", ![o].call = None]
    BY <1>3 DEF LeaveProbe
  <2> QED BY <1>1, <1>3, <2>1, StopsWaiting
<1>4. CASE LastCloses(k)
  <2>1. /\ r \in Op /\ r.pc = "drop" /\ r.has = None /\ r.call = k
        /\ r.sticky = op[o].sticky
    BY <1>1, <1>2, Waits DEF Op, Steps
  <2>2. op' = [op EXCEPT ![o] = r]
    BY <1>4 DEF LeaveProbe
  <2> HIDE DEF r
  <2>3. OpBecomes(o, r.pc, r.has, r.call, r.sticky)
    BY <2>1, <2>2, SetOp DEF TypeOK
  <2>4. OpBecomes(o, "drop", None, k, op[o].sticky)
    BY <2>1, <2>3
  <2> QED BY <1>1, <1>4, <2>4
<1> QED BY <1>3, <1>4

-----------------------------------------------------------------------------
(* Types.                                                                  *)

Typed == TypeOK /\ Shape /\ Listed

\* The values that go with a step of an operation.
Fits(o, pc, has, call) ==
    /\ has # None <=> pc \in {"track", "hold"}
    /\ call # None <=> pc \in {"wait", "drop"}
    /\ has \in Calls \cup {o, None}

LEMMA ShapeKept ==
    ASSUME Shape, NEW o \in Ops, NEW pc, NEW has, NEW call, NEW st,
           OpBecomes(o, pc, has, call, st), Fits(o, pc, has, call)
    PROVE  Shape'
BY DEF Shape, OpBecomes, Fits

LEMMA QuietShape ==
    ASSUME Shape, NEW o \in Ops, QuietMove(o)
    PROVE  Shape' /\ op' \in [Ops -> Op]
<1>1. PICK b \in Quiet \ {"untrack"}, st \in BOOLEAN : OpBecomes(o, b, None, None, st)
  BY DEF QuietMove
<1>2. Fits(o, b, None, None)
  BY DEF Fits, Quiet
<1>3. Shape'
  BY <1>1, <1>2, ShapeKept
<1> QED BY <1>1, <1>3 DEF OpBecomes

LEMMA SameShape ==
    ASSUME Shape, OpSame
    PROVE  Shape'
BY DEF Shape, OpSame

LEMMA ListedKept ==
    ASSUME Listed, NEW w \in Workers, NEW step, ScanBecomes(w, step)
    PROVE  Listed'
BY DEF Listed, ScanBecomes

LEMMA OpensListed ==
    ASSUME Listed, NEW w \in Workers, Opens(w)
    PROVE  Listed' /\ scan' \in [Workers -> Scan]
BY ListedKept DEF Opens, ScanBecomes

LEMMA InitTyped == Init => Typed
<1> SUFFICES ASSUME Init PROVE Typed
  OBVIOUS
<1>1. TypeOK
  BY Constants DEF Init, TypeOK, NoReader, Sound
<1>2. Shape
  BY Constants DEF Init, Shape
<1>3. Listed
  BY Constants DEF Init, Listed
<1> QED BY <1>1, <1>2, <1>3 DEF Typed

LEMMA EnvTyped ==
    ASSUME Typed,
           \/ \E r \in Readers : ExtTake(r) \/ ExtRelease(r)
           \/ Tick
           \/ \E o \in Ops : ContextEnds(o)
           \/ UNCHANGED vars
    PROVE  Typed'
<1> USE DEF Typed
<1>1. CASE \E r \in Readers : ExtTake(r) \/ ExtRelease(r)
  BY <1>1 DEF ExtTake, ExtRelease, TypeOK, Shape, Listed
<1>2. CASE Tick \/ \E o \in Ops : ContextEnds(o)
  <2>1. OpSame /\ UNCHANGED <<ext, open, scan, calls, probe, openSessions, kept>>
    BY <1>2, TickMoves, ContextEndsMoves
  <2> QED BY <2>1, SameShape DEF TypeOK, OpSame, Listed
<1>3. CASE UNCHANGED vars
  BY <1>3 DEF vars, TypeOK, Shape, Listed
<1> QED BY <1>1, <1>2, <1>3

LEMMA OpenReaderTyped ==
    ASSUME Typed, NEW w \in Workers, OpenReader(w)
    PROVE  Typed'
<1>1. Listed' /\ scan' \in [Workers -> Scan]
  BY OpenReaderMoves, OpensListed DEF Typed
<1>2. open' \in [Workers -> Readers \cup {NoReader}]
  BY OpenReaderMoves DEF Typed, TypeOK
<1>3. UNCHANGED <<ext, calls, probe, op, openSessions, kept>>
  BY DEF OpenReader
<1>4. TypeOK'
  BY <1>1, <1>2, <1>3 DEF Typed, TypeOK
<1> QED BY <1>1, <1>3, <1>4 DEF Typed, Shape

LEMMA LateCloseTyped ==
    ASSUME Typed, NEW w \in Workers, LateClose(w)
    PROVE  Typed'
<1>1. Listed' /\ scan' \in [Workers -> Scan]
  BY LateCloseMoves, ListedKept DEF Typed, ScanBecomes
<1>2. open' \in [Workers -> Readers \cup {NoReader}]
  BY LateCloseMoves DEF Typed, TypeOK
<1>3. UNCHANGED <<ext, calls, probe, op, openSessions, kept>>
  BY DEF LateClose
<1>4. TypeOK'
  BY <1>1, <1>2, <1>3 DEF Typed, TypeOK
<1> QED BY <1>1, <1>3, <1>4 DEF Typed, Shape

LEMMA PublishProbeTyped ==
    ASSUME Typed, NEW k \in Calls, PublishProbe(k)
    PROVE  Typed'
<1>1. /\ \E step \in ScanSteps : ScanBecomes(k, step)
      /\ calls' \in [Calls -> Call]
      /\ probe' \in {probe, None}
      /\ UNCHANGED <<ext, open, op, openSessions, kept>>
  BY PublishProbeMoves DEF Typed, CallBecomes, ScanSteps
<1>2. Listed' /\ scan' \in [Workers -> Scan]
  BY <1>1, ListedKept, Names DEF Typed, ScanBecomes
<1>3. TypeOK'
  BY <1>1, <1>2 DEF Typed, TypeOK
<1> QED BY <1>1, <1>2, <1>3 DEF Typed, Shape

LEMMA LeavesTyped ==
    ASSUME TypeOK, NEW k \in Calls, NEW b \in BOOLEAN, Leaves(k, b)
    PROVE  calls' \in [Calls -> Call]
BY LeavesBecomes DEF CallBecomes

\* Registering, closing, joining and leaving.
LEMMA SessionTyped ==
    ASSUME Typed, NEW o \in Ops, Track(o) \/ CloseCard(o) \/ Untrack(o) \/ DropLate(o)
    PROVE  Typed'
<1>0. TypeOK /\ Shape /\ Listed
  BY DEF Typed
<1>1. CASE Track(o)
  <2>1. Shape'
    <3>1. Fits(o, "hold", op[o].has, op[o].call)
      BY <1>0, <1>1, TrackMoves DEF Fits, Shape
    <3> QED BY <1>0, <1>1, <3>1, TrackMoves, ShapeKept
  <2>2. TypeOK' /\ Listed'
    BY <1>0, <1>1, TrackMoves DEF TypeOK, OpBecomes, Listed
  <2> QED BY <2>1, <2>2 DEF Typed
<1>2. CASE CloseCard(o)
  <2>1. Shape'
    <3>1. Fits(o, "untrack", None, None)
      BY DEF Fits
    <3> QED BY <1>0, <1>2, <3>1, CloseCardMoves, ShapeKept
  <2>2. TypeOK' /\ Listed'
    BY <1>0, <1>2, CloseCardMoves DEF TypeOK, OpBecomes, Listed
  <2> QED BY <2>1, <2>2 DEF Typed
<1>3. CASE Untrack(o)
  <2>1. Shape'
    <3>1. Fits(o, "idle", None, None)
      BY DEF Fits
    <3> QED BY <1>0, <1>3, <3>1, UntrackMoves, ShapeKept
  <2>2. openSessions' \in Int /\ op' \in [Ops -> Op]
    <3>1. openSessions \in Int /\ openSessions' = openSessions - 1
      BY <1>0, <1>3 DEF TypeOK, Untrack
    <3>2. OpBecomes(o, "idle", None, None, FALSE)
      BY <1>0, <1>3, UntrackMoves
    <3> QED BY <3>1, <3>2 DEF OpBecomes
  <2>3. UNCHANGED <<ext, open, scan, calls, probe, kept>>
    BY <1>0, <1>3, UntrackMoves
  <2>4. TypeOK' /\ Listed'
    BY <1>0, <2>2, <2>3 DEF TypeOK, Listed
  <2> QED BY <2>1, <2>4 DEF Typed
<1>4. CASE DropLate(o)
  <2>1. Shape'
    <3>1. Fits(o, "observe", None, None)
      BY DEF Fits
    <3> QED BY <1>0, <1>4, <3>1, DropLateMoves, ShapeKept
  <2>2. TypeOK' /\ Listed'
    BY <1>0, <1>4, DropLateMoves, Names DEF TypeOK, OpBecomes, Listed
  <2> QED BY <2>1, <2>2 DEF Typed
<1> QED BY <1>1, <1>2, <1>3, <1>4

LEMMA ProbeTyped ==
    ASSUME Typed, NEW o \in Ops, JoinProbe(o) \/ StartProbe(o) \/ TakeProbe(o) \/ LeaveProbe(o)
    PROVE  Typed'
<1>0. TypeOK /\ Shape /\ Listed
  BY DEF Typed
<1>1. Registered \subseteq Ops
  BY DEF Registered
<1>2. CASE JoinProbe(o)
  <2>1. Shape'
    <3>1. Fits(o, "wait", None, probe)
      BY <1>0, <1>2, JoinProbeMoves, Names DEF Fits
    <3> QED BY <1>0, <1>2, <3>1, JoinProbeMoves, ShapeKept
  <2>2. TypeOK' /\ Listed'
    BY <1>0, <1>1, <1>2, JoinProbeMoves DEF TypeOK, OpBecomes, CallBecomes, Listed
  <2> QED BY <2>1, <2>2 DEF Typed
<1>3. CASE StartProbe(o)
  <2>1. PICK k \in Calls :
             /\ op[o].pc \in {"poll", "join"} /\ Unused(k) /\ probe' = k
             /\ CallBecomes(k, FALSE, FALSE, FALSE, 1)
             /\ Opens(k)
             /\ OpBecomes(o, "wait", None, k, op[o].sticky)
             /\ kept' = [kept EXCEPT ![o] = Registered]
             /\ UNCHANGED <<ext, open, openSessions>>
    BY <1>0, <1>3, StartProbeMoves
  <2>2. Fits(o, "wait", None, k)
    BY Names DEF Fits
  <2>3. Shape'
    BY <1>0, <2>1, <2>2, ShapeKept
  <2>4. Listed' /\ scan' \in [Workers -> Scan]
    BY <1>0, <2>1, OpensListed, Names
  <2>5. TypeOK'
    BY <1>0, <1>1, <2>1, <2>4 DEF TypeOK, OpBecomes, CallBecomes
  <2> QED BY <2>3, <2>4, <2>5 DEF Typed
<1>4. CASE TakeProbe(o)
  <2>1. op[o].call \in Calls
    BY <1>0, <1>4, TakeProbeMoves, Waits
  <2>2. calls' \in [Calls -> Call]
    BY <1>0, <1>4, <2>1, TakeProbeMoves, LeavesTyped
  <2>3. Shape' /\ op' \in [Ops -> Op]
    <3>1. \A step \in {"join", "observe"} : Fits(o, step, None, None)
      BY DEF Fits
    <3>2. Fits(o, "track", op[o].call, None)
      BY <2>1, Names DEF Fits
    <3> QED BY <1>0, <1>4, <3>1, <3>2, TakeProbeMoves, ShapeKept DEF OpBecomes
  <2>4. kept' \in [Ops -> SUBSET Ops]
    BY <1>0, <1>4, TakeProbeMoves DEF TypeOK
  <2>5. probe' \in {probe, None} /\ UNCHANGED <<ext, open, scan, openSessions>>
    BY <1>0, <1>4, TakeProbeMoves
  <2>6. TypeOK' /\ Listed'
    BY <1>0, <2>2, <2>3, <2>4, <2>5 DEF TypeOK, Listed
  <2> QED BY <2>3, <2>6 DEF Typed
<1>5. CASE LeaveProbe(o)
  <2>1. op[o].call \in Calls /\ LastCloses(op[o].call) \in BOOLEAN
    BY <1>0, <1>5, LeaveProbeMoves, Waits DEF LastCloses
  <2>2. calls' \in [Calls -> Call]
    BY <1>0, <1>5, <2>1, LeaveProbeMoves, LeavesTyped
  <2>3. Shape' /\ op' \in [Ops -> Op]
    <3>1. Fits(o, "observe", None, None)
      BY DEF Fits
    <3>2. Fits(o, "drop", None, op[o].call)
      BY <2>1, Names DEF Fits
    <3> QED BY <1>0, <1>5, <3>1, <3>2, LeaveProbeMoves, ShapeKept DEF OpBecomes
  <2>4. probe' \in {probe, None} /\ UNCHANGED <<ext, open, scan, openSessions, kept>>
    BY <1>0, <1>5, LeaveProbeMoves
  <2>5. TypeOK' /\ Listed'
    BY <1>0, <2>2, <2>3, <2>4 DEF TypeOK, Listed
  <2> QED BY <2>3, <2>5 DEF Typed
<1> QED BY <1>2, <1>3, <1>4, <1>5

LEMMA RecoveryTyped ==
    ASSUME Typed, NEW o \in Ops,
           Begin(o) \/ TakeDirect(o) \/ Assess(o) \/ QuietAction(o)
    PROVE  Typed'
<1>0. TypeOK /\ Shape /\ Listed
  BY DEF Typed
<1>1. CASE Begin(o)
  BY <1>0, <1>1, BeginMoves, QuietShape, OpensListed, Names DEF Typed, TypeOK
<1>2. CASE TakeDirect(o)
  <2>1. Fits(o, "track", o, None)
    BY Names DEF Fits
  <2>2. Shape' /\ op' \in [Ops -> Op]
    BY <1>0, <1>2, <2>1, TakeDirectMoves, QuietShape, ShapeKept DEF OpBecomes
  <2>3. Listed' /\ scan' \in [Workers -> Scan]
    BY <1>0, <1>2, TakeDirectMoves, ListedKept, Names DEF ScanBecomes
  <2> QED BY <1>0, <1>2, <2>2, <2>3, TakeDirectMoves DEF Typed, TypeOK
<1>3. CASE Assess(o)
  <2>1. Shape' /\ op' \in [Ops -> Op]
    BY <1>0, <1>3, AssessMoves, QuietShape
  <2>2. Listed' /\ scan' \in [Workers -> Scan]
    BY <1>0, <1>3, AssessMoves, OpensListed, Names DEF TypeOK, Listed
  <2> QED BY <1>0, <1>3, <2>1, <2>2, AssessMoves DEF Typed, TypeOK
<1>4. CASE QuietAction(o)
  <2>1. Shape' /\ op' \in [Ops -> Op]
    BY <1>0, <1>4, QuietMoves, QuietShape
  <2>2. kept' \in [Ops -> SUBSET Ops]
    BY <1>0, <1>4 DEF TypeOK, QuietAction, LeaveDirect, EndRescan, Exhausted, Observe,
                      Inspect, Reserve, Handoff
  <2>3. UNCHANGED <<ext, open, scan, calls, probe, openSessions>>
    BY <1>0, <1>4, QuietMoves
  <2> QED BY <1>0, <2>1, <2>2, <2>3 DEF Typed, TypeOK, Listed
<1> QED BY <1>1, <1>2, <1>3, <1>4

LEMMA NextTyped ==
    ASSUME Typed, [Next]_vars
    PROVE  Typed'
BY EnvTyped, OpenReaderTyped, LateCloseTyped, PublishProbeTyped, SessionTyped, ProbeTyped,
   RecoveryTyped DEF Next, OpStep, QuietAction

\* TypeOK for any number of operations, calls and readers: what the fields of
\* acquireCard and of a probeCall may hold.
THEOREM AccessTypes == Spec => []TypeOK
<1>1. Spec => []Typed
  BY InitTyped, NextTyped, PTL DEF Spec
<1> QED BY <1>1, PTL DEF Typed

-----------------------------------------------------------------------------
(* Counts.                                                                 *)

LEMMA CardPlus ==
    ASSUME NEW S \in SUBSET Ops, NEW o \in Ops
    PROVE  /\ Cardinality(S) \in Nat
           /\ Cardinality(S \cup {o}) = IF o \in S THEN Cardinality(S) ELSE Cardinality(S) + 1
           /\ Cardinality(S \ {o}) = IF o \in S THEN Cardinality(S) - 1 ELSE Cardinality(S)
<1>1. IsFiniteSet(S)
  BY FS_Subset
<1> QED BY <1>1, FS_CardinalityType, FS_AddElement, FS_RemoveElement

Tracked == {o \in Ops : op[o].pc \in {"hold", "untrack"}}

LEMMA WaitingBecomes ==
    ASSUME NEW o \in Ops, NEW pc, NEW has, NEW call, NEW st,
           OpBecomes(o, pc, has, call, st), NEW k
    PROVE  Waiting(k)' = IF pc = "wait" /\ call = k THEN Waiting(k) \cup {o}
                         ELSE Waiting(k) \ {o}
BY DEF Waiting, OpBecomes

LEMMA TrackedBecomes ==
    ASSUME NEW o \in Ops, NEW pc, NEW has, NEW call, NEW st,
           OpBecomes(o, pc, has, call, st)
    PROVE  Tracked' = IF pc \in {"hold", "untrack"} THEN Tracked \cup {o} ELSE Tracked \ {o}
BY DEF Tracked, OpBecomes

\* The operation neither waits nor has a session registered, before and after.
LEMMA CountsUntouched ==
    ASSUME NEW o \in Ops, NEW pc, NEW has, NEW call, NEW st,
           OpBecomes(o, pc, has, call, st),
           op[o].pc = "wait" <=> pc = "wait",
           pc = "wait" => call = op[o].call,
           op[o].pc \in {"hold", "untrack"} <=> pc \in {"hold", "untrack"}
    PROVE  Tracked' = Tracked /\ \A k : Waiting(k)' = Waiting(k)
BY DEF Waiting, Tracked, OpBecomes

LEMMA CountsStable ==
    ASSUME CountsExact, Tracked' = Tracked, \A k : Waiting(k)' = Waiting(k),
           \A k \in Calls : calls'[k].waiters = calls[k].waiters,
           openSessions' = openSessions
    PROVE  CountsExact'
BY DEF CountsExact, Tracked

LEMMA QuietCounts ==
    ASSUME CountsExact, NEW o \in Ops, QuietMove(o), UNCHANGED <<calls, openSessions>>
    PROVE  CountsExact'
<1>1. PICK b \in Quiet \ {"untrack"}, st \in BOOLEAN : OpBecomes(o, b, None, None, st)
  BY DEF QuietMove
<1>2. Tracked' = Tracked /\ \A k : Waiting(k)' = Waiting(k)
  BY <1>1, CountsUntouched DEF QuietMove, Quiet
<1> QED BY <1>2, CountsStable

LEMMA InitCounts == Init => CountsExact
<1> SUFFICES ASSUME Init PROVE CountsExact
  OBVIOUS
<1>1. \A k : Waiting(k) = {}
  BY Constants DEF Init, Waiting
<1>2. Tracked = {}
  BY Constants DEF Init, Tracked
<1>3. \A k \in Calls : calls[k].waiters = 0
  BY Constants DEF Init
<1> QED BY <1>1, <1>2, <1>3, FS_EmptySet DEF CountsExact, Tracked, Init

\* A waiter leaves its call.
LEMMA LeavesCounts ==
    ASSUME Typed, CountsExact, NEW o \in Ops, op[o].pc = "wait",
           NEW b \in BOOLEAN, Leaves(op[o].call, b),
           NEW pc \in Steps \ {"wait", "hold", "untrack"}, NEW has, NEW call, NEW st,
           OpBecomes(o, pc, has, call, st), UNCHANGED openSessions
    PROVE  CountsExact'
<1> DEFINE k == op[o].call
<1>1. k \in Calls /\ o \in Waiting(k) /\ o \notin Tracked
  BY Waits DEF Typed, Waiting, Tracked
<1>2. /\ calls'[k].waiters = calls[k].waiters - 1
      /\ \A j \in Calls : j # k => calls'[j] = calls[j]
  <2>1. TypeOK /\ Leaves(k, b)
    BY DEF Typed
  <2> HIDE DEF k
  <2>2. \/ calls[k].waiters = 1 /\ CallBecomes(k, FALSE, FALSE, FALSE, 0)
        \/ CallBecomes(k, calls[k].ready, calls[k].ok, calls[k].claimed \/ b,
                       calls[k].waiters - 1)
    BY <1>1, <2>1, LeavesBecomes
  <2> QED BY <2>2 DEF CallBecomes
<1>3. \A j : Waiting(j)' = Waiting(j) \ {o}
  BY WaitingBecomes
<1>4. \A j \in Calls : j # k => o \notin Waiting(j)
  BY DEF Waiting
<1>5. ASSUME NEW j \in Calls
      PROVE  calls'[j].waiters = Cardinality(Waiting(j)')
  <2>1. Waiting(j) \in SUBSET Ops
    BY DEF Waiting
  <2>2. calls[j].waiters = Cardinality(Waiting(j))
    BY DEF CountsExact
  <2> HIDE DEF k
  <2>3. CASE j = k
    <3>1. Cardinality(Waiting(j) \ {o}) = Cardinality(Waiting(j)) - 1
      BY <1>1, <2>1, <2>3, CardPlus
    <3> QED BY <1>2, <1>3, <2>2, <2>3, <3>1
  <2>4. CASE j # k
    <3>1. Waiting(j) \ {o} = Waiting(j)
      BY <1>4, <2>4
    <3> QED BY <1>2, <1>3, <2>2, <2>4, <3>1
  <2> QED BY <2>3, <2>4
<1>6. Tracked' = Tracked
  BY <1>1, TrackedBecomes
<1> QED BY <1>5, <1>6 DEF CountsExact, Tracked

\* A waiter comes to a call.
LEMMA JoinsCounts ==
    ASSUME Typed, CountsExact, NEW o \in Ops, op[o].pc \in {"poll", "join"},
           NEW k \in Calls, calls'[k].waiters = Cardinality(Waiting(k)) + 1,
           \A j \in Calls : j # k => calls'[j] = calls[j],
           NEW st, OpBecomes(o, "wait", None, k, st), UNCHANGED openSessions
    PROVE  CountsExact'
<1>1. \A j : o \notin Waiting(j)
  BY DEF Waiting
<1>2. o \notin Tracked
  BY DEF Tracked
<1>3. ASSUME NEW j \in Calls
      PROVE  calls'[j].waiters = Cardinality(Waiting(j)')
  <2>1. Waiting(j) \in SUBSET Ops
    BY DEF Waiting
  <2>2. calls[j].waiters = Cardinality(Waiting(j))
    BY DEF CountsExact
  <2>3. CASE j = k
    <3>1. Waiting(j)' = Waiting(j) \cup {o}
      BY <2>3, WaitingBecomes
    <3>2. Cardinality(Waiting(j) \cup {o}) = Cardinality(Waiting(j)) + 1
      BY <1>1, <2>1, CardPlus
    <3> QED BY <2>3, <3>1, <3>2
  <2>4. CASE j # k
    <3>1. Waiting(j)' = Waiting(j) \ {o}
      BY <2>4, WaitingBecomes
    <3>2. Waiting(j) \ {o} = Waiting(j)
      BY <1>1
    <3> QED BY <2>2, <2>4, <3>1, <3>2
  <2> QED BY <2>3, <2>4
<1>4. Tracked' = Tracked
  BY <1>2, TrackedBecomes
<1> QED BY <1>3, <1>4 DEF CountsExact, Tracked

LEMMA NextCounts ==
    ASSUME Typed, CountsExact, [Next]_vars
    PROVE  CountsExact'
<1>0. TypeOK /\ Shape /\ Listed
  BY DEF Typed
<1>1. CASE \/ \E r \in Readers : ExtTake(r) \/ ExtRelease(r)
           \/ \E w \in Workers : OpenReader(w) \/ LateClose(w)
           \/ UNCHANGED vars
  <2>1. UNCHANGED <<op, calls, openSessions>>
    BY <1>1 DEF ExtTake, ExtRelease, OpenReader, LateClose, vars
  <2> QED BY <2>1 DEF CountsExact, Waiting
<1>2. CASE Tick \/ \E o \in Ops : ContextEnds(o)
  <2>1. OpSame /\ UNCHANGED <<calls, openSessions>>
    BY <1>0, <1>2, TickMoves, ContextEndsMoves
  <2>2. Tracked' = Tracked /\ \A k : Waiting(k)' = Waiting(k)
    BY <2>1 DEF OpSame, Tracked, Waiting
  <2> QED BY <2>1, <2>2, CountsStable
<1>3. ASSUME NEW k \in Calls, PublishProbe(k)
      PROVE  CountsExact'
  <2>1. UNCHANGED <<op, openSessions>> /\ \A j \in Calls : calls'[j].waiters = calls[j].waiters
    BY <1>0, <1>3, PublishProbeMoves DEF CallBecomes
  <2> QED BY <2>1 DEF CountsExact, Waiting
<1>4. ASSUME NEW o \in Ops, Begin(o) \/ Assess(o) \/ QuietAction(o)
      PROVE  CountsExact'
  BY <1>0, <1>4, BeginMoves, AssessMoves, QuietMoves, QuietCounts
<1>5. ASSUME NEW o \in Ops, TakeDirect(o)
      PROVE  CountsExact'
  <2>1. CASE OpBecomes(o, "track", o, None, op[o].sticky)
    <3>1. Tracked' = Tracked /\ \A k : Waiting(k)' = Waiting(k)
      BY <1>0, <1>5, <2>1, TakeDirectMoves, CountsUntouched
    <3> QED BY <1>0, <1>5, <3>1, TakeDirectMoves, CountsStable
  <2>2. CASE QuietMove(o)
    BY <1>0, <1>5, <2>2, TakeDirectMoves, QuietCounts
  <2> QED BY <1>0, <1>5, <2>1, <2>2, TakeDirectMoves
<1>6. ASSUME NEW o \in Ops, Track(o) \/ Untrack(o)
      PROVE  CountsExact'
  <2>1. Tracked \in SUBSET Ops /\ openSessions = Cardinality(Tracked)
    BY DEF Tracked, CountsExact
  <2>2. openSessions' = Cardinality(Tracked')
    <3>1. CASE Track(o)
      <4>1. openSessions' = openSessions + 1 /\ o \notin Tracked /\ Tracked' = Tracked \cup {o}
        BY <1>0, <3>1, TrackMoves, TrackedBecomes DEF Tracked
      <4> QED BY <2>1, <4>1, CardPlus
    <3>2. CASE Untrack(o)
      <4>1. openSessions' = openSessions - 1 /\ o \in Tracked /\ Tracked' = Tracked \ {o}
        BY <1>0, <3>2, UntrackMoves, TrackedBecomes DEF Tracked
      <4> QED BY <2>1, <4>1, CardPlus
    <3> QED BY <1>6, <3>1, <3>2
  <2>3. UNCHANGED calls /\ \A k : Waiting(k)' = Waiting(k)
    BY <1>0, <1>6, TrackMoves, UntrackMoves DEF Waiting, OpBecomes
  <2> QED BY <2>2, <2>3 DEF CountsExact, Tracked
<1>7. ASSUME NEW o \in Ops, CloseCard(o) \/ DropLate(o)
      PROVE  CountsExact'
  <2>1. Tracked' = Tracked /\ \A k : Waiting(k)' = Waiting(k)
    BY <1>0, <1>7, CloseCardMoves, DropLateMoves, CountsUntouched
  <2> QED BY <1>0, <1>7, <2>1, CloseCardMoves, DropLateMoves, CountsStable
<1>8. ASSUME NEW o \in Ops, JoinProbe(o)
      PROVE  CountsExact'
  <2>1. /\ op[o].pc \in {"poll", "join"} /\ probe \in Calls
        /\ CallBecomes(probe, calls[probe].ready, calls[probe].ok,
                          calls[probe].claimed, calls[probe].waiters + 1)
        /\ OpBecomes(o, "wait", None, probe, op[o].sticky)
        /\ UNCHANGED openSessions
    BY <1>0, <1>8, JoinProbeMoves
  <2>2. calls[probe].waiters = Cardinality(Waiting(probe))
    BY <2>1 DEF CountsExact
  <2> QED BY <2>1, <2>2, JoinsCounts DEF CallBecomes
<1>9. ASSUME NEW o \in Ops, StartProbe(o)
      PROVE  CountsExact'
  <2>1. PICK k \in Calls :
             /\ op[o].pc \in {"poll", "join"} /\ Unused(k)
             /\ CallBecomes(k, FALSE, FALSE, FALSE, 1)
             /\ OpBecomes(o, "wait", None, k, op[o].sticky)
             /\ UNCHANGED openSessions
    BY <1>0, <1>9, StartProbeMoves
  <2>2. Waiting(k) = {}
    BY <2>1 DEF Unused, Waiting
  <2>3. Cardinality(Waiting(k)) = 0
    BY <2>2, FS_EmptySet
  <2> QED BY <2>1, <2>3, JoinsCounts DEF CallBecomes
<1>10. ASSUME NEW o \in Ops, TakeProbe(o)
       PROVE  CountsExact'
  <2>1. ASSUME NEW step \in {"join", "observe"}, Leaves(op[o].call, FALSE),
               OpBecomes(o, step, None, None, op[o].sticky)
        PROVE  CountsExact'
    BY <1>0, <1>10, <2>1, TakeProbeMoves, LeavesCounts DEF Steps
  <2>2. ASSUME Leaves(op[o].call, TRUE), OpBecomes(o, "track", op[o].call, None, FALSE)
        PROVE  CountsExact'
    BY <1>0, <1>10, <2>2, TakeProbeMoves, LeavesCounts DEF Steps
  <2> QED BY <1>0, <1>10, <2>1, <2>2, TakeProbeMoves
<1>11. ASSUME NEW o \in Ops, LeaveProbe(o)
       PROVE  CountsExact'
  <2>1. /\ op[o].pc = "wait" /\ UNCHANGED openSessions
        /\ Leaves(op[o].call, LastCloses(op[o].call))
        /\ LastCloses(op[o].call) \in BOOLEAN
    BY <1>0, <1>11, LeaveProbeMoves DEF LastCloses
  <2>2. \E pc \in {"observe", "drop"} : \E call :
          OpBecomes(o, pc, None, call, op[o].sticky)
    BY <1>0, <1>11, LeaveProbeMoves
  <2> QED BY <2>1, <2>2, LeavesCounts DEF Steps
<1> QED BY <1>1, <1>2, <1>3, <1>4, <1>5, <1>6, <1>7, <1>8, <1>9, <1>10, <1>11
        DEF Next, OpStep, QuietAction

\* The waiters of a probe call and the registered sessions are counted exactly
\* (recovery.go: call.waiters under probeMu, openSessions in trackCard and
\* trackedCard.Close): the decisions that rest on a count of zero are sound.
THEOREM AccessCounts == Spec => []CountsExact
<1> DEFINE Inv == Typed /\ CountsExact
<1>1. Init => Inv
  BY InitTyped, InitCounts
<1>2. Inv /\ [Next]_vars => Inv'
  BY NextTyped, NextCounts
<1> QED BY <1>1, <1>2, PTL DEF Spec

-----------------------------------------------------------------------------
(* Owners.                                                                 *)

LEMMA OpHasBecomes ==
    ASSUME NEW o \in Ops, NEW pc, NEW has, NEW call, NEW st,
           OpBecomes(o, pc, has, call, st)
    PROVE  \A p \in Ops, w \in Workers :
             OpHas(p, w)' <=> IF p = o THEN has = w \/ (pc = "drop" /\ call = w)
                              ELSE OpHas(p, w)
BY DEF OpHas, OpBecomes

\* No session changes hands among the operations.
HandsSame == \A p \in Ops, w \in Workers : OpHas(p, w)' <=> OpHas(p, w)

LEMMA NoHands ==
    ASSUME TypeOK, Shape, NEW o \in Ops, op[o].pc \notin {"track", "hold", "drop"},
           NEW pc, pc \notin {"track", "hold", "drop"}, NEW call, NEW st,
           OpBecomes(o, pc, None, call, st)
    PROVE  HandsSame
<1>1. \A w \in Workers : ~OpHas(o, w)
  BY Names DEF OpHas, Shape
<1>2. \A w \in Workers : ~OpHas(o, w)'
  BY Names, OpHasBecomes
<1> QED BY <1>1, <1>2, OpHasBecomes DEF HandsSame

LEMMA QuietHands ==
    ASSUME TypeOK, Shape, NEW o \in Ops, QuietMove(o)
    PROVE  HandsSame
<1>1. PICK b \in Quiet \ {"untrack"}, st \in BOOLEAN : OpBecomes(o, b, None, None, st)
  BY DEF QuietMove
<1> QED BY <1>1, NoHands DEF QuietMove, Quiet

LEMMA OwnedStable ==
    ASSUME Owned, HandsSame, UNCHANGED <<open, scan, calls, probe>>
    PROVE  Owned'
BY DEF Owned, HandsSame, OpOwns, Unique, Published, NoLeak, ProbeRuns, Offers

\* A worker without a session starts or goes on.
LEMMA OwnedOpens ==
    ASSUME Typed, Owned, HandsSame, NEW w \in Workers \ Calls, Opens(w),
           scan[w].step = "idle", open[w] = NoReader,
           UNCHANGED <<open, calls, probe>>
    PROVE  Owned'
<1>1. scan'[w].step \in {"opening", "done"} /\ \A v \in Workers : v # w => scan'[v] = scan[v]
  BY DEF Opens, ScanBecomes
<1>2. \A v \in Workers : Offers(v)' <=> Offers(v)
  BY DEF Offers
<1>3. \A p \in Ops : ~OpHas(p, w)
  BY DEF Owned, OpOwns
<1>4. OpOwns'
  BY <1>1, <1>2, <1>3 DEF Owned, OpOwns, HandsSame
<1>5. Unique'
  BY DEF Owned, Unique, HandsSame
<1>6. Published'
  BY <1>1, <1>2, Names DEF Owned, Published
<1>7. NoLeak'
  BY <1>1, <1>2 DEF Owned, NoLeak, HandsSame
<1>8. ProbeRuns'
  BY <1>1, Names DEF Owned, ProbeRuns, Typed, TypeOK
<1> QED BY <1>4, <1>5, <1>6, <1>7, <1>8 DEF Owned

LEMMA InitOwned == Init => Owned
<1> SUFFICES ASSUME Init PROVE Owned
  OBVIOUS
<1>1. \A o \in Ops, w \in Workers : ~OpHas(o, w)
  BY Constants, Names DEF Init, OpHas
<1>2. \A w \in Workers : open[w] = NoReader /\ ~Offers(w)
  BY Constants DEF Init, Offers
<1>3. \A k \in Calls : ~calls[k].ready /\ ~calls[k].claimed
  BY Constants DEF Init
<1>4. OpOwns /\ Unique
  BY <1>1 DEF OpOwns, Unique
<1>5. Published
  BY <1>2, <1>3, Names DEF Published
<1>6. NoLeak /\ ProbeRuns
  BY <1>2 DEF NoLeak, ProbeRuns, Init
<1> QED BY <1>4, <1>5, <1>6 DEF Owned

LEMMA OpenReaderOwned ==
    ASSUME Typed, Owned, NEW w \in Workers, OpenReader(w)
    PROVE  Owned'
<1>0. TypeOK /\ Listed
  BY DEF Typed
<1>1. /\ scan[w].step = "opening" /\ scan'[w].step \in {"opening", "done"}
      /\ \A v \in Workers : v # w => scan'[v] = scan[v] /\ open'[v] = open[v]
  BY <1>0, OpenReaderMoves DEF Opens, ScanBecomes, TypeOK
<1>2. UNCHANGED <<calls, probe, op>>
  BY DEF OpenReader
<1>3. HandsSame /\ \A v \in Workers : Offers(v)' <=> Offers(v)
  BY <1>2 DEF HandsSame, OpHas, Offers
<1>4. \A p \in Ops : ~OpHas(p, w)
  BY <1>1 DEF Owned, OpOwns
<1>5. w \in Calls => ~calls[w].ready /\ ~Offers(w)
  BY <1>1 DEF Owned, Published, Offers
<1>6. OpOwns'
  BY <1>1, <1>3, <1>4 DEF Owned, OpOwns, HandsSame
<1>7. Unique'
  BY <1>3 DEF Owned, Unique, HandsSame
<1>8. Published'
  BY <1>1, <1>2, <1>3, <1>5, Names DEF Owned, Published
<1>9. NoLeak'
  BY <1>1, <1>3 DEF Owned, NoLeak, HandsSame
<1>10. ProbeRuns'
  BY <1>0, <1>1, <1>2, Names DEF Owned, ProbeRuns, TypeOK
<1> QED BY <1>6, <1>7, <1>8, <1>9, <1>10 DEF Owned

LEMMA LateCloseOwned ==
    ASSUME Typed, Owned, NEW w \in Workers, LateClose(w)
    PROVE  Owned'
<1>0. TypeOK
  BY DEF Typed
<1>1. /\ scan[w].step # "idle" /\ scan'[w].step = "idle" /\ open'[w] = NoReader
      /\ \A v \in Workers : v # w => scan'[v] = scan[v] /\ open'[v] = open[v]
      /\ w \in Calls => scan[w].step = "late"
      /\ UNCHANGED <<calls, probe, op>>
  BY <1>0, LateCloseMoves DEF ScanBecomes, TypeOK
<1>2. HandsSame /\ \A v \in Workers : Offers(v)' <=> Offers(v)
  BY <1>1 DEF HandsSame, OpHas, Offers
<1>3. \A p \in Ops : ~OpHas(p, w)
  BY <1>1 DEF Owned, OpOwns
<1>4. w \in Calls => ~calls[w].ready /\ ~Offers(w)
  BY <1>1 DEF Owned, Published, Offers
<1>5. OpOwns'
  BY <1>1, <1>2, <1>3 DEF Owned, OpOwns, HandsSame
<1>6. Unique'
  BY <1>2 DEF Owned, Unique, HandsSame
<1>7. Published'
  BY <1>1, <1>2, <1>4, Names DEF Owned, Published
<1>8. NoLeak'
  BY <1>1, <1>2 DEF Owned, NoLeak, HandsSame
<1>9. ProbeRuns'
  <2>1. probe # w
    BY <1>0, <1>1, Names DEF Owned, ProbeRuns, TypeOK
  <2> QED BY <1>0, <1>1, <2>1, Names DEF Owned, ProbeRuns, TypeOK
<1> QED BY <1>5, <1>6, <1>7, <1>8, <1>9 DEF Owned

LEMMA OffersBecomes ==
    ASSUME NEW k \in Calls, NEW ready, NEW ok, NEW claimed, NEW waiters,
           CallBecomes(k, ready, ok, claimed, waiters)
    PROVE  /\ \A w \in Workers : w # k => (Offers(w)' <=> Offers(w))
           /\ Offers(k)' <=> ready /\ ok /\ ~claimed
BY DEF Offers, CallBecomes

LEMMA PublishProbeOwned ==
    ASSUME Typed, CountsExact, Owned, NEW k \in Calls, PublishProbe(k)
    PROVE  Owned'
<1>0. TypeOK /\ k \in Workers
  BY Names DEF Typed
<1>1. /\ scan[k].step = "done" /\ probe' \in {probe, None} /\ probe' # k
      /\ UNCHANGED <<open, op>>
      /\ \A v \in Workers : v # k => scan'[v] = scan[v]
      /\ \A j \in Calls : j # k => calls'[j] = calls[j]
  BY <1>0, PublishProbeMoves DEF ScanBecomes, CallBecomes
<1>2. ~calls[k].ready /\ ~calls[k].claimed
  BY <1>1 DEF Owned, Published
<1>3. /\ \A w \in Workers : w # k => (Offers(w)' <=> Offers(w))
      /\ \/ scan'[k].step = "idle" /\ open[k] = NoReader /\ ~calls'[k].ready /\ ~Offers(k)'
            /\ ~calls'[k].claimed
         \/ scan'[k].step = "late" /\ ~calls'[k].ready /\ ~Offers(k)' /\ ~calls'[k].claimed
         \/ /\ scan'[k].step = "idle" /\ calls'[k].ready /\ calls'[k].waiters > 0
            /\ Offers(k)' <=> open[k] # NoReader
  <2>1. CASE calls[k].waiters = 0 /\ CallBecomes(k, FALSE, FALSE, FALSE, 0)
    BY <1>0, <2>1, OffersBecomes, PublishProbeMoves DEF ScanBecomes, CallBecomes
  <2>2. CASE /\ calls[k].waiters # 0 /\ ScanBecomes(k, "idle")
             /\ CallBecomes(k, TRUE, open[k] # NoReader, calls[k].claimed, calls[k].waiters)
    <3>1. calls[k].waiters \in Nat
      <4>1. Waiting(k) \in SUBSET Ops
        BY DEF Waiting
      <4>2. IsFiniteSet(Waiting(k))
        BY <4>1, FS_Subset
      <4> QED BY <4>2, FS_CardinalityType DEF CountsExact
    <3>2. /\ \A w \in Workers : w # k => (Offers(w)' <=> Offers(w))
          /\ Offers(k)' <=> open[k] # NoReader /\ ~calls[k].claimed
      BY <2>2 DEF Offers, CallBecomes
    <3>3. scan'[k].step = "idle" /\ calls'[k].ready /\ calls'[k].waiters = calls[k].waiters
      BY <2>2 DEF ScanBecomes, CallBecomes
    <3> QED BY <1>2, <2>2, <3>1, <3>2, <3>3
  <2> QED BY <1>0, <2>1, <2>2, PublishProbeMoves
<1>4. HandsSame
  BY <1>1 DEF HandsSame, OpHas
<1>5. \A p \in Ops : ~OpHas(p, k)
  BY <1>0, <1>1 DEF Owned, OpOwns
<1>6. OpOwns'
  BY <1>1, <1>3, <1>4, <1>5 DEF Owned, OpOwns, HandsSame
<1>7. Unique'
  BY <1>4 DEF Owned, Unique, HandsSame
<1>8. Published'
  BY <1>1, <1>3, Names DEF Owned, Published
<1>9. NoLeak'
  BY <1>1, <1>3, <1>4 DEF Owned, NoLeak, HandsSame
<1>10. ProbeRuns'
  BY <1>0, <1>1, Names DEF Owned, ProbeRuns, TypeOK
<1> QED BY <1>6, <1>7, <1>8, <1>9, <1>10 DEF Owned

LEMMA TakeDirectOwned ==
    ASSUME Typed, Owned, NEW o \in Ops, TakeDirect(o)
    PROVE  Owned'
<1>0. TypeOK /\ Shape /\ o \in Workers /\ o \notin Calls
  BY Names DEF Typed
<1>1. /\ scan[o].step = "done" /\ scan'[o].step = "idle" /\ op[o].pc = "open"
      /\ UNCHANGED <<open, calls, probe>>
      /\ \A v \in Workers : v # o => scan'[v] = scan[v]
  BY <1>0, TakeDirectMoves DEF ScanBecomes
<1>2. \A v \in Workers : Offers(v)' <=> Offers(v)
  BY <1>1 DEF Offers
<1>3. \A p \in Ops : ~OpHas(p, o)
  BY <1>0, <1>1 DEF Owned, OpOwns
<1>4. \A v \in Workers : ~OpHas(o, v)
  BY <1>0, <1>1, Names DEF OpHas, Shape
<1>5. \A p \in Ops, v \in Workers :
         OpHas(p, v)' <=> OpHas(p, v) \/ (p = o /\ v = o /\ open[o] # NoReader)
  <2>1. CASE open[o] # NoReader /\ OpBecomes(o, "track", o, None, op[o].sticky)
    BY <1>3, <1>4, <2>1, OpHasBecomes, Names
  <2>2. CASE open[o] = NoReader /\ QuietMove(o)
    BY <1>0, <2>2, QuietHands DEF HandsSame
  <2> QED BY <1>0, <2>1, <2>2, TakeDirectMoves
<1>6. OpOwns'
  BY <1>0, <1>1, <1>2, <1>3, <1>5 DEF Owned, OpOwns, Offers
<1>7. Unique'
  BY <1>3, <1>4, <1>5 DEF Owned, Unique
<1>8. Published'
  BY <1>0, <1>1, <1>2, Names DEF Owned, Published
<1>9. NoLeak'
  BY <1>0, <1>1, <1>2, <1>5 DEF Owned, NoLeak
<1>10. ProbeRuns'
  BY <1>0, <1>1, Names DEF Owned, ProbeRuns, TypeOK
<1> QED BY <1>6, <1>7, <1>8, <1>9, <1>10 DEF Owned

\* An operation closes the session it has.
LEMMA ClosesOwned ==
    ASSUME Typed, Owned, NEW o \in Ops, NEW w \in Workers,
           \A v \in Workers : OpHas(o, v) <=> v = w,
           open' = [open EXCEPT ![w] = NoReader],
           NEW pc, pc # "drop", NEW call, NEW st, OpBecomes(o, pc, None, call, st),
           UNCHANGED <<scan, calls, probe>>
    PROVE  Owned'
<1>0. open'[w] = NoReader /\ \A v \in Workers : v # w => open'[v] = open[v]
  BY DEF Typed, TypeOK
<1>1. \A v \in Workers : Offers(v)' <=> Offers(v)
  BY DEF Offers
<1>2. \A p \in Ops, v \in Workers : OpHas(p, v)' <=> OpHas(p, v) /\ p # o
  BY OpHasBecomes, Names
<1>3. ~Offers(w) /\ \A p \in Ops : OpHas(p, w) => p = o
  BY DEF Owned, OpOwns, Unique
<1>4. OpOwns'
  BY <1>0, <1>1, <1>2, <1>3 DEF Owned, OpOwns
<1>5. Unique'
  BY <1>2 DEF Owned, Unique
<1>6. Published'
  BY <1>0, <1>1, <1>3, Names DEF Owned, Published
<1>7. NoLeak'
  BY <1>0, <1>1, <1>2 DEF Owned, NoLeak
<1>8. ProbeRuns'
  BY DEF Owned, ProbeRuns
<1> QED BY <1>4, <1>5, <1>6, <1>7, <1>8 DEF Owned

LEMMA SessionOwned ==
    ASSUME Typed, Owned, NEW o \in Ops, Track(o) \/ CloseCard(o) \/ Untrack(o) \/ DropLate(o)
    PROVE  Owned'
<1>0. TypeOK /\ Shape
  BY DEF Typed
<1>1. CASE Track(o)
  <2>1. HandsSame
    BY <1>0, <1>1, TrackMoves, OpHasBecomes DEF HandsSame, OpHas
  <2> QED BY <1>0, <1>1, <2>1, TrackMoves, OwnedStable
<1>2. CASE CloseCard(o)
  <2>1. op[o].has \in Workers /\ \A v \in Workers : OpHas(o, v) <=> v = op[o].has
    BY <1>0, <1>2, CloseCardMoves DEF OpHas
  <2> QED BY <1>0, <1>2, <2>1, CloseCardMoves, ClosesOwned
<1>3. CASE Untrack(o)
  <2>1. HandsSame
    BY <1>0, <1>3, UntrackMoves, NoHands
  <2> QED BY <1>0, <1>3, <2>1, UntrackMoves, OwnedStable
<1>4. CASE DropLate(o)
  <2>1. op[o].call \in Workers /\ \A v \in Workers : OpHas(o, v) <=> v = op[o].call
    BY <1>0, <1>4, DropLateMoves, Names DEF OpHas, Shape
  <2> QED BY <1>0, <1>4, <2>1, DropLateMoves, ClosesOwned
<1> QED BY <1>1, <1>2, <1>3, <1>4

\* An operation comes to a call.
LEMMA JoinProbeOwned ==
    ASSUME Typed, CountsExact, Owned, NEW o \in Ops, JoinProbe(o)
    PROVE  Owned'
<1>0. TypeOK /\ Shape
  BY DEF Typed
<1>1. /\ op[o].pc \in {"poll", "join"} /\ probe \in Calls
      /\ CallBecomes(probe, calls[probe].ready, calls[probe].ok,
                     calls[probe].claimed, calls[probe].waiters + 1)
      /\ OpBecomes(o, "wait", None, probe, op[o].sticky)
      /\ UNCHANGED <<open, scan, probe>>
  BY <1>0, JoinProbeMoves
<1>2. HandsSame
  BY <1>0, <1>1, NoHands
<1>3. \A v \in Workers : Offers(v)' <=> Offers(v)
  BY <1>1, OffersBecomes DEF Offers
<1>4. calls[probe].waiters \in Int
  BY <1>0, <1>1, CallFields DEF TypeOK
<1>5. OpOwns' /\ Unique' /\ NoLeak' /\ ProbeRuns'
  BY <1>1, <1>2, <1>3 DEF Owned, OpOwns, Unique, NoLeak, ProbeRuns, HandsSame
<1>6. Published'
  BY <1>1, <1>3, <1>4, Names DEF Owned, Published, CallBecomes
<1> QED BY <1>5, <1>6 DEF Owned

LEMMA StartProbeOwned ==
    ASSUME Typed, Owned, NEW o \in Ops, StartProbe(o)
    PROVE  Owned'
<1>0. TypeOK /\ Shape
  BY DEF Typed
<1>1. PICK k \in Calls :
         /\ op[o].pc \in {"poll", "join"} /\ Unused(k) /\ probe' = k
         /\ CallBecomes(k, FALSE, FALSE, FALSE, 1)
         /\ Opens(k)
         /\ OpBecomes(o, "wait", None, k, op[o].sticky)
         /\ UNCHANGED open
  BY <1>0, StartProbeMoves
<1>2. HandsSame
  BY <1>0, <1>1, NoHands
<1>3. /\ scan[k].step = "idle" /\ open[k] = NoReader
      /\ scan'[k].step \in {"opening", "done"}
      /\ \A v \in Workers : v # k => scan'[v] = scan[v]
      /\ ~calls'[k].ready /\ ~calls'[k].claimed
      /\ \A j \in Calls : j # k => calls'[j] = calls[j]
  BY <1>1 DEF Unused, Opens, ScanBecomes, CallBecomes
<1>4. ~Offers(k)' /\ \A v \in Workers : v # k => (Offers(v)' <=> Offers(v))
  BY <1>1, OffersBecomes
<1>5. k \in Workers /\ \A p \in Ops : ~OpHas(p, k)
  BY <1>3, Names DEF Owned, OpOwns
<1>6. OpOwns'
  BY <1>1, <1>2, <1>3, <1>4, <1>5 DEF Owned, OpOwns, HandsSame
<1>7. Unique'
  BY <1>2 DEF Owned, Unique, HandsSame
<1>8. Published'
  BY <1>1, <1>3, <1>4, Names DEF Owned, Published
<1>9. NoLeak'
  BY <1>1, <1>2, <1>3, <1>4 DEF Owned, NoLeak, HandsSame
<1>10. ProbeRuns'
  BY <1>1, <1>3 DEF ProbeRuns
<1> QED BY <1>6, <1>7, <1>8, <1>9, <1>10 DEF Owned

\* What a waiter that leaves does to the calls.
LEMMA LeavesOffers ==
    ASSUME Typed, Owned, NEW k \in Calls, NEW b \in BOOLEAN, Leaves(k, b)
    PROVE  /\ \A v \in Workers : v # k => (Offers(v)' <=> Offers(v))
           /\ Offers(k)' <=> Offers(k) /\ calls[k].waiters # 1 /\ ~b
           /\ \A j \in Calls : j # k => calls'[j] = calls[j]
           /\ calls'[k].ready => calls[k].ready /\ calls'[k].waiters > 0
           /\ calls'[k].claimed => calls'[k].ready \/ (b /\ ~calls[k].ready)
<1>0. TypeOK /\ calls[k].waiters \in Int
  BY CallFields DEF Typed, TypeOK
<1>1. CASE /\ calls[k].ready /\ calls[k].waiters = 1
           /\ CallBecomes(k, FALSE, FALSE, FALSE, 0)
  <2>1. ~Offers(k)' /\ \A v \in Workers : v # k => (Offers(v)' <=> Offers(v))
    BY <1>1, OffersBecomes
  <2> QED BY <1>1, <2>1 DEF CallBecomes
<1>2. CASE /\ ~(calls[k].ready /\ calls[k].waiters = 1)
           /\ CallBecomes(k, calls[k].ready, calls[k].ok, calls[k].claimed \/ b,
                          calls[k].waiters - 1)
  <2>1. /\ calls'[k].ready = calls[k].ready /\ calls'[k].ok = calls[k].ok
        /\ calls'[k].claimed <=> calls[k].claimed \/ b
        /\ calls'[k].waiters = calls[k].waiters - 1
        /\ \A j \in Calls : j # k => calls'[j] = calls[j]
    BY <1>2 DEF CallBecomes
  <2>2. \A v \in Workers : v # k => (Offers(v)' <=> Offers(v))
    BY <2>1 DEF Offers
  <2>3. Offers(k)' <=> Offers(k) /\ calls[k].waiters # 1 /\ ~b
    BY <1>2, <2>1 DEF Offers
  <2>4. calls[k].ready => calls[k].waiters > 0
    BY DEF Owned, Published
  <2>5. calls'[k].ready => calls[k].ready /\ calls'[k].waiters > 0
    BY <1>0, <1>2, <2>1, <2>4
  <2>6. calls[k].claimed => calls[k].ready
    BY DEF Owned, Published
  <2> QED BY <2>1, <2>2, <2>3, <2>5, <2>6
<1> QED BY <1>0, <1>1, <1>2, LeavesBecomes

\* A waiter leaves a call whose session, if it has one, stays on offer.
LEMMA LeavesOwned ==
    ASSUME Typed, Owned, NEW o \in Ops, op[o].pc = "wait",
           Leaves(op[o].call, FALSE),
           Offers(op[o].call) => calls[op[o].call].waiters # 1,
           NEW pc, pc \notin {"track", "hold", "drop"}, NEW st,
           OpBecomes(o, pc, None, None, st),
           probe' \in {probe, None}, UNCHANGED <<open, scan>>
    PROVE  Owned'
<1> DEFINE k == op[o].call
<1>1. TypeOK /\ Shape /\ k \in Calls
  BY Waits DEF Typed
<1>2. HandsSame
  BY <1>1, NoHands
<1>3. /\ \A v \in Workers : Offers(v)' <=> Offers(v)
      /\ \A j \in Calls : j # k => calls'[j] = calls[j]
      /\ calls'[k].ready => calls[k].ready /\ calls'[k].waiters > 0
      /\ calls'[k].claimed => calls'[k].ready
  BY <1>1, LeavesOffers
<1> HIDE DEF k
<1>4. OpOwns' /\ Unique' /\ NoLeak'
  BY <1>2, <1>3 DEF Owned, OpOwns, Unique, NoLeak, HandsSame
<1>5. Published'
  BY <1>1, <1>3, Names DEF Owned, Published
<1>6. ProbeRuns'
  BY DEF Owned, ProbeRuns
<1> QED BY <1>4, <1>5, <1>6 DEF Owned

\* A waiter takes the session of its call, to use it or to close it.
LEMMA TakesOwned ==
    ASSUME Typed, Owned, NEW o \in Ops, op[o].pc = "wait",
           Leaves(op[o].call, TRUE), Offers(op[o].call),
           NEW pc, NEW has, NEW call, NEW st,
           OpBecomes(o, pc, has, call, st),
           \/ pc = "track" /\ has = op[o].call
           \/ pc = "drop" /\ has = None /\ call = op[o].call,
           probe' \in {probe, None}, UNCHANGED <<open, scan>>
    PROVE  Owned'
<1>1. PICK k \in Calls : k = op[o].call
  BY Waits DEF Typed
<1>0. TypeOK /\ Shape /\ k \in Workers /\ Offers(k) /\ Leaves(k, TRUE)
  BY <1>1, Names DEF Typed
<1>2. \A p \in Ops, w \in Workers :
         OpHas(p, w)' <=> IF p = o THEN w = k ELSE OpHas(p, w)
  BY <1>0, <1>1, OpHasBecomes, Names
<1>3. (\A w \in Workers : ~OpHas(o, w)) /\ \A p \in Ops : ~OpHas(p, k)
  BY <1>0, Names DEF OpHas, Shape, Owned, OpOwns
<1>4. /\ ~Offers(k)' /\ \A v \in Workers : v # k => (Offers(v)' <=> Offers(v))
      /\ \A j \in Calls : j # k => calls'[j] = calls[j]
      /\ calls'[k].ready => calls[k].ready /\ calls'[k].waiters > 0
      /\ calls'[k].claimed => calls'[k].ready
  BY <1>0, LeavesOffers DEF Offers
<1>5. open[k] # NoReader /\ scan[k].step = "idle"
  BY <1>0 DEF Owned, Published, Offers
<1>6. OpOwns'
  BY <1>2, <1>3, <1>4, <1>5 DEF Owned, OpOwns
<1>7. Unique'
  BY <1>2, <1>3 DEF Owned, Unique
<1>8. Published'
  BY <1>4, Names DEF Owned, Published
<1>9. NoLeak'
  BY <1>0, <1>2, <1>3, <1>4 DEF Owned, NoLeak
<1>10. ProbeRuns'
  BY DEF Owned, ProbeRuns
<1> QED BY <1>6, <1>7, <1>8, <1>9, <1>10 DEF Owned

LEMMA WaiterOwned ==
    ASSUME Typed, Owned, NEW o \in Ops, TakeProbe(o) \/ LeaveProbe(o)
    PROVE  Owned'
<1>0. TypeOK /\ Shape
  BY DEF Typed
<1>1. CASE TakeProbe(o)
  <2>1. /\ op[o].pc = "wait" /\ probe' \in {probe, None} /\ UNCHANGED <<open, scan>>
        /\ op[o].call \in Calls
    BY <1>0, <1>1, TakeProbeMoves, Waits
  <2>2. ASSUME ~Offers(op[o].call), Leaves(op[o].call, FALSE),
               NEW step \in {"join", "observe"}, OpBecomes(o, step, None, None, op[o].sticky)
        PROVE  Owned'
    BY <2>1, <2>2, LeavesOwned
  <2>3. ASSUME Offers(op[o].call), Leaves(op[o].call, TRUE),
               OpBecomes(o, "track", op[o].call, None, FALSE)
        PROVE  Owned'
    BY <2>1, <2>3, TakesOwned
  <2> QED BY <1>0, <1>1, <2>2, <2>3, TakeProbeMoves
<1>2. CASE LeaveProbe(o)
  <2>1. /\ op[o].pc = "wait" /\ probe' \in {probe, None} /\ UNCHANGED <<open, scan>>
        /\ op[o].call \in Calls /\ Leaves(op[o].call, LastCloses(op[o].call))
    BY <1>0, <1>2, LeaveProbeMoves, Waits
  <2>2. CASE /\ ~LastCloses(op[o].call)
             /\ OpBecomes(o, "observe", None, None, op[o].sticky)
    <3>1. LastCloses(op[o].call) = FALSE
      BY <2>2 DEF LastCloses
    <3>2. Leaves(op[o].call, FALSE)
      BY <2>1, <3>1
    <3>3. Offers(op[o].call) => calls[op[o].call].waiters # 1
      BY <2>2 DEF LastCloses, Offers
    <3> QED BY <2>1, <2>2, <3>2, <3>3, LeavesOwned
  <2>3. CASE /\ LastCloses(op[o].call)
             /\ OpBecomes(o, "drop", None, op[o].call, op[o].sticky)
    <3>1. LastCloses(op[o].call) = TRUE
      BY <2>3 DEF LastCloses
    <3>2. Leaves(op[o].call, TRUE)
      BY <2>1, <3>1
    <3>3. Offers(op[o].call)
      BY <2>1, <2>3 DEF LastCloses, Offers
    <3> QED BY <2>1, <2>3, <3>2, <3>3, TakesOwned
  <2> QED BY <1>0, <1>2, <2>2, <2>3, LeaveProbeMoves
<1> QED BY <1>1, <1>2

LEMMA RecoveryOwned ==
    ASSUME Typed, Owned, NEW o \in Ops, Begin(o) \/ Assess(o) \/ QuietAction(o)
    PROVE  Owned'
<1>0. TypeOK /\ Shape
  BY DEF Typed
<1>1. HandsSame
  BY <1>0, BeginMoves, AssessMoves, QuietMoves, QuietHands
<1>2. CASE Begin(o)
  BY <1>0, <1>1, <1>2, BeginMoves, OwnedOpens, Names
<1>3. CASE Assess(o)
  <2>1. CASE UNCHANGED scan
    BY <1>0, <1>1, <1>3, <2>1, AssessMoves, OwnedStable
  <2>2. CASE scan[Diag].step = "idle" /\ Opens(Diag)
    <3>1. Diag \in Workers \ Calls /\ ~Offers(Diag)
      BY Names DEF Offers
    <3>2. \A p \in Ops : ~OpHas(p, Diag)
      BY <1>0, Names DEF OpHas, Shape, TypeOK, Op
    <3>3. open[Diag] = NoReader
      BY <2>2, <3>1, <3>2 DEF Owned, NoLeak
    <3> QED BY <1>0, <1>1, <1>3, <2>2, <3>1, <3>3, AssessMoves, OwnedOpens
  <2> QED BY <1>0, <1>3, <2>1, <2>2, AssessMoves
<1>4. CASE QuietAction(o)
  BY <1>0, <1>1, <1>4, QuietMoves, OwnedStable
<1> QED BY <1>2, <1>3, <1>4

LEMMA EnvOwned ==
    ASSUME Typed, Owned,
           \/ \E r \in Readers : ExtTake(r) \/ ExtRelease(r)
           \/ Tick
           \/ \E o \in Ops : ContextEnds(o)
           \/ UNCHANGED vars
    PROVE  Owned'
<1>1. HandsSame /\ UNCHANGED <<open, scan, calls, probe>>
  <2>1. CASE Tick \/ \E o \in Ops : ContextEnds(o)
    <3>1. OpSame /\ UNCHANGED <<open, scan, calls, probe>>
      BY <2>1, TickMoves, ContextEndsMoves DEF Typed
    <3> QED BY <3>1 DEF OpSame, HandsSame, OpHas
  <2>2. CASE \/ \E r \in Readers : ExtTake(r) \/ ExtRelease(r)
             \/ UNCHANGED vars
    <3>1. UNCHANGED <<open, scan, calls, probe, op>>
      BY <2>2 DEF ExtTake, ExtRelease, vars
    <3> QED BY <3>1 DEF HandsSame, OpHas
  <2> QED BY <2>1, <2>2
<1> QED BY <1>1, OwnedStable

LEMMA NextOwned ==
    ASSUME Typed, CountsExact, Owned, [Next]_vars
    PROVE  Owned'
BY EnvOwned, OpenReaderOwned, LateCloseOwned, PublishProbeOwned, TakeDirectOwned,
   SessionOwned, JoinProbeOwned, StartProbeOwned, WaiterOwned, RecoveryOwned
   DEF Next, OpStep, QuietAction

LEMMA OwnedSessions ==
    ASSUME Typed, CountsExact, Owned
    PROVE  SessionsOwned
<1>1. \A w \in Workers : CallHas(w) => Offers(w)
  BY DEF CallHas, Offers
<1>2. ASSUME NEW w \in Workers, Offers(w)
      PROVE  CallHas(w)
  <2>1. w \in Calls /\ calls[w].waiters > 0
    BY <1>2 DEF Offers, Owned, Published
  <2>2. Waiting(w) # {}
    BY <2>1, FS_EmptySet DEF CountsExact
  <2> QED BY <1>2, <2>1, <2>2 DEF CallHas, Offers
<1>3. \A w \in Workers : WorkerHas(w) => ~CallHas(w) /\ \A o \in Ops : ~OpHas(o, w)
  BY <1>1 DEF WorkerHas, Owned, OpOwns, Published, Offers
<1>4. OneOwner
  <2>1. ASSUME NEW w \in Workers, open[w] # NoReader
        PROVE  WorkerHas(w) \/ CallHas(w) \/ \E o \in Ops : OpHas(o, w)
    BY <1>2, <2>1 DEF WorkerHas, Owned, NoLeak
  <2>2. \A w \in Workers : ~(CallHas(w) /\ \E o \in Ops : OpHas(o, w))
    BY <1>1 DEF Owned, OpOwns
  <2>3. \A w \in Workers, o, p \in Ops : OpHas(o, w) /\ OpHas(p, w) => o = p
    BY DEF Owned, Unique
  <2> QED BY <1>3, <2>1, <2>2, <2>3 DEF OneOwner
<1>5. HeldIsOpen
  <2> SUFFICES ASSUME NEW o \in Ops, op[o].pc \in {"track", "hold", "drop"}
               PROVE  \E w \in Workers : OpHas(o, w) /\ open[w] # NoReader
    BY DEF HeldIsOpen
  <2>1. PICK w \in Workers : OpHas(o, w)
    BY Names, OpFields DEF Typed, TypeOK, Shape, OpHas
  <2> QED BY <2>1 DEF Owned, OpOwns
<1> QED BY <1>4, <1>5 DEF SessionsOwned

AccessInv == Typed /\ CountsExact /\ Owned

\* Every session that PC/SC opened, for the operation itself, for a shared
\* probe or for the rescan, has exactly one owner to close it until it is
\* closed, and an operation's session is closed by that operation alone
\* (card.go:205-246, recovery.go:303-337).
THEOREM AccessSessionsOwned == Spec => []SessionsOwned
<1>1. Init => AccessInv
  BY InitTyped, InitCounts, InitOwned DEF AccessInv
<1>2. AccessInv /\ [Next]_vars => AccessInv'
  BY NextTyped, NextCounts, NextOwned DEF AccessInv
<1>3. AccessInv => SessionsOwned
  BY OwnedSessions DEF AccessInv
<1> QED BY <1>1, <1>2, <1>3, PTL DEF Spec

-----------------------------------------------------------------------------
(* Hand-offs.                                                              *)

Armed == {"inspect", "reserve", "handoff"}

LEMMA SelfHeldSeen ==
    ASSUME CountsExact, NEW p \in Ops, op[p].pc = "hold"
    PROVE  SelfHeld
<1>1. Tracked \in SUBSET Ops /\ Tracked # {} /\ openSessions = Cardinality(Tracked)
  BY DEF Tracked, CountsExact
<1>2. IsFiniteSet(Tracked)
  BY <1>1, FS_Subset
<1>3. Cardinality(Tracked) \in Nat /\ Cardinality(Tracked) # 0
  BY <1>1, <1>2, FS_CardinalityType, FS_EmptySet
<1> QED BY <1>1, <1>3 DEF SelfHeld

\* A step of an operation that has no session registered.
LEMMA SparedStep ==
    ASSUME Typed, Spared, NEW o \in Ops, op[o].pc # "hold",
           \A p \in Ops : p # o => op'[p] = op[p],
           \A p \in Ops : p # o => kept'[p] = kept[p],
           \A p \in kept'[o] : p \in Ops /\ op[p].pc = "hold",
           op'[o].pc \in Armed /\ kept'[o] # {} => op'[o].sticky,
           op'[o].pc \in {"reserve", "handoff"} => ~op'[o].sticky
    PROVE  Spared'
<1>1. \A p \in Ops : kept[p] \subseteq Ops
  BY DEF Typed, TypeOK
<1>2. ASSUME NEW q \in Ops
      PROVE  \A p \in kept'[q] : op'[p].pc = "hold"
  BY <1>1 DEF Spared
<1>3. ASSUME NEW q \in Ops
      PROVE  op'[q].pc \in Armed /\ kept'[q] # {} => op'[q].sticky
  BY DEF Spared, Armed
<1>4. ASSUME NEW q \in Ops
      PROVE  op'[q].pc \in {"reserve", "handoff"} => ~op'[q].sticky
  BY DEF Spared
<1> QED BY <1>2, <1>3, <1>4 DEF Spared, Armed

\* A step that leads to no hand-off.
LEMMA SparedIdle ==
    ASSUME Typed, Spared, NEW o \in Ops, op[o].pc # "hold",
           \A p \in Ops : p # o => op'[p] = op[p],
           op'[o].pc \notin Armed, UNCHANGED kept
    PROVE  Spared'
<1>1. \A p \in kept'[o] : p \in Ops /\ op[p].pc = "hold"
  BY DEF Typed, TypeOK, Spared
<1> QED BY <1>1, SparedStep DEF Armed

LEMMA SparedClears ==
    ASSUME Typed, Spared, NEW o \in Ops, op[o].pc # "hold",
           \A p \in Ops : p # o => op'[p] = op[p],
           op'[o].pc \notin Armed, kept' = [kept EXCEPT ![o] = {}]
    PROVE  Spared'
<1>1. kept'[o] = {} /\ \A p \in Ops : p # o => kept'[p] = kept[p]
  BY DEF Typed, TypeOK
<1> QED BY <1>1, SparedStep DEF Armed

LEMMA SparedRegisters ==
    ASSUME Typed, Spared, NEW o \in Ops, op[o].pc # "hold",
           \A p \in Ops : p # o => op'[p] = op[p],
           op'[o].pc = "wait", kept' = [kept EXCEPT ![o] = Registered]
    PROVE  Spared'
<1>1. kept'[o] = Registered /\ \A p \in Ops : p # o => kept'[p] = kept[p]
  BY DEF Typed, TypeOK
<1>2. \A p \in kept'[o] : p \in Ops /\ op[p].pc = "hold"
  BY <1>1 DEF Registered
<1> QED BY <1>1, <1>2, SparedStep DEF Armed

LEMMA SparedSame ==
    ASSUME Spared, Typed, OpSame, UNCHANGED kept
    PROVE  Spared'
BY DEF Spared, OpSame, Typed, TypeOK

\* The three steps that lead to a hand-off.
LEMMA ObserveSpared ==
    ASSUME Typed, CountsExact, Spared, NEW o \in Ops, Observe(o)
    PROVE  Spared'
<1>1. PICK b \in {"poll", "inspect"} : OpBecomes(o, b, None, None, op[o].sticky \/ SelfHeld)
  BY ObserveBecomes DEF Typed
<1>2. op[o].pc = "observe" /\ UNCHANGED kept
  BY DEF Observe
<1>3. \A p \in kept[o] : p \in Ops /\ op[p].pc = "hold"
  BY DEF Typed, TypeOK, Spared
<1>4. kept[o] # {} => SelfHeld
  BY <1>3, SelfHeldSeen
<1>5. /\ op'[o].pc = b /\ \A p \in Ops : p # o => op'[p] = op[p]
      /\ op'[o].sticky = (op[o].sticky \/ SelfHeld)
  BY <1>1 DEF OpBecomes
<1>6. kept'[o] # {} => op'[o].sticky
  BY <1>2, <1>4, <1>5
<1> QED BY <1>2, <1>3, <1>5, <1>6, SparedStep

LEMMA InspectSpared ==
    ASSUME Typed, Spared, NEW o \in Ops, Inspect(o)
    PROVE  Spared'
<1>1. op[o].pc = "inspect" /\ UNCHANGED kept
  BY DEF Inspect
<1>2. \A p \in kept[o] : p \in Ops /\ op[p].pc = "hold"
  BY DEF Typed, TypeOK, Spared
<1>3. kept[o] # {} => op[o].sticky
  BY <1>1 DEF Spared
<1>4. CASE Goes(o, "poll")
  <2>1. op'[o].pc = "poll" /\ \A p \in Ops : p # o => op'[p] = op[p]
    BY <1>4, GoesBecomes DEF Typed, TypeOK, Steps, OpBecomes
  <2> QED BY <1>1, <2>1, SparedIdle DEF Armed
<1>5. CASE ~op[o].sticky /\ Goes(o, "reserve")
  <2>1. /\ op'[o].pc = "reserve" /\ op'[o].sticky = op[o].sticky
        /\ \A p \in Ops : p # o => op'[p] = op[p]
    BY <1>5, GoesBecomes DEF Typed, TypeOK, Steps, OpBecomes
  <2> QED BY <1>1, <1>2, <1>3, <1>5, <2>1, SparedStep
<1> QED BY <1>4, <1>5 DEF Inspect

LEMMA ReserveSpared ==
    ASSUME Typed, Spared, NEW o \in Ops, Reserve(o)
    PROVE  Spared'
<1>1. op[o].pc = "reserve" /\ UNCHANGED kept
  BY DEF Reserve
<1>2. \A p \in kept[o] : p \in Ops /\ op[p].pc = "hold"
  BY DEF Typed, TypeOK, Spared
<1>3. ~op[o].sticky /\ kept[o] = {}
  BY <1>1 DEF Spared
<1>4. /\ op'[o].sticky = op[o].sticky
      /\ \A p \in Ops : p # o => op'[p] = op[p]
  BY ReserveBecomes DEF Typed, OpBecomes
<1> QED BY <1>1, <1>2, <1>3, <1>4, SparedStep

LEMMA CloseCardSpared ==
    ASSUME Typed, Spared, NEW o \in Ops, CloseCard(o)
    PROVE  Spared'
<1>1. /\ op'[o].pc = "untrack" /\ \A p \in Ops : p # o => op'[p] = op[p]
      /\ \A p \in Ops : kept'[p] = kept[p] \ {o}
  BY CloseCardMoves DEF Typed, OpBecomes
<1>2. \A p \in Ops : kept[p] \subseteq Ops
  BY DEF Typed, TypeOK
<1>3. ASSUME NEW q \in Ops
      PROVE  \A p \in kept'[q] : op'[p].pc = "hold"
  BY <1>1, <1>2 DEF Spared
<1>4. ASSUME NEW q \in Ops
      PROVE  /\ op'[q].pc \in Armed /\ kept'[q] # {} => op'[q].sticky
             /\ op'[q].pc \in {"reserve", "handoff"} => ~op'[q].sticky
  BY <1>1 DEF Spared, Armed
<1> QED BY <1>3, <1>4 DEF Spared, Armed

\* An operation goes on towards a session or returns.
LEMMA PlainSpared ==
    ASSUME Typed, Spared, NEW o \in Ops,
           Begin(o) \/ TakeDirect(o) \/ LeaveDirect(o) \/ Track(o) \/ Untrack(o)
           \/ LeaveProbe(o) \/ DropLate(o) \/ Assess(o) \/ EndRescan(o) \/ Handoff(o)
    PROVE  Spared'
<1>0. TypeOK /\ Shape /\ op \in [Ops -> Op]
  BY DEF Typed, TypeOK
<1>1. op[o].pc # "hold" /\ UNCHANGED kept
  BY DEF Begin, TakeDirect, LeaveDirect, Track, Untrack, LeaveProbe, DropLate, Assess,
         EndRescan, Handoff
<1>2. \/ Returns(o) \/ Enters(o)
      \/ \E step \in Steps \ Armed : Goes(o, step)
      \/ Begin(o) \/ TakeDirect(o) \/ LeaveProbe(o) \/ DropLate(o)
  BY DEF LeaveDirect, Track, Untrack, Assess, EndRescan, Handoff, Steps, Armed
<1>3. CASE Returns(o)
  BY <1>0, <1>1, <1>3, ReturnsBecomes, SparedIdle DEF OpBecomes, Armed
<1>4. CASE Enters(o)
  <2>1. op'[o].pc = "poll" /\ \A p \in Ops : p # o => op'[p] = op[p]
    BY <1>0, <1>4, OpFields DEF Enters, Op
  <2> QED BY <1>1, <2>1, SparedIdle DEF Armed
<1>5. CASE \E step \in Steps \ Armed : Goes(o, step)
  BY <1>0, <1>1, <1>5, GoesBecomes, SparedIdle DEF OpBecomes
<1>6. CASE Begin(o)
  <2>1. op'[o].pc = "open" /\ \A p \in Ops : p # o => op'[p] = op[p]
    BY <1>0, <1>6 DEF Begin, IdleOp
  <2> QED BY <1>1, <2>1, SparedIdle DEF Armed
<1>7. CASE TakeDirect(o)
  <2>1. \/ OpBecomes(o, "track", o, None, op[o].sticky)
        \/ Goes(o, "assess") \/ Returns(o)
    BY <1>0, <1>7, TakeDirectMoves DEF TakeDirect
  <2> QED BY <1>0, <1>1, <1>3, <1>5, <2>1, SparedIdle DEF OpBecomes, Armed, Steps
<1>8. CASE LeaveProbe(o)
  BY <1>0, <1>1, <1>8, LeaveProbeMoves, SparedIdle DEF OpBecomes, Armed
<1>9. CASE DropLate(o)
  BY <1>0, <1>1, <1>9, DropLateMoves, SparedIdle DEF OpBecomes, Armed
<1> QED BY <1>2, <1>3, <1>4, <1>5, <1>6, <1>7, <1>8, <1>9

LEMMA NextSpared ==
    ASSUME Typed, CountsExact, Spared, [Next]_vars
    PROVE  Spared'
<1>0. TypeOK /\ Shape
  BY DEF Typed
<1>1. CASE \/ \E r \in Readers : ExtTake(r) \/ ExtRelease(r)
           \/ \E w \in Workers : OpenReader(w) \/ LateClose(w)
           \/ \E k \in Calls : PublishProbe(k)
           \/ UNCHANGED vars
  <2>1. UNCHANGED <<op, kept>>
    BY <1>1 DEF ExtTake, ExtRelease, OpenReader, LateClose, PublishProbe, vars
  <2> QED BY <2>1 DEF Spared
<1>2. CASE Tick \/ \E o \in Ops : ContextEnds(o)
  BY <1>0, <1>2, TickMoves, ContextEndsMoves, SparedSame
<1>3. ASSUME NEW o \in Ops, Exhausted(o)
      PROVE  Spared'
  <2>1. op'[o].pc = "idle" /\ \A p \in Ops : p # o => op'[p] = op[p]
    BY <1>0, <1>3, ReturnsBecomes DEF Exhausted, OpBecomes, TypeOK
  <2> QED BY <1>3, <2>1, SparedClears DEF Exhausted, Armed
<1>4. ASSUME NEW o \in Ops, JoinProbe(o) \/ StartProbe(o)
      PROVE  Spared'
  <2>1. /\ op[o].pc # "hold" /\ op'[o].pc = "wait"
        /\ \A p \in Ops : p # o => op'[p] = op[p]
        /\ kept' = [kept EXCEPT ![o] = Registered]
    BY <1>0, <1>4, JoinProbeMoves, StartProbeMoves DEF OpBecomes
  <2> QED BY <2>1, SparedRegisters
<1>5. ASSUME NEW o \in Ops, TakeProbe(o)
      PROVE  Spared'
  <2>1. /\ op[o].pc = "wait" /\ op'[o].pc \notin Armed
        /\ \A p \in Ops : p # o => op'[p] = op[p]
        /\ UNCHANGED kept \/ kept' = [kept EXCEPT ![o] = {}]
    BY <1>0, <1>5, TakeProbeMoves DEF OpBecomes, Armed
  <2> QED BY <2>1, SparedIdle, SparedClears
<1>6. ASSUME NEW o \in Ops, OpStep(o)
      PROVE  Spared'
  BY <1>2, <1>3, <1>4, <1>5, <1>6, ObserveSpared, InspectSpared, ReserveSpared,
     CloseCardSpared, PlainSpared DEF OpStep
<1> QED BY <1>1, <1>2, <1>6 DEF Next

LEMMA InitSpared == Init => Spared
BY Constants DEF Init, Spared

\* No hand-off is made over a session of this process that was registered when
\* the last probe began and still is: the observation after that probe saw it
\* (recovery.go, hasSelfHolder in recoverSharing).
THEOREM HandoffSpares == Spec => []HandoffSparesOwnSession
<1> DEFINE Inv == Typed /\ CountsExact /\ Spared
<1>1. Init => Inv
  BY InitTyped, InitCounts, InitSpared
<1>2. Inv /\ [Next]_vars => Inv'
  BY NextTyped, NextCounts, NextSpared
<1>3. Inv => HandoffSparesOwnSession
  BY DEF Spared, HandoffSparesOwnSession
<1> QED BY <1>1, <1>2, <1>3, PTL DEF Spec

-----------------------------------------------------------------------------
(* The hand-off quota.                                                     *)

Ages == 0..HandoffWindow

\* Whatever was granted inside the window is still on record: a reading of the
\* clock that is late in the queue for the lock prunes less, never more.
Quota ==
    /\ handoffs \in Seq(Ages) /\ granted \in Seq(Ages)
    /\ Len(handoffs) <= HandoffCapacity
    /\ \A i \in 1..Len(granted) : granted[i] < HandoffWindow
    /\ Embeds(granted, handoffs)

LEMMA OlderAge ==
    ASSUME NEW a \in Ages
    PROVE  Older(a) \in Ages /\ (a < HandoffWindow => Older(a) = a + 1 /\ a + 1 \in Ages)
BY CardAccessAssumption DEF Older, Ages

LEMMA TickQuota ==
    ASSUME Quota, Tick
    PROVE  Quota'
<1> DEFINE aged == [i \in DOMAIN granted |-> granted[i] + 1]
           K    == {i \in DOMAIN granted : granted[i] + 1 < HandoffWindow}
<1>0. /\ handoffs \in Seq(Ages) /\ granted \in Seq(Ages) /\ Embeds(granted, handoffs)
      /\ DOMAIN granted = 1..Len(granted) /\ DOMAIN handoffs = 1..Len(handoffs)
      /\ \A i \in 1..Len(granted) : granted[i] \in Ages /\ granted[i] < HandoffWindow
      /\ \A j \in 1..Len(handoffs) : handoffs[j] \in Ages
  BY DEF Quota
<1>1. /\ handoffs' = [j \in 1..Len(handoffs) |-> Older(handoffs[j])]
      /\ granted' = KeptAt(aged, K)
  BY <1>0 DEF Tick
<1>2. /\ handoffs' \in Seq(Ages) /\ Len(handoffs') = Len(handoffs)
      /\ \A j \in 1..Len(handoffs) : handoffs'[j] = Older(handoffs[j])
  <2>1. handoffs' \in [1..Len(handoffs) -> Ages] /\ Len(handoffs) \in Nat
    BY <1>0, <1>1, OlderAge
  <2> QED BY <1>1, <2>1
<1>3. /\ aged \in Seq(Ages) /\ Len(aged) = Len(granted)
      /\ \A i \in 1..Len(granted) : aged[i] = granted[i] + 1
  <2>1. aged \in [1..Len(granted) -> Ages] /\ Len(granted) \in Nat
    BY <1>0, OlderAge
  <2> QED BY <1>0, <2>1
<1>4. /\ K \in SUBSET (1..Len(aged))
      /\ \A i \in K : aged[i] < HandoffWindow
  BY <1>0, <1>3
<1> HIDE DEF aged, K
<1>5. Embeds(aged, handoffs')
  <2>1. \A i \in 1..Len(granted), j \in 1..Len(handoffs) :
            granted[i] = handoffs[j] => aged[i] = handoffs'[j]
    BY <1>0, <1>2, <1>3, OlderAge
  <2> QED BY <1>0, <1>2, <1>3, <2>1, EmbedsChanged
<1>6. granted' \in Seq(Ages) /\ Embeds(granted', aged)
  BY <1>1, <1>3, <1>4, KeptAtElements, KeptEmbeds, Zenon
<1>7. Embeds(granted', handoffs')
  BY <1>2, <1>3, <1>5, <1>6, EmbedsTransitive
<1>8. \A m \in 1..Len(granted') : granted'[m] < HandoffWindow
  <2>1. \A m \in 1..Len(KeptAt(aged, K)) : \E j \in K : KeptAt(aged, K)[m] = aged[j]
    <3>1. aged \in Seq(Ages) /\ K \in SUBSET (1..Len(aged))
      BY <1>3, <1>4
    <3> QED BY <3>1, KeptAtFrom
  <2> QED BY <1>1, <1>4, <2>1
<1> QED BY <1>2, <1>6, <1>7, <1>8 DEF Quota

LEMMA ReserveQuota ==
    ASSUME TypeOK, Quota, NEW o \in Ops, Reserve(o)
    PROVE  Quota'
<1> DEFINE at     == op[o].at
           K      == {i \in DOMAIN handoffs : handoffs[i] - at < HandoffWindow}
           recent == KeptAt(handoffs, K)
<1>0. /\ handoffs \in Seq(Ages) /\ granted \in Seq(Ages) /\ Embeds(granted, handoffs)
      /\ DOMAIN handoffs = 1..Len(handoffs) /\ Len(handoffs) <= HandoffCapacity
      /\ \A i \in 1..Len(granted) : granted[i] \in Ages /\ granted[i] < HandoffWindow
  BY DEF Quota
<1>1. at \in Ages /\ HandoffWindow \in Nat /\ HandoffCapacity \in Nat
  <2>1. op[o] \in Op
    BY DEF TypeOK
  <2> QED BY <2>1, CardAccessAssumption DEF Op, Ages
<1>2. K \in SUBSET (1..Len(handoffs)) /\ Recent(op[o].at) = recent
  BY <1>0 DEF Recent
<1>3. \A i \in 1..Len(granted), j \in 1..Len(handoffs) : granted[i] = handoffs[j] => j \in K
  <2> SUFFICES ASSUME NEW i \in 1..Len(granted), NEW j \in 1..Len(handoffs),
                      granted[i] = handoffs[j]
               PROVE  j \in K
    OBVIOUS
  <2>1. granted[i] \in Ages /\ granted[i] < HandoffWindow
    BY <1>0
  <2>2. granted[i] - at < HandoffWindow
    BY <1>1, <2>1 DEF Ages
  <2> QED BY <1>0, <2>2
<1> HIDE DEF K
<1>4. /\ recent \in Seq(Ages) /\ Len(recent) = Cardinality(K)
      /\ Cardinality(K) <= Len(handoffs)
  BY <1>0, <1>2, KeptAtElements, Zenon
<1>5. Embeds(granted, recent)
  BY <1>0, <1>2, <1>3, EmbedsInKept
<1> HIDE DEF recent
<1>6. CASE UNCHANGED quotaVars
  BY <1>6 DEF Quota, quotaVars
<1>7. CASE handoffs' = recent /\ UNCHANGED granted
  <2>1. Len(recent) <= HandoffCapacity
    BY <1>0, <1>1, <1>4
  <2> QED BY <1>0, <1>4, <1>5, <1>7, <2>1 DEF Quota
<1>8. CASE /\ Len(recent) < HandoffCapacity
           /\ handoffs' = Append(recent, at)
           /\ granted' = IF at < HandoffWindow THEN Append(granted, at) ELSE granted
  <2>1. /\ Append(recent, at) \in Seq(Ages) /\ Len(Append(recent, at)) <= HandoffCapacity
        /\ Append(granted, at) \in Seq(Ages) /\ Len(Append(granted, at)) = Len(granted) + 1
    BY <1>0, <1>1, <1>4, <1>8
  <2>2. Embeds(granted, Append(recent, at)) /\ Embeds(Append(granted, at), Append(recent, at))
    BY <1>0, <1>1, <1>4, <1>5, EmbedsAppend
  <2>3. ASSUME at < HandoffWindow
        PROVE  \A i \in 1..Len(Append(granted, at)) : Append(granted, at)[i] < HandoffWindow
    BY <1>0, <1>1, <2>1, <2>3
  <2> QED BY <1>0, <1>8, <2>1, <2>2, <2>3 DEF Quota
<1> QED BY <1>2, <1>6, <1>7, <1>8 DEF Reserve

LEMMA NextQuota ==
    ASSUME TypeOK, Quota, [Next]_vars
    PROVE  Quota'
<1>1. CASE UNCHANGED quotaVars
  BY <1>1 DEF Quota, quotaVars
<1>2. CASE \/ \E r \in Readers : ExtTake(r) \/ ExtRelease(r)
           \/ \E w \in Workers : OpenReader(w) \/ LateClose(w)
           \/ \E k \in Calls : PublishProbe(k)
           \/ UNCHANGED vars
  BY <1>1, <1>2 DEF ExtTake, ExtRelease, OpenReader, LateClose, PublishProbe, vars, quotaVars
<1>3. CASE Tick
  BY <1>3, TickQuota
<1>4. ASSUME NEW o \in Ops, OpStep(o) PROVE Quota'
  <2>1. CASE Reserve(o)
    BY <2>1, ReserveQuota
  <2>2. CASE ContextEnds(o) \/ Begin(o) \/ TakeDirect(o) \/ LeaveDirect(o) \/ Track(o)
             \/ CloseCard(o) \/ Untrack(o) \/ JoinProbe(o) \/ StartProbe(o)
    BY <1>1, <2>2 DEF ContextEnds, Begin, TakeDirect, LeaveDirect, Track, CloseCard, Untrack,
                      JoinProbe, StartProbe
  <2>3. CASE TakeProbe(o) \/ LeaveProbe(o) \/ DropLate(o) \/ Assess(o) \/ EndRescan(o)
             \/ Exhausted(o) \/ Observe(o) \/ Inspect(o) \/ Handoff(o)
    BY <1>1, <2>3 DEF TakeProbe, LeaveProbe, DropLate, Assess, EndRescan, Exhausted, Observe,
                      Inspect, Handoff
  <2> QED BY <1>4, <2>1, <2>2, <2>3 DEF OpStep
<1> QED BY <1>2, <1>3, <1>4 DEF Next

LEMMA InitQuota == Init => Quota
<1> SUFFICES ASSUME Init PROVE Quota
  OBVIOUS
<1>1. /\ handoffs = <<>> /\ granted = <<>> /\ <<>> \in Seq(Ages) /\ Len(<<>>) = 0
      /\ HandoffCapacity \in Nat
  BY CardAccessAssumption DEF Init
<1>2. EmbedsBy([i \in 1..0 |-> 0], <<>>, <<>>)
  BY <1>1 DEF EmbedsBy
<1> QED BY <1>1, <1>2 DEF Quota, Embeds

\* No more throttled hand-offs are granted in any window than the capacity
\* (recovery.go, reserveHandoff), for any number of operations that read the
\* clock in one order and have the lock in another.
THEOREM HandoffLimited == Spec => []HandoffQuota
<1>1. Quota => HandoffQuota
  <2> SUFFICES ASSUME Quota PROVE Len(granted) <= HandoffCapacity
    BY DEF HandoffQuota
  <2>1. Len(granted) <= Len(handoffs)
    BY EmbedsLen DEF Quota
  <2> QED BY <2>1, CardAccessAssumption DEF Quota
<1>2. Typed /\ Quota /\ [Next]_vars => Quota'
  BY NextQuota DEF Typed
<1> QED BY InitTyped, NextTyped, InitQuota, <1>1, <1>2, PTL DEF Spec

-----------------------------------------------------------------------------
(* Readers are exclusive.                                                  *)

LEMMA InitExclusive == Init => Exclusive
BY DEF Init, Exclusive

LEMMA ExclusiveCloses ==
    ASSUME Typed, Exclusive, NEW w \in Workers, open' = [open EXCEPT ![w] = NoReader],
           UNCHANGED ext
    PROVE  Exclusive'
<1>1. /\ open'[w] = NoReader /\ \A v \in Workers : v # w => open'[v] = open[v]
      /\ NoReader \notin ext
  BY Names DEF Typed, TypeOK
<1> QED BY <1>1 DEF Exclusive

LEMMA ExclusiveOpens ==
    ASSUME Typed, Exclusive, NEW w \in Workers, NEW r \in Readers, Free(r),
           open' = [open EXCEPT ![w] = r], UNCHANGED ext
    PROVE  Exclusive'
<1>1. open'[w] = r /\ \A v \in Workers : v # w => open'[v] = open[v]
  BY DEF Typed, TypeOK
<1> QED BY <1>1 DEF Exclusive, Free

LEMMA NextExclusive ==
    ASSUME Typed, Exclusive, [Next]_vars
    PROVE  Exclusive'
<1>0. TypeOK /\ Shape /\ Listed
  BY DEF Typed
<1>1. ASSUME NEW r \in Readers, ExtTake(r) \/ ExtRelease(r)
      PROVE  Exclusive'
  BY <1>1, Names DEF ExtTake, ExtRelease, Exclusive, Free
<1>2. ASSUME NEW w \in Workers, OpenReader(w)
      PROVE  Exclusive'
  <2>1. CASE UNCHANGED open
    BY <1>2, <2>1 DEF OpenReader, Exclusive
  <2>2. CASE \E r \in Readers : Free(r) /\ open' = [open EXCEPT ![w] = r]
    BY <1>2, <2>2, ExclusiveOpens DEF OpenReader
  <2>3. CASE open' = [open EXCEPT ![w] = NoReader]
    BY <1>2, <2>3, ExclusiveCloses DEF OpenReader
  <2> QED BY <1>0, <1>2, <2>1, <2>2, <2>3, OpenReaderMoves
<1>3. ASSUME NEW w \in Workers, LateClose(w)
      PROVE  Exclusive'
  BY <1>3, ExclusiveCloses DEF LateClose
<1>4. ASSUME NEW o \in Ops, CloseCard(o) \/ DropLate(o)
      PROVE  Exclusive'
  BY <1>0, <1>4, CloseCardMoves, DropLateMoves, ExclusiveCloses, Names
<1>5. CASE \/ Tick \/ UNCHANGED vars
           \/ \E k \in Calls : PublishProbe(k)
           \/ \E o \in Ops : OpStep(o) /\ ~CloseCard(o) /\ ~DropLate(o)
  <2>1. UNCHANGED <<ext, open>>
    <3>1. CASE Tick \/ UNCHANGED vars \/ \E k \in Calls : PublishProbe(k)
      BY <3>1 DEF Tick, vars, PublishProbe
    <3>2. ASSUME NEW o \in Ops, OpStep(o), ~CloseCard(o), ~DropLate(o)
          PROVE  UNCHANGED <<ext, open>>
      <4>1. CASE ContextEnds(o) \/ Begin(o) \/ TakeDirect(o) \/ LeaveDirect(o) \/ Track(o)
                 \/ Untrack(o) \/ JoinProbe(o) \/ StartProbe(o)
        BY <4>1 DEF ContextEnds, Begin, TakeDirect, LeaveDirect, Track, Untrack, JoinProbe,
                    StartProbe
      <4>2. CASE TakeProbe(o) \/ LeaveProbe(o) \/ Assess(o) \/ EndRescan(o) \/ Exhausted(o)
        BY <4>2 DEF TakeProbe, LeaveProbe, Assess, EndRescan, Exhausted
      <4>3. CASE Observe(o) \/ Inspect(o) \/ Reserve(o) \/ Handoff(o)
        BY <4>3 DEF Observe, Inspect, Reserve, Handoff
      <4> QED BY <3>2, <4>1, <4>2, <4>3 DEF OpStep
    <3> QED BY <1>5, <3>1, <3>2
  <2> QED BY <2>1 DEF Exclusive
<1> QED BY <1>1, <1>2, <1>3, <1>4, <1>5 DEF Next

-----------------------------------------------------------------------------
(* The refinement.                                                         *)

Pending == {r \in Readers : \E w \in Workers : open[w] = r /\ ~Delivered(w)}
Held    == [o \in Ops |-> IF op[o].has = None THEN NoReader ELSE open[op[o].has]]

SlotsInv == AccessInv /\ Exclusive

\* The session an operation has been handed.
LEMMA HasOwned ==
    ASSUME AccessInv, NEW o \in Ops, op[o].has # None
    PROVE  /\ op[o].has \in Workers /\ open[op[o].has] \in Readers
           /\ scan[op[o].has].step = "idle" /\ ~Offers(op[o].has)
           /\ \A p \in Ops : op[p].has = op[o].has => p = o
<1>1. op[o].has \in Workers
  BY OpFields DEF AccessInv, Typed, TypeOK
<1>2. open[op[o].has] # NoReader /\ scan[op[o].has].step = "idle" /\ ~Offers(op[o].has)
  BY <1>1 DEF AccessInv, Owned, OpOwns, OpHas
<1>3. open[op[o].has] \in Readers
  BY <1>1, <1>2 DEF AccessInv, Typed, TypeOK
<1>4. \A p \in Ops : op[p].has = op[o].has => p = o
  BY <1>1 DEF AccessInv, Owned, Unique, OpHas
<1> QED BY <1>1, <1>2, <1>3, <1>4

LEMMA TakenIff ==
    ASSUME SlotsInv, NEW r \in Readers, Free(r)
    PROVE  ~Slots!Taken(r)
<1>1. r \notin ext /\ r \notin Pending
  BY DEF Free, Pending
<1>2. ASSUME NEW o \in Ops
      PROVE  Held[o] # r
  BY HasOwned, Names DEF SlotsInv, Free, Held
<1> QED BY <1>1, <1>2 DEF Slots!Taken, Pending, Held

\* Nothing that the abstraction sees changes.
LEMMA SlotsStutter ==
    ASSUME \A o \in Ops : op'[o].has = op[o].has, UNCHANGED <<ext, open>>
    PROVE  UNCHANGED Slots!vars
<1>1. \A w : Delivered(w)' <=> Delivered(w)
  BY DEF Delivered
<1>2. Pending' = Pending
  BY <1>1 DEF Pending
<1>3. Held' = Held
  BY DEF Held
<1> QED BY <1>2, <1>3 DEF Slots!vars, Pending, Held

LEMMA SlotsDrop ==
    ASSUME SlotsInv, NEW w \in Workers, ~Delivered(w), ~Delivered(w)',
           \A o \in Ops : op'[o].has = op[o].has,
           open' = [open EXCEPT ![w] = NoReader], UNCHANGED ext
    PROVE  [Slots!Next]_(Slots!vars)
<1>1. open'[w] = NoReader /\ \A v \in Workers : v # w => open'[v] = open[v]
  BY DEF SlotsInv, AccessInv, Typed, TypeOK
<1>2. \A v : Delivered(v)' <=> Delivered(v)
  BY DEF Delivered
<1>3. Held' = Held
  <2>1. ASSUME NEW o \in Ops
        PROVE  Held'[o] = Held[o]
    BY <1>1, HasOwned DEF Held, Delivered, SlotsInv
  <2> QED BY <2>1 DEF Held
<1>4. CASE open[w] = NoReader
  <2>1. open' = open
    BY <1>1, <1>4 DEF SlotsInv, AccessInv, Typed, TypeOK
  <2> QED BY <2>1, SlotsStutter
<1>5. CASE open[w] # NoReader
  <2>1. PICK r \in Readers : r = open[w]
    BY <1>5 DEF SlotsInv, AccessInv, Typed, TypeOK
  <2>2. r \in Pending
    BY <2>1 DEF Pending
  <2>3. \A v \in Workers : open[v] = r => v = w
    BY <1>5, <2>1 DEF SlotsInv, Exclusive
  <2>4. Pending' = Pending \ {r}
    BY <1>1, <1>2, <2>1, <2>3, Names DEF Pending
  <2>5. Slots!Drop(r)
    BY <1>3, <2>2, <2>4 DEF Slots!Drop, Pending, Held
  <2> QED BY <2>5 DEF Slots!Next
<1> QED BY <1>4, <1>5

LEMMA SlotsOpen ==
    ASSUME SlotsInv, NEW w \in Workers, NEW r \in Readers, Free(r), open[w] = NoReader,
           open' = [open EXCEPT ![w] = r], ~Delivered(w), UNCHANGED <<op, ext>>
    PROVE  [Slots!Next]_(Slots!vars)
<1>1. open'[w] = r /\ \A v \in Workers : v # w => open'[v] = open[v]
  BY DEF SlotsInv, AccessInv, Typed, TypeOK
<1>2. \A v : Delivered(v)' <=> Delivered(v)
  BY DEF Delivered
<1>3. Held' = Held
  <2>1. ASSUME NEW o \in Ops
        PROVE  Held'[o] = Held[o]
    BY <1>1, HasOwned DEF Held, Delivered, SlotsInv
  <2> QED BY <2>1 DEF Held
<1>4. Pending' = Pending \cup {r}
  BY <1>1, <1>2, Names DEF Pending
<1>5. Slots!Open(r)
  BY <1>3, <1>4, TakenIff DEF Slots!Open, Pending, Held
<1> QED BY <1>5 DEF Slots!Next

\* Operation o is handed the session of worker w.
LEMMA SlotsDeliver ==
    ASSUME SlotsInv, NEW o \in Ops, NEW w \in Workers, open[w] # NoReader, ~Delivered(w),
           op[o].has = None, op'[o].has = w,
           \A p \in Ops : p # o => op'[p].has = op[p].has,
           UNCHANGED <<ext, open>>
    PROVE  [Slots!Next]_(Slots!vars)
<1>1. PICK r \in Readers : r = open[w]
  BY DEF SlotsInv, AccessInv, Typed, TypeOK
<1>2. r \in Pending
  BY <1>1 DEF Pending
<1>3. \A v \in Workers : open[v] = r => v = w
  BY <1>1 DEF SlotsInv, Exclusive
<1>4. \A v \in Workers : Delivered(v)' <=> Delivered(v) \/ v = w
  BY Names DEF Delivered
<1>5. Pending' = Pending \ {r}
  BY <1>1, <1>3, <1>4 DEF Pending
<1>6. Held[o] = NoReader
  BY DEF Held
<1>7. Held' = [Held EXCEPT ![o] = r]
  BY <1>1, Names DEF Held
<1>8. Slots!Deliver(o, r)
  BY <1>2, <1>5, <1>6, <1>7 DEF Slots!Deliver, Pending, Held
<1> QED BY <1>8 DEF Slots!Next

LEMMA SlotsClose ==
    ASSUME SlotsInv, NEW o \in Ops, op[o].has # None,
           open' = [open EXCEPT ![op[o].has] = NoReader], op'[o].has = None,
           \A p \in Ops : p # o => op'[p].has = op[p].has, UNCHANGED ext
    PROVE  [Slots!Next]_(Slots!vars)
<1>1. PICK w \in Workers : w = op[o].has /\ open[w] # NoReader
  BY HasOwned, Names DEF SlotsInv
<1>2. open'[w] = NoReader /\ \A v \in Workers : v # w => open'[v] = open[v]
  BY <1>1 DEF SlotsInv, AccessInv, Typed, TypeOK
<1>3. \A p \in Ops : p # o => op[p].has # w
  BY <1>1, HasOwned DEF SlotsInv
<1>4. \A v \in Workers : v # w => (Delivered(v)' <=> Delivered(v))
  BY <1>1, Names DEF Delivered
<1>5. Pending' = Pending
  BY <1>1, <1>2, <1>4, Names DEF Pending, Delivered
<1>6. Held[o] # NoReader
  BY <1>1 DEF Held
<1>7. Held' = [Held EXCEPT ![o] = NoReader]
  <2>1. ASSUME NEW p \in Ops, p # o
        PROVE  Held'[p] = Held[p]
    BY <1>2, <1>3, <2>1, HasOwned DEF Held, SlotsInv
  <2>2. Held'[o] = NoReader
    BY DEF Held
  <2>3. Held' = [p \in Ops |-> Held'[p]] /\ Held = [p \in Ops |-> Held[p]]
    BY DEF Held
  <2> HIDE DEF Held
  <2> QED BY <2>1, <2>2, <2>3
<1>8. Slots!Close(o)
  BY <1>5, <1>6, <1>7 DEF Slots!Close, Pending, Held
<1> QED BY <1>8 DEF Slots!Next

LEMMA NotDelivered ==
    ASSUME AccessInv, NEW w \in Workers, scan[w].step # "idle" \/ Offers(w)
    PROVE  ~Delivered(w)
BY HasOwned, Names DEF Delivered

LEMMA InitSlots == Init => Slots!Init
<1> SUFFICES ASSUME Init PROVE Slots!Init
  OBVIOUS
<1>1. Pending = {}
  BY Names DEF Init, Pending
<1>2. Held = [o \in Ops |-> NoReader]
  BY Constants DEF Init, Held
<1> QED BY <1>1, <1>2 DEF Slots!Init, Pending, Held, Init

LEMMA WorkerSlots ==
    ASSUME SlotsInv, NEW w \in Workers, OpenReader(w) \/ LateClose(w)
    PROVE  [Slots!Next]_(Slots!vars)
<1>0. TypeOK /\ Listed
  BY DEF SlotsInv, AccessInv, Typed
<1>1. UNCHANGED <<ext, op>> /\ scan[w].step # "idle"
  BY <1>0, OpenReaderMoves, LateCloseMoves
<1>2. ~Delivered(w) /\ ~Delivered(w)'
  BY <1>1, NotDelivered DEF SlotsInv, Delivered
<1>3. \/ \E r \in Readers : Free(r) /\ open[w] = NoReader /\ open' = [open EXCEPT ![w] = r]
      \/ open' = [open EXCEPT ![w] = NoReader]
      \/ UNCHANGED open
  BY <1>0, OpenReaderMoves, LateCloseMoves
<1> QED BY <1>1, <1>2, <1>3, SlotsOpen, SlotsDrop, SlotsStutter

LEMMA ExtSlots ==
    ASSUME SlotsInv, NEW r \in Readers, ExtTake(r) \/ ExtRelease(r)
    PROVE  Slots!Next
<1>1. UNCHANGED <<open, op>>
  BY DEF ExtTake, ExtRelease
<1>2. Pending' = Pending /\ Held' = Held
  BY <1>1 DEF Pending, Held, Delivered
<1>3. CASE ExtTake(r)
  <2>1. Slots!ExtTake(r)
    BY <1>2, <1>3, TakenIff DEF ExtTake, Slots!ExtTake, Pending, Held
  <2> QED BY <2>1 DEF Slots!Next
<1>4. CASE ExtRelease(r)
  <2>1. Slots!ExtRelease(r)
    BY <1>2, <1>4 DEF ExtRelease, Slots!ExtRelease, Pending, Held
  <2> QED BY <2>1 DEF Slots!Next
<1> QED BY <1>3, <1>4

\* The steps of an operation that hand a session over or close one.
LEMMA HandSlots ==
    ASSUME SlotsInv, NEW o \in Ops,
           TakeDirect(o) \/ TakeProbe(o) \/ CloseCard(o) \/ DropLate(o)
    PROVE  [Slots!Next]_(Slots!vars)
<1>0. AccessInv /\ Typed /\ TypeOK /\ Shape
  BY DEF SlotsInv, AccessInv, Typed
<1>1. CASE TakeDirect(o)
  <2>1. /\ o \in Workers /\ scan[o].step = "done" /\ op[o].pc = "open"
        /\ op[o].has = None /\ UNCHANGED <<ext, open>>
    BY <1>0, <1>1, TakeDirectMoves, Names DEF Shape
  <2>2. CASE open[o] # NoReader /\ OpBecomes(o, "track", o, None, op[o].sticky)
    BY <1>0, <2>1, <2>2, NotDelivered, SlotsDeliver DEF OpBecomes
  <2>3. CASE QuietMove(o)
    <3>1. \A p \in Ops : op'[p].has = op[p].has
      BY <2>1, <2>3 DEF QuietMove, OpBecomes
    <3> QED BY <2>1, <3>1, SlotsStutter
  <2> QED BY <1>0, <1>1, <2>2, <2>3, TakeDirectMoves
<1>2. CASE TakeProbe(o)
  <2>1. PICK k \in Calls : k = op[o].call
    BY <1>0, <1>2, TakeProbeMoves, Waits
  <2>2. k \in Workers /\ op[o].has = None /\ UNCHANGED <<ext, open>>
    BY <1>0, <1>2, TakeProbeMoves, Waits, Names
  <2>3. CASE \E step \in {"join", "observe"} : OpBecomes(o, step, None, None, op[o].sticky)
    <3>1. \A p \in Ops : op'[p].has = op[p].has
      BY <2>2, <2>3 DEF OpBecomes
    <3> QED BY <2>2, <3>1, SlotsStutter
  <2>4. CASE Offers(k) /\ OpBecomes(o, "track", k, None, FALSE)
    <3>1. open[k] # NoReader
      BY <1>0, <2>4 DEF AccessInv, Owned, Published
    <3> QED BY <1>0, <2>2, <2>4, <3>1, NotDelivered, SlotsDeliver DEF OpBecomes
  <2> QED BY <1>0, <1>2, <2>1, <2>3, <2>4, TakeProbeMoves
<1>3. CASE CloseCard(o)
  BY <1>0, <1>3, CloseCardMoves, SlotsClose, Names DEF OpBecomes
<1>4. CASE DropLate(o)
  <2>1. PICK k \in Calls : k = op[o].call
    BY <1>0, <1>4, DropLateMoves
  <2>2. /\ k \in Workers /\ OpHas(o, k) /\ UNCHANGED ext
        /\ open' = [open EXCEPT ![k] = NoReader]
    BY <1>0, <1>4, <2>1, DropLateMoves, Names DEF OpHas
  <2>3. \A p \in Ops : op'[p].has = op[p].has
    BY <1>0, <1>4, DropLateMoves DEF OpBecomes, Shape
  <2>4. ~Delivered(k)
    <3>1. \A p \in Ops : OpHas(p, k) => p = o
      BY <1>0, <2>2 DEF AccessInv, Owned, Unique
    <3>2. op[o].has = None
      BY <1>0, <1>4, DropLateMoves DEF Shape
    <3> QED BY <2>2, <3>1, <3>2, Names DEF Delivered, OpHas
  <2>5. ~Delivered(k)'
    BY <2>3, <2>4 DEF Delivered
  <2> QED BY <2>2, <2>3, <2>4, <2>5, SlotsDrop
<1> QED BY <1>1, <1>2, <1>3, <1>4

LEMMA OtherSlots ==
    ASSUME SlotsInv,
           \/ Tick \/ UNCHANGED vars
           \/ \E k \in Calls : PublishProbe(k)
           \/ \E o \in Ops : \/ ContextEnds(o) \/ Track(o) \/ Untrack(o) \/ JoinProbe(o)
                             \/ StartProbe(o) \/ LeaveProbe(o) \/ Begin(o) \/ Assess(o)
                             \/ QuietAction(o)
    PROVE  UNCHANGED Slots!vars
<1>0. TypeOK /\ Shape
  BY DEF SlotsInv, AccessInv, Typed
<1>1. UNCHANGED <<ext, open>>
  BY DEF Tick, vars, PublishProbe, ContextEnds, Begin, Track, Untrack, JoinProbe, StartProbe,
         LeaveProbe, Assess, QuietAction, LeaveDirect, EndRescan, Exhausted, Observe, Inspect,
         Reserve, Handoff
<1>2. CASE Tick \/ \E o \in Ops : ContextEnds(o)
  BY <1>0, <1>1, <1>2, TickMoves, ContextEndsMoves, SlotsStutter DEF OpSame
<1>3. CASE UNCHANGED vars \/ \E k \in Calls : PublishProbe(k)
  BY <1>1, <1>3, SlotsStutter DEF vars, PublishProbe
<1>4. ASSUME NEW o \in Ops, Track(o) \/ Untrack(o) \/ JoinProbe(o) \/ StartProbe(o)
                            \/ LeaveProbe(o)
      PROVE  UNCHANGED Slots!vars
  <2>1. op'[o].has = op[o].has /\ \A p \in Ops : p # o => op'[p] = op[p]
    <3>1. CASE Track(o)
      BY <1>0, <3>1, TrackMoves DEF OpBecomes, Shape
    <3>2. CASE Untrack(o)
      BY <1>0, <3>2, UntrackMoves DEF OpBecomes, Shape
    <3>3. CASE JoinProbe(o)
      BY <1>0, <3>3, JoinProbeMoves DEF OpBecomes, Shape
    <3>4. CASE StartProbe(o)
      BY <1>0, <3>4, StartProbeMoves DEF OpBecomes, Shape
    <3>5. CASE LeaveProbe(o)
      BY <1>0, <3>5, LeaveProbeMoves DEF OpBecomes, Shape
    <3> QED BY <1>4, <3>1, <3>2, <3>3, <3>4, <3>5
  <2> QED BY <1>1, <2>1, SlotsStutter
<1>5. ASSUME NEW o \in Ops, Begin(o) \/ Assess(o) \/ QuietAction(o)
      PROVE  UNCHANGED Slots!vars
  <2>1. QuietMove(o)
    BY <1>0, <1>5, BeginMoves, AssessMoves, QuietMoves
  <2>2. op[o].has = None
    BY <1>0, <2>1 DEF QuietMove, Quiet, Shape
  <2>3. \A p \in Ops : op'[p].has = op[p].has
    BY <2>1, <2>2 DEF QuietMove, OpBecomes
  <2> QED BY <1>1, <2>3, SlotsStutter
<1> QED BY <1>2, <1>3, <1>4, <1>5

\* CardAccess implements CardSlots: whatever the order of opens, probes,
\* claims, deadlines and late closes, a reader carries one session at a time,
\* and each session is delivered to one operation or dropped (card.go,
\* recovery.go).
THEOREM AccessImplementsSlots == Spec => ImplementsSlots
<1>1. Init => SlotsInv /\ Slots!Init
  BY InitTyped, InitCounts, InitOwned, InitExclusive, InitSlots DEF SlotsInv, AccessInv
<1>2. SlotsInv /\ [Next]_vars => SlotsInv'
  BY NextTyped, NextCounts, NextOwned, NextExclusive DEF SlotsInv, AccessInv
<1>3. SlotsInv /\ [Next]_vars => [Slots!Next]_(Slots!vars)
  BY WorkerSlots, ExtSlots, HandSlots, OtherSlots DEF Next, OpStep, QuietAction
<1> QED BY <1>1, <1>2, <1>3, PTL DEF Spec, ImplementsSlots, Slots!Spec
=============================================================================
