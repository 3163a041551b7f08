--------------------------- MODULE NotifierProofs ---------------------------
(***************************************************************************)
(* The notifier of Core never sleeps past what it has to do.               *)
(***************************************************************************)
EXTENDS CoreProofs

USE DEF pinVars, ringVars, claimVars, mintVars, notifierVars, historyVars

\* No nudge is pending, and none is about to be sent for an insert.
Quiet == ~wake /\ pc # "wake"

\* Instants are real ones: 0 stands for none.
InstantsInv ==
    /\ \A e \in cache : e.expiresAt > 0
    /\ pc = "insert" /\ held # NoEntry => held.expiresAt > 0
    /\ pc \in {"sign", "record", "build"} => now > 0
    /\ npc = "sweep" => nNow > 0 /\ (~ClockMayStepBack => nNow <= clock)

\* Between the sweep and timer.Reset, the deadline computed is early enough for
\* everything held, unless a nudge is on its way.
ComputedInTime ==
    npc \in {"poll", "purge", "arm"} /\ Quiet /\ cache # {} =>
        /\ nNext # 0
        /\ \A e \in cache : \A d \in Deadlines(e) : nNext <= d
        /\ ~ClockMayStepBack => nNext <= clock + PollInterval

ArmedInTime ==
    npc = "wait" /\ Quiet /\ cache # {} =>
        /\ ~ClockMayStepBack => timer <= PollInterval
        /\ timer > 0 => \A e \in cache : \A d \in Deadlines(e) : clock + timer <= d

NotifierInv == InstantsInv /\ ComputedInTime /\ ArmedInTime

-----------------------------------------------------------------------------

LEMMA ClaimsExpireLater ==
    ASSUME NEW a \in Aliases, NEW t \in Nat, t > 0
    PROVE  ExpiresAt(t, a) > 0
<1>1. /\ Reuse[a] \in Nat
      /\ Lifetime[a] \in Nat
      /\ Reuse[a] + ClockSkew + ValidityFloor <= Lifetime[a]
  BY ConfigAssumption
<1> QED BY <1>1, TimeAssumption DEF ExpiresAt

\* A sweep has no deadline at the zero Time.
LEMMA DueIsReal ==
    ASSUME NEW E \in SUBSET Entry, \A e \in E : e.expiresAt > 0,
           NEW t \in Nat, t > 0
    PROVE  \A d \in Due(E, t) : d # 0
<1>1. t + PollInterval # 0
  BY TimeAssumption
<1>2. ASSUME NEW e \in E, NEW d \in Deadlines(e) PROVE d # 0
  <2>1. e.completedAt \in Nat /\ e.windowEndsAt \in Int /\ e.expiresAt > 0
        /\ e.expiresAt \in Int
    BY DEF Entry
  <2>2. \/ d = e.expiresAt
        \/ Windowed(e) /\ d = e.windowEndsAt
        \/ PreNotice(e) /\ d = e.windowEndsAt - NotifyLead
    BY <1>2 DEF Deadlines
  <2> QED BY <2>1, <2>2, TimeAssumption DEF Windowed, PreNotice
<1> QED BY <1>1, <1>2 DEF Due

\* A step after which no nudge is pending changed nothing the notifier computed
\* from.
LEMMA Harmless ==
    ASSUME ComputedInTime, ArmedInTime,
           UNCHANGED <<npc, nNext, timer, clock>>,
           Quiet' => Quiet /\ UNCHANGED cache
    PROVE  ComputedInTime' /\ ArmedInTime'
<1>1. CASE ~Quiet'
  BY <1>1 DEF ComputedInTime, ArmedInTime
<1>2. CASE Quiet'
  BY <1>2 DEF ComputedInTime, ArmedInTime
<1> QED BY <1>1, <1>2

\* A purge that dropped something sends a nudge.
LEMMA PurgeNudges ==
    ASSUME wake \in BOOLEAN, NEW kept, PurgeTo(kept), ~wake'
    PROVE  ~wake /\ UNCHANGED cache
BY DEF PurgeTo, WakeIf

LEMMA StepInstants == TypeInv /\ InstantsInv /\ [Next]_vars => InstantsInv'
<1> SUFFICES ASSUME TypeInv, InstantsInv, [Next]_vars PROVE InstantsInv'
    OBVIOUS
<1>t. TypeOK /\ LocalsSet
  BY DEF TypeInv
<1> USE DEF InstantsInv
<1>1. CASE /\ cache' \subseteq cache
           /\ UNCHANGED <<npc, nNow, clock>>
           /\ \/ pc' \notin {"sign", "record", "build", "insert"}
              \/ UNCHANGED <<pc, held, now>>
  BY <1>1
<1>2. CASE Tick
  BY <1>2, <1>t DEF Tick, TypeOK
<1>3. CASE ClockStepBack
  BY <1>3 DEF ClockStepBack
<1>4. CASE BeginPendingMint
  BY <1>4, <1>t DEF BeginPendingMint, TypeOK
<1>5. CASE SignReturns
  BY <1>5 DEF SignReturns
<1>6. CASE RecordPINVerification
  <2>1. cache' \subseteq cache
    BY <1>6 DEF RecordPINVerification, PurgeAll, PurgeOtherSerials, PurgeTo
  <2> QED BY <1>6, <2>1 DEF RecordPINVerification
<1>7. CASE NewCacheEntry
  <2>1. cur \in Request /\ cur.key.alias \in Aliases /\ now \in Nat /\ now > 0
    BY <1>7, <1>t, KeyFields DEF NewCacheEntry, LocalsSet, MintSteps, Request, TypeOK
  <2>2. held' # NoEntry => held'.expiresAt = ExpiresAt(now, cur.key.alias)
    BY <1>7 DEF NewCacheEntry
  <2>3. held' # NoEntry => held'.expiresAt > 0
    BY <2>1, <2>2, ClaimsExpireLater
  <2> QED BY <1>7, <2>3 DEF NewCacheEntry
<1>8. CASE InsertEntry
  <2>1. cache' \subseteq cache \cup {e \in {held} : held # NoEntry}
    BY <1>8 DEF InsertEntry, InsertLocked
  <2> QED BY <1>8, <2>1 DEF InsertEntry
<1>9. CASE NotifierSweep
  <2>1. \A e \in cache' : \E f \in cache : e.expiresAt = f.expiresAt
    BY <1>9, <1>t, NoticedType DEF NotifierSweep, TypeOK
  <2> QED BY <1>9, <2>1 DEF NotifierSweep
<1>10. CASE NotifierWakes
  BY <1>10, <1>t DEF NotifierWakes, TypeOK
<1>11. CASE NotifierPoll \/ NotifierArm
  BY <1>11 DEF NotifierPoll, NotifierArm
<1>12. CASE NotifierPurge
  BY <1>12 DEF NotifierPurge, PurgeTo
<1>13. CASE Lock \/ DropEntry \/ UNCHANGED vars
  BY <1>1, <1>13 DEF Lock, DropEntry, PurgeAll, PurgeTo, vars
<1>14. CASE UnlockVerify \/ UnlockCommit \/ DescribeForwardProvider
  BY <1>1, <1>14 DEF UnlockVerify, UnlockCommit, DescribeForwardProvider,
                     PurgeOtherSerials, PurgeTo, ReleaseMint
<1>15. CASE Lookup \/ Probe \/ Confirm \/ TakePIN \/ JTIFails \/ EndPendingMint
  BY <1>1, <1>15 DEF Lookup, Probe, Confirm, TakePIN, JTIFails, EndPendingMint,
                     ReleaseMint
<1>16. ASSUME NEW id, NEW k, NEW w, Arrive(id, k, w) \/ AcquireMint(id)
       PROVE  InstantsInv'
  BY <1>1, <1>16 DEF Arrive, AcquireMint
<1>17. ASSUME NEW s, NEW n, PlugCard(s) \/ UnplugCard \/ RoutedMint(s, n)
       PROVE  InstantsInv'
  BY <1>1, <1>17 DEF PlugCard, UnplugCard, RoutedMint
<1>18. ASSUME NEW w, NEW g, InvalidateWorkspace(w, g) PROVE InstantsInv'
  BY <1>1, <1>18 DEF InvalidateWorkspace, PurgeTo
<1> QED
  BY <1>2, <1>3, <1>4, <1>5, <1>6, <1>7, <1>8, <1>9, <1>10, <1>11, <1>12,
     <1>13, <1>14, <1>15, <1>16, <1>17, <1>18 DEF Next, MintStep, NotifierStep

LEMMA StepInTime ==
    TypeInv /\ NotifierInv /\ [Next]_vars => ComputedInTime' /\ ArmedInTime'
<1> SUFFICES ASSUME TypeInv, NotifierInv, [Next]_vars
             PROVE  ComputedInTime' /\ ArmedInTime'
    OBVIOUS
<1>t. TypeOK /\ LocalsSet
  BY DEF TypeInv
<1>n. InstantsInv /\ ComputedInTime /\ ArmedInTime
  BY DEF NotifierInv
<1>b. wake \in BOOLEAN
  BY <1>t DEF TypeOK
<1>d. \A e \in cache : Deadlines(e) \subseteq Int
  BY <1>t, DeadlinesType DEF TypeOK
<1>1. CASE UNCHANGED <<npc, nNext, timer, clock>> /\ (Quiet' => Quiet /\ UNCHANGED cache)
  BY <1>1, <1>n, Harmless
<1>2. CASE Tick
  <2>1. /\ clock' = clock \/ clock' = clock + 1
        /\ timer' = IF timer > 0 THEN timer - 1 ELSE 0
        /\ UNCHANGED <<npc, nNext, cache, wake, pc>>
    BY <1>2 DEF Tick
  <2>2. clock \in Nat /\ timer \in Nat /\ nNext \in Int
    BY <1>t DEF TypeOK
  <2>3. ComputedInTime'
    BY <1>n, <2>1, <2>2, TimeAssumption DEF ComputedInTime, Quiet
  <2>4. ArmedInTime'
    <3> SUFFICES ASSUME npc = "wait", Quiet, cache # {}
                 PROVE  /\ ~ClockMayStepBack => timer' <= PollInterval
                        /\ timer' > 0 => \A e \in cache : \A d \in Deadlines(e) :
                                             clock' + timer' <= d
      BY <2>1 DEF ArmedInTime, Quiet
    <3>1. ~ClockMayStepBack => timer <= PollInterval
      BY <1>n DEF ArmedInTime
    <3>2. timer > 0 => \A e \in cache : \A d \in Deadlines(e) : clock + timer <= d
      BY <1>n DEF ArmedInTime
    <3>3. ~ClockMayStepBack => timer' <= PollInterval
      BY <2>1, <2>2, <3>1, TimeAssumption
    <3>4. ASSUME timer' > 0, NEW e \in cache, NEW d \in Deadlines(e)
          PROVE  clock' + timer' <= d
      <4>1. timer > 0 /\ timer' = timer - 1
        BY <2>1, <2>2, <3>4
      <4>2. d \in Int /\ clock + timer <= d
        BY <1>d, <3>2, <3>4, <4>1
      <4> QED BY <2>1, <2>2, <4>1, <4>2
    <3> QED BY <3>3, <3>4
  <2> QED BY <2>3, <2>4
<1>3. CASE ClockStepBack
  <2>1. /\ ClockMayStepBack /\ clock' = clock - 1
        /\ UNCHANGED <<npc, nNext, timer, cache, wake, pc>>
    BY <1>3 DEF ClockStepBack
  <2>2. clock \in Nat /\ timer \in Nat
    BY <1>t DEF TypeOK
  <2>3. ComputedInTime'
    BY <1>n, <2>1 DEF ComputedInTime, Quiet
  <2>4. ArmedInTime'
    BY <1>n, <1>d, <2>1, <2>2 DEF ArmedInTime, Quiet
  <2> QED BY <2>3, <2>4
<1>4. CASE NotifierSweep
  <2>1. npc = "sweep" /\ npc' = "poll" /\ UNCHANGED clock
    BY <1>4 DEF NotifierSweep
  <2>2. cache' = {} \/ (nNext' \in Due(cache', nNow) /\ \A d \in Due(cache', nNow) : nNext' <= d)
    BY <1>4 DEF NotifierSweep
  <2>3. cache' \in SUBSET Entry
    BY <1>4, <1>t, NoticedType DEF NotifierSweep, TypeOK
  <2>4. \A e \in cache' : e.expiresAt > 0
    <3>1. \A e \in cache' : \E f \in cache : e.expiresAt = f.expiresAt
      BY <1>4, <1>t, NoticedType DEF NotifierSweep, TypeOK
    <3> QED BY <1>n, <3>1 DEF InstantsInv
  <2>5. nNow \in Nat /\ nNow > 0 /\ (~ClockMayStepBack => nNow <= clock)
    BY <1>n, <1>t, <2>1 DEF InstantsInv, TypeOK
  <2>6. \A d \in Due(cache', nNow) : d # 0
    BY <2>3, <2>4, <2>5, DueIsReal
  <2>7. nNow + PollInterval \in Due(cache', nNow)
    BY DEF Due
  <2>8. \A e \in cache' : \A d \in Deadlines(e) : d \in Due(cache', nNow)
    BY DEF Due
  <2>9. clock \in Nat /\ Due(cache', nNow) \subseteq Int
    BY <1>t, <2>3, <2>5, DueType DEF TypeOK
  <2>10. cache' # {} =>
           /\ nNext' # 0
           /\ \A e \in cache' : \A d \in Deadlines(e) : nNext' <= d
           /\ ~ClockMayStepBack => nNext' <= clock + PollInterval
    <3> SUFFICES ASSUME cache' # {}
                 PROVE  /\ nNext' # 0
                        /\ \A e \in cache' : \A d \in Deadlines(e) : nNext' <= d
                        /\ ~ClockMayStepBack => nNext' <= clock + PollInterval
      OBVIOUS
    <3>1. nNext' \in Due(cache', nNow) /\ \A d \in Due(cache', nNow) : nNext' <= d
      BY <2>2
    <3>2. nNext' # 0 /\ nNext' \in Int /\ nNext' <= nNow + PollInterval
      BY <2>6, <2>7, <2>9, <3>1
    <3>3. \A e \in cache' : \A d \in Deadlines(e) : nNext' <= d
      BY <2>8, <3>1
    <3> QED BY <2>5, <2>9, <3>2, <3>3, TimeAssumption
  <2> QED BY <2>1, <2>10 DEF ComputedInTime, ArmedInTime
<1>5. CASE NotifierPoll
  <2>1. npc = "poll" /\ npc' \in {"purge", "arm"} /\ UNCHANGED <<nNext, clock, cache, wake, pc>>
    BY <1>5 DEF NotifierPoll
  <2> QED BY <1>n, <2>1 DEF ComputedInTime, ArmedInTime, Quiet
<1>6. CASE NotifierPurge
  <2>1. npc = "purge" /\ npc' = "arm" /\ UNCHANGED <<nNext, clock, pc>>
    BY <1>6 DEF NotifierPurge
  <2>2. ~wake' => ~wake /\ UNCHANGED cache
    BY <1>6, <1>b, PurgeNudges DEF NotifierPurge
  <2>3. Quiet' => Quiet /\ UNCHANGED cache
    BY <2>1, <2>2 DEF Quiet
  <2> QED BY <1>n, <2>1, <2>3 DEF ComputedInTime, ArmedInTime
<1>7. CASE NotifierArm
  <2>1. npc = "arm" /\ npc' = "wait" /\ timer' = Delay /\ UNCHANGED <<clock, cache, wake, pc>>
    BY <1>7 DEF NotifierArm
  <2>2. clock \in Nat /\ nNext \in Int
    BY <1>t DEF TypeOK
  <2>3. ASSUME Quiet, cache # {}
        PROVE  /\ ~ClockMayStepBack => Delay <= PollInterval
               /\ Delay > 0 => \A e \in cache : \A d \in Deadlines(e) : clock + Delay <= d
    <3>1. /\ nNext # 0
          /\ \A e \in cache : \A d \in Deadlines(e) : nNext <= d
          /\ ~ClockMayStepBack => nNext <= clock + PollInterval
      BY <1>n, <2>1, <2>3 DEF ComputedInTime
    <3>2. Delay = IF nNext > clock THEN nNext - clock ELSE 0
      BY <3>1 DEF Delay
    <3>3. Delay > 0 => clock + Delay = nNext
      BY <2>2, <3>2
    <3>4. ~ClockMayStepBack => Delay <= PollInterval
      BY <2>2, <3>1, <3>2, TimeAssumption
    <3> QED BY <3>1, <3>3, <3>4
  <2> QED BY <2>1, <2>3 DEF ComputedInTime, ArmedInTime, Quiet
<1>8. CASE NotifierWakes
  BY <1>8 DEF NotifierWakes, ComputedInTime, ArmedInTime
<1>9. CASE InsertEntry
  BY <1>1, <1>9 DEF InsertEntry, Quiet
<1>10. CASE EndPendingMint
  <2>1. pc = "wake" => wake'
    BY <1>10 DEF EndPendingMint, WakeIf
  <2>2. ~wake' => ~wake
    BY <1>10, <1>b DEF EndPendingMint, WakeIf
  <2>3. UNCHANGED <<npc, nNext, timer, clock, cache>>
    BY <1>10 DEF EndPendingMint
  <2> QED BY <1>1, <2>1, <2>2, <2>3 DEF Quiet
<1>11. CASE DropEntry
  <2>1. ~wake' => ~wake /\ UNCHANGED cache
    BY <1>11, <1>b, PurgeNudges DEF DropEntry
  <2> QED BY <1>1, <1>11, <2>1 DEF DropEntry, Quiet
<1>12. CASE Lock
  <2>1. ~wake' => ~wake /\ UNCHANGED cache
    BY <1>12, <1>b, PurgeNudges DEF Lock, PurgeAll
  <2> QED BY <1>1, <1>12, <2>1 DEF Lock, Quiet
<1>13. CASE UnlockCommit
  <2>1. ~wake' => ~wake /\ UNCHANGED cache
    BY <1>13, <1>b, PurgeNudges DEF UnlockCommit, PurgeOtherSerials
  <2> QED BY <1>1, <1>13, <2>1 DEF UnlockCommit, Quiet
<1>14. CASE RecordPINVerification
  <2>1. ~wake' => ~wake /\ UNCHANGED cache
    BY <1>14, <1>b, PurgeNudges DEF RecordPINVerification, PurgeAll, PurgeOtherSerials
  <2> QED BY <1>1, <1>14, <2>1 DEF RecordPINVerification, Quiet
<1>15. ASSUME NEW w, NEW g, InvalidateWorkspace(w, g)
       PROVE  ComputedInTime' /\ ArmedInTime'
  <2>1. ~wake' => ~wake /\ UNCHANGED cache
    BY <1>15, <1>b, PurgeNudges DEF InvalidateWorkspace
  <2> QED BY <1>1, <1>15, <2>1 DEF InvalidateWorkspace, Quiet
<1>16. CASE Lookup \/ Probe \/ Confirm \/ TakePIN \/ JTIFails
  BY <1>1, <1>16 DEF Lookup, Probe, Confirm, TakePIN, JTIFails, Quiet
<1>17. CASE BeginPendingMint \/ SignReturns \/ NewCacheEntry \/ UnlockVerify
  BY <1>1, <1>17 DEF BeginPendingMint, SignReturns, NewCacheEntry, UnlockVerify, Quiet
<1>18. CASE DescribeForwardProvider \/ UnplugCard \/ UNCHANGED vars
  BY <1>1, <1>18 DEF DescribeForwardProvider, UnplugCard, vars, Quiet
<1>19. ASSUME NEW id, NEW k, NEW w, Arrive(id, k, w) \/ AcquireMint(id)
       PROVE  ComputedInTime' /\ ArmedInTime'
  BY <1>1, <1>19 DEF Arrive, AcquireMint, Quiet
<1>20. ASSUME NEW s, NEW n, PlugCard(s) \/ RoutedMint(s, n)
       PROVE  ComputedInTime' /\ ArmedInTime'
  BY <1>1, <1>20 DEF PlugCard, RoutedMint, Quiet
<1> QED
  BY <1>2, <1>3, <1>4, <1>5, <1>6, <1>7, <1>8, <1>9, <1>10, <1>11, <1>12,
     <1>13, <1>14, <1>15, <1>16, <1>17, <1>18, <1>19, <1>20
     DEF Next, MintStep, NotifierStep

\* While the notifier waits and no nudge is on its way, its timer ends no later
\* than any deadline of anything held, whatever was inserted or dropped since
\* its sweep, and within one poll interval unless the clock is set back.
THEOREM NeverOversleeps == Spec => []NotifierArmed
<1>1. Init => NotifierInv
  BY DEF Init, NotifierInv, InstantsInv, ComputedInTime, ArmedInTime
<1>2. TypeInv /\ NotifierInv /\ [Next]_vars => NotifierInv'
  BY StepInstants, StepInTime DEF NotifierInv
<1>3. NotifierInv => NotifierArmed
  BY DEF NotifierInv, ArmedInTime, NotifierArmed, Quiet
<1> QED BY InitType, StepType, <1>1, <1>2, <1>3, PTL DEF Spec
=============================================================================
