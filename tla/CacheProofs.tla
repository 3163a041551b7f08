---------------------------- MODULE CacheProofs ----------------------------
(***************************************************************************)
(* Theorems about the reuse cache of Core: a released claim grants nothing *)
(* any more, also when its mint is inside the card, and what is served and *)
(* how much is held.                                                       *)
(***************************************************************************)
EXTENDS CoreProofs

USE DEF pinVars, ringVars, claimVars, mintVars, notifierVars, historyVars

-----------------------------------------------------------------------------
(* Released claims.                                                        *)

\* The map of watermarks has room for every workspace, so none is evicted.
WorkspacesFit == Cardinality(Workspaces) <= InvalidatedCap

ClaimInv == NothingHeldBelowWatermark /\ PendingDescribesMint

\* A mint whose claim was invalidated while it was in the card is still there
\* and its key is refused by the watermark.
RevokedInv == revoked => pc \in InCard /\ Watermarked(cur.key)

-----------------------------------------------------------------------------
(* What an invalidation does to the watermarks.                            *)

\* Recording a watermark changes one workspace, and may evict others.
LEMMA RecordRaises ==
    ASSUME TypeOK, NEW w \in Workspaces, NEW g \in Nat, RecordWatermark(w, g)
    PROVE  \A v \in Workspaces :
              \/ invalidated'[v] \in {0, invalidated[v]}
              \/ v = w /\ invalidated'[v] = g /\ g > invalidated[v]
<1> USE DEF TypeOK
<1>1. CASE invalidated[w] >= g
  BY <1>1 DEF RecordWatermark
<1>2. CASE ~(invalidated[w] >= g)
  <2> DEFINE raised == [invalidated EXCEPT ![w] = g]
  <2>1. PICK kept : invalidated' = [v \in Workspaces |->
                                      IF v \in kept THEN raised[v] ELSE 0]
    BY <1>2 DEF RecordWatermark
  <2> QED BY <1>2, <2>1
<1> QED BY <1>1, <1>2

\* With room for all of them, recording a watermark is a maximum.
LEMMA RecordKeeps ==
    ASSUME TypeOK, WorkspacesFit, NEW w \in Workspaces, NEW g \in Nat,
           RecordWatermark(w, g)
    PROVE  /\ invalidated'[w] >= g
           /\ \A v \in Workspaces : invalidated'[v] >= invalidated[v]
<1> USE DEF TypeOK
<1>1. CASE invalidated[w] >= g
  BY <1>1 DEF RecordWatermark
<1>2. CASE ~(invalidated[w] >= g)
  <2> DEFINE raised  == [invalidated EXCEPT ![w] = g]
             present == {v \in Workspaces : raised[v] # 0}
  <2>1. PICK kept \in SUBSET present :
           /\ Cardinality(kept) = IF Cardinality(present) > InvalidatedCap
                                  THEN InvalidatedCap ELSE Cardinality(present)
           /\ invalidated' = [v \in Workspaces |->
                                IF v \in kept THEN raised[v] ELSE 0]
    BY <1>2 DEF RecordWatermark, KeepsHighest
  <2>2. /\ IsFiniteSet(present)
        /\ Cardinality(present) <= Cardinality(Workspaces)
        /\ Cardinality(present) \in Nat
        /\ Cardinality(Workspaces) \in Nat
    BY BoundAssumption, FS_Subset, FS_CardinalityType
  <2>3. Cardinality(kept) = Cardinality(present)
    BY <2>1, <2>2, BoundAssumption DEF WorkspacesFit
  <2>4. kept = present
    BY <2>2, <2>3, FS_Subset
  <2>5. \A v \in Workspaces : invalidated'[v] = raised[v]
    BY <2>1, <2>4
  <2> QED BY <1>2, <2>5
<1> QED BY <1>1, <1>2

\* An invalidation records its bound or, for every generation, a generation at
\* least as high as each one it dropped and as the one inside the card.
LEMMA InvalidationRecords ==
    ASSUME TypeOK, NEW w \in Workspaces, NEW g \in 0..MaxGen,
           InvalidateWorkspace(w, g)
    PROVE  \E mark \in Nat :
              /\ IF mark # 0 THEN RecordWatermark(w, mark) ELSE UNCHANGED invalidated
              /\ g # 0 => mark = g
              /\ g = 0 /\ pending.ws = w => pending.gen <= mark
<1>1. \A e \in cache : e.key.gen \in Nat
  BY KeyFields DEF TypeOK, Entry
<1>2. pending.gen \in Nat
  BY DEF TypeOK
<1>3. CASE g # 0
  BY <1>3, BoundAssumption DEF InvalidateWorkspace
<1>4. CASE g = 0
  <2> DEFINE seen == {0} \cup {e.key.gen : e \in {f \in cache : Covers(w, g, f.key)}}
                         \cup PendingGeneration(w)
  <2>1. seen \subseteq Nat
    BY <1>1, <1>2 DEF PendingGeneration
  <2>2. PICK mark \in seen :
           /\ \A x \in seen : x <= mark
           /\ IF mark # 0 THEN RecordWatermark(w, mark) ELSE UNCHANGED invalidated
    BY <1>4 DEF InvalidateWorkspace
  <2>3. pending.ws = w => pending.gen \in seen
    BY DEF PendingGeneration
  <2> QED BY <1>4, <2>1, <2>2, <2>3
<1> QED BY <1>3, <1>4

\* The entries an invalidation leaves in the cache are not covered by it.
LEMMA InvalidationSpares ==
    ASSUME TypeOK, NEW w \in Workspaces, NEW g \in 0..MaxGen,
           InvalidateWorkspace(w, g), NEW e \in cache'
    PROVE  e \in cache /\ ~Covers(w, g, e.key)
BY DEF InvalidateWorkspace, PurgeTo

-----------------------------------------------------------------------------
(* Nothing held below a watermark, and the pending pair.                   *)

LEMMA InitClaim == Init => ClaimInv
BY DEF Init, ClaimInv, NothingHeldBelowWatermark, PendingDescribesMint, InCard

\* Dropping entries under unchanged watermarks.
LEMMA FewerBelow ==
    ASSUME NothingHeldBelowWatermark, UNCHANGED invalidated,
           \A e \in cache' : \E f \in cache : e.key = f.key
    PROVE  NothingHeldBelowWatermark'
BY DEF NothingHeldBelowWatermark, Watermarked

LEMMA StepBelow ==
    TypeInv /\ CardInv /\ NothingHeldBelowWatermark /\ [Next]_vars
        => NothingHeldBelowWatermark'
<1> SUFFICES ASSUME TypeInv, CardInv, NothingHeldBelowWatermark, [Next]_vars
             PROVE  NothingHeldBelowWatermark'
    OBVIOUS
<1>t. TypeOK /\ cache \subseteq Entry
  BY DEF TypeInv, TypeOK
<1>1. CASE cache' \subseteq cache /\ UNCHANGED invalidated
  BY <1>1, FewerBelow
<1>2. ASSUME NEW w \in Workspaces, NEW g \in 0..MaxGen, InvalidateWorkspace(w, g)
      PROVE  NothingHeldBelowWatermark'
  <2>1. PICK mark \in Nat :
           /\ IF mark # 0 THEN RecordWatermark(w, mark) ELSE UNCHANGED invalidated
           /\ g # 0 => mark = g
    BY <1>2, <1>t, InvalidationRecords
  <2>2. \A v \in Workspaces :
           \/ invalidated'[v] \in {0, invalidated[v]}
           \/ v = w /\ invalidated'[v] = mark
    BY <2>1, <1>t, RecordRaises
  <2> SUFFICES ASSUME NEW e \in cache', e.key.ws # NoWorkspace,
                      invalidated'[e.key.ws] # 0
               PROVE  ~(e.key.gen <= invalidated'[e.key.ws])
    BY DEF NothingHeldBelowWatermark, Watermarked
  <2>3. e \in cache /\ ~Covers(w, g, e.key)
    BY <1>2, <1>t, InvalidationSpares
  <2>4. e.key.ws \in Workspaces /\ e.key.gen \in Nat
    BY <2>3, <1>t, KeyFields DEF Entry
  <2>5. invalidated[e.key.ws] # 0 => ~(e.key.gen <= invalidated[e.key.ws])
    BY <2>3 DEF NothingHeldBelowWatermark, Watermarked
  <2>6. CASE invalidated'[e.key.ws] \in {0, invalidated[e.key.ws]}
    BY <2>5, <2>6
  <2>7. CASE e.key.ws = w /\ invalidated'[e.key.ws] = mark
    BY <2>1, <2>3, <2>4, <2>7 DEF Covers
  <2> QED BY <2>2, <2>4, <2>6, <2>7
<1>3. CASE InsertEntry
  <2>1. UNCHANGED invalidated /\ pc = "insert"
    BY <1>3 DEF InsertEntry
  <2>2. CASE UNCHANGED cache
    BY <1>1, <2>1, <2>2
  <2>3. CASE held # NoEntry /\ ~Watermarked(cur.key) /\ InsertLocked(held)
    <3>1. cache' \subseteq cache \cup {held}
      BY <2>3 DEF InsertLocked
    <3>2. held.key = cur.key
      BY <2>1, <2>3 DEF CardInv, BuiltForRequest
    <3> QED BY <2>1, <2>3, <3>1, <3>2 DEF NothingHeldBelowWatermark, Watermarked
  <2> QED BY <1>3, <2>2, <2>3 DEF InsertEntry
<1>4. CASE NotifierSweep
  <2>1. \A e \in cache' : \E f \in cache : e.key = f.key
    BY <1>4, <1>t, NoticedType DEF NotifierSweep
  <2>2. UNCHANGED invalidated
    BY <1>4 DEF NotifierSweep
  <2> QED BY <2>1, <2>2, FewerBelow
<1>5. CASE Lock \/ UnlockCommit \/ RecordPINVerification
  BY <1>1, <1>5 DEF Lock, UnlockCommit, RecordPINVerification, PurgeAll,
                    PurgeOtherSerials, PurgeTo
<1>6. CASE DropEntry \/ NotifierPurge \/ UNCHANGED vars
  BY <1>1, <1>6 DEF DropEntry, NotifierPurge, PurgeTo, vars
<1>7. CASE Lookup \/ Probe \/ Confirm \/ TakePIN \/ JTIFails
  BY <1>1, <1>7 DEF Lookup, Probe, Confirm, TakePIN, JTIFails
<1>8. CASE BeginPendingMint \/ SignReturns \/ NewCacheEntry \/ EndPendingMint
  BY <1>1, <1>8 DEF BeginPendingMint, SignReturns, NewCacheEntry, EndPendingMint
<1>9. CASE UnlockVerify \/ DescribeForwardProvider \/ Tick \/ ClockStepBack \/ UnplugCard
  BY <1>1, <1>9 DEF UnlockVerify, DescribeForwardProvider, Tick, ClockStepBack, UnplugCard
<1>10. ASSUME NEW id, NEW k, NEW w, Arrive(id, k, w) \/ AcquireMint(id)
       PROVE  NothingHeldBelowWatermark'
  BY <1>1, <1>10 DEF Arrive, AcquireMint
<1>11. ASSUME NEW s, NEW n, PlugCard(s) \/ RoutedMint(s, n)
       PROVE  NothingHeldBelowWatermark'
  BY <1>1, <1>11 DEF PlugCard, RoutedMint
<1>12. CASE NotifierPoll \/ NotifierArm \/ NotifierWakes
  BY <1>1, <1>12 DEF NotifierPoll, NotifierArm, NotifierWakes
<1> QED
  BY <1>2, <1>3, <1>4, <1>5, <1>6, <1>7, <1>8, <1>9, <1>10, <1>11, <1>12
     DEF Next, MintStep, NotifierStep

\* The request and the pending pair change only at the ends of a mint.
LEMMA StepPending ==
    TypeInv /\ PendingDescribesMint /\ [Next]_vars => PendingDescribesMint'
<1> SUFFICES ASSUME TypeInv, PendingDescribesMint, [Next]_vars
             PROVE  PendingDescribesMint'
    OBVIOUS
<1> USE DEF PendingDescribesMint, InCard
<1>1. CASE UNCHANGED <<pending, pc, cur>>
  BY <1>1
<1>2. CASE UNCHANGED pending /\ pc \notin InCard /\ pc' \notin InCard
  BY <1>2
<1>3. CASE UNCHANGED <<pending, cur>> /\ pc \in InCard /\ pc' \in InCard
  BY <1>3
<1>4. CASE BeginPendingMint
  BY <1>4 DEF BeginPendingMint
<1>5. CASE EndPendingMint
  BY <1>5 DEF EndPendingMint, EndPending, ReleaseMint
<1>6. CASE SignReturns \/ RecordPINVerification \/ NewCacheEntry \/ InsertEntry
  BY <1>3, <1>6 DEF SignReturns, RecordPINVerification, NewCacheEntry, InsertEntry
<1>7. CASE Lookup \/ Probe \/ DropEntry \/ Confirm \/ TakePIN \/ JTIFails
  BY <1>2, <1>7 DEF Lookup, Probe, DropEntry, Confirm, TakePIN, JTIFails, ReleaseMint
<1>8. CASE UnlockVerify \/ UnlockCommit \/ DescribeForwardProvider
  BY <1>2, <1>8 DEF UnlockVerify, UnlockCommit, DescribeForwardProvider, ReleaseMint
<1>9. ASSUME NEW id \in Ids, AcquireMint(id) PROVE PendingDescribesMint'
  BY <1>2, <1>9 DEF AcquireMint
<1>10. ASSUME NEW id, NEW k, NEW w, Arrive(id, k, w) PROVE PendingDescribesMint'
  BY <1>1, <1>10 DEF Arrive
<1>11. ASSUME NEW s, NEW n, PlugCard(s) \/ RoutedMint(s, n) PROVE PendingDescribesMint'
  BY <1>1, <1>11 DEF PlugCard, RoutedMint
<1>12. CASE Tick \/ ClockStepBack \/ UnplugCard \/ Lock \/ UNCHANGED vars
  BY <1>1, <1>12 DEF Tick, ClockStepBack, UnplugCard, Lock, vars
<1>13. ASSUME NEW w, NEW g, InvalidateWorkspace(w, g) PROVE PendingDescribesMint'
  BY <1>1, <1>13 DEF InvalidateWorkspace
<1>14. CASE NotifierStep
  BY <1>1, <1>14 DEF NotifierStep, NotifierSweep, NotifierPoll, NotifierPurge,
                     NotifierArm, NotifierWakes
<1> QED
  BY <1>4, <1>5, <1>6, <1>7, <1>8, <1>9, <1>10, <1>11, <1>12, <1>13, <1>14
     DEF Next, MintStep

\* No assertion is ever held for a claim generation at or below the recorded
\* watermark of its workspace: InvalidateWorkspace purges what it records, and
\* insertLocked refuses what was signed meanwhile.
THEOREM NothingBelow == Spec => []NothingHeldBelowWatermark
<1>1. ClaimInv => NothingHeldBelowWatermark
  BY DEF ClaimInv
<1>2. Init => NothingHeldBelowWatermark
  BY InitClaim DEF ClaimInv
<1> QED BY InitType, StepType, InitCard, StepCard, <1>2, StepBelow, PTL DEF Spec

\* pendingWorkspace and pendingGeneration describe the mint in the card, from
\* beginPendingMint to endPendingMint, on success and on every error path.
THEOREM PendingMint == Spec => []PendingDescribesMint
<1>1. Init => PendingDescribesMint
  BY InitClaim DEF ClaimInv
<1> QED BY InitType, StepType, <1>1, StepPending, PTL DEF Spec

-----------------------------------------------------------------------------
(* The race of an invalidation with the mint in the card.                  *)

LEMMA StepRevoked ==
    ASSUME WorkspacesFit
    PROVE  TypeInv /\ ClaimInv /\ RevokedInv /\ [Next]_vars => RevokedInv'
<1> SUFFICES ASSUME TypeInv, ClaimInv, RevokedInv, [Next]_vars
             PROVE  RevokedInv'
    OBVIOUS
<1>t. TypeOK /\ LocalsSet /\ PendingDescribesMint
  BY DEF TypeInv, ClaimInv
<1>1. CASE UNCHANGED <<revoked, invalidated, pc, cur>>
  BY <1>1 DEF RevokedInv, Watermarked
<1>2. CASE UNCHANGED <<revoked, invalidated, cur>> /\ pc \in InCard /\ pc' \in InCard
  BY <1>2 DEF RevokedInv, Watermarked
<1>3. CASE UNCHANGED revoked /\ pc \notin InCard
  BY <1>3 DEF RevokedInv
<1>4. CASE BeginPendingMint \/ EndPendingMint
  BY <1>4 DEF BeginPendingMint, EndPendingMint, RevokedInv
<1>5. CASE SignReturns \/ RecordPINVerification \/ NewCacheEntry \/ InsertEntry
  BY <1>2, <1>5 DEF SignReturns, RecordPINVerification, NewCacheEntry, InsertEntry, InCard
<1>6. CASE Lookup \/ Probe \/ DropEntry \/ Confirm \/ TakePIN \/ JTIFails
  BY <1>3, <1>6 DEF Lookup, Probe, DropEntry, Confirm, TakePIN, JTIFails, InCard
<1>7. CASE UnlockVerify \/ UnlockCommit \/ DescribeForwardProvider
  BY <1>3, <1>7 DEF UnlockVerify, UnlockCommit, DescribeForwardProvider, InCard
<1>8. ASSUME NEW id \in Ids, AcquireMint(id) PROVE RevokedInv'
  BY <1>3, <1>8 DEF AcquireMint, InCard
<1>9. ASSUME NEW id, NEW k, NEW w, Arrive(id, k, w) PROVE RevokedInv'
  BY <1>1, <1>9 DEF Arrive
<1>10. ASSUME NEW s, NEW n, PlugCard(s) \/ RoutedMint(s, n) PROVE RevokedInv'
  BY <1>1, <1>10 DEF PlugCard, RoutedMint
<1>11. CASE Tick \/ ClockStepBack \/ UnplugCard \/ Lock \/ UNCHANGED vars
  BY <1>1, <1>11 DEF Tick, ClockStepBack, UnplugCard, Lock, vars
<1>12. CASE NotifierStep
  BY <1>1, <1>12 DEF NotifierStep, NotifierSweep, NotifierPoll, NotifierPurge,
                     NotifierArm, NotifierWakes
<1>13. ASSUME NEW w \in Workspaces, NEW g \in 0..MaxGen, InvalidateWorkspace(w, g)
       PROVE  RevokedInv'
  <2>1. PICK mark \in Nat :
           /\ IF mark # 0 THEN RecordWatermark(w, mark) ELSE UNCHANGED invalidated
           /\ g # 0 => mark = g
           /\ g = 0 /\ pending.ws = w => pending.gen <= mark
    BY <1>13, <1>t, InvalidationRecords
  <2>2. /\ invalidated \in [Workspaces -> Nat]
        /\ invalidated' \in [Workspaces -> Nat]
    BY <1>13, <1>t, WatermarkType DEF TypeOK
  <2>3. /\ invalidated'[w] >= mark
        /\ \A v \in Workspaces : invalidated'[v] >= invalidated[v]
    BY <2>1, <2>2, <1>t, RecordKeeps
  <2>4. UNCHANGED <<pc, cur>>
    BY <1>13 DEF InvalidateWorkspace
  <2> SUFFICES ASSUME revoked' PROVE pc \in InCard /\ Watermarked(cur.key)'
    BY <2>4 DEF RevokedInv
  <2>5. pc \in InCard => cur \in Request
    BY <1>t DEF LocalsSet, InCard, MintSteps
  <2>6. CASE revoked
    <3>1. pc \in InCard /\ Watermarked(cur.key)
      BY <2>6 DEF RevokedInv
    <3>2. cur.key.ws \in Workspaces /\ cur.key.gen \in Nat
      BY <2>5, <3>1, KeyFields DEF Request, Watermarked
    <3> QED BY <2>2, <2>3, <2>4, <3>1, <3>2 DEF Watermarked
  <2>7. CASE pc \in {"sign", "record", "build", "insert"} /\ Covers(w, g, cur.key)
    <3>1. pc \in InCard
      BY <2>7 DEF InCard
    <3>2. cur.key \in Keys /\ cur.key.ws = w
      BY <2>5, <2>7, <3>1 DEF Request, Covers
    <3>3. cur.key.gen \in Nat /\ cur.key.gen # 0 /\ w # NoWorkspace
      BY <3>2, KeyFields, KeysAssumption
    <3>4. pending.ws = w /\ pending.gen = cur.key.gen
      BY <1>t, <3>1, <3>2 DEF PendingDescribesMint
    <3>5. cur.key.gen <= mark
      BY <2>1, <2>7, <3>3, <3>4 DEF Covers
    <3>6. invalidated'[w] \in Nat /\ cur.key.gen <= invalidated'[w]
      BY <2>2, <2>3, <3>3, <3>5
    <3> QED BY <2>4, <3>1, <3>2, <3>3, <3>6 DEF Watermarked
  <2> QED BY <1>13, <2>6, <2>7 DEF InvalidateWorkspace
<1> QED
  BY <1>4, <1>5, <1>6, <1>7, <1>8, <1>9, <1>10, <1>11, <1>12, <1>13
     DEF Next, MintStep

\* README, "A generation watermark closes the matching race": for as many
\* workspaces as the map of watermarks has room for, a mint that is inside the
\* card when its claim is invalidated leaves nothing held, whenever the
\* invalidation lands and whether or not it names a generation.
THEOREM RevokedMint ==
    ASSUME WorkspacesFit
    PROVE  Spec => []RevokedMintNotHeld
<1>1. Init => RevokedInv
  BY DEF Init, RevokedInv
<1>2. TypeInv /\ CardInv /\ ClaimInv /\ [Next]_vars => ClaimInv'
  BY StepBelow, StepPending DEF ClaimInv
<1>3. ClaimInv /\ RevokedInv => RevokedMintNotHeld
  BY DEF ClaimInv, RevokedInv, NothingHeldBelowWatermark, RevokedMintNotHeld, Watermarked
<1> QED
  BY InitType, StepType, InitCard, StepCard, InitClaim, <1>1, <1>2, <1>3,
     StepRevoked, PTL DEF Spec

-----------------------------------------------------------------------------
(* What is served.                                                         *)

\* serveAuthorised looks an entry up by the key of its request.
LookedUpForRequest == pc \in {"probe", "confirm"} => held.key = cur.key

LEMMA StepLookedUp ==
    TypeInv /\ LookedUpForRequest /\ [Next]_vars => LookedUpForRequest'
<1> SUFFICES ASSUME TypeInv, LookedUpForRequest, [Next]_vars
             PROVE  LookedUpForRequest'
    OBVIOUS
<1> USE DEF LookedUpForRequest
<1>1. CASE UNCHANGED <<pc, cur, held>>
  BY <1>1
<1>2. CASE pc' \notin {"probe", "confirm"}
  BY <1>2
<1>3. CASE Lookup
  BY <1>3 DEF Lookup, Admissible
<1>4. CASE Probe
  BY <1>4 DEF Probe
<1>5. CASE DropEntry \/ Confirm \/ TakePIN \/ JTIFails \/ BeginPendingMint
  BY <1>2, <1>5 DEF DropEntry, Confirm, TakePIN, JTIFails, BeginPendingMint, ReleaseMint
<1>6. CASE SignReturns \/ RecordPINVerification \/ NewCacheEntry \/ InsertEntry
  BY <1>2, <1>6 DEF SignReturns, RecordPINVerification, NewCacheEntry, InsertEntry
<1>7. CASE EndPendingMint \/ UnlockVerify \/ UnlockCommit \/ DescribeForwardProvider
  BY <1>2, <1>7 DEF EndPendingMint, UnlockVerify, UnlockCommit,
                    DescribeForwardProvider, ReleaseMint
<1>8. ASSUME NEW id \in Ids, AcquireMint(id) PROVE LookedUpForRequest'
  BY <1>2, <1>8 DEF AcquireMint
<1>9. ASSUME NEW id, NEW k, NEW w, Arrive(id, k, w) PROVE LookedUpForRequest'
  BY <1>1, <1>9 DEF Arrive
<1>10. ASSUME NEW s, NEW n, PlugCard(s) \/ RoutedMint(s, n) PROVE LookedUpForRequest'
  BY <1>1, <1>10 DEF PlugCard, RoutedMint
<1>11. CASE Tick \/ ClockStepBack \/ UnplugCard \/ Lock \/ UNCHANGED vars
  BY <1>1, <1>11 DEF Tick, ClockStepBack, UnplugCard, Lock, vars
<1>12. ASSUME NEW w, NEW g, InvalidateWorkspace(w, g) PROVE LookedUpForRequest'
  BY <1>1, <1>12 DEF InvalidateWorkspace
<1>13. CASE NotifierStep
  BY <1>1, <1>13 DEF NotifierStep, NotifierSweep, NotifierPoll, NotifierPurge,
                     NotifierArm, NotifierWakes
<1> QED
  BY <1>3, <1>4, <1>5, <1>6, <1>7, <1>8, <1>9, <1>10, <1>11, <1>12, <1>13
     DEF Next, MintStep

\* Only the second critical section of serveAuthorised answers from the cache.
LEMMA ServeIsConfirm ==
    ASSUME [Next]_vars, Serves
    PROVE  StillHeld(held)
<1> USE DEF Serves
<1>1. CASE Confirm
  BY <1>1 DEF Confirm
<1>2. CASE MintStep /\ ~Confirm
  BY <1>2 DEF MintStep, Lookup, Probe, DropEntry, TakePIN, JTIFails,
              BeginPendingMint, SignReturns, RecordPINVerification,
              NewCacheEntry, InsertEntry, EndPendingMint
<1>3. CASE UnlockVerify \/ UnlockCommit \/ DescribeForwardProvider \/ Lock
  BY <1>3 DEF UnlockVerify, UnlockCommit, DescribeForwardProvider, Lock
<1>4. CASE Tick \/ ClockStepBack \/ UnplugCard \/ UNCHANGED vars
  BY <1>4 DEF Tick, ClockStepBack, UnplugCard, vars
<1>5. CASE NotifierStep
  BY <1>5 DEF NotifierStep, NotifierSweep, NotifierPoll, NotifierPurge,
              NotifierArm, NotifierWakes
<1>6. ASSUME NEW id, NEW k, NEW w, Arrive(id, k, w) \/ AcquireMint(id) PROVE FALSE
  BY <1>6 DEF Arrive, AcquireMint
<1>7. ASSUME NEW s, NEW n, PlugCard(s) \/ RoutedMint(s, n) PROVE FALSE
  BY <1>7 DEF PlugCard, RoutedMint
<1>8. ASSUME NEW w, NEW g, InvalidateWorkspace(w, g) PROVE FALSE
  BY <1>8 DEF InvalidateWorkspace
<1> QED
  BY <1>1, <1>2, <1>3, <1>4, <1>5, <1>6, <1>7, <1>8 DEF Next

\* A request is answered from the cache only with an assertion that is still
\* held at that moment, whose claim no invalidation has reached and, with
\* pin_cache = "session", that the card and PIN verified now stand behind, in
\* spite of mu being released while the readers are enumerated.
THEOREM ServesHeld == Spec => ServesOnlyHeld
<1> DEFINE Served ==
      Serves => /\ \E e \in cache : SameEntry(e, held)
                /\ ~Watermarked(cur.key)
                /\ PINCache = "session" => held.serial = pinVerifiedSerial
<1>1. ASSUME TypeInv, CardInv, NothingHeldBelowWatermark, LookedUpForRequest,
             [Next]_vars
      PROVE  Served
  <2> SUFFICES ASSUME Serves
               PROVE  /\ \E e \in cache : SameEntry(e, held)
                      /\ ~Watermarked(cur.key)
                      /\ PINCache = "session" => held.serial = pinVerifiedSerial
    OBVIOUS
  <2>1. PICK e \in cache : SameEntry(e, held)
    BY <1>1, ServeIsConfirm DEF StillHeld
  <2>2. e \in Entry /\ held \in Entry /\ held.key = cur.key
    BY <1>1 DEF Serves, TypeInv, TypeOK, LocalsSet, LookedUpForRequest
  <2>3. e.key = held.key /\ e.serial = held.serial
    BY <2>1, <2>2 DEF SameEntry, Entry
  <2>4. ~Watermarked(cur.key)
    BY <1>1, <2>2, <2>3 DEF NothingHeldBelowWatermark
  <2>5. PINCache = "session" => held.serial = pinVerifiedSerial
    BY <1>1, <2>3 DEF CardInv, HeldUnderVerifiedPIN
  <2> QED BY <2>1, <2>4, <2>5
<1>2. Init => LookedUpForRequest
  BY DEF Init, LookedUpForRequest
<1>3. Init => NothingHeldBelowWatermark
  BY InitClaim DEF ClaimInv
<1>4. TypeInv /\ CardInv /\ NothingHeldBelowWatermark /\ LookedUpForRequest
         /\ [Next]_vars => [Served]_vars
  BY <1>1
<1> QED
  BY InitType, StepType, InitCard, StepCard, <1>2, <1>3, <1>4, StepBelow,
     StepLookedUp, PTL DEF Spec, ServesOnlyHeld

-----------------------------------------------------------------------------
(* Who shares a signature.                                                 *)

\* A signature for q's key that completed after q arrived overtook q in the
\* queue, or the two readings of the clock are the same.
Covered(e, q) ==
    e.key = q.key /\ e.completedAt >= q.arrival =>
        q.id \in overlapped \/ q.arrival = e.completedAt

\* What is held, against the requests still queued ...
QueueCovered ==
    \A e \in cache :
        /\ e.completedAt <= clock
        /\ \A q \in waiting : Covered(e, q)

\* ... and what the holder of mintMu has in its hands, at the steps where an
\* entry passes from the card to the cache or from the cache to a request.
HolderCovered ==
    /\ pc = "insert" /\ held # NoEntry =>
          held.completedAt <= clock /\ \A q \in waiting : Covered(held, q)
    /\ pc = "lookup" => \A e \in cache : Covered(e, cur)
    /\ pc \in {"probe", "confirm"} =>
          /\ held.key = cur.key
          /\ Covered(held, cur)
          /\ Coalesced(held, cur) \/ Reusable(held, cur, now)

SeqInv == QueueCovered /\ HolderCovered

\* The cache holds nothing it did not hold, up to the notice flag, and time
\* does not run back.
Narrows ==
    /\ \A e \in cache' : \E f \in cache :
          e.key = f.key /\ e.completedAt = f.completedAt
    /\ clock' \in Nat /\ clock <= clock'

LEMMA NarrowsBySubset ==
    ASSUME TypeOK, cache' \subseteq cache, UNCHANGED clock
    PROVE  Narrows
BY DEF Narrows, TypeOK

\* A queued request stays covered while its id stays marked.
LEMMA QueueStays ==
    ASSUME TypeOK, QueueCovered, Narrows, waiting' \subseteq waiting,
           \A q \in waiting' : q.id \in overlapped => q.id \in overlapped'
    PROVE  QueueCovered'
<1> SUFFICES ASSUME NEW e \in cache'
             PROVE  /\ e.completedAt <= clock'
                    /\ \A q \in waiting' : Covered(e, q)'
    BY DEF QueueCovered
<1>1. PICK f \in cache : e.key = f.key /\ e.completedAt = f.completedAt
  BY DEF Narrows
<1>2. f.completedAt \in Nat /\ f.completedAt <= clock /\ clock \in Nat
  BY <1>1 DEF QueueCovered, TypeOK, Entry
<1>3. e.completedAt <= clock'
  BY <1>1, <1>2 DEF Narrows
<1>4. ASSUME NEW q \in waiting' PROVE Covered(e, q)'
  <2>1. Covered(f, q)
    BY <1>1 DEF QueueCovered
  <2> QED BY <1>1, <2>1 DEF Covered
<1> QED BY <1>3, <1>4

\* A step of anybody but the holder of mintMu.
LEMMA HolderStays ==
    ASSUME TypeOK, SeqInv, Narrows,
           UNCHANGED <<waiting, pc, cur, held, now, overlapped>>
    PROVE  SeqInv'
<1>1. QueueCovered'
  BY QueueStays DEF SeqInv
<1>2. ASSUME pc = "insert", held # NoEntry
      PROVE  /\ held'.completedAt <= clock'
             /\ \A q \in waiting' : Covered(held, q)'
  <2>1. /\ held.completedAt <= clock
        /\ \A q \in waiting : Covered(held, q)
    BY <1>2 DEF SeqInv, HolderCovered
  <2>2. held.completedAt \in Nat /\ clock \in Nat
    BY <1>2 DEF TypeOK, Entry
  <2>3. held'.completedAt <= clock'
    BY <2>1, <2>2 DEF Narrows
  <2> QED BY <2>1, <2>3 DEF Covered
<1>3. ASSUME pc = "lookup" PROVE \A e \in cache' : Covered(e, cur)'
  BY <1>3 DEF SeqInv, HolderCovered, Narrows, Covered
<1>4. pc \in {"probe", "confirm"} =>
         /\ held'.key = cur'.key
         /\ Covered(held, cur)'
         /\ (Coalesced(held, cur) \/ Reusable(held, cur, now))'
  BY DEF SeqInv, HolderCovered, Covered, Coalesced, Reusable
<1> QED BY <1>1, <1>2, <1>3, <1>4 DEF SeqInv, HolderCovered

\* A step of the holder to where it has nothing in its hands.
LEMMA HolderLeaves ==
    ASSUME TypeOK, SeqInv, Narrows, waiting' \subseteq waiting,
           \A q \in waiting' : q.id \in overlapped => q.id \in overlapped',
           pc' \notin {"lookup", "probe", "confirm", "insert"}
    PROVE  SeqInv'
BY QueueStays DEF SeqInv, HolderCovered

\* A request that arrives is covered: whatever is held was signed by now.
LEMMA ArrivalCovered ==
    ASSUME TypeOK, SeqInv, NEW id, NEW k, NEW w, Arrive(id, k, w)
    PROVE  SeqInv'
<1> DEFINE new == [id |-> id, key |-> k, arrival |-> clock, window |-> w,
                   granted |-> GrantedWindow(w, clock)]
<1>1. /\ waiting' = waiting \cup {new}
      /\ UNCHANGED <<clock, cache, pc, cur, held, now, overlapped>>
  BY DEF Arrive
<1>2. new.arrival = clock
  OBVIOUS
<1> HIDE DEF new
<1>3. ASSUME NEW e \in Entry, e.completedAt <= clock PROVE Covered(e, new)
  BY <1>2, <1>3 DEF Covered, TypeOK, Entry
<1>4. QueueCovered'
  BY <1>1, <1>3 DEF SeqInv, QueueCovered, Covered, TypeOK
<1>5. pc = "insert" /\ held # NoEntry =>
         held'.completedAt <= clock' /\ \A q \in waiting' : Covered(held, q)'
  BY <1>1, <1>3 DEF SeqInv, HolderCovered, Covered, TypeOK
<1>6. pc = "lookup" => \A e \in cache' : Covered(e, cur)'
  BY <1>1 DEF SeqInv, HolderCovered, Covered
<1>7. pc \in {"probe", "confirm"} =>
         /\ held'.key = cur'.key
         /\ Covered(held, cur)'
         /\ (Coalesced(held, cur) \/ Reusable(held, cur, now))'
  BY <1>1 DEF SeqInv, HolderCovered, Covered, Coalesced, Reusable
<1> QED BY <1>1, <1>4, <1>5, <1>6, <1>7 DEF SeqInv, HolderCovered

\* A signature marks every queued request of its key as overtaken.
LEMMA SignatureCovers ==
    ASSUME TypeOK, SeqInv, NewCacheEntry
    PROVE  SeqInv'
<1>1. /\ UNCHANGED <<clock, cache, waiting, cur>>
      /\ pc' = "insert"
      /\ overlapped' = overlapped \cup {q.id : q \in {p \in waiting : p.key = cur.key}}
      /\ held' # NoEntry => held'.key = cur.key /\ held'.completedAt = clock
  BY DEF NewCacheEntry
<1>2. QueueCovered'
  BY <1>1, NarrowsBySubset, QueueStays DEF SeqInv
<1>3. held' # NoEntry =>
         held'.completedAt <= clock' /\ \A q \in waiting' : Covered(held, q)'
  BY <1>1 DEF Covered, TypeOK
<1> QED BY <1>1, <1>2, <1>3 DEF SeqInv, HolderCovered

\* What insertLocked takes in is covered against the queue.
LEMMA InsertCovered ==
    ASSUME TypeOK, SeqInv, InsertEntry
    PROVE  SeqInv'
<1>1. UNCHANGED <<clock, waiting, overlapped>> /\ pc = "insert" /\ pc' \in {"wake", "end"}
  BY DEF InsertEntry
<1>2. \/ cache' \subseteq cache
      \/ held # NoEntry /\ cache' \subseteq cache \cup {held}
  BY DEF InsertEntry, InsertLocked
<1>3. QueueCovered'
  BY <1>1, <1>2 DEF SeqInv, QueueCovered, HolderCovered, Covered
<1> QED BY <1>1, <1>3 DEF SeqInv, HolderCovered

LEMMA StepSequential ==
    ASSUME ~ClockMayStepBack
    PROVE  TypeInv /\ SeqInv /\ [Next]_vars => SeqInv'
<1> SUFFICES ASSUME TypeInv, SeqInv, [Next]_vars PROVE SeqInv'
    OBVIOUS
<1>t. TypeOK
  BY DEF TypeInv
<1>1. CASE UNCHANGED <<waiting, pc, cur, held, now, overlapped, clock>>
           /\ cache' \subseteq cache
  BY <1>1, <1>t, NarrowsBySubset, HolderStays
<1>2. CASE /\ cache' \subseteq cache
           /\ UNCHANGED <<clock, waiting>>
           /\ pc' \notin {"lookup", "probe", "confirm", "insert"}
           /\ \A q \in waiting : q.id \in overlapped => q.id \in overlapped'
  BY <1>2, <1>t, NarrowsBySubset, HolderLeaves
<1>3. CASE Tick
  <2>1. Narrows
    BY <1>3, <1>t DEF Tick, Narrows, TypeOK
  <2>2. UNCHANGED <<waiting, pc, cur, held, now, overlapped>>
    BY <1>3 DEF Tick
  <2> QED BY <2>1, <2>2, <1>t, HolderStays
<1>4. CASE NotifierSweep
  <2>1. Narrows
    BY <1>4, <1>t, NoticedType DEF NotifierSweep, Narrows, TypeOK
  <2>2. UNCHANGED <<waiting, pc, cur, held, now, overlapped>>
    BY <1>4 DEF NotifierSweep
  <2> QED BY <2>1, <2>2, <1>t, HolderStays
<1>5. ASSUME NEW id, NEW k, NEW w, Arrive(id, k, w) PROVE SeqInv'
  BY <1>5, <1>t, ArrivalCovered
<1>6. ASSUME NEW id \in Ids, AcquireMint(id) PROVE SeqInv'
  <2>1. /\ cur' \in waiting /\ waiting' \subseteq waiting
        /\ pc' = "lookup" /\ UNCHANGED <<clock, cache, overlapped>>
    BY <1>6 DEF AcquireMint
  <2>2. QueueCovered'
    BY <2>1, <1>t, NarrowsBySubset, QueueStays DEF SeqInv
  <2>3. \A e \in cache' : Covered(e, cur)'
    BY <2>1 DEF SeqInv, QueueCovered, Covered
  <2> QED BY <2>1, <2>2, <2>3 DEF SeqInv, HolderCovered
<1>7. CASE Lookup
  <2>1. pc = "lookup" /\ UNCHANGED <<clock, cache, waiting, cur, overlapped>>
    BY <1>7 DEF Lookup
  <2>2. CASE pc' = "takePIN"
    BY <1>2, <2>1, <2>2
  <2>3. CASE pc' = "probe"
    <3>1. UNCHANGED now /\ held' \in cache /\ Admissible(held', cur, now)
      BY <1>7, <2>3 DEF Lookup
    <3>2. QueueCovered'
      BY <2>1, <1>t, NarrowsBySubset, QueueStays DEF SeqInv
    <3>3. held'.key = cur'.key /\ (Coalesced(held, cur) \/ Reusable(held, cur, now))'
      BY <2>1, <3>1 DEF Admissible, Coalesced, Reusable
    <3>4. Covered(held, cur)'
      BY <2>1, <3>1 DEF SeqInv, HolderCovered, Covered
    <3> QED BY <2>3, <3>2, <3>3, <3>4 DEF SeqInv, HolderCovered
  <2> QED BY <1>7, <2>2, <2>3 DEF Lookup
<1>8. CASE Probe
  <2>1. /\ pc = "probe" /\ pc' \in {"confirm", "drop"}
        /\ UNCHANGED <<clock, cache, waiting, cur, held, now, overlapped>>
    BY <1>8 DEF Probe
  <2>2. QueueCovered'
    BY <2>1, <1>t, NarrowsBySubset, QueueStays DEF SeqInv
  <2> QED BY <2>1, <2>2 DEF SeqInv, HolderCovered, Covered, Coalesced, Reusable
<1>9. CASE NewCacheEntry
  BY <1>9, <1>t, SignatureCovers
<1>10. CASE InsertEntry
  BY <1>10, <1>t, InsertCovered
<1>11. CASE DropEntry \/ BeginPendingMint \/ SignReturns \/ RecordPINVerification
  BY <1>2, <1>11 DEF DropEntry, BeginPendingMint, SignReturns, PurgeTo,
                     RecordPINVerification, PurgeAll, PurgeOtherSerials
<1>12. CASE Confirm \/ TakePIN \/ JTIFails \/ EndPendingMint
  BY <1>2, <1>12 DEF Confirm, TakePIN, JTIFails, EndPendingMint, ReleaseMint
<1>13. CASE UnlockVerify \/ UnlockCommit \/ DescribeForwardProvider
  BY <1>2, <1>13 DEF UnlockVerify, UnlockCommit, DescribeForwardProvider,
                     ReleaseMint, PurgeTo, PurgeOtherSerials
<1>14. ASSUME NEW s, NEW n, PlugCard(s) \/ RoutedMint(s, n) PROVE SeqInv'
  BY <1>1, <1>14 DEF PlugCard, RoutedMint
<1>15. CASE UnplugCard \/ Lock \/ UNCHANGED vars
  BY <1>1, <1>15 DEF UnplugCard, Lock, PurgeAll, PurgeTo, vars
<1>16. ASSUME NEW w, NEW g, InvalidateWorkspace(w, g) PROVE SeqInv'
  BY <1>1, <1>16 DEF InvalidateWorkspace, PurgeTo
<1>17. CASE NotifierPoll \/ NotifierPurge \/ NotifierArm \/ NotifierWakes
  BY <1>1, <1>17 DEF NotifierPoll, NotifierPurge, NotifierArm, NotifierWakes, PurgeTo
<1>18. ~ClockStepBack
  BY DEF ClockStepBack
<1> QED
  BY <1>3, <1>4, <1>5, <1>6, <1>7, <1>8, <1>9, <1>10, <1>11, <1>12, <1>13,
     <1>14, <1>15, <1>16, <1>17, <1>18 DEF Next, MintStep, NotifierStep

\* README, "Two sequential requests never share a signature unless the alias
\* sets assertion_reuse_s above zero": on a clock that is not set back, for any
\* number of queued requests and keys, serveAuthorised answers outside an alias
\* window only a request that was queued while that signature was made.
THEOREM SequentialWindow ==
    ASSUME ~ClockMayStepBack
    PROVE  Spec => SequentialNeedsWindow
<1> DEFINE Shares ==
      Serves /\ ~Reusable(held, cur, now) =>
          cur.id \in overlapped \/ cur.arrival = held.completedAt
<1>1. Init => SeqInv
  BY DEF Init, SeqInv, QueueCovered, HolderCovered
<1>2. SeqInv /\ [Next]_vars => [Shares]_vars
  BY DEF SeqInv, HolderCovered, Covered, Coalesced, Serves
<1> QED
  BY InitType, StepType, <1>1, <1>2, StepSequential, PTL
     DEF Spec, SequentialNeedsWindow

-----------------------------------------------------------------------------
(* How much is held.                                                       *)

BoundInv == IsFiniteSet(cache) /\ CacheBounded

\* Fewer entries are still bounded.
LEMMA FewerBounded ==
    ASSUME BoundInv, cache' \subseteq cache
    PROVE  BoundInv'
<1>1. /\ IsFiniteSet(cache')
      /\ Cardinality(cache') <= Cardinality(cache)
      /\ Cardinality(cache') \in Nat
      /\ Cardinality(cache) \in Nat
  BY FS_Subset, FS_CardinalityType DEF BoundInv
<1>2. Cardinality(cache') <= ReuseCacheCap
  BY <1>1, BoundAssumption DEF BoundInv, CacheBounded
<1>3. \A e, f \in cache' : e.key = f.key => e = f
  BY DEF BoundInv, CacheBounded
<1> QED BY <1>1, <1>2, <1>3 DEF BoundInv, CacheBounded

LEMMA InsertBounded ==
    ASSUME BoundInv, InsertLocked(held)
    PROVE  BoundInv'
<1> DEFINE all == {e \in cache : e.key # held.key} \cup {held}
<1>1. /\ cache' \subseteq all
      /\ Cardinality(cache') = IF Cardinality(all) > ReuseCacheCap
                               THEN ReuseCacheCap ELSE Cardinality(all)
  BY DEF InsertLocked, KeepsHighest
<1>2. IsFiniteSet({e \in cache : e.key # held.key})
  BY FS_Subset DEF BoundInv
<1>3. IsFiniteSet(all) /\ Cardinality(all) \in Nat
  BY <1>2, FS_AddElement, FS_CardinalityType
<1>4. IsFiniteSet(cache')
  BY <1>1, <1>3, FS_Subset
<1>5. Cardinality(cache') <= ReuseCacheCap
  BY <1>1, <1>3, BoundAssumption
<1>6. \A e, f \in cache' : e.key = f.key => e = f
  BY <1>1 DEF BoundInv, CacheBounded
<1> QED BY <1>4, <1>5, <1>6 DEF BoundInv, CacheBounded

LEMMA SweepBounded ==
    ASSUME TypeOK, BoundInv, NotifierSweep
    PROVE  BoundInv'
<1> DEFINE left == {f \in cache : ~Retired(f, nNow)}
           notice == [e \in left |-> Noticed(e, nNow)]
<1>1. cache' = {Noticed(e, nNow) : e \in left}
  BY DEF NotifierSweep
<1>2. /\ IsFiniteSet(left)
      /\ Cardinality(left) <= Cardinality(cache)
      /\ Cardinality(left) \in Nat
      /\ Cardinality(cache) \in Nat
  BY FS_Subset, FS_CardinalityType DEF BoundInv
<1>3. notice \in Surjection(left, cache')
  BY <1>1 DEF Surjection
<1>4. IsFiniteSet(cache') /\ Cardinality(cache') <= Cardinality(left)
  BY <1>2, <1>3, FS_Surjection
<1>5. Cardinality(cache') \in Nat
  BY <1>4, FS_CardinalityType
<1>6. Cardinality(cache') <= ReuseCacheCap
  BY <1>2, <1>4, <1>5, BoundAssumption DEF BoundInv, CacheBounded
<1>7. \A e \in left : e \in cache /\ Noticed(e, nNow).key = e.key
  BY NoticedType DEF TypeOK
<1>8. ASSUME NEW e \in cache', NEW f \in cache', e.key = f.key PROVE e = f
  <2>1. PICK x \in left : e = Noticed(x, nNow)
    BY <1>1
  <2>2. PICK y \in left : f = Noticed(y, nNow)
    BY <1>1
  <2>3. x = y
    BY <1>7, <1>8, <2>1, <2>2 DEF BoundInv, CacheBounded
  <2> QED BY <2>1, <2>2, <2>3
<1> QED BY <1>4, <1>6, <1>8 DEF BoundInv, CacheBounded

LEMMA StepBounded == TypeInv /\ BoundInv /\ [Next]_vars => BoundInv'
<1> SUFFICES ASSUME TypeInv, BoundInv, [Next]_vars PROVE BoundInv'
    OBVIOUS
<1>1. CASE cache' \subseteq cache
  BY <1>1, FewerBounded
<1>2. CASE InsertEntry
  <2>1. CASE UNCHANGED cache
    BY <1>1, <2>1
  <2>2. CASE InsertLocked(held)
    BY <2>2, InsertBounded
  <2> QED BY <1>2, <2>1, <2>2 DEF InsertEntry
<1>3. CASE NotifierSweep
  BY <1>3, SweepBounded DEF TypeInv
<1>4. CASE Lock \/ UnlockCommit \/ RecordPINVerification
  BY <1>1, <1>4 DEF Lock, UnlockCommit, RecordPINVerification, PurgeAll,
                    PurgeOtherSerials, PurgeTo
<1>5. CASE DropEntry \/ NotifierPurge \/ UNCHANGED vars
  BY <1>1, <1>5 DEF DropEntry, NotifierPurge, PurgeTo, vars
<1>6. CASE Lookup \/ Probe \/ Confirm \/ TakePIN \/ JTIFails
  BY <1>1, <1>6 DEF Lookup, Probe, Confirm, TakePIN, JTIFails
<1>7. CASE BeginPendingMint \/ SignReturns \/ NewCacheEntry \/ EndPendingMint
  BY <1>1, <1>7 DEF BeginPendingMint, SignReturns, NewCacheEntry, EndPendingMint
<1>8. CASE UnlockVerify \/ DescribeForwardProvider \/ Tick \/ ClockStepBack \/ UnplugCard
  BY <1>1, <1>8 DEF UnlockVerify, DescribeForwardProvider, Tick, ClockStepBack, UnplugCard
<1>9. ASSUME NEW id, NEW k, NEW w, Arrive(id, k, w) \/ AcquireMint(id) PROVE BoundInv'
  BY <1>1, <1>9 DEF Arrive, AcquireMint
<1>10. ASSUME NEW s, NEW n, PlugCard(s) \/ RoutedMint(s, n) PROVE BoundInv'
  BY <1>1, <1>10 DEF PlugCard, RoutedMint
<1>11. ASSUME NEW w, NEW g, InvalidateWorkspace(w, g) PROVE BoundInv'
  BY <1>1, <1>11 DEF InvalidateWorkspace, PurgeTo
<1>12. CASE NotifierPoll \/ NotifierArm \/ NotifierWakes
  BY <1>1, <1>12 DEF NotifierPoll, NotifierArm, NotifierWakes
<1> QED
  BY <1>2, <1>3, <1>4, <1>5, <1>6, <1>7, <1>8, <1>9, <1>10, <1>11, <1>12
     DEF Next, MintStep, NotifierStep

\* The cache holds at most reuseCacheCap assertions and one per requester
\* tuple, through inserts that replace and evict and sweeps that rewrite.
THEOREM Bounded == Spec => []CacheBounded
<1>1. Init => BoundInv
  BY FS_EmptySet, BoundAssumption DEF Init, BoundInv, CacheBounded
<1>2. BoundInv => CacheBounded
  BY DEF BoundInv
<1> QED BY InitType, StepType, <1>1, <1>2, StepBounded, PTL DEF Spec

-----------------------------------------------------------------------------
(* How far a touch reaches.                                                *)

\* touchFreeUntil never exceeds the alias window, and opens a window under a
\* grant only when that window ends with the grant at the latest.
LEMMA GrantShortens ==
    ASSUME NEW c \in Nat, NEW r \in Nat, NEW g \in Int
    PROVE  /\ TouchFreeUntil(c, r, g) <= c + r
           /\ g # 0 /\ TouchFreeUntil(c, r, g) > c => TouchFreeUntil(c, r, g) <= g
BY DEF TouchFreeUntil

\* The entry about to be inserted keeps within the alias and the grant.
BuiltWithinGrant ==
    pc = "insert" /\ held # NoEntry =>
        /\ held.windowEndsAt <= held.completedAt + Reuse[held.key.alias]
        /\ cur.granted # 0 /\ Windowed(held) => held.windowEndsAt <= cur.granted

LEMMA StepBuilt == TypeInv /\ BuiltWithinGrant /\ [Next]_vars => BuiltWithinGrant'
<1> SUFFICES ASSUME TypeInv, BuiltWithinGrant, [Next]_vars PROVE BuiltWithinGrant'
    OBVIOUS
<1> USE DEF BuiltWithinGrant
<1>1. CASE UNCHANGED <<pc, cur, held>>
  BY <1>1 DEF Windowed
<1>2. CASE pc' # "insert"
  BY <1>2
<1>3. CASE NewCacheEntry
  <2>1. cur \in Request /\ cur.key.alias \in Aliases /\ clock \in Nat
    BY <1>3, KeyFields DEF NewCacheEntry, TypeInv, TypeOK, LocalsSet, MintSteps, Request
  <2>2. Reuse[cur.key.alias] \in Nat /\ cur.granted \in Int
    BY <2>1, ConfigAssumption DEF Request
  <2>3. held' # NoEntry =>
          /\ held'.key = cur.key
          /\ held'.completedAt = clock
          /\ held'.windowEndsAt = TouchFreeUntil(clock, Reuse[cur.key.alias], cur.granted)
    BY <1>3 DEF NewCacheEntry
  <2>4. UNCHANGED cur
    BY <1>3 DEF NewCacheEntry
  <2>5. /\ TouchFreeUntil(clock, Reuse[cur.key.alias], cur.granted)
              <= clock + Reuse[cur.key.alias]
        /\ cur.granted # 0
             /\ TouchFreeUntil(clock, Reuse[cur.key.alias], cur.granted) > clock
             => TouchFreeUntil(clock, Reuse[cur.key.alias], cur.granted) <= cur.granted
    BY <2>1, <2>2, GrantShortens
  <2> QED BY <2>3, <2>4, <2>5 DEF Windowed
<1>4. CASE Lookup \/ Probe \/ DropEntry \/ Confirm \/ TakePIN \/ JTIFails
  BY <1>2, <1>4 DEF Lookup, Probe, DropEntry, Confirm, TakePIN, JTIFails, ReleaseMint
<1>5. CASE BeginPendingMint \/ SignReturns \/ RecordPINVerification \/ InsertEntry
  BY <1>2, <1>5 DEF BeginPendingMint, SignReturns, RecordPINVerification, InsertEntry
<1>6. CASE EndPendingMint \/ UnlockVerify \/ UnlockCommit \/ DescribeForwardProvider
  BY <1>2, <1>6 DEF EndPendingMint, UnlockVerify, UnlockCommit,
                    DescribeForwardProvider, ReleaseMint
<1>7. ASSUME NEW id \in Ids, AcquireMint(id) PROVE BuiltWithinGrant'
  BY <1>2, <1>7 DEF AcquireMint
<1>8. ASSUME NEW id, NEW k, NEW w, Arrive(id, k, w) PROVE BuiltWithinGrant'
  BY <1>1, <1>8 DEF Arrive
<1>9. ASSUME NEW s, NEW n, PlugCard(s) \/ RoutedMint(s, n) PROVE BuiltWithinGrant'
  BY <1>1, <1>9 DEF PlugCard, RoutedMint
<1>10. CASE Tick \/ ClockStepBack \/ UnplugCard \/ Lock \/ UNCHANGED vars
  BY <1>1, <1>10 DEF Tick, ClockStepBack, UnplugCard, Lock, vars
<1>11. ASSUME NEW w, NEW g, InvalidateWorkspace(w, g) PROVE BuiltWithinGrant'
  BY <1>1, <1>11 DEF InvalidateWorkspace
<1>12. CASE NotifierStep
  BY <1>1, <1>12 DEF NotifierStep, NotifierSweep, NotifierPoll, NotifierPurge,
                     NotifierArm, NotifierWakes
<1> QED
  BY <1>3, <1>4, <1>5, <1>6, <1>7, <1>8, <1>9, <1>10, <1>11, <1>12
     DEF Next, MintStep

\* The only step that takes an assertion into the cache inserts the one built.
LEMMA InsertsBuilt ==
    ASSUME [Next]_vars, pc = "insert", pc' = "wake"
    PROVE  held # NoEntry /\ cache' \subseteq cache \cup {held}
<1>1. CASE InsertEntry
  BY <1>1 DEF InsertEntry, InsertLocked
<1>2. CASE MintStep /\ ~InsertEntry
  BY <1>2 DEF MintStep, Lookup, Probe, DropEntry, Confirm, TakePIN, JTIFails,
              BeginPendingMint, SignReturns, RecordPINVerification,
              NewCacheEntry, EndPendingMint
<1>3. CASE UnlockVerify \/ UnlockCommit \/ DescribeForwardProvider \/ Lock
  BY <1>3 DEF UnlockVerify, UnlockCommit, DescribeForwardProvider, Lock
<1>4. CASE Tick \/ ClockStepBack \/ UnplugCard \/ UNCHANGED vars
  BY <1>4 DEF Tick, ClockStepBack, UnplugCard, vars
<1>5. CASE NotifierStep
  BY <1>5 DEF NotifierStep, NotifierSweep, NotifierPoll, NotifierPurge,
              NotifierArm, NotifierWakes
<1>6. ASSUME NEW id, NEW k, NEW w, Arrive(id, k, w) \/ AcquireMint(id) PROVE FALSE
  BY <1>6 DEF Arrive, AcquireMint
<1>7. ASSUME NEW s, NEW n, PlugCard(s) \/ RoutedMint(s, n) PROVE FALSE
  BY <1>7 DEF PlugCard, RoutedMint
<1>8. ASSUME NEW w, NEW g, InvalidateWorkspace(w, g) PROVE FALSE
  BY <1>8 DEF InvalidateWorkspace
<1> QED
  BY <1>1, <1>2, <1>3, <1>4, <1>5, <1>6, <1>7, <1>8 DEF Next

\* A grant is one-directional: what a mint leaves in the cache reaches neither
\* past the alias window nor, under a grant, past that grant.
THEOREM GrantBounds == Spec => GrantOnlyShortens
<1> DEFINE Within ==
      \A e \in cache' \ cache : pc = "insert" /\ pc' = "wake" =>
          /\ e.windowEndsAt <= e.completedAt + Reuse[e.key.alias]
          /\ cur.granted # 0 /\ Windowed(e) => e.windowEndsAt <= cur.granted
<1>1. Init => BuiltWithinGrant
  BY DEF Init, BuiltWithinGrant
<1>2. BuiltWithinGrant /\ [Next]_vars => [Within]_vars
  BY InsertsBuilt DEF BuiltWithinGrant
<1> QED
  BY InitType, StepType, <1>1, StepBuilt, <1>2, PTL DEF Spec, GrantOnlyShortens
=============================================================================
