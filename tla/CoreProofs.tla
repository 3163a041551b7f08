----------------------------- MODULE CoreProofs -----------------------------
(***************************************************************************)
(* Theorems about Core, for every value of its constants that satisfies    *)
(* the named assumptions of MintRing and ReusePolicy.                      *)
(***************************************************************************)
EXTENDS Core, SubsequenceProofs

USE DEF pinVars, ringVars, claimVars, mintVars, notifierVars, historyVars

-----------------------------------------------------------------------------
(* Type correctness.                                                       *)

\* Where a mint stands decides which of its locals are set.
LocalsSet ==
    /\ pc \in MintSteps => cur \in Request
    /\ pc \in {"probe", "confirm"} => held \in Entry

TypeInv == TypeOK /\ LocalsSet

\* A key's fields have their types.
LEMMA KeyFields ==
    ASSUME NEW k \in Keys
    PROVE  /\ k.alias \in Aliases
           /\ k.ws \in Workspaces \cup {NoWorkspace}
           /\ k.gen \in Nat
           /\ k.card \in Serials \cup {NoCard}
BY KeysAssumption DEF KeyType

\* What an enumeration shows is a set of reader names.
LEMMA ReaderNamesType ==
    ASSUME card \in Serials \cup {NoCard}
    PROVE  ReaderNames \in SUBSET Names
BY DEF ReaderNames, Names

\* A step that leaves the cache with some of its entries keeps it typed.
LEMMA PurgeType ==
    ASSUME NEW kept, cache \in SUBSET Entry, wake \in BOOLEAN,
           kept \subseteq cache, PurgeTo(kept)
    PROVE  /\ cache' \in SUBSET Entry
           /\ wake' \in BOOLEAN
BY DEF PurgeTo, WakeIf

\* The notice changes nothing but its flag, and keeps an entry an entry.
LEMMA NoticedType ==
    ASSUME NEW e \in Entry, NEW t
    PROVE  /\ Noticed(e, t) \in Entry
           /\ Noticed(e, t).key = e.key
           /\ Noticed(e, t).serial = e.serial
           /\ Noticed(e, t).completedAt = e.completedAt
           /\ Noticed(e, t).windowEndsAt = e.windowEndsAt
           /\ Noticed(e, t).expiresAt = e.expiresAt
BY DEF Noticed, Entry

LEMMA DeadlinesType ==
    ASSUME NEW e \in Entry
    PROVE  Deadlines(e) \subseteq Int
BY TimeAssumption DEF Deadlines, Entry

LEMMA DueType ==
    ASSUME NEW E \in SUBSET Entry, NEW t \in Nat
    PROVE  Due(E, t) \subseteq Int
<1>1. t + PollInterval \in Int
  BY TimeAssumption
<1>2. \A e \in E : Deadlines(e) \subseteq Int
  BY DeadlinesType
<1> QED BY <1>1, <1>2 DEF Due

\* An invalidation leaves a watermark, 0 or a generation, per workspace.
LEMMA WatermarkType ==
    ASSUME TypeOK, NEW w \in Workspaces, NEW g \in 0..MaxGen,
           InvalidateWorkspace(w, g)
    PROVE  invalidated' \in [Workspaces -> Nat]
<1>1. \A e \in cache : e.key.gen \in Nat
  BY KeyFields DEF TypeOK, Entry
<1>2. pending.gen \in Nat
  BY DEF TypeOK
<1>3. \/ UNCHANGED invalidated
      \/ \E mark \in Nat : RecordWatermark(w, mark)
  BY <1>1, <1>2, BoundAssumption DEF InvalidateWorkspace, PendingGeneration
<1>4. ASSUME NEW mark \in Nat, RecordWatermark(w, mark)
      PROVE  invalidated' \in [Workspaces -> Nat]
  <2>1. CASE invalidated[w] >= mark
    BY <1>4, <2>1 DEF RecordWatermark, TypeOK
  <2>2. CASE ~(invalidated[w] >= mark)
    <3> DEFINE raised == [invalidated EXCEPT ![w] = mark]
    <3>1. raised \in [Workspaces -> Nat]
      BY <1>4 DEF TypeOK
    <3>2. PICK kept : invalidated' = [v \in Workspaces |->
                                        IF v \in kept THEN raised[v] ELSE 0]
      BY <1>4, <2>2 DEF RecordWatermark
    <3> QED BY <3>1, <3>2
  <2> QED BY <2>1, <2>2
<1> QED BY <1>3, <1>4 DEF TypeOK

\* The locals of a mint that returns.
LEMMA ReleaseType ==
    ASSUME TypeOK, ReleaseMint
    PROVE  /\ pc' = "free" /\ cur' = NoRequest /\ held' = NoEntry
           /\ now' \in Nat /\ sig' \in Signature
           /\ overlapped' \in SUBSET Ids
BY DEF ReleaseMint, NoSignature, Signature, TypeOK

LEMMA InitType == Init => TypeInv
<1> SUFFICES ASSUME Init PROVE TypeInv
    OBVIOUS
<1>1. TypeOK
  <2>1. nNow \in Nat /\ npc \in {"off", "sweep", "poll", "purge", "arm", "wait"}
    BY DEF Init
  <2>2. nNames \in {<<n>> : n \in SUBSET Names} \cup {<<>>}
    BY DEF Init
  <2>3. cache \in SUBSET Entry /\ waiting \in SUBSET Request /\ overlapped \in SUBSET Ids
    BY DEF Init
  <2>4. invalidated \in [Workspaces -> Nat]
    BY DEF Init
  <2>5. sig \in Signature /\ pending \in [ws : Workspaces \cup {NoWorkspace}, gen : Nat]
    BY DEF Init, NoSignature, Signature, NoPending
  <2>6. clock \in Nat \ {0} /\ now \in Nat /\ nNext \in Int /\ timer \in Nat
    BY DEF Init
  <2>7. pin \in BOOLEAN /\ wake \in BOOLEAN /\ revoked \in BOOLEAN
    BY DEF Init
  <2>8. /\ card \in Serials \cup {NoCard}
        /\ pinVerifiedSerial \in Serials \cup {NoCard}
        /\ lastSign \in Serials \cup {NoCard}
        /\ cur \in Request \cup {NoRequest}
        /\ held \in Entry \cup {NoEntry}
        /\ pc \in MintSteps \cup {"free", "unlock", "describe"}
    BY DEF Init
  <2> QED BY <2>1, <2>2, <2>3, <2>4, <2>5, <2>6, <2>7, <2>8 DEF TypeOK
<1>2. LocalsSet
  BY DEF Init, LocalsSet, MintSteps
<1> QED BY <1>1, <1>2 DEF TypeInv

LEMMA StepType == TypeInv /\ [Next]_vars => TypeInv'
<1> SUFFICES ASSUME TypeInv, [Next]_vars PROVE TypeInv'
    OBVIOUS
<1> USE DEF TypeInv, TypeOK, LocalsSet, MintSteps
<1>1. CASE Tick
  BY <1>1 DEF Tick
<1>2. CASE ClockStepBack
  BY <1>2 DEF ClockStepBack
<1>3. ASSUME NEW s \in Serials, PlugCard(s) PROVE TypeInv'
  BY <1>3 DEF PlugCard
<1>4. CASE UnplugCard
  BY <1>4 DEF UnplugCard
<1>5. ASSUME NEW id \in Ids, AcquireMint(id) PROVE TypeInv'
  BY <1>5 DEF AcquireMint
<1>6. CASE Lookup
  BY <1>6 DEF Lookup
<1>7. CASE Probe
  BY <1>7 DEF Probe
<1>8. CASE DropEntry
  BY <1>8 DEF DropEntry, PurgeTo, WakeIf
<1>9. CASE Confirm
  <2>1. CASE ReleaseMint
    BY <1>9, <2>1, ReleaseType DEF Confirm
  <2>2. CASE pc' = "takePIN" /\ held' = NoEntry /\ now' = 0
             /\ UNCHANGED <<cur, sig, overlapped>>
    BY <1>9, <2>2 DEF Confirm
  <2> QED BY <1>9, <2>1, <2>2 DEF Confirm
<1>10. CASE TakePIN
  <2>1. pin' \in BOOLEAN /\ pinVerifiedSerial' \in Serials \cup {NoCard}
    BY <1>10 DEF TakePIN, ClearPIN
  <2>2. CASE ReleaseMint
    BY <1>10, <2>1, <2>2, ReleaseType DEF TakePIN
  <2>3. CASE ~ReleaseMint
    BY <1>10, <2>1, <2>3 DEF TakePIN
  <2> QED BY <2>2, <2>3
<1>11. CASE JTIFails
  BY <1>11 DEF JTIFails, ReleaseMint, NoSignature, Signature
<1>12. CASE BeginPendingMint
  <2>1. cur \in Request /\ cur.key \in Keys
    BY <1>12 DEF BeginPendingMint, Request
  <2>2. /\ cur.key.ws \in Workspaces \cup {NoWorkspace} /\ cur.key.gen \in Nat
    BY <2>1, KeyFields
  <2>3. pending' \in [ws : Workspaces \cup {NoWorkspace}, gen : Nat]
    BY <1>12, <2>2 DEF BeginPendingMint
  <2>4. now' \in Nat /\ revoked' \in BOOLEAN /\ pc' = "sign"
    BY <1>12 DEF BeginPendingMint
  <2>5. UNCHANGED <<clock, card, pinVars, ringVars, lastSign, cache,
                    invalidated, waiting, cur, held, sig, notifierVars,
                    overlapped>>
    BY <1>12 DEF BeginPendingMint
  <2> QED BY <2>1, <2>3, <2>4, <2>5
<1>13. CASE SignReturns
  BY <1>13 DEF SignReturns, NoSignature, Signature
<1>14. CASE RecordPINVerification
  <2>1. pin' \in BOOLEAN /\ pinVerifiedSerial' \in Serials \cup {NoCard}
    BY <1>14 DEF RecordPINVerification, ClearPIN, Signature
  <2>2. cache' \in SUBSET Entry /\ wake' \in BOOLEAN
    BY <1>14 DEF RecordPINVerification, PurgeAll, PurgeOtherSerials, PurgeTo, WakeIf
  <2>3. pc' \in {"build", "end"}
    BY <1>14 DEF RecordPINVerification
  <2> QED BY <1>14, <2>1, <2>2, <2>3 DEF RecordPINVerification
<1>15. CASE NewCacheEntry
  <2>1. cur \in Request /\ cur.key \in Keys /\ cur.key.alias \in Aliases
    BY <1>15, KeyFields DEF NewCacheEntry, Request
  <2>2. ExpiresAt(now, cur.key.alias) \in Int
    BY <2>1, ConfigAssumption, TimeAssumption DEF ExpiresAt
  <2>3. TouchFreeUntil(clock, Reuse[cur.key.alias], cur.granted) \in Int
    BY <2>1, ConfigAssumption DEF TouchFreeUntil, Request
  <2>4. held' \in Entry \cup {NoEntry}
    <3>1. sig.serial \in Serials \cup {NoCard}
      BY DEF Signature
    <3>2. ReaderNames \in SUBSET Names
      BY ReaderNamesType
    <3> DEFINE built == [key |-> cur.key,
                         completedAt |-> clock,
                         expiresAt |-> ExpiresAt(now, cur.key.alias),
                         serial |-> sig.serial,
                         readers |-> ReaderNames,
                         windowEndsAt |-> TouchFreeUntil(clock,
                                             Reuse[cur.key.alias], cur.granted),
                         notifiedPre |-> FALSE]
    <3>3. built \in Entry
      BY <2>1, <2>2, <2>3, <3>1, <3>2 DEF Entry
    <3>4. held' = built \/ held' = NoEntry
      BY <1>15 DEF NewCacheEntry
    <3> QED BY <3>3, <3>4
  <2>5. overlapped' \in SUBSET Ids
    BY <1>15 DEF NewCacheEntry, Request
  <2> QED BY <1>15, <2>1, <2>4, <2>5 DEF NewCacheEntry
<1>16. CASE InsertEntry
  <2>1. cache' \in SUBSET Entry
    <3>1. CASE held # NoEntry /\ InsertLocked(held)
      BY <3>1 DEF InsertLocked
    <3> QED BY <1>16, <3>1 DEF InsertEntry
  <2>2. lastSign' \in Serials \cup {NoCard}
    BY <1>16 DEF InsertEntry, Signature
  <2> QED BY <1>16, <2>1, <2>2 DEF InsertEntry
<1>17. CASE EndPendingMint
  BY <1>17 DEF EndPendingMint, EndPending, NoPending, WakeIf, ReleaseMint,
               NoSignature, Signature
<1>18. ASSUME NEW s \in Serials, NEW n, RoutedMint(s, n) PROVE TypeInv'
  BY <1>18 DEF RoutedMint
<1>19. CASE UnlockVerify
  BY <1>19 DEF UnlockVerify, Signature
<1>20. CASE UnlockCommit
  BY <1>20 DEF UnlockCommit, PurgeOtherSerials, PurgeTo, WakeIf, ReleaseMint,
               NoSignature, Signature
<1>21. CASE Lock
  BY <1>21 DEF Lock, ClearPIN, PurgeAll, PurgeTo, WakeIf
<1>22. CASE DescribeForwardProvider
  BY <1>22 DEF DescribeForwardProvider
<1>23. ASSUME NEW id \in Ids, NEW k \in Keys, NEW w \in Windows, Arrive(id, k, w)
       PROVE  TypeInv'
  <2>1. GrantedWindow(w, clock) \in Int
    BY ConfigAssumption DEF GrantedWindow, WindowType
  <2>2. [id |-> id, key |-> k, arrival |-> clock, window |-> w,
         granted |-> GrantedWindow(w, clock)] \in Request
    BY <2>1 DEF Request
  <2> QED BY <1>23, <2>2 DEF Arrive
<1>24. ASSUME NEW w \in Workspaces, NEW g \in 0..MaxGen, InvalidateWorkspace(w, g)
       PROVE  TypeInv'
  <2>1. invalidated' \in [Workspaces -> Nat]
    BY <1>24, WatermarkType
  <2>2. cache' \in SUBSET Entry /\ wake' \in BOOLEAN
    BY <1>24 DEF InvalidateWorkspace, PurgeTo, WakeIf
  <2>3. revoked' \in BOOLEAN
    BY <1>24 DEF InvalidateWorkspace, Covers
  <2> QED BY <1>24, <2>1, <2>2, <2>3 DEF InvalidateWorkspace
<1>25. CASE NotifierSweep
  <2>1. cache' \in SUBSET Entry
    BY <1>25, NoticedType DEF NotifierSweep
  <2>2. nNext' \in Int
    <3>1. nNext' = 0 \/ nNext' \in Due(cache', nNow)
      BY <1>25 DEF NotifierSweep
    <3>2. Due(cache', nNow) \subseteq Int
      BY <2>1, DueType
    <3> QED BY <3>1, <3>2
  <2> QED BY <1>25, <2>1, <2>2 DEF NotifierSweep
<1>26. CASE NotifierPoll
  BY <1>26, ReaderNamesType DEF NotifierPoll
<1>27. CASE NotifierPurge
  BY <1>27 DEF NotifierPurge, PurgeTo, WakeIf
<1>28. CASE NotifierArm
  <2>1. Delay \in Nat
    BY TimeAssumption DEF Delay
  <2> QED BY <1>28, <2>1 DEF NotifierArm
<1>29. CASE NotifierWakes
  <2>1. wake' \in BOOLEAN
    BY <1>29 DEF NotifierWakes
  <2> QED BY <1>29, <2>1 DEF NotifierWakes
<1>30. CASE UNCHANGED vars
  BY <1>30 DEF vars
<1> QED
  BY <1>1, <1>2, <1>3, <1>4, <1>5, <1>6, <1>7, <1>8, <1>9, <1>10, <1>11,
     <1>12, <1>13, <1>14, <1>15, <1>16, <1>17, <1>18, <1>19, <1>20, <1>21,
     <1>22, <1>23, <1>24, <1>25, <1>26, <1>27, <1>28, <1>29, <1>30
     DEF Next, MintStep, NotifierStep

\* Every variable of the daemon keeps its type: in particular a mint that holds
\* mintMu has its request, an entry it is about to serve exists, and the
\* notifier never arms its timer with a negative delay.
THEOREM TypeCorrect == Spec => []TypeOK
<1>1. TypeInv => TypeOK
  BY DEF TypeInv
<1> QED BY InitType, StepType, <1>1, PTL DEF Spec

-----------------------------------------------------------------------------
(* Cards and PINs.                                                         *)

\* While a mint is past takePIN the cached PIN stays: Lock and Unlock wait for
\* mintMu.
PINSteady ==
    PINCache = "session" /\ pc \in {"begin", "sign", "record", "build", "insert"}
        => pin

\* A signature comes from a card that the request accepts.
SignedByClaimedCard ==
    pc \in {"record", "build", "insert"} /\ sig.err = "none"
        => sig.serial # NoCard /\ cur.key.card \in {NoCard, sig.serial}

\* What is built from a signature is recorded as verified for its card.
BuiltUnderVerifiedPIN ==
    pc \in {"build", "insert"} =>
        /\ sig.err = "none"
        /\ PINCache = "session" => pinVerifiedSerial = sig.serial

BuiltForRequest ==
    pc = "insert" /\ held # NoEntry => held.key = cur.key /\ held.serial = sig.serial

CardInv ==
    /\ HeldUnderVerifiedPIN
    /\ HeldByClaimedCard
    /\ PINSteady
    /\ SignedByClaimedCard
    /\ BuiltUnderVerifiedPIN
    /\ BuiltForRequest

LEMMA InitCard == Init => CardInv
BY DEF Init, CardInv, HeldUnderVerifiedPIN, HeldByClaimedCard, PINSteady,
       SignedByClaimedCard, BuiltUnderVerifiedPIN, BuiltForRequest

\* Dropping entries keeps what is said of every entry.
LEMMA FewerHeld ==
    ASSUME CardInv, cache' \subseteq cache, UNCHANGED pinVars
    PROVE  HeldUnderVerifiedPIN' /\ HeldByClaimedCard'
BY DEF CardInv, HeldUnderVerifiedPIN, HeldByClaimedCard

\* A step that leaves the mint's locals alone.
LEMMA SameMint ==
    ASSUME CardInv, UNCHANGED <<pc, cur, held, sig, pinVars>>
    PROVE  PINSteady' /\ SignedByClaimedCard' /\ BuiltUnderVerifiedPIN' /\ BuiltForRequest'
BY DEF CardInv, PINSteady, SignedByClaimedCard, BuiltUnderVerifiedPIN, BuiltForRequest

\* Between two mints nothing is said of the locals.
LEMMA NoMint ==
    ASSUME pc' \notin {"begin", "sign", "record", "build", "insert"}
    PROVE  PINSteady' /\ SignedByClaimedCard' /\ BuiltUnderVerifiedPIN' /\ BuiltForRequest'
BY DEF PINSteady, SignedByClaimedCard, BuiltUnderVerifiedPIN, BuiltForRequest

LEMMA StepCard == TypeInv /\ CardInv /\ [Next]_vars => CardInv'
<1> SUFFICES ASSUME TypeInv, CardInv, [Next]_vars PROVE CardInv'
    OBVIOUS
<1>t. TypeOK /\ LocalsSet
  BY DEF TypeInv
<1>1. CASE /\ cache' \subseteq cache
           /\ UNCHANGED pinVars
           /\ \/ UNCHANGED <<pc, cur, held, sig>>
              \/ pc' \notin {"begin", "sign", "record", "build", "insert"}
  BY <1>1, FewerHeld, SameMint, NoMint DEF CardInv
<1>2. CASE Lock
  <2>1. cache' = {}
    BY <1>2 DEF Lock, PurgeAll, PurgeTo
  <2>2. HeldUnderVerifiedPIN' /\ HeldByClaimedCard'
    BY <2>1 DEF HeldUnderVerifiedPIN, HeldByClaimedCard
  <2>3. pc' \notin {"begin", "sign", "record", "build", "insert"}
    BY <1>2 DEF Lock
  <2> QED BY <2>2, <2>3, NoMint DEF CardInv
<1>3. CASE UnlockCommit
  <2>1. HeldUnderVerifiedPIN' /\ HeldByClaimedCard'
    BY <1>3 DEF UnlockCommit, PurgeOtherSerials, PurgeTo, CardInv,
                HeldUnderVerifiedPIN, HeldByClaimedCard
  <2>2. pc' \notin {"begin", "sign", "record", "build", "insert"}
    BY <1>3 DEF UnlockCommit, ReleaseMint
  <2> QED BY <2>1, <2>2, NoMint DEF CardInv
<1>4. CASE TakePIN
  <2>1. CASE ReleaseMint /\ UNCHANGED pinVars
    BY <1>1, <1>4, <2>1 DEF TakePIN, ReleaseMint
  <2>2. CASE /\ pin /\ pc' = "begin" /\ UNCHANGED <<cur, held, sig, cache>>
             /\ IF PINCache = "never" THEN ClearPIN ELSE UNCHANGED pinVars
    <3>1. PINSteady'
      BY <2>2 DEF PINSteady
    <3>2. HeldUnderVerifiedPIN' /\ HeldByClaimedCard'
      BY <2>2 DEF CardInv, HeldUnderVerifiedPIN, HeldByClaimedCard
    <3> QED BY <2>2, <3>1, <3>2
            DEF CardInv, SignedByClaimedCard, BuiltUnderVerifiedPIN, BuiltForRequest
  <2> QED BY <1>4, <2>1, <2>2 DEF TakePIN
<1>5. CASE BeginPendingMint
  BY <1>5 DEF BeginPendingMint, CardInv, HeldUnderVerifiedPIN, HeldByClaimedCard,
              PINSteady, SignedByClaimedCard, BuiltUnderVerifiedPIN, BuiltForRequest
<1>6. CASE SignReturns
  <2>1. sig'.err = "none" => sig'.serial # NoCard /\ cur.key.card \in {NoCard, sig'.serial}
    BY <1>6 DEF SignReturns, NoSignature, ClaimedCard
  <2> QED BY <1>6, <2>1
          DEF SignReturns, CardInv, HeldUnderVerifiedPIN, HeldByClaimedCard,
              PINSteady, SignedByClaimedCard, BuiltUnderVerifiedPIN, BuiltForRequest
<1>7. CASE RecordPINVerification
  <2>0. UNCHANGED <<cur, held, sig>> /\ pc = "record" /\ pc' \in {"build", "end"}
        /\ (pc' = "build" => sig.err = "none")
    BY <1>7 DEF RecordPINVerification
  <2>1. CASE sig.err = "rejected" /\ ClearPIN /\ PurgeAll
    <3>1. cache' = {}
      BY <2>1 DEF PurgeAll, PurgeTo
    <3>2. HeldUnderVerifiedPIN' /\ HeldByClaimedCard'
      BY <3>1 DEF HeldUnderVerifiedPIN, HeldByClaimedCard
    <3> QED BY <2>0, <2>1, <3>2, NoMint DEF CardInv
  <2>2. CASE /\ sig.serial # NoCard /\ pin
             /\ pinVerifiedSerial' = sig.serial
             /\ PurgeOtherSerials(sig.serial)
             /\ UNCHANGED pin
    <3>1. HeldUnderVerifiedPIN' /\ HeldByClaimedCard'
      BY <2>2 DEF PurgeOtherSerials, PurgeTo, CardInv, HeldUnderVerifiedPIN,
                  HeldByClaimedCard
    <3> QED BY <2>0, <2>2, <3>1
            DEF CardInv, PINSteady, SignedByClaimedCard, BuiltUnderVerifiedPIN,
                BuiltForRequest
  <2>3. CASE /\ sig.serial = NoCard \/ ~pin
             /\ UNCHANGED <<pinVars, cache, wake>>
    <3>1. PINCache = "session" => pc' = "end"
      BY <2>0, <2>3 DEF CardInv, PINSteady, SignedByClaimedCard
    <3>2. HeldUnderVerifiedPIN' /\ HeldByClaimedCard'
      BY <2>3, FewerHeld
    <3> QED BY <2>0, <2>3, <3>1, <3>2
            DEF CardInv, PINSteady, SignedByClaimedCard, BuiltUnderVerifiedPIN,
                BuiltForRequest
  <2> QED BY <1>7, <2>1, <2>2, <2>3 DEF RecordPINVerification
<1>8. CASE NewCacheEntry
  <2>1. held' # NoEntry => held'.key = cur.key /\ held'.serial = sig.serial
    BY <1>8 DEF NewCacheEntry
  <2> QED BY <1>8, <2>1
          DEF NewCacheEntry, CardInv, HeldUnderVerifiedPIN, HeldByClaimedCard,
              PINSteady, SignedByClaimedCard, BuiltUnderVerifiedPIN, BuiltForRequest
<1>9. CASE InsertEntry
  <2>1. cache' \subseteq cache \cup {e \in {held} : held # NoEntry}
    BY <1>9 DEF InsertEntry, InsertLocked
  <2>2. pc = "insert" /\ pc' \in {"wake", "end"} /\ UNCHANGED pinVars
    BY <1>9 DEF InsertEntry
  <2>3. HeldUnderVerifiedPIN'
    BY <2>1, <2>2 DEF CardInv, HeldUnderVerifiedPIN, PINSteady,
                      BuiltUnderVerifiedPIN, BuiltForRequest
  <2>4. HeldByClaimedCard'
    BY <2>1, <2>2 DEF CardInv, HeldByClaimedCard, SignedByClaimedCard,
                      BuiltUnderVerifiedPIN, BuiltForRequest
  <2> QED BY <2>2, <2>3, <2>4, NoMint DEF CardInv
<1>10. CASE NotifierSweep
  <2>1. cache \subseteq Entry
    BY <1>t DEF TypeOK
  <2>2. \A e \in cache' : \E f \in cache : e.key = f.key /\ e.serial = f.serial
    BY <1>10, <2>1, NoticedType DEF NotifierSweep
  <2>3. UNCHANGED <<pc, cur, held, sig, pinVars>>
    BY <1>10 DEF NotifierSweep
  <2>4. HeldUnderVerifiedPIN' /\ HeldByClaimedCard'
    BY <2>2, <2>3 DEF CardInv, HeldUnderVerifiedPIN, HeldByClaimedCard
  <2> QED BY <2>3, <2>4, SameMint DEF CardInv
<1>11. CASE Confirm
  BY <1>1, <1>11 DEF Confirm, ReleaseMint
<1>12. CASE DropEntry \/ NotifierPurge \/ UNCHANGED vars
  BY <1>1, <1>12 DEF DropEntry, NotifierPurge, PurgeTo, vars
<1>13. ASSUME NEW w \in Workspaces, NEW g \in 0..MaxGen, InvalidateWorkspace(w, g)
       PROVE  CardInv'
  BY <1>1, <1>13 DEF InvalidateWorkspace, PurgeTo
<1>14. CASE JTIFails \/ EndPendingMint
  BY <1>1, <1>14 DEF JTIFails, EndPendingMint, ReleaseMint
<1>15. CASE Lookup \/ Probe \/ UnlockVerify \/ DescribeForwardProvider
  BY <1>1, <1>15 DEF Lookup, Probe, UnlockVerify, DescribeForwardProvider
<1>16. CASE Tick \/ ClockStepBack \/ UnplugCard \/ (\E s \in Serials : PlugCard(s))
  BY <1>1, <1>16 DEF Tick, ClockStepBack, UnplugCard, PlugCard
<1>17. ASSUME NEW id \in Ids, AcquireMint(id) PROVE CardInv'
  BY <1>1, <1>17 DEF AcquireMint
<1>18. ASSUME NEW id, NEW k, NEW w, Arrive(id, k, w) PROVE CardInv'
  BY <1>1, <1>18 DEF Arrive
<1>19. ASSUME NEW s, NEW n, RoutedMint(s, n) PROVE CardInv'
  BY <1>1, <1>19 DEF RoutedMint
<1>20. CASE NotifierPoll \/ NotifierArm \/ NotifierWakes
  BY <1>1, <1>20 DEF NotifierPoll, NotifierArm, NotifierWakes
<1> QED
  BY <1>2, <1>3, <1>4, <1>5, <1>6, <1>7, <1>8, <1>9, <1>10, <1>11, <1>12,
     <1>13, <1>14, <1>15, <1>16, <1>17, <1>18, <1>19, <1>20
     DEF Next, MintStep, NotifierStep

\* With pin_cache = "session", whatever Lock, Unlock, rejections and swaps do
\* while a mint is in flight, only assertions of the card and the PIN that are
\* verified now are held.
THEOREM HeldUnderPIN == Spec => []HeldUnderVerifiedPIN
<1>1. CardInv => HeldUnderVerifiedPIN
  BY DEF CardInv
<1> QED BY InitType, StepType, InitCard, StepCard, <1>1, PTL DEF Spec

\* A held assertion was signed by the card that its claim names.
THEOREM HeldByClaim == Spec => []HeldByClaimedCard
<1>1. CardInv => HeldByClaimedCard
  BY DEF CardInv
<1> QED BY InitType, StepType, InitCard, StepCard, <1>1, PTL DEF Spec

\* The cache never mixes the touches of two cards, provided the PIN is cached
\* for the session: with pin_cache = "never" it can (run core_never_swap).
THEOREM OneCard ==
    ASSUME PINCache = "session"
    PROVE  Spec => []OneCardHeld
<1>1. HeldUnderVerifiedPIN => OneCardHeld
  BY DEF HeldUnderVerifiedPIN, OneCardHeld
<1> QED BY HeldUnderPIN, <1>1, PTL
-----------------------------------------------------------------------------
(* The rolling mint window.  Local mints are dated before their touch and  *)
(* routed ones after it, and the clock may be set back, so records arrive  *)
(* in no order; the cap and one warning per window hold nevertheless.      *)

\* Whatever falls out of the window, the cap is applied to what is left.
LEMMA RingAfterCapped ==
    ASSUME NEW ring \in Seq(Mint), NEW rec \in Mint
    PROVE  RingAfter(ring, rec) \in Seq(Mint) /\ Len(RingAfter(ring, rec)) <= RingCap
<1> DEFINE all  == Append(ring, rec)
           K    == {i \in DOMAIN all : all[i].at > rec.at - RingWindow}
           kept == KeptAt(all, K)
<1>1. all \in Seq(Mint) /\ DOMAIN all = 1..Len(all)
  OBVIOUS
<1>2. K \in SUBSET (1..Len(all))
  BY <1>1
<1> HIDE DEF all, K
<1>3. kept \in Seq(Mint) /\ Len(kept) \in Nat
  <2>1. KeptAt(all, K) \in Seq(Mint)
    BY <1>1, <1>2, KeptAtElements, Zenon
  <2> QED BY <2>1
<1>4. kept = Recorded(ring, rec)
  BY DEF Recorded, all, K
<1> HIDE DEF kept
<1>5. RingCap \in Nat
  BY RingAssumption
<1>6. CASE Len(kept) - RingCap > 0
  <2>1. RingAfter(ring, rec) = SubSeq(kept, Len(kept) - RingCap + 1, Len(kept))
    BY <1>4, <1>6 DEF RingAfter
  <2>2. Len(kept) - RingCap + 1 \in 1..(Len(kept) + 1)
    BY <1>3, <1>5, <1>6
  <2> QED BY <1>3, <1>5, <1>6, <2>1, <2>2
<1>7. CASE ~(Len(kept) - RingCap > 0)
  <2>1. RingAfter(ring, rec) = kept
    BY <1>4, <1>7 DEF RingAfter
  <2> QED BY <1>3, <1>5, <1>7, <2>1
<1> QED BY <1>6, <1>7

\* What a step may do to the instants of the last warnings.
Spaced ==
    \A s \in Sessions :
        warnedAt[s] # 0 /\ warnedAt'[s] # 0 /\ warnedAt'[s] # warnedAt[s]
            => warnedAt'[s] - warnedAt[s] >= WarnWindow

\* One record, whatever its instant.
LEMMA RecordSpaces ==
    ASSUME RingOK, NEW at \in Nat, NEW session \in Sessions \cup {NoSession},
           NEW reused \in BOOLEAN, NEW forwarded \in BOOLEAN,
           RecordMint(at, session, reused, forwarded)
    PROVE  RingOK' /\ Spaced
<1> DEFINE rec  == [at |-> at, session |-> session,
                    reused |-> reused, forwarded |-> forwarded]
           ring == RingAfter(mintRing, rec)
<1>0. mintRing' \in Seq(Mint) /\ Len(mintRing') <= RingCap
  <2>1. rec \in Mint
    BY DEF Mint
  <2>2. mintRing' = ring
    BY DEF RecordMint
  <2> HIDE DEF rec
  <2> QED BY <2>1, <2>2, RingAfterCapped DEF RingOK
<1>1. warnedAt' = WarnedAfter(ring, warnedAt, rec) /\ warnedAt \in [Sessions -> Nat]
  BY DEF RecordMint, RingOK
<1>2. WarnWindow \in Nat /\ RingWindow \in Nat /\ NoSession \notin Sessions
  BY RingAssumption
<1>3. CASE session = NoSession
  BY <1>0, <1>1, <1>3 DEF WarnedAfter, RingOK, Spaced
<1>4. CASE session \in Sessions
  <2> DEFINE noted == IF WarnDue(ring, warnedAt, rec)
                      THEN [warnedAt EXCEPT ![session] = at] ELSE warnedAt
  <2>1. noted \in [Sessions -> Nat]
    BY <1>1, <1>4
  <2>2. warnedAt' = [s \in Sessions |->
                       IF noted[s] > at - RingWindow THEN noted[s] ELSE 0]
    BY <1>1, <1>2, <1>4 DEF WarnedAfter
  <2>3. RingOK'
    BY <1>0, <2>1, <2>2 DEF RingOK
  <2>4. WarnDue(ring, warnedAt, rec) =>
           warnedAt[session] = 0 \/ warnedAt[session] <= at - WarnWindow
    BY DEF WarnDue
  <2>5. ASSUME NEW s \in Sessions, warnedAt[s] # 0, warnedAt'[s] # 0,
               warnedAt'[s] # warnedAt[s]
        PROVE  warnedAt'[s] - warnedAt[s] >= WarnWindow
    <3>1. warnedAt'[s] = noted[s]
      BY <2>2, <2>5
    <3>2. s = session /\ WarnDue(ring, warnedAt, rec) /\ noted[s] = at
      BY <1>1, <2>5, <3>1
    <3>3. warnedAt[s] <= at - WarnWindow /\ warnedAt[s] \in Nat
      BY <1>1, <2>4, <2>5, <3>2
    <3> QED BY <1>2, <3>1, <3>2, <3>3
  <2> QED BY <2>3, <2>5 DEF Spaced
<1> QED BY <1>3, <1>4

\* A request in hand is of a session or of none.
LEMMA RequestSession ==
    ASSUME TypeInv, pc \in MintSteps
    PROVE  cur.key.session \in Sessions \cup {NoSession}
BY KeysAssumption DEF TypeInv, LocalsSet, Request, KeyType

LEMMA StepRing == TypeInv /\ RingOK /\ [Next]_vars => RingOK' /\ Spaced
<1> SUFFICES ASSUME TypeInv, RingOK, [Next]_vars PROVE RingOK' /\ Spaced
    OBVIOUS
<1>t. clock \in Nat /\ now \in Nat
  BY DEF TypeInv, TypeOK
<1>1. CASE UNCHANGED <<mintRing, warnedAt>>
  BY <1>1 DEF RingOK, Spaced
<1>2. CASE Confirm
  <2>1. CASE RecordMint(now, cur.key.session, TRUE, FALSE)
    <3>1. cur.key.session \in Sessions \cup {NoSession}
      BY <1>2, RequestSession DEF Confirm, MintSteps
    <3> QED BY <1>t, <2>1, <3>1, RecordSpaces
  <2> QED BY <1>1, <1>2, <2>1 DEF Confirm
<1>3. CASE InsertEntry
  <2>1. cur.key.session \in Sessions \cup {NoSession}
    BY <1>3, RequestSession DEF InsertEntry, MintSteps
  <2>2. RecordMint(now, cur.key.session, FALSE, FALSE)
    BY <1>3 DEF InsertEntry
  <2> QED BY <1>t, <2>1, <2>2, RecordSpaces
<1>4. ASSUME NEW s \in Serials, NEW n \in Sessions \cup {NoSession}, RoutedMint(s, n)
      PROVE  RingOK' /\ Spaced
  <2>1. RecordMint(clock, n, FALSE, TRUE)
    BY <1>4 DEF RoutedMint
  <2> QED BY <1>t, <2>1, RecordSpaces
<1>5. CASE Lookup \/ Probe \/ DropEntry \/ TakePIN \/ JTIFails \/ BeginPendingMint
  BY <1>1, <1>5 DEF Lookup, Probe, DropEntry, TakePIN, JTIFails, BeginPendingMint
<1>6. CASE SignReturns \/ RecordPINVerification \/ NewCacheEntry \/ EndPendingMint
  BY <1>1, <1>6 DEF SignReturns, RecordPINVerification, NewCacheEntry, EndPendingMint
<1>7. CASE UnlockVerify \/ UnlockCommit \/ DescribeForwardProvider \/ Lock
  BY <1>1, <1>7 DEF UnlockVerify, UnlockCommit, DescribeForwardProvider, Lock
<1>8. CASE Tick \/ ClockStepBack \/ UnplugCard \/ UNCHANGED vars
  BY <1>1, <1>8 DEF Tick, ClockStepBack, UnplugCard, vars
<1>9. CASE NotifierStep
  BY <1>1, <1>9 DEF NotifierStep, NotifierSweep, NotifierPoll, NotifierPurge,
                    NotifierArm, NotifierWakes
<1>10. ASSUME NEW id, NEW k, NEW w, Arrive(id, k, w) \/ AcquireMint(id)
       PROVE  RingOK' /\ Spaced
  BY <1>1, <1>10 DEF Arrive, AcquireMint
<1>11. ASSUME NEW s, PlugCard(s) PROVE RingOK' /\ Spaced
  BY <1>1, <1>11 DEF PlugCard
<1>12. ASSUME NEW w, NEW g, InvalidateWorkspace(w, g) PROVE RingOK' /\ Spaced
  BY <1>1, <1>12 DEF InvalidateWorkspace
<1> QED
  BY <1>2, <1>3, <1>4, <1>5, <1>6, <1>7, <1>8, <1>9, <1>10, <1>11, <1>12
     DEF Next, MintStep

LEMMA InitRing == Init => RingOK
<1>1. <<>> \in Seq(Mint) /\ Len(<<>>) = 0
  OBVIOUS
<1> QED BY <1>1, RingAssumption DEF Init, RingOK

\* The mint window holds records and stays within its cap.
THEOREM RingBounded == Spec => []RingOK
<1>1. TypeInv /\ RingOK /\ [Next]_vars => RingOK'
  BY StepRing
<1> QED BY InitType, StepType, InitRing, <1>1, PTL DEF Spec

\* A session is warned about at most once per warn window, in whatever order
\* the mints are recorded.
THEOREM OneWarning == Spec => OneWarningPerWindow
<1>2. TypeInv /\ RingOK /\ [Next]_vars => RingOK'
  BY StepRing
<1>3. TypeInv /\ RingOK /\ [Next]_vars => [Spaced]_vars
  BY StepRing
<1> QED
  BY InitType, StepType, InitRing, <1>2, <1>3, PTL DEF Spec, OneWarningPerWindow, Spaced
=============================================================================
