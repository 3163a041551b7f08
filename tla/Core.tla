-------------------------------- MODULE Core --------------------------------
(***************************************************************************)
(* The daemon state machine of internal/core: the local mint pipeline of   *)
(* SubjectToken, the in-memory assertion reuse cache of reuse.go, the      *)
(* cached PIN, workspace invalidation and the notifier goroutine.          *)
(*                                                                         *)
(* mintMu serialises Unlock, Lock, DescribeForwardProvider and the local   *)
(* branch of SubjectToken: `pc' is where its holder stands, "free" when    *)
(* nobody holds it.  mu guards the cached state; each action below is one  *)
(* critical section of mu, or one step that runs with mu released, so that *)
(* invalidations, purges, the notifier, the clock and the card interleave  *)
(* with a mint exactly where the code lets them.                           *)
(***************************************************************************)
EXTENDS ReusePolicy

VARIABLES
    clock,              \* the wall clock
    card,               \* the enrolled YubiKey in the reader, or NoCard
    pin,                \* len(c.pin) # 0
    pinVerifiedSerial,
    mintRing, warnedAt, \* the rolling mint window (module MintRing)
    lastSign,           \* c.lastSign.Serial, NoCard when c.lastSign is nil
    cache,              \* c.cache: a set of entries, at most one per key
    invalidated,        \* workspace -> watermark, 0 when absent from the map
    pending,            \* pendingWorkspace and pendingGeneration
    waiting,            \* the requests queued on mintMu
    pc,                 \* where the holder of mintMu stands
    cur,                \* the request that holds mintMu
    held,               \* its `entry': the one looked up, then the one built
    now,                \* its `now': of the lookup, then of the signature
    sig,                \* what signer.Sign returned
    npc, nNow, nNames, nNext, timer, wake,  \* the notifier goroutine
    overlapped,         \* history: ids that a signature for their key overtook
    revoked             \* history: the mint in the card lost its claim

pinVars      == <<pin, pinVerifiedSerial>>
ringVars     == <<mintRing, warnedAt>>
claimVars    == <<invalidated, pending>>
mintVars     == <<waiting, pc, cur, held, now, sig>>
notifierVars == <<npc, nNow, nNames, nNext, timer, wake>>
historyVars  == <<overlapped, revoked>>
vars == <<clock, card, pinVars, ringVars, lastSign, cache, claimVars,
          mintVars, notifierVars, historyVars>>

-----------------------------------------------------------------------------
(* The critical sections that several operations share.                    *)

\* What an enumeration of the readers shows: names, never serials.
ReaderNames == IF card = NoCard THEN {} ELSE {ReaderName[card]}

\* A watermark refuses the key of a claim at or below it.
Watermarked(k) ==
    /\ k.ws # NoWorkspace
    /\ invalidated[k.ws] # 0
    /\ k.gen <= invalidated[k.ws]

PendingForgotten(ws) == {}      \* mutant: the mint in the card is not asked

\* The generation of the mint inside the card, when it is of workspace ws.
PendingGeneration(ws) == {g \in {pending.gen} : pending.ws = ws}

AnyCard(k) == TRUE              \* mutant: the claimed card is not compared

\* digestFor refuses a card other than the one the request claims.
ClaimedCard(k) == k.card \in {NoCard, card}

TrustsLookup(entry) == TRUE     \* mutant: no second look after the probe

\* Whether the cache still holds the entry a lookup returned.
StillHeld(entry) == \E e \in cache : SameEntry(e, entry)

\* A connection carries one request at a time.
InFlight(id) == \E q \in waiting \cup {cur} : q # NoRequest /\ q.id = id

NeverWakes(dropped) == UNCHANGED wake   \* mutant: the nudge is forgotten

\* wakeNotifier: a non-blocking send on a channel buffered by one, made by a
\* purge only when it dropped something.
WakeIf(dropped) == wake' = (wake \/ dropped)

\* Replaces the cache by a subset of itself.
PurgeTo(kept) == cache' = kept /\ WakeIf(kept # cache)

PurgeNothing == UNCHANGED <<cache, wake>>  \* mutant: the purge is forgotten
KeepOtherSerials(serial) == PurgeNothing   \* mutant: so is the one on a swap

PurgeAll == PurgeTo({})
PurgeOtherSerials(serial) == PurgeTo({e \in cache : e.serial = serial})

ClearPIN == pin' = FALSE /\ pinVerifiedSerial' = NoCard

\* recordMintLocked.
RecordMint(at, session, reused, forwarded) ==
    LET rec == [at |-> at, session |-> session,
                reused |-> reused, forwarded |-> forwarded]
    IN  /\ mintRing' = RingAfter(mintRing, rec)
        /\ warnedAt' = WarnedAfter(RingAfter(mintRing, rec), warnedAt, rec)

\* recordWatermarkLocked: only raises, and keeps the highest InvalidatedCap.
RecordWatermark(ws, g) ==
    IF invalidated[ws] >= g
    THEN UNCHANGED invalidated
    ELSE LET raised  == [invalidated EXCEPT ![ws] = g]
             present == {w \in Workspaces : raised[w] # 0}
         IN  \E kept \in SUBSET present :
                /\ KeepsHighest(present, kept, InvalidatedCap, raised)
                /\ invalidated' = [w \in Workspaces |->
                                      IF w \in kept THEN raised[w] ELSE 0]

\* insertLocked with evictLocked: oldest signature first.
InsertLocked(entry) ==
    LET all  == {e \in cache : e.key # entry.key} \cup {entry}
        born == [e \in all |-> e.completedAt]
    IN  \E kept \in SUBSET all :
            /\ KeepsHighest(all, kept, ReuseCacheCap, born)
            /\ cache' = kept

\* mutant: an error path returns without the deferred reset
EndPendingOnSuccess == pending' = IF sig.err = "none" THEN NoPending ELSE pending

\* endPendingMint.
EndPending == pending' = NoPending

\* The holder of mintMu returns: its locals go out of scope.
ReleaseMint ==
    /\ pc' = "free"
    /\ cur' = NoRequest
    /\ held' = NoEntry
    /\ now' = 0
    /\ sig' = NoSignature
    /\ overlapped' = {id \in overlapped : \E q \in waiting : q.id = id}

-----------------------------------------------------------------------------
(* The environment: wall clock and card.                                   *)

\* Time passes.  The clock saturates at MaxTime so that the state space is
\* finite; the notifier's timer keeps running there.
Tick ==
    /\ clock' = IF clock < MaxTime THEN clock + 1 ELSE clock
    /\ timer' = IF timer > 0 THEN timer - 1 ELSE 0
    /\ UNCHANGED <<card, pinVars, ringVars, lastSign, cache, claimVars,
                   mintVars, npc, nNow, nNames, nNext, wake, historyVars>>

\* The host's wall clock is set back; Go timers are not affected by it.
ClockStepBack ==
    /\ ClockMayStepBack
    /\ clock > 1
    /\ clock' = clock - 1
    /\ UNCHANGED <<card, pinVars, ringVars, lastSign, cache, claimVars,
                   mintVars, notifierVars, historyVars>>

PlugCard(s) ==
    /\ card = NoCard
    /\ card' = s
    /\ UNCHANGED <<clock, pinVars, ringVars, lastSign, cache, claimVars,
                   mintVars, notifierVars, historyVars>>

UnplugCard ==
    /\ card # NoCard
    /\ card' = NoCard
    /\ UNCHANGED <<clock, pinVars, ringVars, lastSign, cache, claimVars,
                   mintVars, notifierVars, historyVars>>

-----------------------------------------------------------------------------
(* SubjectToken, the local branch.                                         *)

\* A request that passed validation takes its arrival time, is granted its
\* window and queues on mintMu.  Only a forwarded mint carries a window.
Arrive(id, k, w) ==
    /\ ~InFlight(id)
    /\ k.ws = NoWorkspace => w.seconds = 0
    /\ WindowAllowed(w)
    /\ waiting' = waiting \cup
          {[id |-> id, key |-> k, arrival |-> clock, window |-> w,
            granted |-> GrantedWindow(w, clock)]}
    /\ UNCHANGED <<clock, card, pinVars, ringVars, lastSign, cache, claimVars,
                   pc, cur, held, now, sig, notifierVars, historyVars>>

\* The queue moves on; serveAuthorised reads the clock before it takes mu.
AcquireMint(id) ==
    /\ pc = "free"
    /\ \E q \in waiting :
          /\ q.id = id
          /\ waiting' = waiting \ {q}
          /\ cur' = q
    /\ now' = clock
    /\ pc' = "lookup"
    /\ UNCHANGED <<clock, card, pinVars, ringVars, lastSign, cache, claimVars,
                   held, sig, notifierVars, historyVars>>

\* serveAuthorised, first critical section.
Lookup ==
    /\ pc = "lookup"
    /\ \/ /\ \E e \in cache : Admissible(e, cur, now) /\ held' = e
          /\ pc' = "probe"
          /\ UNCHANGED now
       \/ /\ \A e \in cache : ~Admissible(e, cur, now)
          /\ pc' = "takePIN"
          /\ now' = 0
          /\ UNCHANGED held
    /\ UNCHANGED <<clock, card, pinVars, ringVars, lastSign, cache, claimVars,
                   waiting, cur, sig, notifierVars, historyVars>>

\* serveAuthorised calls cardUnchanged with mu released.  An enumeration that
\* fails counts as a change.
Probe ==
    /\ pc = "probe"
    /\ \/ held.readers = ReaderNames /\ pc' = "confirm"
       \/ pc' = "drop"
    /\ UNCHANGED <<clock, card, pinVars, ringVars, lastSign, cache, claimVars,
                   waiting, cur, held, now, sig, notifierVars,
                   historyVars>>

DropEntry ==
    /\ pc = "drop"
    /\ PurgeTo({e \in cache : e.key # cur.key})
    /\ pc' = "takePIN"
    /\ held' = NoEntry
    /\ now' = 0
    /\ UNCHANGED <<clock, card, pinVars, ringVars, lastSign, claimVars,
                   waiting, cur, sig, npc, nNow, nNames, nNext, timer,
                   historyVars>>

\* serveAuthorised, second critical section: serve, or find that a purge
\* overtook the probe.
Confirm ==
    /\ pc = "confirm"
    /\ \/ /\ StillHeld(held)
          /\ RecordMint(now, cur.key.session, TRUE, FALSE)
          /\ ReleaseMint
       \/ /\ ~StillHeld(held)
          /\ pc' = "takePIN"
          /\ held' = NoEntry
          /\ now' = 0
          /\ UNCHANGED <<ringVars, cur, sig, overlapped>>
    /\ UNCHANGED <<clock, card, pinVars, lastSign, cache, claimVars, waiting,
                   notifierVars, revoked>>

\* mutant: a locked daemon waits for Unlock while it holds mintMu
AwaitPIN ==
    /\ pc = "takePIN"
    /\ pin
    /\ IF PINCache = "never" THEN ClearPIN ELSE UNCHANGED pinVars
    /\ pc' = "begin"
    /\ UNCHANGED <<clock, card, ringVars, lastSign, cache, claimVars, waiting,
                   cur, held, now, sig, notifierVars, historyVars>>

TakePIN ==
    /\ pc = "takePIN"
    /\ \/ /\ ~pin                                   \* ErrLocked
          /\ ReleaseMint
          /\ UNCHANGED pinVars
       \/ /\ pin
          /\ IF PINCache = "never" THEN ClearPIN ELSE UNCHANGED pinVars
          /\ pc' = "begin"
          /\ UNCHANGED <<cur, held, now, sig, overlapped>>
    /\ UNCHANGED <<clock, card, ringVars, lastSign, cache, claimVars, waiting,
                   notifierVars, revoked>>

\* wif.NewJTI fails: the PIN has been taken and nothing has been signed.
JTIFails ==
    /\ pc = "begin"
    /\ ReleaseMint
    /\ UNCHANGED <<clock, card, pinVars, ringVars, lastSign, cache, claimVars,
                   waiting, notifierVars, revoked>>

\* The pre-sign `now', then beginPendingMint.
BeginPendingMint ==
    /\ pc = "begin"
    /\ now' = clock
    /\ pending' = [ws |-> cur.key.ws, gen |-> cur.key.gen]
    /\ revoked' = FALSE
    /\ pc' = "sign"
    /\ UNCHANGED <<clock, card, pinVars, ringVars, lastSign, cache,
                   invalidated, waiting, cur, held, sig, notifierVars,
                   overlapped>>

\* signer.Sign returns.  Every error is possible at any time: the lease, the
\* deadline, contention, a card that leaves.  A card is asked for its PIN only
\* after digestFor accepted it, and signs in that same session.
SignReturns ==
    /\ pc = "sign"
    /\ \/ sig' = NoSignature
       \/ /\ card # NoCard
          /\ ClaimedCard(cur.key)
          /\ \/ sig' = [serial |-> NoCard, err |-> "rejected"]
             \/ sig' = [serial |-> card, err |-> "failed"]
             \/ sig' = [serial |-> card, err |-> "none"]
    /\ pc' = "record"
    /\ UNCHANGED <<clock, card, pinVars, ringVars, lastSign, cache, claimVars,
                   waiting, cur, held, now, notifierVars, historyVars>>

RecordPINVerification ==
    /\ pc = "record"
    /\ \/ /\ sig.err = "rejected"
          /\ ClearPIN
          /\ PurgeAll
       \/ /\ sig.err # "rejected" /\ sig.serial # NoCard /\ pin
          /\ pinVerifiedSerial' = sig.serial
          /\ PurgeOtherSerials(sig.serial)
          /\ UNCHANGED pin
       \/ /\ sig.err # "rejected" /\ (sig.serial = NoCard \/ ~pin)
          /\ UNCHANGED <<pinVars, cache, wake>>
    /\ \/ sig.err = "none" /\ pc' = "build"
       \/ pc' = "end"              \* an error of Sign, or of wif.Assemble
    /\ UNCHANGED <<clock, card, ringVars, lastSign, claimVars, waiting, cur,
                   held, now, sig, npc, nNow, nNames, nNext, timer,
                   historyVars>>

\* completedAt, then newCacheEntry: it enumerates the readers with no lock
\* held and keeps nothing when that fails or nothing is configured to reuse.
NewCacheEntry ==
    /\ pc = "build"
    /\ \/ /\ SingleFlight \/ Reuse[cur.key.alias] > 0
          /\ held' = [key |-> cur.key,
                      completedAt |-> clock,
                      expiresAt |-> ExpiresAt(now, cur.key.alias),
                      serial |-> sig.serial,
                      readers |-> ReaderNames,
                      windowEndsAt |-> TouchFreeUntil(clock,
                                          Reuse[cur.key.alias], cur.granted),
                      notifiedPre |-> FALSE]
       \/ held' = NoEntry
    /\ overlapped' = overlapped \cup
          {q.id : q \in {p \in waiting : p.key = cur.key}}
    /\ pc' = "insert"
    /\ UNCHANGED <<clock, card, pinVars, ringVars, lastSign, cache, claimVars,
                   waiting, cur, now, sig, notifierVars, revoked>>

\* The last critical section of a mint: lastSign, the ring and insertLocked.
InsertEntry ==
    /\ pc = "insert"
    /\ lastSign' = sig.serial
    /\ RecordMint(now, cur.key.session, FALSE, FALSE)
    /\ \/ /\ held # NoEntry
          /\ ~Watermarked(cur.key)
          /\ InsertLocked(held)
          /\ pc' = "wake"
       \/ /\ held = NoEntry \/ Watermarked(cur.key)
          /\ UNCHANGED cache
          /\ pc' = "end"
    /\ UNCHANGED <<clock, card, pinVars, claimVars, waiting, cur, held,
                   now, sig, notifierVars, historyVars>>

\* wakeNotifier after an insert, then the deferred endPendingMint and the
\* release of mintMu; a failed signature takes only the deferred part.
EndPendingMint ==
    /\ pc \in {"wake", "end"}
    /\ WakeIf(pc = "wake")
    /\ EndPending
    /\ revoked' = FALSE
    /\ ReleaseMint
    /\ UNCHANGED <<clock, card, pinVars, ringVars, lastSign, cache,
                   invalidated, waiting, npc, nNow, nNames, nNext, timer>>

-----------------------------------------------------------------------------
(* The other operations.                                                   *)

\* SubjectToken, the routed branch: RouteSubjectToken holds no lock, and its
\* success is recorded in one critical section.  `at' is the provider's card.
RoutedMint(at, session) ==
    /\ lastSign' = at
    /\ RecordMint(clock, session, FALSE, TRUE)
    /\ UNCHANGED <<clock, card, pinVars, cache, claimVars, mintVars,
                   notifierVars, historyVars>>

\* Unlock takes mintMu and the card verifies the PIN.  A refused or failed
\* verification returns without changing anything.
UnlockVerify ==
    /\ pc = "free"
    /\ card # NoCard
    /\ pc' = "unlock"
    /\ sig' = [serial |-> card, err |-> "none"]
    /\ UNCHANGED <<clock, card, pinVars, ringVars, lastSign, cache, claimVars,
                   waiting, cur, held, now, notifierVars, historyVars>>

UnlockCommit ==
    /\ pc = "unlock"
    /\ pin' = TRUE
    /\ pinVerifiedSerial' = sig.serial
    /\ PurgeOtherSerials(sig.serial)
    /\ ReleaseMint
    /\ UNCHANGED <<clock, card, ringVars, lastSign, claimVars, waiting, npc,
                   nNow, nNames, nNext, timer, revoked>>

Lock ==
    /\ pc = "free"
    /\ ClearPIN
    /\ lastSign' = NoCard
    /\ PurgeAll
    /\ UNCHANGED <<clock, card, ringVars, claimVars, mintVars, npc, nNow,
                   nNames, nNext, timer, historyVars>>

\* DescribeForwardProvider only reads; it occupies mintMu and the card.
DescribeForwardProvider ==
    /\ \/ pc = "free" /\ pc' = "describe"
       \/ pc = "describe" /\ pc' = "free"
    /\ UNCHANGED <<clock, card, pinVars, ringVars, lastSign, cache, claimVars,
                   waiting, cur, held, now, sig, notifierVars, historyVars>>

\* InvalidateWorkspace takes mu and never mintMu.  "Every generation" is
\* recorded as the highest one seen: purged, or inside the card.
InvalidateWorkspace(ws, maxGeneration) ==
    LET doomed    == {e \in cache : Covers(ws, maxGeneration, e.key)}
        purgedGen == {e.key.gen : e \in doomed}
        seen      == {0} \cup purgedGen \cup PendingGeneration(ws)
    IN  /\ PurgeTo(cache \ doomed)
        /\ \E watermark \in IF maxGeneration # 0 THEN {maxGeneration} ELSE seen :
              /\ maxGeneration = 0 => \A g \in seen : g <= watermark
              /\ IF watermark # 0
                 THEN RecordWatermark(ws, watermark)
                 ELSE UNCHANGED invalidated
        /\ revoked' = \/ revoked
                       \/ /\ pc \in {"sign", "record", "build", "insert"}
                          /\ Covers(ws, maxGeneration, cur.key)
        /\ UNCHANGED <<clock, card, pinVars, ringVars, lastSign, pending,
                       mintVars, npc, nNow, nNames, nNext, timer, overlapped>>

-----------------------------------------------------------------------------
(* RunNotifier.                                                            *)

\* notifierSweep: notices, retirements and the next deadline, 0 for none, all
\* at the instant the caller read before this took mu.
NotifierSweep ==
    /\ npc = "sweep"
    /\ cache' = {Noticed(e, nNow) : e \in {f \in cache : ~Retired(f, nNow)}}
    /\ \/ cache' = {} /\ nNext' = 0
       \/ /\ cache' # {}
          /\ nNext' \in Due(cache', nNow)
          /\ \A d \in Due(cache', nNow) : nNext' <= d
    /\ nNow' = 0
    /\ npc' = "poll"
    /\ UNCHANGED <<clock, card, pinVars, ringVars, lastSign, claimVars,
                   mintVars, nNames, timer, wake, historyVars>>

\* cacheSize, then the enumeration of pollReaders with no lock held.  A failed
\* enumeration is told apart from every set of names.
NotifierPoll ==
    /\ npc = "poll"
    /\ IF cache = {}
       THEN npc' = "arm" /\ UNCHANGED nNames
       ELSE npc' = "purge" /\ nNames' \in {<<ReaderNames>>, <<>>}
    /\ UNCHANGED <<clock, card, pinVars, ringVars, lastSign, cache, claimVars,
                   mintVars, nNow, nNext, timer, wake, historyVars>>

\* mutant: an empty list is taken for a failed enumeration and ignored
KeptUnlessSwapped(e) == nNames \in {<<e.readers>>, <<{}>>}

\* pollReaders keeps an entry only while the names are those of its snapshot.
KeptByPoll(e) == nNames = <<e.readers>>

\* The critical section of pollReaders.
NotifierPurge ==
    /\ npc = "purge"
    /\ PurgeTo({e \in cache : KeptByPoll(e)})
    /\ nNames' = <<>>
    /\ npc' = "arm"
    /\ UNCHANGED <<clock, card, pinVars, ringVars, lastSign, claimVars,
                   mintVars, nNow, nNext, timer, historyVars>>

UnclampedDelay == IF nNext = 0 THEN IdleDelay ELSE nNext - clock   \* mutant

\* An hour without a deadline, and never less than nothing with one.
Delay ==
    IF nNext = 0 THEN IdleDelay
    ELSE IF nNext > clock THEN nNext - clock ELSE 0

\* timer.Reset(delay).
NotifierArm ==
    /\ npc = "arm"
    /\ timer' = Delay
    /\ nNext' = 0
    /\ npc' = "wait"
    /\ UNCHANGED <<clock, card, pinVars, ringVars, lastSign, cache, claimVars,
                   mintVars, nNow, nNames, wake, historyVars>>

\* The select: the timer or a nudge, and the clock for the next sweep.
NotifierWakes ==
    /\ npc = "wait"
    /\ \/ timer = 0 /\ UNCHANGED wake
       \/ wake /\ wake' = FALSE
    /\ timer' = 0
    /\ nNow' = clock
    /\ npc' = "sweep"
    /\ UNCHANGED <<clock, card, pinVars, ringVars, lastSign, cache, claimVars,
                   mintVars, nNames, nNext, historyVars>>

-----------------------------------------------------------------------------
(* The specification.                                                      *)

Init ==
    /\ clock = 1
    /\ card = NoCard
    /\ pin = FALSE
    /\ pinVerifiedSerial = NoCard
    /\ mintRing = <<>>
    /\ warnedAt = [s \in Sessions |-> 0]
    /\ lastSign = NoCard
    /\ cache = {}
    /\ invalidated = [w \in Workspaces |-> 0]
    /\ pending = NoPending
    /\ waiting = {}
    /\ pc = "free"
    /\ cur = NoRequest
    /\ held = NoEntry
    /\ now = 0
    /\ sig = NoSignature
    /\ npc = IF NotifierRuns THEN "sweep" ELSE "off"
    /\ nNow = IF NotifierRuns THEN clock ELSE 0
    /\ nNames = <<>>
    /\ nNext = 0
    /\ timer = 0
    /\ wake = FALSE
    /\ overlapped = {}
    /\ revoked = FALSE

MintStep ==
    \/ Lookup
    \/ Probe
    \/ DropEntry
    \/ Confirm
    \/ TakePIN
    \/ JTIFails
    \/ BeginPendingMint
    \/ SignReturns
    \/ RecordPINVerification
    \/ NewCacheEntry
    \/ InsertEntry
    \/ EndPendingMint

NotifierStep ==
    \/ NotifierSweep
    \/ NotifierPoll
    \/ NotifierPurge
    \/ NotifierArm
    \/ NotifierWakes

Next ==
    \/ Tick
    \/ ClockStepBack
    \/ \E s \in Serials : PlugCard(s)
    \/ UnplugCard
    \/ \E id \in Ids, k \in Keys, w \in Windows : Arrive(id, k, w)
    \/ \E id \in Ids : AcquireMint(id)
    \/ MintStep
    \/ \E s \in Serials, n \in Sessions \cup {NoSession} : RoutedMint(s, n)
    \/ UnlockVerify
    \/ UnlockCommit
    \/ Lock
    \/ DescribeForwardProvider
    \/ \E w \in Workspaces, g \in 0..MaxGen : InvalidateWorkspace(w, g)
    \/ NotifierStep

Spec == Init /\ [][Next]_vars

\* Fairness.  Every step of the daemon's own goroutines is taken eventually:
\* Sign returns within its 23 second bound, a Go mutex hands itself to a
\* starving waiter, a running timer fires.  Nothing is assumed of the card,
\* of clients, of invalidations or of the operator.
Fairness ==
    /\ WF_vars(Tick)
    /\ WF_vars(MintStep)
    /\ WF_vars(UnlockCommit)
    /\ WF_vars(pc = "describe" /\ DescribeForwardProvider)
    /\ WF_vars(NotifierStep)
    /\ \A id \in Ids : SF_vars(AcquireMint(id))

FairSpec == Spec /\ Fairness

-----------------------------------------------------------------------------
(* Safety.                                                                 *)

MintSteps ==
    {"lookup", "probe", "drop", "confirm", "takePIN", "begin", "sign",
     "record", "build", "insert", "wake", "end"}

\* The steps during which the mint is inside the card: between
\* beginPendingMint and endPendingMint.
InCard == {"sign", "record", "build", "insert", "wake", "end"}

\* Type invariant.  The mint window has its own, RingOK.
TypeOK ==
    /\ clock \in Nat \ {0}
    /\ card \in Serials \cup {NoCard}
    /\ pin \in BOOLEAN
    /\ pinVerifiedSerial \in Serials \cup {NoCard}
    /\ lastSign \in Serials \cup {NoCard}
    /\ cache \in SUBSET Entry
    /\ invalidated \in [Workspaces -> Nat]
    /\ pending \in [ws : Workspaces \cup {NoWorkspace}, gen : Nat]
    /\ waiting \in SUBSET Request
    /\ pc \in MintSteps \cup {"free", "unlock", "describe"}
    /\ cur \in Request \cup {NoRequest}
    /\ held \in Entry \cup {NoEntry}
    /\ now \in Nat
    /\ sig \in Signature
    /\ npc \in {"off", "sweep", "poll", "purge", "arm", "wait"}
    /\ nNow \in Nat
    /\ nNames \in {<<n>> : n \in SUBSET Names} \cup {<<>>}
    /\ nNext \in Int
    /\ timer \in Nat
    /\ wake \in BOOLEAN
    /\ overlapped \in SUBSET Ids
    /\ revoked \in BOOLEAN

\* The rolling mint window holds mint records and stays within mintRingCap, in
\* whichever order local, routed and reused mints reach recordMintLocked.
RingOK ==
    /\ mintRing \in Seq(Mint)
    /\ Len(mintRing) <= RingCap
    /\ warnedAt \in [Sessions -> Nat]

\* README, "A card swap": once a card authenticates, assertions held for any
\* other serial are dropped, so the cache never mixes the touches of two cards.
OneCardHeld == \A e, f \in cache : e.serial = f.serial

\* With pin_cache = "session" nothing is held that the currently verified PIN
\* and card do not stand behind: Lock, a rejected PIN and a swap all purge,
\* and no mint in flight can put an assertion back afterwards.
HeldUnderVerifiedPIN ==
    PINCache = "session" =>
        \A e \in cache : pin /\ e.serial = pinVerifiedSerial

\* A held assertion was signed by the card its requester claimed, however the
\* cards were swapped while the request was queued or being signed.
HeldByClaimedCard ==
    \A e \in cache : e.key.card \in {NoCard, e.serial}

\* No assertion is held for a claim generation that its workspace's recorded
\* watermark has invalidated.
NothingHeldBelowWatermark == \A e \in cache : ~Watermarked(e.key)

\* README, "A generation watermark closes the matching race": a mint inside
\* the card when its claim is invalidated leaves nothing held behind.
RevokedMintNotHeld ==
    revoked => \A e \in cache : e.key # cur.key

\* A purge is never undone by a mint that began before it: what the pending
\* pair tells an invalidation is the mint that is in the card, and only that.
PendingDescribesMint ==
    pending = IF pc \in InCard THEN [ws |-> cur.key.ws, gen |-> cur.key.gen]
              ELSE NoPending

\* The cache stays within reuseCacheCap entries, one per key.
CacheBounded ==
    /\ Cardinality(cache) <= ReuseCacheCap
    /\ \A e, f \in cache : e.key = f.key => e = f

\* The notifier never sleeps past what it must do.  While it waits with no
\* nudge under way, its timer ends no later than any deadline of any held
\* assertion and, on a clock that is never set back, within one poll interval,
\* whatever was inserted or purged between its sweep and its wait.
NotifierArmed ==
    npc = "wait" /\ ~wake /\ pc # "wake" /\ cache # {} =>
        /\ ~ClockMayStepBack => timer <= PollInterval
        /\ timer > 0 => \A e \in cache : \A d \in Deadlines(e) : clock + timer <= d

-----------------------------------------------------------------------------
(* Action properties.                                                      *)

\* The step that answers a request from the cache.
Serves == pc = "confirm" /\ pc' = "free"

\* An answer is never taken from an assertion whose claim has been invalidated
\* or whose PIN has been locked away, even when that happened after the lookup
\* and while the readers were being enumerated with mu released.
ServesOnlyHeld ==
    [][Serves => /\ \E e \in cache : SameEntry(e, held)
                 /\ ~Watermarked(cur.key)
                 /\ PINCache = "session" => held.serial = pinVerifiedSerial]_vars

\* README, "Two sequential requests never share a signature unless the alias
\* sets assertion_reuse_s above zero": a request answered outside an alias
\* window was in flight when that signature completed.  Readings of the same
\* clock unit do not order the two.
SequentialNeedsWindow ==
    [][Serves /\ ~Reusable(held, cur, now) =>
          cur.id \in overlapped \/ cur.arrival = held.completedAt]_vars

\* While the daemon holds a claim's assertion under a granted window, the
\* touch-free span ends with the grant: an entry that enters the cache reaches
\* neither past the alias window nor, when its mint was granted one, past the
\* grant, and a grant that ran out during the touch leaves no window at all.
GrantOnlyShortens ==
    [][\A e \in cache' \ cache : pc = "insert" /\ pc' = "wake" =>
          /\ e.windowEndsAt <= e.completedAt + Reuse[e.key.alias]
          /\ cur.granted # 0 /\ Windowed(e) => e.windowEndsAt <= cur.granted]_vars

\* A session is warned about at most once per warn window.
OneWarningPerWindow ==
    [][\A s \in Sessions :
          warnedAt[s] # 0 /\ warnedAt'[s] # 0 /\ warnedAt'[s] # warnedAt[s]
             => warnedAt'[s] - warnedAt[s] >= WarnWindow]_vars

-----------------------------------------------------------------------------
(* Liveness, under Fairness.                                               *)

\* Every request that reaches the queue is answered.
EveryRequestAnswered == \A id \in Ids : InFlight(id) ~> ~InFlight(id)

\* Windows and assertions that have ended do not stay held.
EndedIsRetired ==
    NotifierRuns => []<>(\A e \in cache :
                            /\ clock < e.expiresAt
                            /\ Windowed(e) => clock < e.windowEndsAt)

\* Once the reader stays empty, what a present card's snapshot was taken for
\* is dropped without any further request.
UnplugClosesWindows ==
    NotifierRuns /\ <>[](card = NoCard) => []<>(\A e \in cache : e.readers = {})
=============================================================================
