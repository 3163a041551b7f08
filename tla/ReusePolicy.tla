---------------------------- MODULE ReusePolicy ----------------------------
(***************************************************************************)
(* The configuration of internal/core as constants, the values its state   *)
(* is made of, and the pure decisions of reuse.go and window.go: which     *)
(* window a provider grants, how long one touch reaches, which held        *)
(* assertion may answer a request, and what the notifier does with it.     *)
(*                                                                         *)
(* Instants are wall-clock readings in abstract units (every c.now() is    *)
(* followed by .UTC(), which strips Go's monotonic reading).  Zero is Go's *)
(* zero Time.                                                              *)
(***************************************************************************)
EXTENDS MintRing

CONSTANTS
    Ids,             \* connections: each has at most one request in flight
    Keys,            \* the reuse keys (requester tuples) requests may carry
    Aliases,
    Serials,         \* the enrolled YubiKeys
    Workspaces,
    Windows,         \* authorisation windows a forwarded mint may ask for
    Reuse,           \* alias -> assertion_reuse_s
    Lifetime,        \* alias -> assertion_lifetime_s
    MaxGrantWindow,  \* max_grant_window_s
    PINCache,        \* pin_cache: "session" or "never"
    SingleFlight,    \* defaultSingleFlight
    ReaderName,      \* serial -> the reader name PC/SC shows for that card
    ClockSkew,       \* wif.ClockSkew, the backdating of iat
    ValidityFloor,   \* reuseValidityFloor
    NotifyLead,      \* reuseNotifyLead
    PollInterval,    \* readerPollInterval
    IdleDelay,       \* the notifier's timer when it has no deadline
    ReuseCacheCap,   \* reuseCacheCap
    InvalidatedCap,  \* invalidatedCap
    NotifierRuns,    \* whether serve has started RunNotifier
    ClockMayStepBack,\* whether the host's wall clock may be set back
    MaxGen,          \* bound: claim generations named by an invalidation
    MaxTime,         \* bound: the wall clock saturates here
    NoCard, NoWorkspace, NoRequest, NoEntry

-----------------------------------------------------------------------------
(* The values of the model.                                                *)

KeyType ==
    [alias : Aliases, session : Sessions \cup {NoSession},
     ws : Workspaces \cup {NoWorkspace}, gen : Nat,
     card : Serials \cup {NoCard}]

WindowType == [seconds : Nat, deadline : Nat]

ASSUME KeysAssumption ==
    /\ Keys \subseteq KeyType
    /\ NoWorkspace \notin Workspaces
    /\ NoCard \notin Serials
    /\ \A k \in Keys : k.ws # NoWorkspace => k.gen # 0

ASSUME ConfigAssumption ==
    /\ Reuse \in [Aliases -> Nat]
    /\ Lifetime \in [Aliases -> Nat]
    /\ \A a \in Aliases :
          Reuse[a] + ClockSkew + ValidityFloor <= Lifetime[a]
    /\ Windows \subseteq WindowType
    /\ MaxGrantWindow \in Nat
    /\ PINCache \in {"session", "never"}
    /\ SingleFlight \in BOOLEAN
    /\ NotifierRuns \in BOOLEAN
    /\ ClockMayStepBack \in BOOLEAN

ASSUME TimeAssumption ==
    /\ ClockSkew \in Nat
    /\ ValidityFloor \in Nat
    /\ NotifyLead \in Nat
    /\ PollInterval \in Nat
    /\ IdleDelay \in Nat
    /\ MaxTime \in Nat \ {0}

ASSUME BoundAssumption ==
    /\ ReuseCacheCap \in Nat
    /\ InvalidatedCap \in Nat
    /\ MaxGen \in Nat
    /\ IsFiniteSet(Workspaces)
    /\ IsFiniteSet(Keys)

Names == {ReaderName[s] : s \in Serials}

\* A request between its arrival and its answer: SubjectTokenRequest reduced
\* to its reuse key, plus the locals SubjectToken fixes before the queue.
Request ==
    [id : Ids, key : Keys, arrival : Nat, window : Windows, granted : Int]

\* cacheEntry.  The token, key ID and SPKI are data of the same signature and
\* are left out; notifiedExpired is set only on an entry being deleted.
Entry ==
    [key : Keys, completedAt : Nat, expiresAt : Int,
     serial : Serials \cup {NoCard}, readers : SUBSET Names,
     windowEndsAt : Int, notifiedPre : BOOLEAN]

\* What signer.Sign returned: the serial it reports (NoCard is 0: no PIN was
\* verified) and whether the error is a PINError that clears the cache.
Signature ==
    [serial : Serials \cup {NoCard}, err : {"none", "failed", "rejected"}]

ASSUME NullAssumption == NoRequest \notin Request /\ NoEntry \notin Entry

NoSignature == [serial |-> NoCard, err |-> "failed"]
NoPending   == [ws |-> NoWorkspace, gen |-> 0]

-----------------------------------------------------------------------------
(* Pure helpers.                                                           *)

\* grantedWindow: the instant the granted window ends, 0 when none applies.
\* A grant shorter than the request is anchored at the claim's own start.
GrantedWindow(window, t) ==
    LET granted  == IF window.seconds <= MaxGrantWindow
                    THEN window.seconds ELSE MaxGrantWindow
        deadline == (window.deadline - window.seconds) + granted
    IN  IF window.seconds > 0 /\ deadline > t THEN deadline ELSE 0

\* A window asked of a provider that grants none is refused with
\* WindowNotAllowedError before the request is queued.
WindowAllowed(window) == window.seconds = 0 \/ MaxGrantWindow > 0

\* mutant: a grant that ran out during the touch is taken for none
AliasAfterGrant(completedAt, aliasReuse, grantedDeadline) ==
    LET endsAt == completedAt + aliasReuse
    IN  IF grantedDeadline < completedAt \/ grantedDeadline >= endsAt THEN endsAt
        ELSE grantedDeadline

\* touchFreeUntil: the earlier of the alias window and the grant.
TouchFreeUntil(completedAt, aliasReuse, grantedDeadline) ==
    LET endsAt == completedAt + aliasReuse
    IN  IF grantedDeadline = 0 \/ grantedDeadline >= endsAt THEN endsAt
        ELSE IF grantedDeadline < completedAt THEN completedAt
        ELSE grantedDeadline

\* wif.NewClaims: iat is backdated by one skew, exp follows by the lifetime.
ExpiresAt(t, alias) == (t - ClockSkew) + Lifetime[alias]

CoalesceAlways(e, q) == SingleFlight   \* mutant: arrival is not compared

\* The test of serveAuthorised for serving e to q at time t.
Coalesced(e, q) == SingleFlight /\ e.completedAt >= q.arrival
Reusable(e, q, t) ==
    /\ Reuse[q.key.alias] > 0
    /\ t - e.completedAt <= Reuse[q.key.alias]
    /\ t < e.windowEndsAt
Admissible(e, q, t) ==
    /\ e.key = q.key
    /\ e.expiresAt - t >= ValidityFloor
    /\ Coalesced(e, q) \/ Reusable(e, q, t)

CoversBelow(ws, g, k) ==               \* mutant: the bound itself is spared
    k.ws = ws /\ (g = 0 \/ k.gen < g)

\* Whether a key is covered by an invalidation of workspace ws up to generation
\* g, where 0 stands for every generation.
Covers(ws, g, k) == k.ws = ws /\ (g = 0 \/ k.gen <= g)

\* The notifier's view of an entry.
Windowed(e) == e.windowEndsAt > e.completedAt

\* mutant: an entry that opened no window is never retired
RetiredWithWindow(e, t) == Windowed(e) /\ t >= e.windowEndsAt

Retired(e, t) ==
    \/ Windowed(e) /\ t >= e.windowEndsAt
    \/ t >= e.expiresAt

\* The early notice is still to come: a window no longer than the lead has none.
PreNotice(e) ==
    /\ Windowed(e)
    /\ ~e.notifiedPre
    /\ e.windowEndsAt - e.completedAt > NotifyLead

Noticed(e, t) ==
    IF PreNotice(e) /\ t >= e.windowEndsAt - NotifyLead
    THEN [e EXCEPT !.notifiedPre = TRUE]
    ELSE e

Deadlines(e) ==
    {e.expiresAt}
    \cup {d \in {e.windowEndsAt} : Windowed(e)}
    \cup {d \in {e.windowEndsAt - NotifyLead} : PreNotice(e)}

\* What a sweep at t that leaves these entries has to come back for.
Due(entries, t) ==
    {t + PollInterval} \cup (UNION {Deadlines(e) : e \in entries})

\* Pointer identity of entries: the notifier's flag does not change it.
SameEntry(e, f) ==
    [e EXCEPT !.notifiedPre = FALSE] = [f EXCEPT !.notifiedPre = FALSE]

\* mutant: the eviction loop stops one early
KeepsOneMore(all, kept, cap, rank) ==
    /\ Cardinality(kept) = IF Cardinality(all) > cap + 1 THEN cap + 1
                           ELSE Cardinality(all)
    /\ \A x \in all \ kept, y \in kept : rank[x] <= rank[y]

\* kept is what a loop leaves that drops the member with the least rank while
\* more than cap members remain (map order decides between equal ranks).
KeepsHighest(all, kept, cap, rank) ==
    /\ Cardinality(kept) = IF Cardinality(all) > cap THEN cap
                           ELSE Cardinality(all)
    /\ \A x \in all \ kept, y \in kept : rank[x] <= rank[y]
=============================================================================
