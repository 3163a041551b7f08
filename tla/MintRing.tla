------------------------------ MODULE MintRing ------------------------------
(***************************************************************************)
(* The rolling mint window of internal/core: what recordMintLocked does to *)
(* c.mintRing and c.warnedAt, as operators on their values.  Core calls    *)
(* them from the three places that complete a mint.                        *)
(***************************************************************************)
EXTENDS Subsequence

CONSTANTS
    Sessions,       \* agent-session identifiers
    NoSession,      \* the empty session ID of a request outside any session
    RingWindow,     \* mintRingWindow
    RingCap,        \* mintRingCap
    WarnWindow,     \* mintWarnWindow
    WarnThreshold   \* mintWarnThreshold

ASSUME RingAssumption ==
    /\ NoSession \notin Sessions
    /\ {RingWindow, RingCap, WarnWindow, WarnThreshold} \subseteq Nat
    /\ WarnWindow <= RingWindow

\* mintRecord.  The alias only labels counters and is left out.
Mint == [at : Nat, session : Sessions \cup {NoSession},
         reused : BOOLEAN, forwarded : BOOLEAN]

\* The ring with rec appended, without the records older than the window.
Recorded(ring, rec) ==
    LET all == Append(ring, rec)
    IN  KeptAt(all, {i \in DOMAIN all : all[i].at > rec.at - RingWindow})

RingUncapped(ring, rec) == Recorded(ring, rec)   \* mutant: the cap is not applied

\* The ring after rec: the front of the ring goes until the cap holds.
RingAfter(ring, rec) ==
    LET kept     == Recorded(ring, rec)
        overflow == Len(kept) - RingCap
    IN  IF overflow > 0 THEN SubSeq(kept, overflow + 1, Len(kept)) ELSE kept

\* How many mints of a session the ring shows after `since'.
RecentMints(ring, session, since) ==
    Cardinality({i \in DOMAIN ring :
                    ring[i].session = session /\ ring[i].at > since})

\* mutant: a warning does not silence the next one
WarnEveryMint(ring, warnedAt, rec) ==
    /\ rec.session # NoSession
    /\ RecentMints(ring, rec.session, rec.at - WarnWindow) >= WarnThreshold

\* Whether recording rec, which left `ring', logs a rate warning.
WarnDue(ring, warnedAt, rec) ==
    /\ rec.session # NoSession
    /\ RecentMints(ring, rec.session, rec.at - WarnWindow) >= WarnThreshold
    /\ warnedAt[rec.session] = 0 \/ warnedAt[rec.session] <= rec.at - WarnWindow

\* warnedAt after rec: session -> instant of its last warning, 0 when absent.
\* A record without a session returns before warnedAt is looked at or pruned.
WarnedAfter(ring, warnedAt, rec) ==
    LET noted == IF WarnDue(ring, warnedAt, rec)
                 THEN [warnedAt EXCEPT ![rec.session] = rec.at]
                 ELSE warnedAt
    IN  IF rec.session = NoSession
        THEN warnedAt
        ELSE [s \in Sessions |->
                IF noted[s] > rec.at - RingWindow THEN noted[s] ELSE 0]
=============================================================================
