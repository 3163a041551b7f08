------------------------------- MODULE Route --------------------------------
(***************************************************************************)
(* One request for a subject token, from the executable helper to the      *)
(* daemon that signs.  Each call on the way has its own deadline: the      *)
(* helper's (28 s), the agent-session relay's (26 s) and, when the card is *)
(* on another host, the origin daemon's over the ZKA route (25 s); a mint  *)
(* takes at most 23 s once it has the mint lock.  An answer travels back   *)
(* through all of them, and the origin judges what came over the route on  *)
(* a clock of its own.                                                     *)
(*                                                                         *)
(* Time is in half seconds.  It advances to the next instant at which      *)
(* something is due (Tick); what happens on the way happens at the instant *)
(* before.  Handlers take no time of their own: the time between two       *)
(* neighbours is that of a message, at most Transit for both directions of *)
(* a call.  ZKA is external: it carries requests, answers and              *)
(* cancellations, and may fail.                                            *)
(***************************************************************************)
EXTENDS Integers, Sequences, FiniteSetsExt

CONSTANTS
    Drifts,          \* how far the origin's clock may be ahead of the signer's
    OriginReuses,    \* assertion_reuse_s of the alias at the origin
    ProviderReuse,   \* assertion_reuse_s of the alias at the signing daemon
    Lifetime,        \* assertion_lifetime_s of the alias, at both
    Helds,           \* assertions the signing daemon may hold at the start
    Waits,           \* times a request may queue for the mint lock
    SignTimes        \* times a signature may take

VARIABLES
    now,       \* the signing daemon's clock
    path,      \* the calls of this request, outermost first
    drift,     \* the origin's clock less the signing daemon's
    reuse,     \* the origin's assertion_reuse_s
    call,      \* position on the path -> the call there
    signer,    \* the mint
    held,      \* the assertion the signing daemon holds for this key, or NoneHeld
    session    \* whether the agent session goes on

rvars == <<now, path, drift, reuse, call, signer, held, session>>

Second == 2
Transit == 1

ClockSkew == 30 * Second
ReuseValidityFloor == 60 * Second

HelperShort == 25 * Second    \* mutant: the helper gives up before the relay does
HelperTimeout == 28 * Second

UpstreamTight == 25 * Second  \* mutant: no slack above the route's client
UpstreamTimeout == 26 * Second

RouteTimeout == 25 * Second

\* One second for the lease, twenty for the hardware, two for the drain.
MintBound == 23 * Second

Timeout(client) ==
    CASE client = "helper" -> HelperTimeout
      [] client = "relay"  -> UpstreamTimeout
      [] client = "route"  -> RouteTimeout

\* What the configuration allows (an assertion lives for at least 300 s), a
\* signature within the bound of a mint, and assertions signed before the start.
ASSUME RouteAssumption ==
    /\ Drifts \subseteq Int
    /\ OriginReuses \subseteq Nat /\ ProviderReuse \in Nat
    /\ Lifetime \in Nat /\ Lifetime >= 300 * Second
    /\ Waits \subseteq Nat /\ SignTimes \subseteq 0..MintBound
    /\ \A h \in Helds :
          /\ h \in [signed : Int, completed : Int, there : {TRUE}]
          /\ h.signed <= h.completed /\ h.completed <= 0

\* pivb subject-token or the agent's helper, to a daemon with the card or to
\* one with a route.
Paths == {<<"helper">>, <<"helper", "route">>, <<"helper", "relay">>,
          <<"helper", "relay", "route">>}

Last == Len(path)
Routed == path[Last] = "route"
Positions == 1..3

Codes == {"OK", "ENV", "CONFIG", "ROUTE_REQUIRED", "WINDOW_NOT_ALLOWED", "LOCKED", "PIN",
          "SIGN", "CARD_FREE", "UNAVAILABLE"}

\* What a mint or a call ends with; of an assertion, when its claims were dated
\* and when its signature was complete.
Result == [code : Codes, signed : Int, completed : Int]

Failed(code) == [code |-> code, signed |-> 0, completed |-> 0]

\* A call: its step, when it began, how much of Transit it has used, how it
\* ended and with what.
Call == [step : {"idle", "out", "served", "back", "done"}, since : Nat, spent : 0..Transit,
         end : {"none", "answered", "timeout", "cancelled", "broken"}, result : Result]

NoCall == [step |-> "idle", since |-> 0, spent |-> 0, end |-> "none",
           result |-> Failed("UNAVAILABLE")]

NoneHeld == [signed |-> 0, completed |-> 0, there |-> FALSE]

Live(i) == call[i].step \in {"out", "served", "back"}
Due(i)  == call[i].since + Timeout(path[i])
InTransit(i) == call[i].step \in {"out", "back"}

Ends(i, end, result) ==
    call' = [call EXCEPT ![i].step = "done", ![i].end = end, ![i].result = result]

-----------------------------------------------------------------------------
(* The way there.                                                          *)

\* Who serves call i.
Server(i) == IF i = Last THEN "signer" ELSE path[i + 1]

\* The codes a handler answers with before it calls on: the relay compares
\* audience and target with its session, the origin daemon and the signing
\* daemon with their configuration.
Refusals(i) ==
    CASE Server(i) = "relay"  -> {"ENV"}
      [] Server(i) = "route"  -> {"CONFIG", "ROUTE_REQUIRED"}
      [] Server(i) = "signer" -> {"CONFIG", "CARD_FREE", "WINDOW_NOT_ALLOWED"}

\* The request arrives and its handler calls on.
CallOn(i) ==
    /\ call[i].step = "out"
    /\ i < Last
    /\ call' = [call EXCEPT ![i].step = "served",
                            ![i + 1] = [NoCall EXCEPT !.step = "out", !.since = now]]
    /\ UNCHANGED <<now, path, drift, reuse, signer, held, session>>

\* It arrives where the card is, and queues for the mint lock.
Queue(i) ==
    /\ call[i].step = "out"
    /\ i = Last
    /\ call' = [call EXCEPT ![i].step = "served"]
    /\ \E wait \in Waits :
          signer' = [signer EXCEPT !.step = "queued", !.arrival = now,
                                   !.due = now + wait, !.waited = wait]
    /\ UNCHANGED <<now, path, drift, reuse, held, session>>

Refuse(i) ==
    /\ call[i].step = "out"
    /\ \E code \in Refusals(i) :
          call' = [call EXCEPT ![i].step = "back", ![i].result = Failed(code)]
    /\ UNCHANGED <<now, path, drift, reuse, signer, held, session>>

-----------------------------------------------------------------------------
(* The signing daemon.                                                     *)

\* Another request for the same key has its signature while this one queues.
OtherMint ==
    /\ signer.step = "queued"
    /\ now < signer.due
    /\ held.there => held.completed < signer.arrival
    /\ \E d \in SignTimes :
          held' = [signed |-> signer.due - d, completed |-> signer.due, there |-> TRUE]
    /\ UNCHANGED <<now, path, drift, reuse, call, signer, session>>

\* serveAuthorised: by coalescing, or within the reuse window.
Serveable ==
    /\ held.there
    /\ held.signed - ClockSkew + Lifetime - now >= ReuseValidityFloor
    /\ held.completed >= signer.arrival \/ now - held.completed <= ProviderReuse

\* The lock is free: a held assertion, unless the reader has changed, which
\* drops it; else no PIN, or a signature.
Mint ==
    /\ signer.step = "queued"
    /\ now = signer.due
    /\ \/ /\ Serveable
          /\ signer' = [signer EXCEPT !.step = "done",
                            !.result = [code |-> "OK", signed |-> held.signed,
                                        completed |-> held.completed]]
          /\ UNCHANGED held
       \/ /\ \/ signer' = [signer EXCEPT !.step = "done", !.result = Failed("LOCKED")]
             \/ \E d \in SignTimes :
                   signer' = [signer EXCEPT !.step = "signing", !.arrival = now, !.due = now + d]
          /\ held' = IF Serveable THEN NoneHeld ELSE held
    /\ UNCHANGED <<now, path, drift, reuse, call, session>>

\* The signature is there, or the hardware fails.  The claims are dated by the
\* clock read before it was asked for.
Sign ==
    /\ signer.step = "signing"
    /\ now = signer.due
    /\ \/ /\ signer' = [signer EXCEPT !.step = "done",
                            !.result = [code |-> "OK", signed |-> signer.arrival,
                                        completed |-> now]]
          /\ held' = [signed |-> signer.arrival, completed |-> now, there |-> TRUE]
       \/ /\ \E code \in {"PIN", "SIGN"} :
                signer' = [signer EXCEPT !.step = "done", !.result = Failed(code)]
          /\ UNCHANGED held
    /\ UNCHANGED <<now, path, drift, reuse, call, session>>

\* The request's context has ended, and the signature is abandoned.
Abandon ==
    /\ signer.step = "signing"
    /\ call[Last].step = "done"
    /\ signer' = [signer EXCEPT !.step = "done", !.result = Failed("SIGN")]
    /\ UNCHANGED <<now, path, drift, reuse, call, held, session>>

-----------------------------------------------------------------------------
(* The way back.                                                           *)

StaleByOneSkew(r, started) ==   \* mutant: the signer's backdating is forgotten
    r.signed - ClockSkew >= started + drift - ClockSkew - reuse

AnyAge(r, started) == TRUE      \* mutant: iat is not compared with the start

\* RouteSubjectToken: iat is dated one skew back, and one more is allowed for
\* an origin whose clock is ahead; an assertion may be as old as the reuse this
\* origin configures.
NotBefore(r, started) == r.signed - ClockSkew >= started + drift - 2 * ClockSkew - reuse

FreshEnough(r, started) ==
    /\ r.signed - ClockSkew + Lifetime > now + drift
    /\ NotBefore(r, started)
    /\ r.signed - ClockSkew <= now + drift + ClockSkew

\* The origin's checks of a response: card, signature, enrolment, claims,
\* lifetime and envelope agree or not (external), then freshness.  All of them
\* report PIVB_CONFIG.
Judgements(i) ==
    LET r == call[i].result
    IN  IF path[i] # "route" \/ r.code # "OK" THEN {r}
        ELSE {[r EXCEPT !.code = "CONFIG"]}
             \cup (IF FreshEnough(r, call[i].since) THEN {r} ELSE {})

CodeLost(r) ==                  \* mutant: an upstream code is reported as a failed signature
    IF r.code = "OK" THEN r ELSE Failed("SIGN")

\* mapForwardError, mapRouteError, writeCoreError and the relay's writeError
\* hand an APIError on as it is.
Relayed(r) == r

Inner(i) == IF i = Last THEN signer.result ELSE call[i + 1].result

Replies(i) ==
    /\ call[i].step = "served"
    /\ IF i = Last THEN signer.step = "done" ELSE call[i + 1].step = "done"

Reply(i) ==
    /\ Replies(i)
    /\ call' = [call EXCEPT ![i].step = "back", ![i].result = Relayed(Inner(i))]
    /\ UNCHANGED <<now, path, drift, reuse, signer, held, session>>

\* The client of call i has its answer.
Arrive(i) ==
    /\ call[i].step = "back"
    /\ \E r \in Judgements(i) : Ends(i, "answered", r)
    /\ UNCHANGED <<now, path, drift, reuse, signer, held, session>>

\* Its time is up: a transport error, reported as PIVB_UNAVAILABLE by the
\* helpers, the relay and mapRouteError alike.
GiveUp(i) ==
    /\ Live(i)
    /\ now = Due(i)
    /\ Ends(i, "timeout", Failed("UNAVAILABLE"))
    /\ UNCHANGED <<now, path, drift, reuse, signer, held, session>>

\* The route breaks, or answers with what is not the protocol.
RouteBreaks(i) ==
    /\ path[i] = "route"
    /\ Live(i)
    /\ \E code \in {"UNAVAILABLE", "CONFIG"} : Ends(i, "broken", Failed(code))
    /\ UNCHANGED <<now, path, drift, reuse, signer, held, session>>

\* The request context of the handler that made call i has ended: its own
\* client has gone, or the session has.
Cancelled(i) ==
    /\ i > 1
    /\ call[i - 1].step = "done" \/ (path[i] = "relay" /\ ~session)

Cancel(i) ==
    /\ Live(i)
    /\ Cancelled(i)
    /\ Ends(i, "cancelled", Failed("UNAVAILABLE"))
    /\ UNCHANGED <<now, path, drift, reuse, signer, held, session>>

SessionEnds ==
    /\ session
    /\ "relay" \in {path[i] : i \in 1..Last}
    /\ call[1].step # "done"
    /\ session' = FALSE
    /\ UNCHANGED <<now, path, drift, reuse, call, signer, held>>

-----------------------------------------------------------------------------
Instants ==
    {Due(i) : i \in {j \in 1..Last : Live(j)}}
    \cup (IF signer.step \in {"queued", "signing"} /\ signer.due > now THEN {signer.due} ELSE {})
    \cup {now + Transit : i \in {j \in 1..Last : InTransit(j)}}

\* Nothing that takes no time is left to do, and no message is late.
MayWait ==
    /\ Instants # {}
    /\ now \notin Instants
    /\ ~(signer.step \in {"queued", "signing"} /\ signer.due = now)
    /\ \A i \in 1..Last :
          /\ ~Replies(i)
          /\ ~(Live(i) /\ Cancelled(i))
          /\ InTransit(i) => call[i].spent = 0

Tick ==
    /\ MayWait
    /\ now' = Min(Instants)
    /\ call' = [i \in Positions |->
                   IF i \in 1..Last /\ InTransit(i) THEN [call[i] EXCEPT !.spent = Transit]
                   ELSE call[i]]
    /\ UNCHANGED <<path, drift, reuse, signer, held, session>>

Init ==
    /\ now = 0
    /\ path \in Paths
    /\ drift \in (IF Routed THEN Drifts ELSE {0})
    /\ reuse \in (IF Routed THEN OriginReuses ELSE {0})
    /\ held \in (IF Routed THEN Helds ELSE {}) \cup {NoneHeld}
    /\ call = [i \in Positions |-> IF i = 1 THEN [NoCall EXCEPT !.step = "out"] ELSE NoCall]
    /\ signer = [step |-> "idle", arrival |-> 0, due |-> 0, waited |-> 0,
                 result |-> Failed("UNAVAILABLE")]
    /\ session = TRUE

Next ==
    \/ Tick \/ OtherMint \/ Mint \/ Sign \/ Abandon \/ SessionEnds
    \/ \E i \in 1..Last :
          \/ CallOn(i) \/ Queue(i) \/ Refuse(i) \/ Reply(i) \/ Arrive(i)
          \/ GiveUp(i) \/ RouteBreaks(i) \/ Cancel(i)

Spec == Init /\ [][Next]_rvars

-----------------------------------------------------------------------------
(* Properties.                                                             *)

\* "One second above the 25-second forwarded-provider client, and two seconds
\* below the executable/helper clients": no call on the way is cut short by the
\* deadline of an outer one, only by the end of the session, and a mint that
\* has the lock soon enough answers before anybody's deadline.
InnerAnswersFirst ==
    /\ \A i \in 2..Last : call[i].end = "cancelled" => ~session
    /\ signer.waited + MintBound + Transit < RouteTimeout => call[Last].end # "timeout"

\* README, "Structured PIVB error codes, including PIVB_LOCKED and
\* PIVB_UNAVAILABLE, survive the extra hop": the helper reports what the
\* innermost call ended with, and what the signing daemon answered unless the
\* route failed or the origin rejected a token.
CodeSurvives ==
    session /\ call[1].step = "done" /\ call[Last].step = "done" =>
        /\ call[1].result = call[Last].result
        /\ call[Last].end = "answered" /\ signer.step = "done" =>
              call[1].result.code \in
                  {signer.result.code} \cup (IF signer.result.code = "OK" THEN {"CONFIG"} ELSE {})

\* The clocks of origin and signer are no further apart than both allow for.
ClocksAgree == -ClockSkew <= drift /\ drift <= ClockSkew

\* The freshness check does not refuse what it is meant to let through, with
\* clocks no more than one skew apart: an assertion signed for this request,
\* and, of two sides with the same reuse, one the provider was entitled to
\* reuse, as long as the time its signature took fits into what the origin's
\* clock leaves of the second skew (core.go:695-707).
FreshAccepted ==
    Routed /\ ClocksAgree /\ call[Last].step = "back" /\ call[Last].result.code = "OK" =>
        LET r == call[Last].result
        IN  \/ FreshEnough(r, call[Last].since)
            \/ /\ r.signed < call[Last].since
               /\ ProviderReuse > reuse \/ drift + (r.completed - r.signed) > ClockSkew

\* What the origin accepts was dated no longer before its request than two
\* skews and its own reuse, in the signer's time, whatever the provider's
\* configuration and the clocks, as long as those are one skew apart.
AcceptedBounded ==
    Routed /\ ClocksAgree /\ call[Last].step = "done" /\ call[Last].result.code = "OK" =>
        call[Last].result.signed >= call[Last].since - 2 * ClockSkew - reuse
=============================================================================
