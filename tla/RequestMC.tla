----------------------------- MODULE RequestMC -----------------------------
(***************************************************************************)
(* An instance for TLC of one request's two ends: its way through the      *)
(* helper, the relay and the route (Route), and the acquisition of a card  *)
(* it comes down to (CardAccess), for one operation and under fairness.    *)
(* Route keeps of an acquisition only that it is over within a bound, and  *)
(* AcquireReturns is why it may; `part', fixed in Init, says which one     *)
(* moves.                                                                  *)
(***************************************************************************)
EXTENDS Route

CONSTANTS Ops, Calls, Diag, NumReaders, Exempt, HandoffWindow, HandoffCapacity, None

VARIABLES part, ext, open, scan, calls, probe, op, openSessions, handoffs, granted, kept

cvars == <<ext, open, scan, calls, probe, op, openSessions, handoffs, granted, kept>>

Card == INSTANCE CardAccess

\* Clocks one skew apart, and assertions held from a signature of 17 s and of
\* 17.5 s, the second near the end of the provider's reuse.
SkewApart == {-ClockSkew, ClockSkew}
HeldAssertions ==
    {[signed |-> -44, completed |-> -10, there |-> TRUE],
     [signed |-> -170, completed |-> -135, there |-> TRUE]}

MCInit ==
    /\ part \in {"route", "card"}
    /\ Init /\ (part # "route" => path = <<"helper">>)
    /\ Card!Init

MCNext ==
    \/ part = "route" /\ Next /\ UNCHANGED <<part, cvars>>
    \/ part = "card" /\ Card!Next /\ UNCHANGED <<part, rvars>>

MCSpec == MCInit /\ [][MCNext]_<<part, rvars, cvars>> /\ Card!Fairness

\* acquireCard returns, although PC/SC hangs (CardAccess).
AcquireReturns == Card!AcquireReturns

\* A session that arrives late is delivered or closed (CardAccess).
LateSessionEnds == Card!LateSessionEnds
=============================================================================
