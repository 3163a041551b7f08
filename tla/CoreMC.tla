------------------------------- MODULE CoreMC -------------------------------
(***************************************************************************)
(* Instances of Core for TLC.  Each group of definitions belongs to one    *)
(* configuration file; the cfg names the values it uses.                   *)
(***************************************************************************)
EXTENDS Core, TLC

CONSTANTS a1, a2, s1, s2, w1, w2, n1

Key(alias, session, ws, gen, c) ==
    [alias |-> alias, session |-> session, ws |-> ws, gen |-> gen, card |-> c]

NoWindow == [seconds |-> 0, deadline |-> 0]
OnlyNoWindow == {NoWindow}

\* Claims: one workspace at two generations and a second workspace.
ClaimKeys == {Key(a1, NoSession, w1, 1, s1), Key(a1, NoSession, w1, 2, s1),
              Key(a1, NoSession, w2, 1, s1)}
OneClaimKey == {Key(a1, n1, w1, 1, s1)}

\* Cards: a local request that any card may sign and one bound to a claim.
CardKeys == {Key(a1, NoSession, NoWorkspace, 0, NoCard),
             Key(a2, NoSession, w1, 1, s1)}
LocalKeys == {Key(a1, NoSession, NoWorkspace, 0, NoCard),
              Key(a2, NoSession, NoWorkspace, 0, NoCard)}
OneLocalKey == {Key(a1, n1, NoWorkspace, 0, NoCard)}

\* Windows: none, and a three-unit window that a provider maximum shortens.
GrantWindows == {NoWindow, [seconds |-> 3, deadline |-> 4]}

ReuseNone    == [a \in Aliases |-> 0]
ReuseOne     == [a \in Aliases |-> 1]
ReuseOneOnly == [a \in Aliases |-> IF a = a1 THEN 1 ELSE 0]
ReuseTwo     == [a \in Aliases |-> 2]
LifetimeTwo  == [a \in Aliases |-> 2]
LifetimeThree == [a \in Aliases |-> 3]
LifetimeFour == [a \in Aliases |-> 4]
LifetimeFive == [a \in Aliases |-> 5]

\* KeptAt, by positions, is the filtering loop of recordMintLocked: what
\* SelectSeq computes element by element, on every sequence up to length five.
ASSUME KeptIsSelected ==
    \A n \in 0..5 : \A s \in [1..n -> 1..3], c \in 0..3 :
        KeptAt(s, {i \in DOMAIN s : s[i] > c}) = SelectSeq(s, LAMBDA x : x > c)

SameReader == [s \in Serials |-> "reader"]

IdSymmetry == Permutations(Ids)
=============================================================================
