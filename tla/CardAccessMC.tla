---------------------------- MODULE CardAccessMC ----------------------------
(***************************************************************************)
(* Instances of CardAccess for TLC.                                        *)
(***************************************************************************)
EXTENDS CardAccess, TLC

\* Bound: more than one reader only while a single operation is active.
Active == {o \in Ops : op[o].pc # "idle" \/ scan[o].step # "idle"}

Narrow ==
    (Cardinality(Active) > 1) =>
        /\ ext \subseteq {1}
        /\ \A w \in Workers : open[w] <= 1 /\ scan[w].at <= 1
=============================================================================
