----------------------------- MODULE CardSlots -----------------------------
(***************************************************************************)
(* What internal/pivsigner promises about the sessions it opens, without   *)
(* saying how: a reader carries one session at a time, a session that was  *)
(* opened is either handed to one operation or dropped, and an operation   *)
(* that was handed one closes it.  CardAccess implements this.             *)
(***************************************************************************)
CONSTANTS Ops, Readers, NoReader

VARIABLES
    ext,      \* the readers that another program has
    pending,  \* the readers with a session that no operation has been handed
    held      \* operation -> the reader of its session, or NoReader

vars == <<ext, pending, held>>

Taken(r) == r \in ext \/ r \in pending \/ \E o \in Ops : held[o] = r

Init ==
    /\ ext = {}
    /\ pending = {}
    /\ held = [o \in Ops |-> NoReader]

ExtTake(r) ==
    /\ ~Taken(r)
    /\ ext' = ext \cup {r}
    /\ UNCHANGED <<pending, held>>

ExtRelease(r) ==
    /\ r \in ext
    /\ ext' = ext \ {r}
    /\ UNCHANGED <<pending, held>>

Open(r) ==
    /\ ~Taken(r)
    /\ pending' = pending \cup {r}
    /\ UNCHANGED <<ext, held>>

Deliver(o, r) ==
    /\ r \in pending
    /\ held[o] = NoReader
    /\ pending' = pending \ {r}
    /\ held' = [held EXCEPT ![o] = r]
    /\ UNCHANGED ext

Drop(r) ==
    /\ r \in pending
    /\ pending' = pending \ {r}
    /\ UNCHANGED <<ext, held>>

Close(o) ==
    /\ held[o] # NoReader
    /\ held' = [held EXCEPT ![o] = NoReader]
    /\ UNCHANGED <<ext, pending>>

Next ==
    \/ \E r \in Readers : ExtTake(r) \/ ExtRelease(r) \/ Open(r) \/ Drop(r)
    \/ \E o \in Ops, r \in Readers : Deliver(o, r)
    \/ \E o \in Ops : Close(o)

Spec == Init /\ [][Next]_vars
=============================================================================
