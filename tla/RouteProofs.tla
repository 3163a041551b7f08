---------------------------- MODULE RouteProofs ----------------------------
(***************************************************************************)
(* Proofs about the way of one request, for every path, queue, signature   *)
(* time, clock and configuration: the deadlines of the nested calls fit    *)
(* into one another, codes come back unchanged, and the freshness check    *)
(* accepts and refuses what it should.                                     *)
(***************************************************************************)
EXTENDS Route, WellFoundedInduction, TLAPS

Signer == [step : {"idle", "queued", "signing", "done"}, arrival : Int, due : Int,
           waited : Nat, result : Result]

Held == [signed : Int, completed : Int, there : BOOLEAN]

Types ==
    /\ now \in Nat
    /\ path \in Paths
    /\ drift \in Int
    /\ reuse \in Nat
    /\ call \in [Positions -> Call]
    /\ signer \in Signer
    /\ held \in Held
    /\ session \in BOOLEAN

\* A call is made by a handler that is serving one, no later than the way
\* there took.  As long as the session goes on a call outlives the calls made
\* for it, and hands on what they ended with.
Linked(i) ==
    /\ call[i].step \in {"idle", "out"} => call[i + 1].step = "idle"
    /\ call[i].step = "served" => call[i + 1].step # "idle"
    /\ call[i + 1].step # "idle" => call[i + 1].since <= call[i].since + call[i].spent
    /\ session /\ Live(i + 1) => call[i].step = "served"
    /\ session /\ call[i].step \in {"back", "done"} /\ call[i + 1].step # "idle" =>
          call[i + 1].step = "done" /\ call[i].result = call[i + 1].result

\* How far time may have got in a call: a message takes no longer than Transit,
\* and the inner call is over by its own deadline.
InTime(i) ==
    /\ call[i].step # "done" => call[i].end = "none"
    /\ Live(i) => call[i].since <= now
    /\ call[i].step = "out" => now <= call[i].since + call[i].spent
    /\ Live(i) => now <= IF i = Last THEN Due(i)
                         ELSE call[i].since + call[i].spent + Timeout(path[i + 1])

\* The same for the call that waits for the mint.
Arrived == call[Last].since + call[Last].spent

Minting ==
    /\ call[Last].step \in {"idle", "out"} => signer.step = "idle"
    /\ call[Last].step = "served" => signer.step # "idle"
    /\ signer.step \in {"queued", "signing"} =>
          /\ now <= signer.due
          /\ call[Last].since <= signer.arrival /\ signer.arrival <= now
    /\ signer.step = "queued" => signer.due <= Arrived + signer.waited
    /\ signer.step = "signing" => signer.due <= Arrived + signer.waited + MintBound
    /\ (call[Last].step = "served" /\ signer.step = "done") \/ call[Last].step = "back" =>
          now <= Arrived + signer.waited + MintBound
    /\ signer.waited + MintBound + Transit < RouteTimeout => call[Last].end # "timeout"

\* An assertion that a mint hands out for this request: signed for it, or
\* while it waited, or not longer ago than the provider's reuse, with the
\* validity that reuse needs.
Entitled(r) ==
    /\ r.signed <= r.completed /\ r.completed <= now
    /\ \/ r.signed >= call[Last].since
       \/ /\ r.completed >= call[Last].since - ProviderReuse
          /\ r.signed - ClockSkew + Lifetime >= call[Last].since + ReuseValidityFloor

\* What is held, what the mint ended with, and what became of it.
Answers ==
    /\ held.there =>
          /\ held.signed <= held.completed
          /\ held.completed <= now \/ (signer.step = "queued" /\ held.completed <= signer.due)
    /\ signer.step = "done" /\ signer.result.code = "OK" => Entitled(signer.result)
    /\ call[Last].step = "back" =>
          \/ signer.step = "idle" /\ call[Last].result.code # "OK"
          \/ signer.step = "done" /\ call[Last].result = signer.result
    /\ call[Last].end = "answered" =>
          \/ signer.step = "idle"
          \/ /\ signer.step = "done"
             /\ call[Last].result.code \in
                   {signer.result.code} \cup (IF signer.result.code = "OK" THEN {"CONFIG"} ELSE {})

RouteInv ==
    /\ Types
    /\ \A i \in 1..(Last - 1) : Linked(i)
    /\ \A i \in 1..Last : InTime(i)
    /\ Minting
    /\ Answers
    /\ \A i \in 2..Last : call[i].end = "cancelled" => ~session
    /\ AcceptedBounded
-----------------------------------------------------------------------------
(* Paths, deadlines and records.                                           *)

\* What is only used of the four paths: how long they are, that a route comes
\* last, and that a deadline leaves room for the next one and for the message.
LEMMA PathFacts ==
    ASSUME path \in Paths
    PROVE  /\ Last \in 1..3
           /\ \A i \in 1..Last : Timeout(path[i]) \in Nat /\ RouteTimeout <= Timeout(path[i])
           /\ \A i \in 1..(Last - 1) :
                 /\ path[i] # "route" /\ path[i + 1] \in {"relay", "route"}
                 /\ Timeout(path[i + 1]) + Transit < Timeout(path[i])
           /\ Routed => Timeout(path[Last]) = RouteTimeout
<1> USE DEF Last, Routed, Timeout, HelperTimeout, UpstreamTimeout, RouteTimeout, Second, Transit
<1>1. CASE path = <<"helper">>
  BY <1>1
<1>2. CASE path = <<"helper", "route">>
  BY <1>2
<1>3. CASE path = <<"helper", "relay">>
  BY <1>3
<1>4. CASE path = <<"helper", "relay", "route">>
  BY <1>4
<1> QED BY <1>1, <1>2, <1>3, <1>4 DEF Paths

LEMMA CallFields ==
    ASSUME Types, NEW i \in Positions
    PROVE  /\ call[i] \in Call
           /\ call[i].step \in {"idle", "out", "served", "back", "done"}
           /\ call[i].since \in Nat /\ call[i].spent \in {0, 1}
           /\ call[i].end \in {"none", "answered", "timeout", "cancelled", "broken"}
           /\ call[i].result \in Result
<1>1. call[i] \in Call
  BY DEF Types
<1> QED BY <1>1 DEF Call, Transit

LEMMA SignerFields ==
    ASSUME Types
    PROVE  /\ signer.step \in {"idle", "queued", "signing", "done"}
           /\ signer.arrival \in Int /\ signer.due \in Int /\ signer.waited \in Nat
           /\ signer.result \in Result
           /\ signer.result.signed \in Int /\ signer.result.completed \in Int
           /\ signer.result.code \in Codes
           /\ held.signed \in Int /\ held.completed \in Int /\ held.there \in BOOLEAN
<1>1. signer \in Signer /\ held \in Held
  BY DEF Types
<1>2. signer.result \in Result
  BY <1>1 DEF Signer
<1>3. /\ signer.result.signed \in Int /\ signer.result.completed \in Int
      /\ signer.result.code \in Codes
  BY <1>2 DEF Result
<1> QED BY <1>1, <1>2, <1>3 DEF Signer, Held

LEMMA FailedType == \A code \in Codes : Failed(code) \in Result /\ Failed(code).code = code
BY DEF Failed, Result

\* Every position of the path is a position.
LEMMA OnPath ==
    ASSUME Types
    PROVE  /\ Last \in 1..3
           /\ \A i \in 1..Last : i \in Positions
           /\ \A i \in 1..(Last - 1) : i \in 1..Last /\ i + 1 \in 1..Last
BY PathFacts DEF Types, Positions

\* The way of one call goes on.
Becomes(i, c) ==
    /\ call' = [call EXCEPT ![i] = c]
    /\ c \in Call
    /\ c.step \in {"served", "back", "done"}
    /\ c.since = call[i].since /\ c.spent = call[i].spent
    /\ c.step # "done" => c.end = "none"

LEMMA BecomesCall ==
    ASSUME Types, NEW i \in Positions, NEW c, Becomes(i, c)
    PROVE  /\ call' \in [Positions -> Call] /\ call'[i] = c
           /\ \A j \in Positions \ {i} : call'[j] = call[j]
BY DEF Types, Becomes

LEMMA LiveSame ==
    ASSUME NEW i, call'[i] = call[i] PROVE Live(i)' <=> Live(i)
BY DEF Live

\* A call that goes on disturbs neither the call it was made for nor its own
\* time; the caller shows what it does to the call made for it.
LEMMA CallStepKeeps ==
    ASSUME RouteInv, NEW i \in 1..Last, NEW c, Becomes(i, c), Live(i),
           UNCHANGED <<now, path, drift, reuse, session>>,
           i < Last => Linked(i)'
    PROVE  /\ call' \in [Positions -> Call]
           /\ \A j \in 1..(Last - 1) : Linked(j)'
           /\ \A j \in 1..Last : InTime(j)'
<1> USE OnPath DEF RouteInv
<1>1. /\ call' \in [Positions -> Call] /\ call'[i] = c
      /\ \A j \in Positions \ {i} : call'[j] = call[j]
  BY BecomesCall
<1>2. ASSUME NEW j \in 1..(Last - 1) PROVE Linked(j)'
  <2>1. CASE j = i
    BY <2>1
  <2>2. CASE j + 1 = i
    <3>1. Linked(j) /\ call'[j] = call[j] /\ j \in Positions
      BY <1>1, <2>2
    <3>2. call[i].step \in {"out", "served", "back"}
      BY DEF Live
    <3> QED BY <1>1, <2>2, <3>1, <3>2 DEF Linked, Live, Becomes
  <2>3. CASE j # i /\ j + 1 # i
    <3>1. Linked(j) /\ call'[j] = call[j] /\ call'[j + 1] = call[j + 1]
      BY <1>1, <2>3
    <3> QED BY <3>1 DEF Linked, Live
  <2> QED BY <2>1, <2>2, <2>3
<1>3. ASSUME NEW j \in 1..Last PROVE InTime(j)'
  <2>0. InTime(j) /\ Last' = Last
    BY DEF Last
  <2>1. CASE j = i
    BY <1>1, <2>0, <2>1 DEF InTime, Live, Due, Becomes
  <2>2. CASE j # i
    BY <1>1, <2>0, <2>2 DEF InTime, Live, Due
  <2> QED BY <2>1, <2>2
<1> QED BY <1>1, <1>2, <1>3
\* A step of an outer call leaves the mint and the last call as they are.
LEMMA OuterStepKeeps ==
    ASSUME RouteInv, NEW i \in 1..Last, i < Last, NEW c, Becomes(i, c), Live(i),
           UNCHANGED <<now, path, drift, reuse, session, signer, held>>,
           Linked(i)', c.end = "cancelled" => call[i].end = "cancelled" \/ ~session
    PROVE  RouteInv'
<1> USE OnPath DEF RouteInv
<1>1. /\ call' \in [Positions -> Call] /\ call'[i] = c
      /\ \A j \in Positions \ {i} : call'[j] = call[j]
  BY BecomesCall
<1>2. call'[Last] = call[Last] /\ Last' = Last /\ Last \in Positions
  BY <1>1 DEF Last
<1>3. Types'
  BY <1>1 DEF Types
<1>4. Minting' /\ Answers' /\ AcceptedBounded'
  BY <1>2 DEF Minting, Answers, AcceptedBounded, Arrived, Entitled, Routed, ClocksAgree
<1>5. \A j \in 2..Last : call'[j].end = "cancelled" => ~session
  BY <1>1, <1>2
<1> QED BY <1>2, <1>3, <1>4, <1>5, CallStepKeeps

\* Nobody's deadline comes before that of the calls made for it.
LEMMA OuterWaits ==
    ASSUME RouteInv, NEW i \in 1..(Last - 1), Live(i)
    PROVE  now < Due(i)
<1>1. i \in Positions /\ i + 1 \in Positions /\ Types /\ InTime(i) /\ i # Last
  BY OnPath DEF RouteInv
<1>2. Timeout(path[i + 1]) + 1 < Timeout(path[i]) /\ Timeout(path[i + 1]) \in Nat
      /\ Timeout(path[i]) \in Nat
  BY <1>1, PathFacts, OnPath DEF Types, Transit
<1>3. call[i].since \in Nat /\ call[i].spent \in {0, 1} /\ now \in Nat
  BY <1>1, CallFields DEF Types
<1> QED BY <1>1, <1>2, <1>3 DEF InTime, Due

\* While the session goes on, nothing that is under way has lost its client.
LEMMA NoneCancelled ==
    ASSUME RouteInv, NEW i \in 1..Last, Live(i), Cancelled(i)
    PROVE  ~session
<1>1. i > 1 /\ i - 1 \in 1..(Last - 1) /\ (i - 1) + 1 = i
  BY OnPath DEF RouteInv, Cancelled
<1>2. Linked(i - 1)
  BY <1>1 DEF RouteInv
<1>3. session /\ Live(i) => call[i - 1].step = "served"
  BY <1>1, <1>2 DEF Linked
<1> QED BY <1>3 DEF Cancelled

LEMMA EndsBecomes ==
    ASSUME RouteInv, NEW i \in 1..Last, NEW r \in Result,
           NEW end \in {"answered", "timeout", "cancelled", "broken"}, Ends(i, end, r)
    PROVE  \E c : Becomes(i, c) /\ c.step = "done" /\ c.end = end /\ c.result = r
<1> DEFINE c == [call[i] EXCEPT !.step = "done", !.end = end, !.result = r]
<1>1. call' = [call EXCEPT ![i] = c]
  BY DEF Ends
<1>0. call[i] \in Call
  BY CallFields, OnPath DEF RouteInv
<1>2. /\ c \in Call /\ c.step = "done" /\ c.since = call[i].since
      /\ c.spent = call[i].spent /\ c.end = end /\ c.result = r
  BY <1>0 DEF Call
<1> HIDE DEF c
<1> QED BY <1>1, <1>2 DEF Becomes

LEMMA BackBecomes ==
    ASSUME RouteInv, NEW i \in 1..Last, Live(i), NEW r \in Result,
           call' = [call EXCEPT ![i].step = "back", ![i].result = r]
    PROVE  \E c : Becomes(i, c) /\ c.step = "back" /\ c.end = call[i].end /\ c.result = r
<1> DEFINE c == [call[i] EXCEPT !.step = "back", !.result = r]
<1>1. call' = [call EXCEPT ![i] = c]
  OBVIOUS
<1>0. call[i] \in Call
  BY CallFields, OnPath DEF RouteInv
<1>2. /\ c \in Call /\ c.step = "back" /\ c.since = call[i].since
      /\ c.spent = call[i].spent /\ c.end = call[i].end /\ c.result = r
  BY <1>0 DEF Call
<1>3. call[i].end = "none"
  BY DEF RouteInv, InTime, Live
<1> HIDE DEF c
<1> QED BY <1>1, <1>2, <1>3 DEF Becomes
-----------------------------------------------------------------------------
(* The steps of a call.                                                    *)

\* A step of the last call: the caller shows what becomes of the mint and of
\* the answer.
LEMMA LastStepKeeps ==
    ASSUME RouteInv, NEW c, Becomes(Last, c), Live(Last),
           UNCHANGED <<now, path, drift, reuse, session>>,
           signer' \in Signer, held' \in Held, Minting', Answers', AcceptedBounded',
           c.end = "cancelled" => ~session
    PROVE  RouteInv'
<1> USE OnPath DEF RouteInv
<1>1. /\ call' \in [Positions -> Call] /\ call'[Last] = c
      /\ \A j \in Positions \ {Last} : call'[j] = call[j]
  BY BecomesCall
<1>2. Types' /\ Last' = Last
  BY <1>1 DEF Types, Last
<1>3. \A j \in 2..Last : call'[j].end = "cancelled" => ~session
  BY <1>1
<1>4. /\ \A j \in 1..(Last - 1) : Linked(j)'
      /\ \A j \in 1..Last : InTime(j)'
  BY CallStepKeeps
<1> QED BY <1>2, <1>3, <1>4

LEMMA RefusalCodes ==
    ASSUME Types, NEW i \in 1..Last
    PROVE  Refusals(i) \subseteq Codes \ {"OK"}
<1>1. i < Last => path[i + 1] \in {"relay", "route"}
  BY PathFacts, OnPath DEF Types
<1> QED BY <1>1, OnPath DEF Refusals, Server, Codes

LEMMA RefuseKeeps ==
    ASSUME RouteInv, NEW i \in 1..Last, Refuse(i)
    PROVE  RouteInv'
<1> USE OnPath DEF RouteInv
<1>0. Live(i) /\ call[i].step = "out" /\ UNCHANGED <<now, path, drift, reuse, signer, held, session>>
  BY DEF Refuse, Live
<1>1. PICK code \in Codes \ {"OK"} :
          call' = [call EXCEPT ![i].step = "back", ![i].result = Failed(code)]
  BY RefusalCodes DEF Refuse
<1>2. Failed(code) \in Result /\ Failed(code).code # "OK"
  BY FailedType
<1>3. PICK c : Becomes(i, c) /\ c.step = "back" /\ c.end = call[i].end /\ c.result = Failed(code)
  BY <1>0, <1>1, <1>2, BackBecomes
<1>4. /\ call'[i] = c /\ \A j \in Positions \ {i} : call'[j] = call[j]
  BY <1>3, BecomesCall
<1>5. CASE i < Last
  <2>1. Linked(i)'
    BY <1>0, <1>3, <1>4, <1>5 DEF Linked, Live, Becomes
  <2>2. c.end = "cancelled" => call[i].end = "cancelled"
    BY <1>3
  <2> QED BY <1>0, <1>3, <1>5, <2>1, <2>2, OuterStepKeeps
<1>6. CASE i = Last
  <2>0. Last' = Last /\ call'[Last] = c /\ Arrived' = Arrived
    BY <1>0, <1>3, <1>4, <1>6 DEF Last, Arrived, Becomes
  <2>1. Minting'
    <3>1. call[Last].since \in Nat /\ call[Last].spent \in {0, 1} /\ signer.waited \in Nat
          /\ now \in Nat /\ MintBound \in Nat
      BY CallFields, SignerFields DEF Types, MintBound, Second
    <3>2. signer.step = "idle" /\ call[Last].end = "none" /\ now <= Arrived
      BY <1>0, <1>6 DEF Minting, InTime, Arrived
    <3>3. now <= Arrived + signer.waited + MintBound
      BY <3>1, <3>2 DEF Arrived
    <3> QED BY <1>0, <1>3, <1>6, <2>0, <3>2, <3>3 DEF Minting, Becomes
  <2>2. Answers'
    <3>1. signer.step = "idle"
      BY <1>0, <1>6 DEF Minting
    <3> QED BY <1>0, <1>2, <1>3, <2>0, <3>1 DEF Answers, Entitled
  <2>3. AcceptedBounded'
    BY <1>3, <2>0 DEF AcceptedBounded
  <2>4. c.end # "cancelled"
    BY <1>3 DEF Becomes
  <2> QED BY <1>0, <1>3, <1>6, <2>1, <2>2, <2>3, <2>4, LastStepKeeps DEF Types
<1> QED BY <1>5, <1>6

LEMMA ReplyKeeps ==
    ASSUME RouteInv, NEW i \in 1..Last, Reply(i)
    PROVE  RouteInv'
<1> USE OnPath DEF RouteInv
<1>0. Live(i) /\ call[i].step = "served" /\ UNCHANGED <<now, path, drift, reuse, signer, held, session>>
  BY DEF Reply, Replies, Live
<1>1. Inner(i) \in Result
  BY SignerFields, CallFields DEF Inner
<1>3. PICK c : Becomes(i, c) /\ c.step = "back" /\ c.end = call[i].end /\ c.result = Inner(i)
  BY <1>0, <1>1, BackBecomes DEF Reply, Relayed
<1>4. /\ call'[i] = c /\ \A j \in Positions \ {i} : call'[j] = call[j]
  BY <1>3, BecomesCall
<1>5. CASE i < Last
  <2>0. call[i + 1].step = "done" /\ Inner(i) = call[i + 1].result /\ call'[i + 1] = call[i + 1]
    <3>1. i \in 1..(Last - 1) /\ i + 1 \in Positions /\ i + 1 # i /\ i # Last
      BY <1>5
    <3>2. call[i + 1].step = "done" /\ Inner(i) = call[i + 1].result
      BY <3>1 DEF Reply, Replies, Inner
    <3> QED BY <1>4, <3>1, <3>2
  <2>1. Linked(i)'
    BY <1>0, <1>3, <1>4, <1>5, <2>0 DEF Linked, Live, Becomes
  <2>2. c.end = "cancelled" => call[i].end = "cancelled"
    BY <1>3
  <2> QED BY <1>0, <1>3, <1>5, <2>1, <2>2, OuterStepKeeps
<1>6. CASE i = Last
  <2>0. Last' = Last /\ call'[Last] = c /\ Arrived' = Arrived
    BY <1>0, <1>3, <1>4, <1>6 DEF Last, Arrived, Becomes
  <2>1. signer.step = "done" /\ Inner(i) = signer.result
    BY <1>6 DEF Reply, Replies, Inner
  <2>2. Minting'
    BY <1>0, <1>3, <1>6, <2>0, <2>1 DEF Minting, Becomes
  <2>3. Answers'
    BY <1>0, <1>3, <2>0, <2>1, <1>6 DEF Answers, Entitled, Becomes
  <2>4. AcceptedBounded'
    BY <1>3, <2>0 DEF AcceptedBounded
  <2>5. c.end # "cancelled"
    BY <1>3 DEF Becomes
  <2> QED BY <1>0, <1>3, <1>6, <2>2, <2>3, <2>4, <2>5, LastStepKeeps DEF Types
<1> QED BY <1>5, <1>6
\* The origin's judgement lets a response through, with its date, or turns it
\* into PIVB_CONFIG; everybody else hands it on.
LEMMA JudgementFacts ==
    ASSUME Types, NEW i \in 1..Last, NEW r \in Judgements(i)
    PROVE  /\ r \in Result
           /\ i < Last => r = call[i].result
           /\ r.code \in {call[i].result.code} \cup
                            (IF call[i].result.code = "OK" THEN {"CONFIG"} ELSE {})
           /\ path[i] = "route" /\ r.code = "OK" => NotBefore(r, call[i].since)
<1>1. call[i].result \in Result
  BY CallFields, OnPath
<1>2. [call[i].result EXCEPT !.code = "CONFIG"] \in Result
      /\ [call[i].result EXCEPT !.code = "CONFIG"].code = "CONFIG"
  BY <1>1 DEF Result, Codes
<1>3. i < Last => path[i] # "route"
  BY PathFacts, OnPath DEF Types
<1>4. CASE path[i] # "route" \/ call[i].result.code # "OK"
  <2>1. r = call[i].result
    BY <1>4 DEF Judgements
  <2> QED BY <1>1, <1>4, <2>1
<1>5. CASE path[i] = "route" /\ call[i].result.code = "OK"
  <2>1. \/ r = [call[i].result EXCEPT !.code = "CONFIG"]
        \/ r = call[i].result /\ FreshEnough(r, call[i].since)
    BY <1>5 DEF Judgements
  <2> QED BY <1>1, <1>2, <1>3, <1>5, <2>1 DEF FreshEnough
<1> QED BY <1>4, <1>5

\* iat is compared with the start on the origin's clock: in the signer's time
\* that is off by no more than the skew.
LEMMA NotBeforeBounds ==
    ASSUME Types, NEW r \in Result, NEW t \in Nat, NotBefore(r, t), ClocksAgree
    PROVE  r.signed >= t - 2 * ClockSkew - reuse
<1>1. r.signed \in Int /\ drift \in Int /\ reuse \in Nat /\ ClockSkew \in Int
  BY DEF Types, Result, ClockSkew, Second
<1> QED BY <1>1 DEF NotBefore, ClocksAgree

LEMMA ArriveKeeps ==
    ASSUME RouteInv, NEW i \in 1..Last, Arrive(i)
    PROVE  RouteInv'
<1> USE OnPath DEF RouteInv
<1>0. Live(i) /\ call[i].step = "back" /\ UNCHANGED <<now, path, drift, reuse, signer, held, session>>
  BY DEF Arrive, Live
<1>1. PICK r \in Judgements(i) : Ends(i, "answered", r)
  BY DEF Arrive
<1>2. /\ r \in Result
      /\ i < Last => r = call[i].result
      /\ r.code \in {call[i].result.code} \cup
                       (IF call[i].result.code = "OK" THEN {"CONFIG"} ELSE {})
      /\ path[i] = "route" /\ r.code = "OK" => NotBefore(r, call[i].since)
  BY JudgementFacts
<1>3. PICK c : Becomes(i, c) /\ c.step = "done" /\ c.end = "answered" /\ c.result = r
  BY <1>1, <1>2, EndsBecomes
<1>4. /\ call'[i] = c /\ \A j \in Positions \ {i} : call'[j] = call[j]
  BY <1>3, BecomesCall
<1>5. CASE i < Last
  <2>0. i \in 1..(Last - 1) /\ i + 1 \in Positions /\ i + 1 # i
    BY <1>5
  <2>1. Linked(i)'
    BY <1>0, <1>2, <1>3, <1>4, <1>5, <2>0 DEF Linked, Live, Becomes
  <2> QED BY <1>0, <1>3, <1>5, <2>1, OuterStepKeeps
<1>6. CASE i = Last
  <2>0. Last' = Last /\ call'[Last] = c /\ Arrived' = Arrived
    BY <1>0, <1>3, <1>4, <1>6 DEF Last, Arrived, Becomes
  <2>1. Minting'
    BY <1>0, <1>3, <1>6, <2>0 DEF Minting, Becomes
  <2>2. Answers'
    BY <1>0, <1>2, <1>3, <2>0, <1>6 DEF Answers, Entitled, Becomes
  <2>3. AcceptedBounded'
    <3> SUFFICES ASSUME Routed, ClocksAgree, r.code = "OK"
                 PROVE  r.signed >= c.since - 2 * ClockSkew - reuse
      BY <1>0, <1>3, <2>0 DEF AcceptedBounded, Routed, ClocksAgree
    <3> QED BY <1>2, <1>3, <1>6, NotBeforeBounds, CallFields DEF Routed, Becomes
  <2> QED BY <1>0, <1>3, <1>6, <2>1, <2>2, <2>3, LastStepKeeps DEF Types
<1> QED BY <1>5, <1>6

\* A call that ends without an answer: only the last one runs out of time or
\* breaks, and with the session going on only that one.
LEMMA FailKeeps ==
    ASSUME RouteInv, NEW i \in 1..Last, Live(i),
           NEW end \in {"timeout", "broken", "cancelled"},
           NEW code \in Codes \ {"OK"}, Ends(i, end, Failed(code)),
           UNCHANGED <<now, path, drift, reuse, signer, held, session>>,
           i < Last \/ end = "cancelled" => ~session,
           end = "timeout" => now = Due(i)
    PROVE  RouteInv'
<1> USE OnPath DEF RouteInv
<1>1. Failed(code) \in Result /\ Failed(code).code = code
  BY FailedType
<1>3. PICK c : Becomes(i, c) /\ c.step = "done" /\ c.end = end /\ c.result = Failed(code)
  BY <1>1, EndsBecomes
<1>4. /\ call'[i] = c /\ \A j \in Positions \ {i} : call'[j] = call[j]
  BY <1>3, BecomesCall
<1>5. CASE i < Last
  <2>0. i \in 1..(Last - 1) /\ i + 1 \in Positions /\ i + 1 # i
    BY <1>5
  <2>1. Linked(i)'
    BY <1>3, <1>4, <1>5, <2>0 DEF Linked, Live, Becomes
  <2> QED BY <1>3, <1>5, <2>1, OuterStepKeeps
<1>6. CASE i = Last
  <2>0. Last' = Last /\ call'[Last] = c /\ Arrived' = Arrived
    BY <1>3, <1>4, <1>6 DEF Last, Arrived, Becomes
  <2>1. end = "timeout" => ~(signer.waited + MintBound + Transit < RouteTimeout)
    \* At the deadline the mint has waited too long for the bound to apply.
    <3> SUFFICES ASSUME end = "timeout", signer.waited + MintBound + Transit < RouteTimeout
                 PROVE  FALSE
      OBVIOUS
    <3>1. /\ call[Last].since \in Nat /\ call[Last].spent \in {0, 1} /\ signer.waited \in Nat
          /\ signer.due \in Int /\ now \in Nat /\ MintBound = 46 /\ RouteTimeout = 50 /\ Transit = 1
      BY CallFields, SignerFields DEF Types, MintBound, RouteTimeout, Transit, Second
    <3>2. now >= call[Last].since + 50
      BY <1>6, <3>1, PathFacts DEF Types, Due
    <3>3. now <= Arrived + signer.waited + 46
      <4>1. CASE call[Last].step = "out"
        BY <3>1, <4>1 DEF InTime, Arrived
      <4>2. CASE call[Last].step = "served"
        BY <3>1, <4>2, SignerFields DEF Minting, Arrived
      <4>3. CASE call[Last].step = "back"
        BY <3>1, <4>3 DEF Minting, Arrived
      <4> QED BY <1>6, <4>1, <4>2, <4>3 DEF Live
    <3> QED BY <3>1, <3>2, <3>3 DEF Arrived
  <2>2. Minting'
    BY <1>3, <1>6, <2>0, <2>1 DEF Minting, Becomes
  <2>3. Answers'
    BY <1>3, <1>6, <2>0 DEF Answers, Entitled, Becomes
  <2>4. AcceptedBounded'
    BY <1>1, <1>3, <2>0 DEF AcceptedBounded
  <2> QED BY <1>3, <1>6, <2>2, <2>3, <2>4, LastStepKeeps DEF Types
<1> QED BY <1>5, <1>6

LEMMA EndingKeeps ==
    ASSUME RouteInv, NEW i \in 1..Last, GiveUp(i) \/ RouteBreaks(i) \/ Cancel(i)
    PROVE  RouteInv'
<1> USE OnPath DEF RouteInv
<1>1. CASE GiveUp(i)
  <2>1. i = Last
    <3>1. i \in 1..(Last - 1) => now < Due(i)
      BY <1>1, OuterWaits DEF GiveUp
    <3>2. now \in Nat /\ now = Due(i)
      BY <1>1 DEF GiveUp, Types
    <3> QED BY <3>1, <3>2
  <2> QED BY <1>1, <2>1, FailKeeps DEF GiveUp, Codes
<1>2. CASE RouteBreaks(i)
  <2>1. i = Last
    BY <1>2, PathFacts DEF RouteBreaks, Types
  <2> QED BY <1>2, <2>1, FailKeeps DEF RouteBreaks, Codes
<1>3. CASE Cancel(i)
  <2>1. ~session
    BY <1>3, NoneCancelled DEF Cancel
  <2> QED BY <1>3, <2>1, FailKeeps DEF Cancel, Codes
<1> QED BY <1>1, <1>2, <1>3
-----------------------------------------------------------------------------
LEMMA NewCall ==
    ASSUME NEW t \in Nat
    PROVE  LET d == [NoCall EXCEPT !.step = "out", !.since = t]
           IN  /\ d \in Call /\ d.step = "out" /\ d.since = t /\ d.spent = 0
               /\ d.end = "none"
<1>1. Failed("UNAVAILABLE") \in Result
  BY FailedType DEF Codes
<1>2. NoCall \in Call /\ NoCall.spent = 0 /\ NoCall.end = "none"
  BY <1>1 DEF NoCall, Call, Transit
<1> HIDE DEF NoCall
<1> QED BY <1>2 DEF Call

\* A handler calls on: the new call begins where the message of its own took
\* it to.
LEMMA CallOnKeeps ==
    ASSUME RouteInv, NEW i \in 1..Last, CallOn(i)
    PROVE  RouteInv'
<1> USE OnPath DEF RouteInv
<1> DEFINE c == [call[i] EXCEPT !.step = "served"]
           d == [NoCall EXCEPT !.step = "out", !.since = now]
<1>0. /\ call[i].step = "out" /\ i < Last /\ i \in 1..(Last - 1) /\ i + 1 \in Positions
      /\ i \in Positions /\ i + 1 # i
      /\ UNCHANGED <<now, path, drift, reuse, signer, held, session>>
  BY DEF CallOn
<1>1. call' = [call EXCEPT ![i] = c, ![i + 1] = d]
  BY DEF CallOn
<1>2. /\ c \in Call /\ c.step = "served" /\ c.since = call[i].since
      /\ c.spent = call[i].spent /\ c.end = call[i].end /\ c.result = call[i].result
  <2>1. call[i] \in Call
    BY <1>0, CallFields
  <2> QED BY <2>1 DEF Call
<1>3. /\ d \in Call /\ d.step = "out" /\ d.since = now /\ d.spent = 0 /\ d.end = "none"
  BY NewCall DEF Types
<1> HIDE DEF c, d
<1>4. /\ call' \in [Positions -> Call] /\ call'[i] = c /\ call'[i + 1] = d
      /\ \A j \in Positions \ {i, i + 1} : call'[j] = call[j]
  BY <1>0, <1>1, <1>2, <1>3 DEF Types
<1>5. Types' /\ Last' = Last
  BY <1>0, <1>4 DEF Types, Last
<1>6. /\ call[i + 1].step = "idle" /\ call[i].end = "none" /\ now <= call[i].since + call[i].spent
      /\ call[i].since <= now
  BY <1>0 DEF Linked, InTime, Live
<1>7. ASSUME NEW j \in 1..(Last - 1) PROVE Linked(j)'
  <2>1. CASE j = i
    BY <1>0, <1>2, <1>3, <1>4, <1>6, <2>1 DEF Linked, Live
  <2>2. CASE j = i + 1
    <3>1. call[j + 1].step = "idle" /\ j + 1 \in Positions \ {i, i + 1}
      BY <1>0, <1>6, <2>2 DEF Linked
    <3> QED BY <1>0, <1>3, <1>4, <2>2, <3>1 DEF Linked, Live
  <2>3. CASE j + 1 = i
    <3>1. Linked(j) /\ j \in Positions \ {i, i + 1}
      BY <1>0, <2>3
    <3> QED BY <1>0, <1>2, <1>4, <2>3, <3>1 DEF Linked, Live
  <2>4. CASE j # i /\ j # i + 1 /\ j + 1 # i
    <3>1. Linked(j) /\ j \in Positions \ {i, i + 1} /\ j + 1 \in Positions \ {i, i + 1}
      BY <1>0, <2>4
    <3> QED BY <1>0, <1>4, <3>1 DEF Linked, Live
  <2> QED BY <2>1, <2>2, <2>3, <2>4
<1>8. ASSUME NEW j \in 1..Last PROVE InTime(j)'
  <2>1. CASE j = i
    BY <1>0, <1>2, <1>4, <1>5, <1>6, <2>1 DEF InTime, Live
  <2>2. CASE j = i + 1
    <3>1. /\ now \in Nat /\ Timeout(path[j]) \in Nat
          /\ j # Last => Timeout(path[j + 1]) \in Nat
      BY <2>2, PathFacts DEF Types
    <3> QED BY <1>0, <1>3, <1>4, <1>5, <2>2, <3>1 DEF InTime, Live, Due
  <2>3. CASE j # i /\ j # i + 1
    <3>1. InTime(j) /\ call'[j] = call[j]
      BY <1>4, <2>3
    <3> QED BY <1>0, <1>5, <3>1 DEF InTime, Live, Due
  <2> QED BY <2>1, <2>2, <2>3
<1>9. Minting' /\ Answers' /\ AcceptedBounded'
  <2>1. CASE i + 1 = Last
    <3>1. signer.step = "idle" /\ call'[Last] = d
      BY <1>4, <1>6, <2>1 DEF Minting
    <3> QED BY <1>0, <1>3, <1>5, <3>1 DEF Minting, Answers, AcceptedBounded, Arrived, Entitled
  <2>2. CASE i + 1 # Last
    <3>1. call'[Last] = call[Last]
      BY <1>0, <1>4, <2>2
    <3> QED BY <1>0, <1>5, <3>1
            DEF Minting, Answers, AcceptedBounded, Arrived, Entitled, Routed, ClocksAgree
  <2> QED BY <2>1, <2>2
<1>10. \A j \in 2..Last : call'[j].end = "cancelled" => ~session
  <2> SUFFICES ASSUME NEW j \in 2..Last, call'[j].end = "cancelled" PROVE ~session
    OBVIOUS
  <2>1. j \in Positions
    OBVIOUS
  <2> QED BY <1>2, <1>3, <1>4, <1>6, <2>1
<1> QED BY <1>0, <1>5, <1>7, <1>8, <1>9, <1>10

LEMMA QueueKeeps ==
    ASSUME RouteInv, NEW i \in 1..Last, Queue(i)
    PROVE  RouteInv'
<1> USE OnPath DEF RouteInv
<1>0. i = Last /\ Live(i) /\ call[i].step = "out" /\ UNCHANGED <<now, path, drift, reuse, held, session>>
  BY DEF Queue, Live
<1>1. PICK wait \in Waits :
          signer' = [signer EXCEPT !.step = "queued", !.arrival = now,
                                   !.due = now + wait, !.waited = wait]
  BY DEF Queue
<1>2. wait \in Nat /\ now \in Nat
  BY RouteAssumption DEF Types
<1>3. /\ signer' \in Signer /\ signer'.step = "queued" /\ signer'.arrival = now
      /\ signer'.due = now + wait /\ signer'.waited = wait
  <2>1. signer \in Signer /\ now + wait \in Int /\ now \in Int
    BY <1>2 DEF Types
  <2> QED BY <1>1, <1>2, <2>1 DEF Signer
<1> DEFINE c == [call[i] EXCEPT !.step = "served"]
<1>4. /\ c \in Call /\ c.step = "served" /\ c.since = call[i].since
      /\ c.spent = call[i].spent /\ c.end = call[i].end /\ c.result = call[i].result
  <2>1. call[i] \in Call
    BY CallFields
  <2> QED BY <2>1 DEF Call
<1>5. call' = [call EXCEPT ![i] = c]
  BY DEF Queue
<1> HIDE DEF c
<1>6. call[i].end = "none" /\ call[i].since <= now /\ now <= call[i].since + call[i].spent
  BY <1>0 DEF InTime, Live
<1>7. Becomes(i, c)
  BY <1>4, <1>5, <1>6 DEF Becomes
<1>8. Last' = Last /\ call'[Last] = c /\ Arrived' = Arrived
  BY <1>0, <1>4, <1>7, BecomesCall DEF Last, Arrived
<1>9. call[i].since \in Nat /\ call[i].spent \in {0, 1}
  BY CallFields
<1>10. Minting'
  BY <1>0, <1>2, <1>3, <1>4, <1>6, <1>8, <1>9 DEF Minting, Arrived
<1>11. Answers'
  <2>1. signer.step = "idle"
    BY <1>0 DEF Minting
  <2> QED BY <1>0, <1>3, <1>4, <1>6, <1>8, <2>1 DEF Answers
<1>12. AcceptedBounded'
  BY <1>4, <1>8 DEF AcceptedBounded
<1> QED BY <1>0, <1>3, <1>4, <1>6, <1>7, <1>10, <1>11, <1>12, LastStepKeeps DEF Types
-----------------------------------------------------------------------------
(* The steps of the signing daemon, and the end of the session.            *)

\* A mint's step leaves the calls alone.
LEMMA MintStepKeeps ==
    ASSUME RouteInv, UNCHANGED <<now, path, drift, reuse, call, session>>,
           signer' \in Signer, held' \in Held, Minting', Answers'
    PROVE  RouteInv'
<1> USE DEF RouteInv
<1>1. Types' /\ Last' = Last
  BY DEF Types, Last
<1>2. \A j \in 1..(Last - 1) : Linked(j)'
  BY DEF Linked, Live
<1>3. \A j \in 1..Last : InTime(j)'
  BY <1>1 DEF InTime, Live, Due
<1>4. AcceptedBounded'
  BY <1>1 DEF AcceptedBounded, Routed, ClocksAgree
<1> QED BY <1>1, <1>2, <1>3, <1>4

LEMMA ResultFields ==
    ASSUME NEW s \in Int, NEW t \in Int
    PROVE  LET r == [code |-> "OK", signed |-> s, completed |-> t]
           IN  r \in Result /\ r.code = "OK" /\ r.signed = s /\ r.completed = t
BY DEF Result, Codes

LEMMA HeldFields ==
    ASSUME NEW s \in Int, NEW t \in Int
    PROVE  LET h == [signed |-> s, completed |-> t, there |-> TRUE]
           IN  h \in Held /\ h.signed = s /\ h.completed = t
BY DEF Held

LEMMA OtherMintKeeps ==
    ASSUME RouteInv, OtherMint
    PROVE  RouteInv'
<1> USE DEF RouteInv
<1>1. PICK d \in SignTimes :
          held' = [signed |-> signer.due - d, completed |-> signer.due, there |-> TRUE]
  BY DEF OtherMint
<1>2. d \in Nat /\ signer.due \in Int /\ signer.due - d \in Int
  BY RouteAssumption, SignerFields DEF MintBound, Second
<1>3. held' \in Held /\ held'.signed = signer.due - d /\ held'.completed = signer.due
  BY <1>1, <1>2, HeldFields
<1>4. /\ signer.step = "queued"
      /\ UNCHANGED <<now, path, drift, reuse, call, signer, session>>
  BY DEF OtherMint
<1>5. Last' = Last /\ Arrived' = Arrived
  BY <1>4 DEF Last, Arrived
<1>6. Minting'
  BY <1>4, <1>5 DEF Minting
<1>7. Answers'
  BY <1>2, <1>3, <1>4, <1>5 DEF Answers, Entitled
<1> QED BY <1>3, <1>4, <1>6, <1>7, MintStepKeeps DEF Types

\* The mint ends, by now within its bound, with a failure or with an assertion
\* that it may hand out.
LEMMA MintEndsKeeps ==
    ASSUME RouteInv, UNCHANGED <<now, path, drift, reuse, call, session>>,
           signer.step \in {"queued", "signing"}, NEW r \in Result,
           call[Last].step = "done" \/ now <= Arrived + signer.waited + MintBound,
           signer' = [signer EXCEPT !.step = "done", !.result = r],
           r.code = "OK" => Entitled(r),
           held' \in Held,
           held'.there => held'.signed <= held'.completed /\ held'.completed <= now
    PROVE  RouteInv'
<1> USE DEF RouteInv
<1>1. /\ signer' \in Signer /\ signer'.step = "done" /\ signer'.result = r
      /\ signer'.waited = signer.waited
  <2>1. signer \in Signer
    BY DEF Types
  <2> QED BY <2>1 DEF Signer
<1>2. Last' = Last /\ Arrived' = Arrived
  BY DEF Last, Arrived
<1>3. call[Last].step \in {"idle", "out", "served", "back", "done"}
  BY CallFields, OnPath
<1>4. call[Last].step \notin {"idle", "out", "back"} /\ call[Last].end # "answered"
  BY DEF Minting, Answers
<1>5. Minting'
  BY <1>1, <1>2, <1>3, <1>4 DEF Minting
<1>6. Answers'
  BY <1>1, <1>2, <1>3, <1>4 DEF Answers, Entitled
<1> QED BY <1>1, <1>5, <1>6, MintStepKeeps

\* What Serveable lets out is an assertion the request may have.
LEMMA ServeableEntitled ==
    ASSUME RouteInv, Serveable, signer.step = "queued", now = signer.due,
           NEW r, r.signed = held.signed, r.completed = held.completed
    PROVE  Entitled(r)
<1>1. /\ held.signed \in Int /\ held.completed \in Int /\ signer.arrival \in Int
      /\ now \in Nat /\ call[Last].since \in Nat
  BY SignerFields, CallFields, OnPath DEF RouteInv, Types
<1>2. ProviderReuse \in Nat /\ Lifetime \in Nat /\ ClockSkew = 60 /\ ReuseValidityFloor = 120
  BY RouteAssumption DEF ClockSkew, ReuseValidityFloor, Second
<1>3. held.signed <= held.completed /\ held.completed <= now
  BY <1>1 DEF RouteInv, Answers, Serveable
<1>4. call[Last].since <= signer.arrival /\ signer.arrival <= now
  BY DEF RouteInv, Minting
<1>5. held.signed - 60 + Lifetime - now >= 120
      /\ (held.completed >= signer.arrival \/ now - held.completed <= ProviderReuse)
  BY <1>2 DEF Serveable
<1> QED BY <1>1, <1>2, <1>3, <1>4, <1>5 DEF Entitled

LEMMA MintKeeps ==
    ASSUME RouteInv, Mint
    PROVE  RouteInv'
<1> USE DEF RouteInv
<1>1. /\ signer.step = "queued" /\ now = signer.due
      /\ UNCHANGED <<now, path, drift, reuse, call, session>>
  BY DEF Mint
<1>2. /\ held.signed \in Int /\ held.completed \in Int /\ signer.due \in Int
      /\ now \in Nat /\ signer.waited \in Nat
      /\ call[Last].since \in Nat /\ call[Last].spent \in {0, 1} /\ MintBound = 46
  BY SignerFields, CallFields, OnPath DEF Types, MintBound, Second
<1>3. now <= Arrived + signer.waited /\ now <= Arrived + signer.waited + MintBound
  BY <1>1, <1>2 DEF Minting, Arrived
<1>4. held.there => held.signed <= held.completed /\ held.completed <= now
  BY <1>1, <1>2 DEF Answers
<1>5. NoneHeld \in Held /\ ~NoneHeld.there
  BY DEF NoneHeld, Held
<1>6. CASE Serveable /\ UNCHANGED held
           /\ signer' = [signer EXCEPT !.step = "done",
                             !.result = [code |-> "OK", signed |-> held.signed,
                                         completed |-> held.completed]]
  <2> DEFINE r == [code |-> "OK", signed |-> held.signed, completed |-> held.completed]
  <2>1. r \in Result /\ r.signed = held.signed /\ r.completed = held.completed
    BY <1>2, ResultFields
  <2>2. signer' = [signer EXCEPT !.step = "done", !.result = r]
    BY <1>6
  <2> HIDE DEF r
  <2>3. Entitled(r)
    BY <1>1, <1>6, <2>1, ServeableEntitled
  <2> QED BY <1>1, <1>3, <1>4, <1>6, <2>1, <2>2, <2>3, MintEndsKeeps DEF Types
<1>7. ASSUME held' = IF Serveable THEN NoneHeld ELSE held
      PROVE  held' \in Held /\ (held'.there =>
                 held'.signed <= held'.completed /\ held'.completed <= now)
  BY <1>4, <1>5, <1>7 DEF Types
<1>8. CASE /\ signer' = [signer EXCEPT !.step = "done", !.result = Failed("LOCKED")]
           /\ held' = IF Serveable THEN NoneHeld ELSE held
  <2>1. Failed("LOCKED") \in Result /\ Failed("LOCKED").code # "OK"
    BY FailedType DEF Codes
  <2> QED BY <1>1, <1>3, <1>7, <1>8, <2>1, MintEndsKeeps
<1>9. CASE /\ \E d \in SignTimes :
                 signer' = [signer EXCEPT !.step = "signing", !.arrival = now, !.due = now + d]
           /\ held' = IF Serveable THEN NoneHeld ELSE held
  <2>1. PICK d \in SignTimes :
            signer' = [signer EXCEPT !.step = "signing", !.arrival = now, !.due = now + d]
    BY <1>9
  <2>2. d \in Nat /\ d <= MintBound /\ now \in Int /\ now + d \in Int
    BY <1>2, RouteAssumption
  <2>3. /\ signer' \in Signer /\ signer'.step = "signing" /\ signer'.arrival = now
        /\ signer'.due = now + d /\ signer'.waited = signer.waited
    <3>1. signer \in Signer
      BY DEF Types
    <3> QED BY <2>1, <2>2, <3>1 DEF Signer
  <2>4. Last' = Last /\ Arrived' = Arrived
    BY <1>1 DEF Last, Arrived
  <2>5. call[Last].step \notin {"idle", "out", "back"} /\ call[Last].end # "answered"
    BY <1>1 DEF Minting, Answers
  <2>6. now + d <= Arrived + signer.waited + MintBound
    BY <1>2, <1>3, <2>2 DEF Arrived
  <2>7. call[Last].since <= now
    BY <1>1, <1>2, SignerFields DEF Minting
  <2>8. Minting'
    BY <1>1, <1>2, <2>2, <2>3, <2>4, <2>5, <2>6, <2>7 DEF Minting
  <2>9. Answers'
    BY <1>1, <1>7, <1>9, <2>3, <2>4, <2>5 DEF Answers
  <2> QED BY <1>1, <1>7, <1>9, <2>3, <2>8, <2>9, MintStepKeeps
<1> QED BY <1>6, <1>8, <1>9 DEF Mint

LEMMA SignKeeps ==
    ASSUME RouteInv, Sign
    PROVE  RouteInv'
<1> USE DEF RouteInv
<1>1. /\ signer.step = "signing" /\ now = signer.due
      /\ UNCHANGED <<now, path, drift, reuse, call, session>>
  BY DEF Sign
<1>2. signer.arrival \in Int /\ now \in Int /\ now \in Nat /\ held \in Held
  BY SignerFields DEF Types
<1>3. now <= Arrived + signer.waited + MintBound
  BY <1>1 DEF Minting
<1>4. call[Last].since <= signer.arrival /\ signer.arrival <= now
  BY <1>1 DEF Minting
<1>5. CASE /\ signer' = [signer EXCEPT !.step = "done",
                             !.result = [code |-> "OK", signed |-> signer.arrival,
                                         completed |-> now]]
           /\ held' = [signed |-> signer.arrival, completed |-> now, there |-> TRUE]
  <2> DEFINE r == [code |-> "OK", signed |-> signer.arrival, completed |-> now]
  <2>1. r \in Result /\ r.signed = signer.arrival /\ r.completed = now
    BY <1>2, ResultFields
  <2>2. signer' = [signer EXCEPT !.step = "done", !.result = r]
    BY <1>5
  <2> HIDE DEF r
  <2>3. held' \in Held /\ held'.signed = signer.arrival /\ held'.completed = now
    BY <1>2, <1>5, HeldFields
  <2>4. Entitled(r)
    BY <1>2, <1>4, <2>1 DEF Entitled
  <2>5. held'.signed <= held'.completed /\ held'.completed <= now
    BY <1>2, <1>4, <2>3
  <2> QED BY <1>1, <1>3, <2>1, <2>2, <2>3, <2>4, <2>5, MintEndsKeeps
<1>6. CASE UNCHANGED held /\ \E code \in {"PIN", "SIGN"} :
               signer' = [signer EXCEPT !.step = "done", !.result = Failed(code)]
  <2>1. PICK code \in {"PIN", "SIGN"} :
            signer' = [signer EXCEPT !.step = "done", !.result = Failed(code)]
    BY <1>6
  <2>2. Failed(code) \in Result /\ Failed(code).code # "OK"
    BY FailedType DEF Codes
  <2>3. held.there => held.signed <= held.completed /\ held.completed <= now
    BY <1>1 DEF Answers
  <2> QED BY <1>1, <1>2, <1>3, <1>6, <2>1, <2>2, <2>3, MintEndsKeeps
<1> QED BY <1>5, <1>6 DEF Sign

LEMMA AbandonKeeps ==
    ASSUME RouteInv, Abandon
    PROVE  RouteInv'
<1> USE DEF RouteInv
<1>1. /\ signer.step = "signing" /\ call[Last].step = "done"
      /\ UNCHANGED <<now, path, drift, reuse, call, held, session>>
      /\ signer' = [signer EXCEPT !.step = "done", !.result = Failed("SIGN")]
  BY DEF Abandon
<1>2. Failed("SIGN") \in Result /\ Failed("SIGN").code # "OK"
  BY FailedType DEF Codes
<1>3. held.there => held.signed <= held.completed /\ held.completed <= now
  BY <1>1 DEF Answers
<1> QED BY <1>1, <1>2, <1>3, MintEndsKeeps DEF Types

LEMMA SessionEndsKeeps ==
    ASSUME RouteInv, SessionEnds
    PROVE  RouteInv'
<1> USE DEF RouteInv
<1>1. /\ session /\ session' = FALSE
      /\ UNCHANGED <<now, path, drift, reuse, call, signer, held>>
  BY DEF SessionEnds
<1>2. Types' /\ Last' = Last
  BY <1>1 DEF Types, Last
<1>3. \A j \in 1..(Last - 1) : Linked(j)'
  BY <1>1 DEF Linked, Live
<1>4. \A j \in 1..Last : InTime(j)'
  BY <1>1, <1>2 DEF InTime, Live, Due
<1>5. Minting' /\ Answers' /\ AcceptedBounded'
  BY <1>1, <1>2 DEF Minting, Answers, AcceptedBounded, Arrived, Entitled, Routed, ClocksAgree
<1> QED BY <1>1, <1>2, <1>3, <1>4, <1>5
-----------------------------------------------------------------------------
(* Time.                                                                   *)

LEMMA LeastNat ==
    ASSUME NEW T \in SUBSET Nat, T # {}
    PROVE  Min(T) \in T /\ \A y \in T : Min(T) <= y
<1> DEFINE R == {ss \in Nat \X Nat : ss[1] < ss[2]}
<1>0. R = OpToRel(<, Nat)
  BY Zenon DEF OpToRel
<1>1. IsWellFoundedOn(R, Nat)
  BY <1>0, NatLessThanWellFounded, Zenon
<1> HIDE DEF R
<1>2. PICK x \in T : \A y \in T : ~ (<<y, x>> \in R)
  BY <1>1, WFMin
<1>3. ASSUME NEW y \in T PROVE x <= y
  <2>1. x \in Nat /\ y \in Nat /\ <<y, x>> \notin R
    BY <1>2
  <2>2. y < x => <<y, x>> \in R
    BY <2>1 DEF R
  <2> QED BY <2>1, <2>2
<1> QED BY <1>3 DEF Min

\* Time passes to the first instant at which something is due, and no message
\* is under way for longer than Transit.
LEMMA TickMoves ==
    ASSUME RouteInv, Tick
    PROVE  /\ now' \in Nat /\ now < now'
           /\ \A i \in 1..Last : Live(i) => now' <= Due(i)
           /\ \A i \in 1..Last : InTransit(i) => now' <= now + 1
           /\ signer.step \in {"queued", "signing"} => now' <= signer.due
<1> USE OnPath DEF RouteInv
<1>1. now \in Nat /\ signer.due \in Int
  BY SignerFields DEF Types
<1>2. ASSUME NEW i \in 1..Last, Live(i)
      PROVE  Due(i) \in Nat /\ now <= Due(i) /\ Due(i) \in Instants
  <2>1. Due(i) \in Nat
    BY CallFields, PathFacts DEF Due, Types
  <2>2. now <= Due(i)
    <3>1. CASE i = Last
      BY <1>2, <3>1 DEF InTime
    <3>2. CASE i # Last
      BY <1>1, <1>2, <2>1, <3>2, OuterWaits
    <3> QED BY <3>1, <3>2
  <2> QED BY <1>2, <2>1, <2>2 DEF Instants
<1>3. ASSUME NEW i \in 1..Last, InTransit(i)
      PROVE  now + 1 \in Instants
  BY <1>3 DEF Instants, Transit
<1>4. signer.step \in {"queued", "signing"} => signer.due > now /\ signer.due \in Instants
  BY <1>1 DEF Tick, MayWait, Minting, Instants
<1>5. ASSUME NEW t \in Instants PROVE t \in Nat /\ now <= t
  <2>1. \/ \E i \in 1..Last : Live(i) /\ t = Due(i)
        \/ t = signer.due /\ signer.due > now
        \/ t = now + 1
    BY <1>5 DEF Instants, Transit
  <2> QED BY <1>1, <1>2, <2>1
<1>6. Instants \in SUBSET Nat /\ Instants # {} /\ now \notin Instants /\ now' = Min(Instants)
  BY <1>5 DEF Tick, MayWait
<1> HIDE DEF Instants
<1>7. now' \in Instants /\ \A t \in Instants : now' <= t
  BY <1>6, LeastNat
<1>8. now' \in Nat /\ now <= now' /\ now # now'
  BY <1>5, <1>6, <1>7
<1> QED BY <1>1, <1>2, <1>3, <1>4, <1>7, <1>8

LEMMA TickCalls ==
    ASSUME RouteInv, Tick
    PROVE  /\ call' \in [Positions -> Call]
           /\ \A i \in 1..Last :
                 /\ call'[i].step = call[i].step /\ call'[i].since = call[i].since
                 /\ call'[i].end = call[i].end /\ call'[i].result = call[i].result
                 /\ call'[i].spent >= call[i].spent
                 /\ InTransit(i) => call[i].spent = 0 /\ call'[i].spent = 1
<1> USE OnPath DEF RouteInv
<1>1. ASSUME NEW i \in Positions
      PROVE  LET c == [call[i] EXCEPT !.spent = Transit]
             IN  /\ c \in Call /\ c.step = call[i].step /\ c.since = call[i].since
                 /\ c.end = call[i].end /\ c.result = call[i].result /\ c.spent = 1
  <2>1. call[i] \in Call
    BY CallFields
  <2> QED BY <2>1 DEF Call, Transit
<1>2. ASSUME NEW i \in Positions
      PROVE  call'[i] = IF i \in 1..Last /\ InTransit(i)
                        THEN [call[i] EXCEPT !.spent = Transit] ELSE call[i]
  BY DEF Tick
<1>3. call' \in [Positions -> Call]
  <2>1. \A i \in Positions : call[i] \in Call
    BY CallFields
  <2> QED BY <1>1, <2>1 DEF Tick
<1>4. ASSUME NEW i \in 1..Last
      PROVE  /\ call'[i].step = call[i].step /\ call'[i].since = call[i].since
             /\ call'[i].end = call[i].end /\ call'[i].result = call[i].result
             /\ call'[i].spent >= call[i].spent
             /\ InTransit(i) => call[i].spent = 0 /\ call'[i].spent = 1
  <2>1. i \in Positions /\ call[i].spent \in {0, 1}
    BY CallFields
  <2>2. CASE InTransit(i)
    <3>1. call[i].spent = 0
      BY <2>2 DEF Tick, MayWait
    <3>2. call'[i] = [call[i] EXCEPT !.spent = Transit]
      BY <1>2, <2>1, <2>2
    <3> QED BY <1>1, <2>1, <3>1, <3>2
  <2>3. CASE ~InTransit(i)
    <3>1. call'[i] = call[i]
      BY <1>2, <2>1, <2>3
    <3> QED BY <2>1, <2>3, <3>1
  <2> QED BY <2>2, <2>3
<1> QED BY <1>3, <1>4

LEMMA TickKeeps ==
    ASSUME RouteInv, Tick
    PROVE  RouteInv'
<1> USE OnPath DEF RouteInv
<1>1. /\ now' \in Nat /\ now < now'
      /\ \A i \in 1..Last : Live(i) => now' <= Due(i)
      /\ \A i \in 1..Last : InTransit(i) => now' <= now + 1
      /\ signer.step \in {"queued", "signing"} => now' <= signer.due
  BY TickMoves
<1>2. /\ call' \in [Positions -> Call]
      /\ \A i \in 1..Last :
            /\ call'[i].step = call[i].step /\ call'[i].since = call[i].since
            /\ call'[i].end = call[i].end /\ call'[i].result = call[i].result
            /\ call'[i].spent >= call[i].spent
            /\ InTransit(i) => call[i].spent = 0 /\ call'[i].spent = 1
  BY TickCalls
<1>3. UNCHANGED <<path, drift, reuse, signer, held, session>> /\ Last' = Last
  BY DEF Tick, Last
<1>4. Types'
  BY <1>1, <1>2, <1>3 DEF Types
<1>5. \A i \in 1..Last : call[i].since \in Nat /\ call[i].spent \in {0, 1}
                         /\ call'[i].spent \in {0, 1}
  <2>1. \A i \in Positions : call'[i] \in Call
    BY <1>2
  <2>2. \A i \in Positions : call'[i].spent \in {0, 1}
    BY <2>1 DEF Call, Transit
  <2> QED BY <2>2, CallFields
<1>6. now \in Nat /\ \A i \in 1..Last : Timeout(path[i]) \in Nat
  BY PathFacts DEF Types
<1>7. ASSUME NEW i \in 1..(Last - 1) PROVE Linked(i)'
  <2>1. Linked(i) /\ i \in 1..Last /\ i + 1 \in 1..Last
    OBVIOUS
  <2> QED BY <1>2, <1>3, <1>5, <2>1 DEF Linked, Live
<1>8. ASSUME NEW i \in 1..Last PROVE InTime(i)'
  <2>1. /\ InTime(i) /\ call'[i].step = call[i].step /\ call'[i].since = call[i].since
        /\ call'[i].end = call[i].end
        /\ call[i].since \in Nat /\ call[i].spent \in {0, 1} /\ call'[i].spent \in {0, 1}
        /\ call'[i].spent >= call[i].spent
    BY <1>2, <1>5
  <2>2. Live(i)' <=> Live(i)
    BY <2>1 DEF Live
  <2>3. Live(i) => call[i].since <= now'
    BY <1>1, <1>6, <2>1 DEF InTime
  <2>4. call[i].step = "out" => now' <= call[i].since + call'[i].spent
    BY <1>1, <1>2, <1>6, <2>1 DEF InTime, InTransit
  <2>5. CASE i = Last
    <3>1. Live(i) => now' <= Due(i)
      BY <1>1
    <3> QED BY <1>3, <2>1, <2>2, <2>3, <2>4, <2>5, <3>1 DEF InTime, Due
  <2>6. CASE i # Last
    <3>0. i \in 1..(Last - 1) /\ i + 1 \in 1..Last
      BY <2>6
    <3>1. ASSUME Live(i)
          PROVE  now' <= call[i].since + call'[i].spent + Timeout(path[i + 1])
      <4>1. CASE InTransit(i)
        <5>1. now <= call[i].since + call[i].spent + Timeout(path[i + 1])
          BY <2>1, <2>6, <3>1 DEF InTime
        <5>2. call[i].spent = 0 /\ call'[i].spent = 1 /\ now' <= now + 1
          BY <1>1, <1>2, <4>1
        <5> QED BY <1>1, <1>6, <2>1, <3>0, <5>1, <5>2
      <4>2. CASE call[i].step = "served"
        <5>1. call[i + 1].step # "done" /\ call[i + 1].step # "idle"
          BY <2>6, <3>0, <4>2 DEF Tick, MayWait, Replies, Linked
        <5>2. Live(i + 1)
          BY <3>0, <5>1, CallFields DEF Live
        <5>3. now' <= call[i + 1].since + Timeout(path[i + 1])
          BY <1>1, <3>0, <5>2 DEF Due
        <5>4. call[i + 1].since <= call[i].since + call[i].spent /\ call[i + 1].since \in Nat
          BY <1>5, <3>0, <5>1 DEF Linked
        <5> QED BY <1>1, <1>6, <2>1, <3>0, <5>3, <5>4
      <4> QED BY <3>1, <4>1, <4>2 DEF Live, InTransit
    <3> QED BY <1>3, <2>1, <2>2, <2>3, <2>4, <2>6, <3>1 DEF InTime
  <2> QED BY <2>5, <2>6
<1>9. /\ call'[Last].step = call[Last].step /\ call'[Last].since = call[Last].since
      /\ call'[Last].end = call[Last].end /\ call'[Last].result = call[Last].result
      /\ Last \in 1..Last
  BY <1>2
<1>10. /\ call[Last].since \in Nat /\ call[Last].spent \in {0, 1} /\ call'[Last].spent \in {0, 1}
       /\ call'[Last].spent >= call[Last].spent
       /\ signer.waited \in Nat /\ signer.due \in Int /\ signer.arrival \in Int /\ MintBound = 46
  BY <1>2, <1>5, <1>9, SignerFields DEF MintBound, Second
<1>11. Minting'
  <2>1. Arrived \in Int /\ Arrived' \in Int /\ Arrived <= Arrived'
    BY <1>3, <1>9, <1>10 DEF Arrived
  <2>2. ~(call[Last].step = "served" /\ signer.step = "done")
    BY <1>9 DEF Tick, MayWait, Replies
  <2>3. call[Last].step = "back" => now' <= Arrived' + signer.waited + MintBound
    <3> SUFFICES ASSUME call[Last].step = "back"
                 PROVE  now' <= Arrived' + signer.waited + MintBound
      OBVIOUS
    <3>1. now <= Arrived + signer.waited + MintBound
      BY DEF Minting
    <3>2. call[Last].spent = 0 /\ call'[Last].spent = 1 /\ now' <= now + 1
      BY <1>1, <1>2, <1>9 DEF InTransit
    <3>3. Arrived' = Arrived + 1
      BY <1>3, <1>9, <1>10, <3>2 DEF Arrived
    <3> QED BY <1>1, <1>6, <1>10, <2>1, <3>1, <3>2, <3>3
  <2>4. signer.step \in {"queued", "signing"} => signer.arrival <= now'
    BY <1>1, <1>6, <1>10 DEF Minting
  <2>5. /\ signer.step = "queued" => signer.due <= Arrived' + signer.waited
        /\ signer.step = "signing" => signer.due <= Arrived' + signer.waited + MintBound
    BY <1>10, <2>1 DEF Minting
  <2> QED BY <1>1, <1>3, <1>9, <2>2, <2>3, <2>4, <2>5 DEF Minting
<1>12. Answers'
  <2>1. held.there /\ held.completed <= now => held.completed <= now'
    BY <1>1, <1>6, SignerFields
  <2>2. Entitled(signer.result) => Entitled(signer.result)'
    BY <1>1, <1>3, <1>6, <1>9, SignerFields DEF Entitled
  <2> QED BY <1>3, <1>9, <2>1, <2>2 DEF Answers
<1>13. AcceptedBounded'
  BY <1>3, <1>9 DEF AcceptedBounded, Routed, ClocksAgree
<1>14. \A i \in 2..Last : call'[i].end = "cancelled" => ~session'
  BY <1>2, <1>3
<1> QED BY <1>3, <1>4, <1>7, <1>8, <1>11, <1>12, <1>13, <1>14
-----------------------------------------------------------------------------
LEMMA InitEstablishes == Init => RouteInv
<1> SUFFICES ASSUME Init PROVE RouteInv
  OBVIOUS
<1> USE DEF RouteInv
<1>1. path \in Paths /\ now = 0 /\ session = TRUE
  BY DEF Init
<1>2. /\ Last \in 1..3 /\ \A i \in 1..Last : i \in Positions
      /\ \A i \in 1..Last : Timeout(path[i]) \in Nat
      /\ \A i \in 1..(Last - 1) : i \in 1..Last /\ i + 1 \in 1..Last
  BY <1>1, PathFacts DEF Positions
<1>3. Failed("UNAVAILABLE") \in Result /\ Failed("UNAVAILABLE").code # "OK"
  BY FailedType DEF Codes
<1>4. /\ NoCall \in Call /\ NoCall.step = "idle" /\ NoCall.since = 0 /\ NoCall.spent = 0
      /\ NoCall.end = "none" /\ NoCall.result = Failed("UNAVAILABLE")
  BY <1>3 DEF NoCall, Call, Transit
<1>5. LET d == [NoCall EXCEPT !.step = "out"]
      IN  /\ d \in Call /\ d.step = "out" /\ d.since = 0 /\ d.spent = 0 /\ d.end = "none"
          /\ d.result = Failed("UNAVAILABLE")
  <2> HIDE DEF NoCall
  <2> QED BY <1>4 DEF Call
<1>6. /\ call \in [Positions -> Call]
      /\ \A i \in Positions :
            /\ call[i].step = IF i = 1 THEN "out" ELSE "idle"
            /\ call[i].since = 0 /\ call[i].spent = 0 /\ call[i].end = "none"
            /\ call[i].result = Failed("UNAVAILABLE")
  <2> HIDE DEF NoCall
  <2>1. call = [i \in Positions |-> IF i = 1 THEN [NoCall EXCEPT !.step = "out"] ELSE NoCall]
    BY DEF Init
  <2>2. call \in [Positions -> Call]
    BY <1>4, <1>5, <2>1
  <2>3. ASSUME NEW i \in Positions
        PROVE  call[i] = IF i = 1 THEN [NoCall EXCEPT !.step = "out"] ELSE NoCall
    BY <2>1
  <2> QED BY <1>4, <1>5, <2>2, <2>3
<1>7. /\ signer \in Signer /\ signer.step = "idle" /\ signer.waited = 0
  BY <1>3 DEF Init, Signer
<1>8. held \in Held /\ (held.there => held.signed <= held.completed /\ held.completed <= 0)
  <2>1. NoneHeld \in Held /\ ~NoneHeld.there
    BY DEF NoneHeld, Held
  <2>2. ASSUME NEW h \in Helds PROVE h \in Held /\ h.signed <= h.completed /\ h.completed <= 0
    BY RouteAssumption DEF Held
  <2> QED BY <2>1, <2>2 DEF Init
<1>9. drift \in Int /\ reuse \in Nat
  BY RouteAssumption DEF Init
<1>10. Types
  BY <1>1, <1>6, <1>7, <1>8, <1>9 DEF Types
<1>11. \A i \in 1..(Last - 1) : Linked(i)
  <2> SUFFICES ASSUME NEW i \in 1..(Last - 1) PROVE Linked(i)
    OBVIOUS
  <2>1. i \in Positions /\ i + 1 \in Positions /\ i + 1 # 1
    BY <1>2
  <2> QED BY <1>6, <2>1 DEF Linked, Live
<1>12. \A i \in 1..Last : InTime(i)
  BY <1>1, <1>2, <1>6 DEF InTime, Live, Due
<1>13. Minting /\ Answers /\ AcceptedBounded
  <2>1. call[Last].step \in {"idle", "out"} /\ call[Last].end = "none"
    BY <1>2, <1>6
  <2> QED BY <1>1, <1>7, <1>8, <2>1 DEF Minting, Answers, AcceptedBounded
<1>14. \A i \in 2..Last : call[i].end # "cancelled"
  BY <1>2, <1>6
<1> QED BY <1>10, <1>11, <1>12, <1>13, <1>14

LEMMA StepKeeps == RouteInv /\ [Next]_rvars => RouteInv'
<1> SUFFICES ASSUME RouteInv, [Next]_rvars PROVE RouteInv'
  OBVIOUS
<1>1. CASE Tick
  BY <1>1, TickKeeps
<1>2. CASE OtherMint
  BY <1>2, OtherMintKeeps
<1>3. CASE Mint
  BY <1>3, MintKeeps
<1>4. CASE Sign
  BY <1>4, SignKeeps
<1>5. CASE Abandon
  BY <1>5, AbandonKeeps
<1>6. CASE SessionEnds
  BY <1>6, SessionEndsKeeps
<1>7. ASSUME NEW i \in 1..Last,
             \/ CallOn(i) \/ Queue(i) \/ Refuse(i) \/ Reply(i) \/ Arrive(i)
             \/ GiveUp(i) \/ RouteBreaks(i) \/ Cancel(i)
      PROVE  RouteInv'
  BY <1>7, CallOnKeeps, QueueKeeps, RefuseKeeps, ReplyKeeps, ArriveKeeps, EndingKeeps
<1>8. CASE UNCHANGED rvars
  <2>1. UNCHANGED <<now, path, drift, reuse, call, session>> /\ signer' = signer /\ held' = held
    BY <1>8 DEF rvars
  <2>2. Last' = Last /\ Arrived' = Arrived
    BY <2>1 DEF Last, Arrived
  <2>3. Minting' /\ Answers'
    BY <2>1, <2>2 DEF RouteInv, Minting, Answers, Entitled
  <2> QED BY <2>1, <2>3, MintStepKeeps DEF RouteInv, Types
<1> QED BY <1>1, <1>2, <1>3, <1>4, <1>5, <1>6, <1>7, <1>8 DEF Next

\* The state of a request in every reachable state: types, the order of the
\* nested calls, how far time may have got in each, and what was answered.
THEOREM RouteInvariant == Spec => []RouteInv
BY InitEstablishes, StepKeeps, PTL DEF Spec

\* As long as the session goes on nobody gives up on a call that was made for
\* it, and a mint that has the lock soon enough is answered in time: the
\* timeouts of the helper, the relay and the route's client fit into one
\* another for every queue and every signature within the mint's bound.
THEOREM DeadlinesNest == Spec => []InnerAnswersFirst
<1>1. RouteInv => InnerAnswersFirst
  BY DEF RouteInv, Minting, InnerAnswersFirst
<1> QED BY <1>1, RouteInvariant, PTL

\* The helper reports the code that the innermost call ended with.
THEOREM CodeComesBack == Spec => []CodeSurvives
<1>1. RouteInv => CodeSurvives
  <2> SUFFICES ASSUME RouteInv, session, call[1].step = "done", call[Last].step = "done"
               PROVE  /\ call[1].result = call[Last].result
                      /\ call[Last].end = "answered" /\ signer.step = "done" =>
                            call[Last].result.code \in {signer.result.code}
                                \cup (IF signer.result.code = "OK" THEN {"CONFIG"} ELSE {})
    BY DEF CodeSurvives
  <2>0. Last \in 1..3
    BY OnPath DEF RouteInv
  <2>1. call[1].result = call[Last].result
    <3>1. CASE Last = 1
      BY <3>1
    <3>2. CASE Last = 2
      <4>1. Linked(1)
        BY <3>2 DEF RouteInv
      <4> QED BY <3>2, <4>1 DEF Linked
    <3>3. CASE Last = 3
      <4>1. Linked(1) /\ Linked(2)
        BY <3>3 DEF RouteInv
      <4>2. call[2].step # "idle"
        BY <3>3, <4>1 DEF Linked
      <4>3. call[2].step = "done" /\ call[1].result = call[2].result
        BY <4>1, <4>2 DEF Linked
      <4> QED BY <3>3, <4>1, <4>3 DEF Linked
    <3> QED BY <2>0, <3>1, <3>2, <3>3
  <2>2. call[Last].end = "answered" /\ signer.step = "done" =>
            call[Last].result.code \in {signer.result.code}
                \cup (IF signer.result.code = "OK" THEN {"CONFIG"} ELSE {})
    BY DEF RouteInv, Answers
  <2> QED BY <2>1, <2>2
<1> QED BY <1>1, RouteInvariant, PTL

\* The origin's freshness check refuses no assertion it is meant to let
\* through, whatever the lifetime (of at least 300 s), the reuse windows, the
\* clocks (one skew apart) and the time in the queue.
THEOREM FreshPasses == Spec => []FreshAccepted
<1>1. RouteInv => FreshAccepted
  <2> DEFINE r == call[Last].result
             since == call[Last].since
  <2> SUFFICES ASSUME RouteInv, Routed, ClocksAgree, call[Last].step = "back", r.code = "OK",
                      r.signed < since => ProviderReuse <= reuse
                                          /\ drift + (r.completed - r.signed) <= ClockSkew
               PROVE  FreshEnough(r, since)
    <3>1. RouteInv => /\ r.signed \in Int /\ r.completed \in Int /\ since \in Nat
                      /\ drift \in Int /\ reuse \in Nat /\ ProviderReuse \in Nat
                      /\ ClockSkew = 60
      <4> SUFFICES ASSUME RouteInv PROVE /\ r.signed \in Int /\ r.completed \in Int
                      /\ since \in Nat /\ drift \in Int /\ reuse \in Nat
        BY RouteAssumption DEF ClockSkew, Second
      <4>1. r \in Result /\ since \in Nat
        BY CallFields, OnPath DEF RouteInv
      <4> QED BY <4>1 DEF RouteInv, Types, Result
    <3> QED BY <3>1 DEF FreshAccepted
  <2>1. /\ r.signed \in Int /\ r.completed \in Int /\ since \in Nat
        /\ drift \in Int /\ reuse \in Nat /\ now \in Nat
    <3>1. r \in Result /\ since \in Nat
      BY CallFields, OnPath DEF RouteInv
    <3> QED BY <3>1 DEF RouteInv, Types, Result
  <2>2. /\ ProviderReuse \in Nat /\ Lifetime \in Nat /\ Lifetime >= 600
        /\ ClockSkew = 60 /\ ReuseValidityFloor = 120
    BY RouteAssumption DEF ClockSkew, ReuseValidityFloor, Second
  <2>3. Entitled(r)
    BY DEF RouteInv, Answers
  <2>4. now <= since + 50
    <3>1. InTime(Last) /\ Timeout(path[Last]) = 50
      BY OnPath, PathFacts DEF RouteInv, Types, RouteTimeout, Second
    <3> QED BY <3>1 DEF InTime, Live, Due
  <2>5. -60 <= drift /\ drift <= 60
    BY <2>2 DEF ClocksAgree
  <2>6. r.signed <= r.completed /\ r.completed <= now
    BY <2>3 DEF Entitled
  <2>7. r.signed >= since \/ (/\ r.completed >= since - ProviderReuse
                              /\ r.signed - 60 + Lifetime >= since + 120)
    BY <2>2, <2>3 DEF Entitled
  <2>8. r.signed < since => ProviderReuse <= reuse /\ drift + (r.completed - r.signed) <= 60
    BY <2>2
  <2> HIDE DEF r, since
  <2>9. r.signed - 60 + Lifetime > now + drift
    BY <2>1, <2>2, <2>4, <2>5, <2>7
  <2>10. r.signed - 60 >= since + drift - 2 * 60 - reuse
    BY <2>1, <2>2, <2>5, <2>7, <2>8
  <2>11. r.signed - 60 <= now + drift + 60
    BY <2>1, <2>5, <2>6
  <2> QED BY <2>2, <2>9, <2>10, <2>11 DEF FreshEnough, NotBefore
<1> QED BY <1>1, RouteInvariant, PTL

\* What the origin accepts is no older than its own configuration allows.
THEOREM AcceptedIsRecent == Spec => []AcceptedBounded
<1>1. RouteInv => AcceptedBounded
  BY DEF RouteInv
<1> QED BY <1>1, RouteInvariant, PTL
=============================================================================
