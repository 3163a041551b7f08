---------------------------- MODULE SignerProofs ----------------------------
(***************************************************************************)
(* Theorems about Signer for any number of cards, PINs, retries and        *)
(* workers: its types, the lease of a forwarded operation, the PIN that    *)
(* Core has cached, and the last attempt that a card allows.               *)
(***************************************************************************)
EXTENDS Signer, TLAPS

USE SignerAssumption DEF envVars, coreVars

-----------------------------------------------------------------------------
(* Records.                                                                *)

Steps == {"idle", "open", "certificate", "verify", "note", "reject",
          "key", "touch", "close", "send", "done"}

\* The records a step starts from have their types.
LEMMA Constants ==
    /\ NoResult \in Result
    /\ NoOp \in Operation
    /\ Idle \in Worker
BY DEF NoResult, Failure, Result, NoOp, Operation, Idle, Worker, Kinds

LEMMA ResultType ==
    ASSUME NEW s \in Serials \cup {NoCard}, NEW b \in BOOLEAN
    PROVE  /\ Failure(s, b) \in Result
           /\ [serial |-> s, err |-> "none", sharing |-> b] \in Result
           /\ [serial |-> s, err |-> "rejected", sharing |-> b] \in Result
BY DEF Failure, Result

LEMMA WorkerFields ==
    ASSUME NEW k \in Worker
    PROVE  /\ k.step \in Steps
           /\ k.kind \in Kinds
           /\ k.pin \in PINs \cup {NoPIN}
           /\ k.serial \in Serials \cup {NoCard}
           /\ k.live \in BOOLEAN
           /\ k.res \in Result
BY DEF Worker, Steps

LEMMA OperationFields ==
    ASSUME NEW o \in Operation
    PROVE  /\ o.kind \in Kinds
           /\ o.pin \in PINs \cup {NoPIN}
           /\ o.required \in BOOLEAN
           /\ o.lease \in {"none", "held", "closed"}
           /\ o.retry \in BOOLEAN
           /\ o.by \in Workers \cup {NoWorker}
           /\ o.res \in Result
BY DEF Operation

\* The step replaces w's record by k and leaves the other workers alone.
Sets(w, k) ==
    /\ worker' \in [Workers -> Worker]
    /\ \A v \in Workers : v # w => worker'[v] = worker[v]
    /\ worker'[w] = k

\* As Sets, by fields: a worker keeps its operation's kind and PIN.
Becomes(w, step, serial, res) ==
    /\ worker' \in [Workers -> Worker]
    /\ \A v \in Workers : v # w => worker'[v] = worker[v]
    /\ worker'[w].step = step
    /\ worker'[w].kind = worker[w].kind
    /\ worker'[w].pin = worker[w].pin
    /\ worker'[w].serial = serial
    /\ worker'[w].res = res

LEMMA SetWorker ==
    ASSUME worker \in [Workers -> Worker], NEW w \in Workers, NEW k \in Worker,
           worker' = [worker EXCEPT ![w] = k]
    PROVE  Sets(w, k)
BY DEF Sets

LEMMA GoesBecomes ==
    ASSUME worker \in [Workers -> Worker], NEW w \in Workers, NEW step \in Steps,
           Goes(w, step)
    PROVE  Becomes(w, step, worker[w].serial, worker[w].res)
<1> DEFINE k == [worker[w] EXCEPT !.step = step]
<1>1. k \in Worker
  BY DEF Worker, Steps
<1>2. /\ k.step = step
      /\ k.kind = worker[w].kind
      /\ k.pin = worker[w].pin
      /\ k.serial = worker[w].serial
      /\ k.res = worker[w].res
  BY DEF Worker
<1>3. worker' = [worker EXCEPT ![w] = k]
  BY DEF Goes
<1> HIDE DEF k
<1>4. Sets(w, k)
  BY <1>1, <1>3, SetWorker
<1> QED BY <1>2, <1>4 DEF Sets, Becomes

\* Any step that ends with a result, closing the session or not.
LEMMA EndsBecomes ==
    ASSUME worker \in [Workers -> Worker], NEW w \in Workers, NEW step \in Steps,
           NEW res \in Result,
           worker' = [worker EXCEPT ![w].step = step, ![w].res = res]
    PROVE  Becomes(w, step, worker[w].serial, res)
<1> DEFINE k == [worker[w] EXCEPT !.step = step, !.res = res]
<1>1. k \in Worker
  BY DEF Worker, Steps
<1>2. /\ k.step = step
      /\ k.kind = worker[w].kind
      /\ k.pin = worker[w].pin
      /\ k.serial = worker[w].serial
      /\ k.res = res
  BY DEF Worker
<1>3. worker' = [worker EXCEPT ![w] = k]
  OBVIOUS
<1> HIDE DEF k
<1>4. Sets(w, k)
  BY <1>1, <1>3, SetWorker
<1> QED BY <1>2, <1>4 DEF Sets, Becomes

LEMMA FinishesBecomes ==
    ASSUME worker \in [Workers -> Worker], NEW w \in Workers, NEW res \in Result,
           Finishes(w, res)
    PROVE  Becomes(w, "close", worker[w].serial, res)
BY EndsBecomes DEF Finishes, Steps

-----------------------------------------------------------------------------
(* What each step of a worker does to it.                                  *)

LEMMA FailsBecomes ==
    ASSUME worker \in [Workers -> Worker], NEW w \in Workers,
           NEW s \in Serials \cup {NoCard}, Fails(w, s)
    PROVE  \E b \in BOOLEAN : Becomes(w, "close", worker[w].serial, Failure(s, b))
<1>1. PICK b \in BOOLEAN : Finishes(w, Failure(s, b))
  BY DEF Fails
<1>2. Becomes(w, "close", worker[w].serial, Failure(s, b))
  BY <1>1, ResultType, FinishesBecomes
<1> QED BY <1>2

LEMMA RejectsBecomes ==
    ASSUME worker \in [Workers -> Worker], NEW w \in Workers,
           NEW b \in BOOLEAN, Rejects(w, b)
    PROVE  Becomes(w, "reject", worker[w].serial,
                   [serial |-> NoCard, err |-> "rejected", sharing |-> b])
BY ResultType, EndsBecomes DEF Rejects, Steps

LEMMA OpenCardMoves ==
    ASSUME TypeOK, NEW w \in Workers, OpenCard(w)
    PROVE  \/ \E step \in {"verify", "certificate"} :
                 /\ step = "verify" => worker[w].kind = "unlock"
                 /\ card # NoCard
                 /\ Becomes(w, step, card, worker[w].res)
           \/ Becomes(w, "send", worker[w].serial, NoResult)
<1>1. CASE worker' = [worker EXCEPT ![w].step = "send", ![w].res = NoResult]
  BY <1>1, Constants, EndsBecomes DEF Steps, TypeOK
<1> DEFINE step == IF worker[w].kind = "unlock" THEN "verify" ELSE "certificate"
           k == [worker[w] EXCEPT !.step = step, !.serial = card, !.live = TRUE]
<1>2. CASE card # NoCard /\ worker' = [worker EXCEPT ![w] = k]
  <2>1. step \in {"verify", "certificate"} /\ (step = "verify" => worker[w].kind = "unlock")
    OBVIOUS
  <2> HIDE DEF step
  <2>0. worker[w] \in Worker /\ card \in Serials \cup {NoCard}
    BY DEF TypeOK
  <2>2. k \in Worker
    BY <2>0, <2>1 DEF Worker
  <2>3. /\ k.step = step
        /\ k.kind = worker[w].kind
        /\ k.pin = worker[w].pin
        /\ k.serial = card
        /\ k.res = worker[w].res
    BY <2>0 DEF Worker
  <2> HIDE DEF k
  <2>4. Sets(w, k)
    BY <1>2, <2>2, SetWorker DEF TypeOK
  <2>5. Becomes(w, step, card, worker[w].res)
    BY <2>3, <2>4 DEF Sets, Becomes
  <2> QED BY <1>2, <2>1, <2>5
<1>3. CASE /\ card # NoCard
           /\ worker' = [worker EXCEPT ![w].step = step, ![w].serial = card, ![w].live = TRUE]
  <2>1. worker' = [worker EXCEPT ![w] = k]
    BY <1>3
  <2> QED BY <1>2, <1>3, <2>1
<1> HIDE DEF k
<1> QED BY <1>1, <1>3 DEF OpenCard

LEMMA ReadCertificateMoves ==
    ASSUME TypeOK, NEW w \in Workers, ReadCertificate(w)
    PROVE  \/ /\ worker[w].kind = "sign"
              /\ Becomes(w, "verify", worker[w].serial, worker[w].res)
           \/ /\ worker[w].kind = "describe"
              /\ \E res \in Result : Becomes(w, "close", worker[w].serial, res)
           \/ \E b \in BOOLEAN :
                 Becomes(w, "close", worker[w].serial, Failure(NoCard, b))
<1>1. CASE worker[w].kind = "sign" /\ Goes(w, "verify")
  BY <1>1, GoesBecomes DEF Steps, TypeOK
<1>2. CASE worker[w].kind = "describe" /\ Finishes(w,
             [serial |-> worker[w].serial, err |-> "none", sharing |-> FALSE])
  BY <1>2, ResultType, WorkerFields, FinishesBecomes DEF TypeOK
<1>3. CASE Fails(w, NoCard)
  BY <1>3, FailsBecomes DEF TypeOK
<1> QED BY <1>1, <1>2, <1>3 DEF ReadCertificate

\* A PIN is passed on only when the card is vouched for or has accepted it,
\* and the counter falls only when more than one attempt is left.
LEMMA VerifyPINMoves ==
    ASSUME TypeOK, NEW w \in Workers, VerifyPIN(w)
    PROVE  \/ /\ worker[w].kind = "sign" /\ Vouched(worker[w].serial)
              /\ Becomes(w, "key", worker[w].serial, worker[w].res)
              /\ UNCHANGED retries
           \/ /\ \E b \in BOOLEAN :
                    Becomes(w, "close", worker[w].serial, Failure(NoCard, b))
              /\ UNCHANGED retries
           \/ /\ Becomes(w, "note", worker[w].serial, worker[w].res)
              /\ worker[w].pin = PINOf[worker[w].serial]
              /\ Accepts(worker[w].serial)
           \/ /\ \/ Becomes(w, "close", worker[w].serial, NoResult)
                 \/ \E b \in BOOLEAN : Becomes(w, "reject", worker[w].serial,
                       [serial |-> NoCard, err |-> "rejected", sharing |-> b])
              /\ \/ Spendable(worker[w].serial) /\ Refuses(worker[w].serial)
                 \/ UNCHANGED retries
<1> DEFINE me == worker[w]
<1>1. CASE me.kind = "sign" /\ Vouched(me.serial) /\ Goes(w, "key")
           /\ UNCHANGED <<retries, rejected>>
  BY <1>1, GoesBecomes DEF Steps, TypeOK
<1>2. CASE Fails(w, NoCard) /\ UNCHANGED <<retries, rejected>>
  BY <1>2, FailsBecomes DEF TypeOK
<1>3. CASE me.pin = PINOf[me.serial] /\ Accepts(me.serial) /\ Goes(w, "note")
  BY <1>3, GoesBecomes DEF Steps, TypeOK
<1>4. CASE /\ Spendable(me.serial) /\ Refuses(me.serial)
           /\ IF me.kind = "sign" THEN Rejects(w, FALSE) ELSE Finishes(w, NoResult)
  <2>1. CASE Rejects(w, FALSE)
    BY <1>4, <2>1, RejectsBecomes DEF TypeOK
  <2>2. CASE Finishes(w, NoResult)
    BY <1>4, <2>2, Constants, FinishesBecomes DEF TypeOK
  <2> QED BY <1>4, <2>1, <2>2
<1>5. CASE /\ \E b \in BOOLEAN : Rejects(w, b)
           /\ UNCHANGED <<retries, rejected>>
  BY <1>5, RejectsBecomes DEF TypeOK
<1> QED BY <1>1, <1>2, <1>3, <1>4, <1>5 DEF VerifyPIN

LEMMA NoteVerifiedMoves ==
    ASSUME TypeOK, NEW w \in Workers, NoteVerified(w)
    PROVE  \/ /\ worker[w].kind = "sign"
              /\ Becomes(w, "key", worker[w].serial, worker[w].res)
           \/ /\ worker[w].kind # "sign"
              /\ Becomes(w, "close", worker[w].serial,
                    [serial |-> worker[w].serial, err |-> "none", sharing |-> FALSE])
<1>1. CASE worker[w].kind = "sign" /\ Goes(w, "key")
  BY <1>1, GoesBecomes DEF Steps, TypeOK
<1>2. CASE worker[w].kind # "sign" /\ Finishes(w,
             [serial |-> worker[w].serial, err |-> "none", sharing |-> FALSE])
  BY <1>2, ResultType, WorkerFields, FinishesBecomes DEF TypeOK
<1> QED BY <1>1, <1>2 DEF NoteVerified

LEMMA NoteRejectedMoves ==
    ASSUME TypeOK, NEW w \in Workers, NoteRejected(w)
    PROVE  Becomes(w, "close", worker[w].serial, worker[w].res)
BY GoesBecomes DEF NoteRejected, Steps, TypeOK

LEMMA OpenKeyMoves ==
    ASSUME TypeOK, NEW w \in Workers, OpenKey(w)
    PROVE  \/ Becomes(w, "touch", worker[w].serial, worker[w].res)
           \/ \E b \in BOOLEAN : Becomes(w, "close", worker[w].serial,
                                         Failure(worker[w].serial, b))
<1>1. CASE Goes(w, "touch")
  BY <1>1, GoesBecomes DEF Steps, TypeOK
<1>2. CASE Fails(w, worker[w].serial)
  BY <1>2, WorkerFields, FailsBecomes DEF TypeOK
<1> QED BY <1>1, <1>2 DEF OpenKey

LEMMA TouchMoves ==
    ASSUME TypeOK, NEW w \in Workers, Touch(w)
    PROVE  /\ \E res \in Result : /\ res.serial = worker[w].serial
                                  /\ Becomes(w, "close", worker[w].serial, res)
           /\ \/ UNCHANGED retries
              \/ Accepts(worker[w].serial)
              \/ /\ retries[worker[w].serial] > 0
                 /\ worker[w].pin # PINOf[worker[w].serial]
                 /\ Refuses(worker[w].serial)
<1> DEFINE me == worker[w]
           ok == [serial |-> me.serial, err |-> "none", sharing |-> FALSE]
<1>1. me.serial \in Serials \cup {NoCard}
  BY WorkerFields DEF TypeOK
<1>2. ok \in Result /\ ok.serial = me.serial
  BY <1>1, ResultType
<1>3. \A b \in BOOLEAN : Failure(me.serial, b) \in Result
                         /\ Failure(me.serial, b).serial = me.serial
  BY <1>1, ResultType DEF Failure
<1> HIDE DEF ok
<1>4. \E res \in Result : res.serial = me.serial /\ Finishes(w, res)
  BY <1>2, <1>3 DEF Touch, Fails, ok
<1>5. \E res \in Result : res.serial = me.serial
                          /\ Becomes(w, "close", me.serial, res)
  BY <1>4, FinishesBecomes DEF TypeOK
<1>6. \/ UNCHANGED retries
      \/ Accepts(me.serial)
      \/ retries[me.serial] > 0 /\ me.pin # PINOf[me.serial] /\ Refuses(me.serial)
  BY DEF Touch
<1> QED BY <1>5, <1>6

LEMMA CloseSessionMoves ==
    ASSUME TypeOK, NEW w \in Workers, CloseSession(w)
    PROVE  Becomes(w, "send", NoCard, worker[w].res)
<1> DEFINE k == [worker[w] EXCEPT !.step = "send", !.live = FALSE, !.serial = NoCard]
<1>0. worker[w] \in Worker
  BY DEF TypeOK
<1>1. k \in Worker
  BY <1>0 DEF Worker
<1>2. /\ k.step = "send"
      /\ k.kind = worker[w].kind
      /\ k.pin = worker[w].pin
      /\ k.serial = NoCard
      /\ k.res = worker[w].res
  BY DEF TypeOK, Worker
<1>3. worker' = [worker EXCEPT ![w] = k]
  BY DEF CloseSession
<1> HIDE DEF k
<1>4. Sets(w, k)
  BY <1>1, <1>3, SetWorker DEF TypeOK
<1> QED BY <1>2, <1>4 DEF Sets, Becomes

LEMMA SendResultMoves ==
    ASSUME TypeOK, NEW w \in Workers, SendResult(w)
    PROVE  \/ op.by = w /\ Becomes(w, "done", worker[w].serial, worker[w].res)
           \/ op.by # w /\ Sets(w, Idle)
<1>1. CASE op.by # w
  <2>1. worker' = [worker EXCEPT ![w] = Idle]
    BY <1>1 DEF SendResult
  <2> QED BY <1>1, <2>1, Constants, SetWorker DEF TypeOK
<1>2. CASE op.by = w
  <2>1. worker' = [worker EXCEPT ![w].step = "done"]
    BY <1>2 DEF SendResult
  <2> QED BY <1>2, <2>1, GoesBecomes DEF Goes, Steps, TypeOK
<1> QED BY <1>1, <1>2

LEMMA UnplugMoves ==
    ASSUME TypeOK, UnplugCard
    PROVE  /\ worker' \in [Workers -> Worker]
           /\ \A w \in Workers : /\ worker'[w].step = worker[w].step
                                 /\ worker'[w].kind = worker[w].kind
                                 /\ worker'[w].pin = worker[w].pin
                                 /\ worker'[w].serial = worker[w].serial
                                 /\ worker'[w].res = worker[w].res
<1>1. \A w \in Workers : worker[w] \in Worker
  BY DEF TypeOK
<1>2. \A k \in Worker : LET m == [k EXCEPT !.live = FALSE]
                        IN  /\ m \in Worker
                            /\ m.step = k.step /\ m.kind = k.kind /\ m.pin = k.pin
                            /\ m.serial = k.serial /\ m.res = k.res
  BY DEF Worker
<1>3. worker' = [w \in Workers |-> [worker[w] EXCEPT !.live = FALSE]]
  BY DEF UnplugCard
<1> QED BY <1>1, <1>2, <1>3

-----------------------------------------------------------------------------
(* Types and the shape of an operation.                                    *)

\* A worker with a session has a card.
SessionShape ==
    \A w \in Workers : worker[w].step \in InSession => worker[w].serial \in Serials

\* An operation has a worker exactly while it awaits or drains it, only a
\* signature drains, and a result is there only to be returned.
OpShape ==
    /\ op.by # NoWorker <=> pc \in {"await", "drain"}
    /\ pc = "free" => op.kind = "none"
    /\ pc = "drain" => op.kind = "sign"
    /\ pc # "return" => op.res = NoResult

TypeInv == TypeOK /\ SessionShape /\ OpShape

LEMMA InitType == Init => TypeInv
<1> SUFFICES ASSUME Init PROVE TypeInv
  OBVIOUS
<1>1. worker \in [Workers -> Worker] /\ op \in Operation
  BY Constants DEF Init
<1>2. retries \in [Serials -> 0..MaxRetries]
  BY DEF Init
<1>3. TypeOK
  BY <1>1, <1>2 DEF Init, TypeOK
<1>4. SessionShape
  BY DEF Init, SessionShape, Idle, InSession
<1>5. OpShape
  BY DEF Init, OpShape, NoOp
<1> QED BY <1>3, <1>4, <1>5 DEF TypeInv

\* A move of one worker keeps the workers typed and their sessions on cards.
LEMMA MoveShape ==
    ASSUME TypeInv, NEW w \in Workers, NEW step, NEW serial, NEW res,
           step \in InSession => serial \in Serials,
           Becomes(w, step, serial, res)
    PROVE  worker' \in [Workers -> Worker] /\ SessionShape'
BY DEF Becomes, TypeInv, SessionShape

LEMMA IdleShape ==
    ASSUME TypeInv, NEW w \in Workers, Sets(w, Idle)
    PROVE  worker' \in [Workers -> Worker] /\ SessionShape'
BY DEF Sets, TypeInv, SessionShape, Idle, InSession

LEMMA CounterType ==
    ASSUME retries \in [Serials -> 0..MaxRetries], NEW s \in Serials,
           \/ Accepts(s)
           \/ retries[s] > 0 /\ Refuses(s)
    PROVE  retries' \in [Serials -> 0..MaxRetries]
BY DEF Accepts, Refuses

\* A worker's step keeps the types; the rest of the state is not its business.
LEMMA WorkerTypeStep ==
    ASSUME TypeInv, NEW w \in Workers, WorkerStep(w)
    PROVE  TypeInv'
<1>1. TypeOK /\ SessionShape /\ OpShape
  BY DEF TypeInv
<1>2. worker[w].step \in InSession => worker[w].serial \in Serials
  BY <1>1 DEF SessionShape
<1>3. /\ worker' \in [Workers -> Worker] /\ SessionShape'
      /\ retries' \in [Serials -> 0..MaxRetries]
      /\ verifiedSerial' \in Serials \cup {NoCard}
      /\ rejected' \in BOOLEAN
      /\ UNCHANGED <<card, pin, pinVerifiedSerial, pc, op, orphaned>>
  <2>1. CASE OpenCard(w)
    <3>1. worker' \in [Workers -> Worker] /\ SessionShape'
      <4>1. CASE \E step \in {"verify", "certificate"} :
                    card # NoCard /\ Becomes(w, step, card, worker[w].res)
        BY <1>1, <4>1, MoveShape DEF TypeOK
      <4>2. CASE Becomes(w, "send", worker[w].serial, NoResult)
        BY <4>2, MoveShape DEF InSession
      <4> QED BY <1>1, <2>1, <4>1, <4>2, OpenCardMoves
    <3> QED BY <1>1, <2>1, <3>1 DEF OpenCard, TypeOK
  <2>2. CASE ReadCertificate(w)
    <3>0. worker[w].serial \in Serials
      BY <1>2, <2>2 DEF ReadCertificate, InSession
    <3>1. worker' \in [Workers -> Worker] /\ SessionShape'
      BY <1>1, <2>2, <3>0, ReadCertificateMoves, MoveShape
    <3> QED BY <1>1, <2>2, <3>1 DEF ReadCertificate, TypeOK
  <2>3. CASE VerifyPIN(w)
    <3>0. worker[w].serial \in Serials
      BY <1>2, <2>3 DEF VerifyPIN, InSession
    <3>1. worker' \in [Workers -> Worker] /\ SessionShape'
      BY <1>1, <2>3, <3>0, VerifyPINMoves, MoveShape
    <3>2. retries[worker[w].serial] \in Nat
      BY <1>1, <3>0 DEF TypeOK
    <3>3. \/ UNCHANGED retries
          \/ Accepts(worker[w].serial)
          \/ retries[worker[w].serial] > 0 /\ Refuses(worker[w].serial)
      BY <1>1, <2>3, <3>2, VerifyPINMoves DEF Spendable
    <3>4. retries' \in [Serials -> 0..MaxRetries]
      BY <1>1, <3>0, <3>3, CounterType DEF TypeOK
    <3>5. rejected' \in BOOLEAN
      BY <1>1, <2>3 DEF VerifyPIN, TypeOK
    <3> QED BY <1>1, <2>3, <3>1, <3>4, <3>5 DEF VerifyPIN, TypeOK
  <2>4. CASE NoteVerified(w)
    <3>0. worker[w].serial \in Serials
      BY <1>2, <2>4 DEF NoteVerified, InSession
    <3>1. worker' \in [Workers -> Worker] /\ SessionShape'
      BY <1>1, <2>4, <3>0, NoteVerifiedMoves, MoveShape
    <3> QED BY <1>1, <2>4, <3>0, <3>1 DEF NoteVerified, TypeOK
  <2>5. CASE NoteRejected(w)
    <3>0. worker[w].serial \in Serials
      BY <1>2, <2>5 DEF NoteRejected, InSession
    <3>1. worker' \in [Workers -> Worker] /\ SessionShape'
      BY <1>1, <2>5, <3>0, NoteRejectedMoves, MoveShape
    <3> QED BY <1>1, <2>5, <3>1 DEF NoteRejected, TypeOK
  <2>6. CASE OpenKey(w)
    <3>0. worker[w].serial \in Serials
      BY <1>2, <2>6 DEF OpenKey, InSession
    <3>1. worker' \in [Workers -> Worker] /\ SessionShape'
      BY <1>1, <2>6, <3>0, OpenKeyMoves, MoveShape
    <3> QED BY <1>1, <2>6, <3>1 DEF OpenKey, TypeOK
  <2>7. CASE Touch(w)
    <3>0. worker[w].serial \in Serials
      BY <1>2, <2>7 DEF Touch, InSession
    <3>1. worker' \in [Workers -> Worker] /\ SessionShape'
      BY <1>1, <2>7, <3>0, TouchMoves, MoveShape
    <3>2. retries' \in [Serials -> 0..MaxRetries]
      BY <1>1, <2>7, <3>0, TouchMoves, CounterType DEF TypeOK
    <3> QED BY <1>1, <2>7, <3>1, <3>2 DEF Touch, TypeOK
  <2>8. CASE CloseSession(w)
    <3>1. worker' \in [Workers -> Worker] /\ SessionShape'
      BY <1>1, <2>8, CloseSessionMoves, MoveShape DEF InSession
    <3> QED BY <1>1, <2>8, <3>1 DEF CloseSession, TypeOK
  <2>9. CASE SendResult(w)
    <3>1. worker' \in [Workers -> Worker] /\ SessionShape'
      BY <1>1, <2>9, SendResultMoves, MoveShape, IdleShape DEF InSession
    <3> QED BY <1>1, <2>9, <3>1 DEF SendResult, TypeOK
  <2> QED BY <2>1, <2>2, <2>3, <2>4, <2>5, <2>6, <2>7, <2>8, <2>9 DEF WorkerStep
<1>4. OpShape'
  BY <1>1, <1>3 DEF OpShape
<1>5. TypeOK'
  BY <1>1, <1>3 DEF TypeOK
<1> QED BY <1>3, <1>4, <1>5 DEF TypeInv

\* The steps of the operation, and the operator's.
LEMMA BeginsType ==
    ASSUME TypeInv, NEW kind \in Kinds, NEW p \in PINs \cup {NoPIN},
           NEW required \in BOOLEAN, Begins(kind, p, required)
    PROVE  /\ op' \in Operation
           /\ op'.kind = kind /\ op'.pin = p /\ op'.required = required
           /\ op'.lease = "none" /\ op'.by = NoWorker /\ op'.res = NoResult
           /\ pc' = "lease"
           /\ UNCHANGED <<card, retries, verifiedSerial, worker, orphaned>>
<1> DEFINE o == [NoOp EXCEPT !.kind = kind, !.pin = p, !.required = required]
<1>1. o \in Operation
  BY Constants DEF Operation
<1>2. /\ o.kind = kind /\ o.pin = p /\ o.required = required
      /\ o.lease = "none" /\ o.by = NoWorker /\ o.res = NoResult
  BY DEF NoOp
<1> QED BY <1>1, <1>2 DEF Begins

\* Only its worker and its lease change while an operation runs.
LEMMA AcquireLeaseMoves ==
    ASSUME TypeInv, AcquireLease
    PROVE  /\ op' \in Operation
           /\ op'.kind = op.kind /\ op'.pin = op.pin /\ op'.required = op.required
           /\ op'.by = op.by /\ op'.res = op.res
           /\ \/ pc' = "spawn" /\ op'.lease = "held"
              \/ pc' = "spawn" /\ MayBypassLease(op.required)
              \/ pc' = "return"
<1>1. op \in Operation
  BY DEF TypeInv, TypeOK
<1> DEFINE o == [op EXCEPT !.lease = "held"]
<1>2. /\ o \in Operation
      /\ o.kind = op.kind /\ o.pin = op.pin /\ o.required = op.required
      /\ o.by = op.by /\ o.res = op.res /\ o.lease = "held"
  BY <1>1 DEF Operation
<1>3. \/ op' = o /\ pc' = "spawn"
      \/ op' = op /\ pc' = "spawn" /\ MayBypassLease(op.required)
      \/ op' = op /\ pc' = "return"
  BY DEF AcquireLease
<1> HIDE DEF o
<1> QED BY <1>1, <1>2, <1>3

LEMMA StartAttemptMoves ==
    ASSUME TypeInv, NEW w \in Workers, StartAttempt(w)
    PROVE  /\ op' \in Operation
           /\ op'.kind = op.kind /\ op'.pin = op.pin /\ op'.required = op.required
           /\ op'.lease = op.lease /\ op'.by = w /\ op'.res = op.res
           /\ worker' \in [Workers -> Worker]
           /\ \A v \in Workers : v # w => worker'[v] = worker[v]
           /\ worker'[w].step = "open"
           /\ worker'[w].kind = op.kind /\ worker'[w].pin = op.pin
           /\ worker'[w].serial = NoCard /\ worker'[w].res = NoResult
<1>1. op \in Operation /\ worker \in [Workers -> Worker]
  BY DEF TypeInv, TypeOK
<1> DEFINE o == [op EXCEPT !.by = w]
           k == [Idle EXCEPT !.step = "open", !.kind = op.kind, !.pin = op.pin]
<1>2. /\ o \in Operation
      /\ o.kind = op.kind /\ o.pin = op.pin /\ o.required = op.required
      /\ o.lease = op.lease /\ o.by = w /\ o.res = op.res
  BY <1>1 DEF Operation
<1>3. k \in Worker
  BY <1>1, Constants, OperationFields DEF Worker
<1>4. k.step = "open" /\ k.kind = op.kind /\ k.pin = op.pin
      /\ k.serial = NoCard /\ k.res = NoResult
  BY DEF Idle
<1>5. op' = o /\ worker' = [worker EXCEPT ![w] = k]
  BY DEF StartAttempt
<1> HIDE DEF o, k
<1>6. Sets(w, k)
  BY <1>1, <1>3, <1>5, SetWorker
<1> QED BY <1>2, <1>4, <1>5, <1>6 DEF Sets

\* What TakeResult does, with the choice between return and a fresh attempt.
LEMMA TakeResultMoves ==
    ASSUME TypeInv, TakeResult
    PROVE  /\ op.by \in Workers /\ Sets(op.by, Idle)
           /\ op' \in Operation
           /\ op'.kind = op.kind /\ op'.pin = op.pin /\ op'.required = op.required
           /\ op'.lease = op.lease /\ op'.by = NoWorker
           /\ \/ pc' = "return" /\ op'.res = worker[op.by].res
              \/ pc' = "spawn" /\ op'.res = NoResult /\ op.kind = "sign"
<1>1. op \in Operation /\ worker \in [Workers -> Worker]
  BY DEF TypeInv, TypeOK
<1>2. op.by \in Workers
  BY <1>1, OperationFields DEF TypeInv, OpShape, TakeResult
<1>3. Sets(op.by, Idle)
  BY <1>1, <1>2, Constants, SetWorker DEF TakeResult
<1> DEFINE res   == worker[op.by].res
           again == op.kind = "sign" /\ res.err # "none" /\ res.sharing /\ ~op.retry
           r     == IF again THEN NoResult ELSE res
           o     == [op EXCEPT !.by = NoWorker, !.retry = @ \/ again, !.res = r]
<1>4. op' = o /\ pc' = IF again THEN "spawn" ELSE "return"
  BY DEF TakeResult
<1>5. r \in Result /\ (op.retry \/ again) \in BOOLEAN
  BY <1>1, <1>2, Constants, WorkerFields
<1>6. \/ pc' = "return" /\ r = worker[op.by].res
      \/ pc' = "spawn" /\ r = NoResult /\ op.kind = "sign"
  BY <1>4
<1> HIDE DEF r, again
<1>7. /\ o \in Operation
      /\ o.kind = op.kind /\ o.pin = op.pin /\ o.required = op.required
      /\ o.lease = op.lease /\ o.by = NoWorker /\ o.res = r
  BY <1>1, <1>5 DEF Operation
<1> HIDE DEF o
<1> QED BY <1>2, <1>3, <1>4, <1>6, <1>7

LEMMA DrainResultMoves ==
    ASSUME TypeInv, DrainResult
    PROVE  /\ op.by \in Workers /\ Sets(op.by, Idle)
           /\ op' \in Operation
           /\ op'.kind = op.kind /\ op'.pin = op.pin /\ op'.required = op.required
           /\ op'.lease = op.lease /\ op'.by = NoWorker /\ op'.res = op.res
<1>1. op \in Operation /\ worker \in [Workers -> Worker]
  BY DEF TypeInv, TypeOK
<1>2. op.by \in Workers
  BY <1>1, OperationFields DEF TypeInv, OpShape, DrainResult
<1>3. Sets(op.by, Idle)
  BY <1>1, <1>2, Constants, SetWorker DEF DrainResult
<1> DEFINE o == [op EXCEPT !.by = NoWorker]
<1>4. /\ o \in Operation
      /\ o.kind = op.kind /\ o.pin = op.pin /\ o.required = op.required
      /\ o.lease = op.lease /\ o.by = NoWorker /\ o.res = op.res
  BY <1>1 DEF Operation
<1>5. op' = o
  BY DEF DrainResult
<1> HIDE DEF o
<1> QED BY <1>2, <1>3, <1>4, <1>5

LEMMA DrainTimeoutMoves ==
    ASSUME TypeInv, DrainTimeout
    PROVE  /\ op' \in Operation
           /\ op'.kind = op.kind /\ op'.required = op.required
           /\ op'.by = NoWorker /\ op'.res = op.res
<1> DEFINE o == [op EXCEPT !.by = NoWorker]
<1>1. /\ o \in Operation
      /\ o.kind = op.kind /\ o.required = op.required
      /\ o.by = NoWorker /\ o.res = op.res
  BY DEF TypeInv, TypeOK, Operation
<1>2. op' = o
  BY DEF DrainTimeout
<1> HIDE DEF o
<1> QED BY <1>1, <1>2

LEMMA CallerLeavesMoves ==
    ASSUME TypeInv, CallerLeaves
    PROVE  /\ op' \in Operation
           /\ op'.kind = op.kind /\ op'.pin = op.pin /\ op'.required = op.required
           /\ op'.lease = "closed" /\ op'.by = op.by /\ op'.res = op.res
<1> DEFINE o == [op EXCEPT !.lease = "closed"]
<1>1. /\ o \in Operation
      /\ o.kind = op.kind /\ o.pin = op.pin /\ o.required = op.required
      /\ o.lease = "closed" /\ o.by = op.by /\ o.res = op.res
  BY DEF TypeInv, TypeOK, Operation
<1>2. op' = o
  BY DEF CallerLeaves
<1> HIDE DEF o
<1> QED BY <1>1, <1>2

\* Every step keeps the types and the shape.
LEMMA TypeStep ==
    ASSUME TypeInv, [Next]_vars
    PROVE  TypeInv'
<1>0. TypeOK /\ SessionShape /\ OpShape
  BY DEF TypeInv
<1>1. ASSUME NEW s \in Serials, PlugCard(s) PROVE TypeInv'
  BY <1>0, <1>1 DEF PlugCard, TypeInv, TypeOK, SessionShape, OpShape
<1>2. ASSUME UnplugCard PROVE TypeInv'
  <2>1. worker' \in [Workers -> Worker] /\ SessionShape'
    BY <1>0, <1>2, UnplugMoves DEF SessionShape
  <2> QED BY <1>0, <1>2, <2>1 DEF UnplugCard, TypeInv, TypeOK, OpShape
<1>3. ASSUME NEW r \in BOOLEAN, BeginSign(r) PROVE TypeInv'
  <2>1. pin \in PINs \cup {NoPIN} /\ "sign" \in Kinds /\ Begins("sign", pin, r)
    BY <1>0, <1>3 DEF TypeOK, Kinds, BeginSign
  <2>2. pin' \in PINs \cup {NoPIN} /\ pinVerifiedSerial' \in Serials \cup {NoCard}
        /\ rejected' \in BOOLEAN
    BY <1>0, <1>3 DEF TypeOK, BeginSign
  <2> QED BY <1>0, <2>1, <2>2, BeginsType DEF TypeInv, TypeOK, SessionShape, OpShape
<1>4. ASSUME NEW p \in PINs, BeginUnlock(p) PROVE TypeInv'
  <2>1. "unlock" \in Kinds /\ Begins("unlock", p, FALSE)
    BY <1>4 DEF Kinds, BeginUnlock
  <2>2. UNCHANGED <<pin, pinVerifiedSerial, rejected>>
    BY <1>4 DEF BeginUnlock
  <2> QED BY <1>0, <2>1, <2>2, BeginsType DEF TypeInv, TypeOK, SessionShape, OpShape
<1>5. ASSUME BeginDescribe PROVE TypeInv'
  <2>1. "describe" \in Kinds /\ Begins("describe", NoPIN, TRUE)
    BY <1>5 DEF Kinds, BeginDescribe
  <2>2. UNCHANGED <<pin, pinVerifiedSerial, rejected>>
    BY <1>5 DEF BeginDescribe
  <2> QED BY <1>0, <2>1, <2>2, BeginsType DEF TypeInv, TypeOK, SessionShape, OpShape
<1>6. ASSUME Lock PROVE TypeInv'
  BY <1>0, <1>6 DEF Lock, TypeInv, TypeOK, SessionShape, OpShape
<1>7. ASSUME AcquireLease PROVE TypeInv'
  <2>1. pc = "lease" /\ UNCHANGED <<card, retries, verifiedSerial, pin,
                        pinVerifiedSerial, worker, orphaned, rejected>>
    BY <1>7 DEF AcquireLease
  <2> QED BY <1>0, <1>7, <2>1, AcquireLeaseMoves DEF TypeInv, TypeOK, SessionShape, OpShape
<1>8. ASSUME NEW w \in Workers, StartAttempt(w) PROVE TypeInv'
  <2>1. pc = "spawn" /\ pc' = "await" /\ UNCHANGED <<card, retries, verifiedSerial,
                        pin, pinVerifiedSerial, orphaned, rejected>>
    BY <1>8 DEF StartAttempt
  <2>2. worker' \in [Workers -> Worker] /\ SessionShape'
    BY <1>0, <1>8, StartAttemptMoves DEF SessionShape, InSession
  <2> QED BY <1>0, <1>8, <2>1, <2>2, StartAttemptMoves DEF TypeInv, TypeOK, OpShape
<1>9. ASSUME TakeResult PROVE TypeInv'
  <2>1. pc = "await" /\ UNCHANGED <<card, retries, verifiedSerial, pin,
                        pinVerifiedSerial, orphaned, rejected>>
    BY <1>9 DEF TakeResult
  <2>2. worker' \in [Workers -> Worker] /\ SessionShape'
    BY <1>9, TakeResultMoves, IdleShape
  <2> QED BY <1>0, <1>9, <2>1, <2>2, TakeResultMoves DEF TypeInv, TypeOK, OpShape
<1>10. ASSUME ContextEnds PROVE TypeInv'
  BY <1>0, <1>10 DEF ContextEnds, TypeInv, TypeOK, SessionShape, OpShape
<1>11. ASSUME CallerLeaves PROVE TypeInv'
  <2>1. UNCHANGED <<card, retries, verifiedSerial, pin, pinVerifiedSerial, pc,
                    worker, orphaned, rejected>>
    BY <1>11 DEF CallerLeaves
  <2> QED BY <1>0, <1>11, <2>1, CallerLeavesMoves DEF TypeInv, TypeOK, SessionShape, OpShape
<1>12. ASSUME DrainResult PROVE TypeInv'
  <2>1. pc = "drain" /\ pc' = "return" /\ UNCHANGED <<card, retries, verifiedSerial,
                        pin, pinVerifiedSerial, orphaned, rejected>>
    BY <1>12 DEF DrainResult
  <2>2. worker' \in [Workers -> Worker] /\ SessionShape'
    BY <1>12, DrainResultMoves, IdleShape
  <2> QED BY <1>0, <1>12, <2>1, <2>2, DrainResultMoves DEF TypeInv, TypeOK, OpShape
<1>13. ASSUME DrainTimeout PROVE TypeInv'
  <2>1. pc' = "return" /\ orphaned' = TRUE /\ UNCHANGED <<card, retries,
          verifiedSerial, pin, pinVerifiedSerial, worker, rejected>>
    BY <1>13 DEF DrainTimeout
  <2> QED BY <1>0, <1>13, <2>1, DrainTimeoutMoves DEF TypeInv, TypeOK, SessionShape, OpShape
<1>14. ASSUME Return PROVE TypeInv'
  <2>1. pc' = "free" /\ op' = NoOp /\ UNCHANGED <<card, retries, verifiedSerial,
                                                  worker, orphaned>>
    BY <1>14 DEF Return
  <2>2. op.res.serial \in Serials \cup {NoCard} /\ op.pin \in PINs \cup {NoPIN}
    BY <1>0 DEF TypeOK, Operation, Result
  <2>3. pin' \in PINs \cup {NoPIN} /\ pinVerifiedSerial' \in Serials \cup {NoCard}
        /\ rejected' \in BOOLEAN
    BY <1>0, <1>14, <2>2 DEF Return, TypeOK
  <2>4. OpShape'
    BY <2>1 DEF OpShape, NoOp
  <2> QED BY <1>0, <2>1, <2>3, <2>4, Constants DEF TypeInv, TypeOK, SessionShape
<1>15. ASSUME NEW w \in Workers, WorkerStep(w) PROVE TypeInv'
  BY <1>15, WorkerTypeStep
<1>16. CASE UNCHANGED vars
  BY <1>0, <1>16 DEF vars, TypeInv, TypeOK, SessionShape, OpShape
<1> QED BY <1>1, <1>2, <1>3, <1>4, <1>5, <1>6, <1>7, <1>8, <1>9, <1>10, <1>11,
           <1>12, <1>13, <1>14, <1>15, <1>16 DEF Next

LEMMA TypeInvariant == Spec => []TypeInv
<1>1. TypeInv /\ [Next]_vars => TypeInv'
  BY TypeStep
<1> QED BY InitType, <1>1, PTL DEF Spec

\* Every variable of the card operations keeps its type: in particular a retry
\* counter never falls below zero, although two operations' workers may be at
\* the cards at once.
THEOREM SignerTypes == Spec => []TypeOK
<1>1. TypeInv => TypeOK
  BY DEF TypeInv
<1> QED BY TypeInvariant, <1>1, PTL

-----------------------------------------------------------------------------
(* The lease of a forwarded operation.                                     *)

\* ForwardedUnderLease looks at the worker; what carries it is that nothing
\* after the acquisition gives a required lease up, the retry included.
LeaseInv ==
    LeaseConfigured /\ op.required /\ pc \in {"spawn", "await", "drain"}
        => op.lease # "none"

LEMMA LeaseStep ==
    ASSUME TypeInv, LeaseInv, [Next]_vars
    PROVE  LeaseInv'
<1>1. CASE AcquireLease
  BY <1>1, AcquireLeaseMoves DEF LeaseInv, MayBypassLease
<1>2. ASSUME NEW w \in Workers, StartAttempt(w) PROVE LeaseInv'
  <2>1. pc = "spawn"
    BY <1>2 DEF StartAttempt
  <2> QED BY <1>2, <2>1, StartAttemptMoves DEF LeaseInv
<1>3. CASE TakeResult
  <2>1. pc = "await"
    BY <1>3 DEF TakeResult
  <2> QED BY <1>3, <2>1, TakeResultMoves DEF LeaseInv
<1>4. CASE CallerLeaves
  BY <1>4, CallerLeavesMoves DEF LeaseInv
<1>5. CASE ContextEnds
  BY <1>5 DEF ContextEnds, LeaseInv
<1>6. ASSUME pc' \in {"lease", "return", "free"} PROVE LeaseInv'
  BY <1>6 DEF LeaseInv
<1>7. ASSUME UNCHANGED <<pc, op>> PROVE LeaseInv'
  BY <1>7 DEF LeaseInv
<1>8. ASSUME NEW w \in Workers, WorkerStep(w) PROVE UNCHANGED <<pc, op>>
  BY <1>8 DEF WorkerStep, OpenCard, ReadCertificate, VerifyPIN, NoteVerified,
              NoteRejected, OpenKey, Touch, CloseSession, SendResult
<1>9. \/ \E s \in Serials : PlugCard(s)
      \/ UnplugCard \/ Lock \/ UNCHANGED vars
      => UNCHANGED <<pc, op>>
  BY DEF PlugCard, UnplugCard, Lock, vars
<1>10. \/ \E r \in BOOLEAN : BeginSign(r)
       \/ \E p \in PINs : BeginUnlock(p)
       \/ BeginDescribe \/ DrainResult \/ DrainTimeout \/ Return
       => pc' \in {"lease", "return", "free"}
  BY DEF BeginSign, BeginUnlock, BeginDescribe, Begins, DrainResult, DrainTimeout,
         Return
<1> QED BY <1>1, <1>2, <1>3, <1>4, <1>5, <1>6, <1>7, <1>8, <1>9, <1>10 DEF Next

\* Where a lease is configured, a forwarded operation has the card only under
\* a lease that was granted to it, on the first attempt and on the retry.
THEOREM ForwardLease == Spec => []ForwardedUnderLease
<1>1. Init => LeaseInv
  BY DEF Init, LeaseInv
<1>2. TypeInv /\ LeaseInv /\ [Next]_vars => LeaseInv'
  BY LeaseStep
<1>3. TypeInv /\ LeaseInv => ForwardedUnderLease
  BY DEF TypeInv, OpShape, LeaseInv, ForwardedUnderLease
<1> QED BY TypeInvariant, <1>1, <1>2, <1>3, PTL DEF Spec

-----------------------------------------------------------------------------
(* The cached PIN and the last attempt.                                    *)

\* Every worker that is not idle works for the operation.
Attached ==
    \A w \in Workers : worker[w].step # "idle" =>
        op.by = w /\ worker[w].kind = op.kind /\ worker[w].pin = op.pin

\* Past the verification the card is one that accepts the worker's PIN.
Verified ==
    \A w \in Workers :
        /\ worker[w].step \in {"verify", "note"} => worker[w].kind \in {"sign", "unlock"}
        /\ worker[w].step \in {"key", "touch"} => worker[w].kind = "sign"
        /\ worker[w].step \in {"note", "key", "touch"} =>
               PINOf[worker[w].serial] = worker[w].pin

\* A serial in a signature's result, or in that of an unlock that succeeded,
\* is of a card that accepts the PIN p the operation came with.
Good(kind, p, res) ==
    /\ kind = "sign" /\ res.serial # NoCard => PINOf[res.serial] = p
    /\ kind = "unlock" /\ res.err = "none" =>
           res.serial \in Serials /\ PINOf[res.serial] = p

Ended == {"close", "send", "done"}

GoodResults ==
    /\ Good(op.kind, op.pin, op.res)
    /\ \A w \in Workers :
          /\ worker[w].step \in Ended \cup {"reject"} =>
                 Good(worker[w].kind, worker[w].pin, worker[w].res)
          /\ worker[w].step = "reject" => worker[w].res.err = "rejected"

\* A signature uses the PIN that is cached, unless it consumed it.
SignsWithCached == op.kind = "sign" /\ pin # NoPIN => op.pin = pin

\* An unlock whose card has accepted the new PIN, which is not cached yet.
Succeeded(w) == worker[w].step \in Ended /\ worker[w].res.err = "none"

Unlocking ==
    op.kind = "unlock" /\ (op.res.err = "none" \/ \E w \in Workers : Succeeded(w))

\* The card the signer skips the verification for accepts the PIN in use: the
\* one of the signature, the one just accepted for an unlock, or the cached one.
Known ==
    verifiedSerial # NoCard =>
        /\ op.kind = "sign" \/ Unlocking => PINOf[verifiedSerial] = op.pin
        /\ op.kind # "sign" /\ ~Unlocking /\ pin # NoPIN => PINOf[verifiedSerial] = pin

PINInv ==
    ~orphaned => /\ Attached /\ Verified /\ GoodResults /\ SignsWithCached /\ Known
                 /\ CachedPINVouched

LEMMA InitPIN == Init => PINInv
<1> SUFFICES ASSUME Init PROVE PINInv
  OBVIOUS
<1>1. Attached /\ Verified
  BY DEF Init, Attached, Verified, Idle
<1>2. GoodResults
  BY DEF Init, GoodResults, Good, Idle, NoOp, Ended
<1>3. SignsWithCached /\ Known /\ CachedPINVouched
  BY DEF Init, SignsWithCached, Known, CachedPINVouched
<1> QED BY <1>1, <1>2, <1>3 DEF PINInv

\* The result of a failure says nothing that has to be true.
LEMMA FailureGood ==
    ASSUME NEW kind, NEW p, NEW b
    PROVE  /\ Good(kind, p, NoResult)
           /\ Good(kind, p, Failure(NoCard, b))
           /\ Good(kind, p, [serial |-> NoCard, err |-> "rejected", sharing |-> b])
           /\ Failure(NoCard, b).err # "none"
           /\ NoResult.err # "none"
BY DEF Good, NoResult, Failure

\* A move of one worker within its operation keeps PINInv if the conditions on
\* the worker's new step hold and an unlock does not succeed by it.
LEMMA MovePIN ==
    ASSUME TypeInv, PINInv, ~orphaned, NEW w \in Workers, NEW step, NEW serial, NEW res,
           worker[w].step # "idle", Becomes(w, step, serial, res),
           UNCHANGED <<verifiedSerial, pin, pinVerifiedSerial, op, orphaned>>,
           step \in {"verify", "note"} => worker[w].kind \in {"sign", "unlock"},
           step \in {"key", "touch"} => worker[w].kind = "sign",
           step \in {"note", "key", "touch"} => PINOf[serial] = worker[w].pin,
           step \in Ended \cup {"reject"} => Good(worker[w].kind, worker[w].pin, res),
           step = "reject" => res.err = "rejected",
           worker[w].kind = "unlock" =>
               ((step \in Ended /\ res.err = "none") <=> Succeeded(w))
    PROVE  PINInv'
<1>1. Attached /\ Verified /\ GoodResults /\ SignsWithCached /\ Known /\ CachedPINVouched
  BY DEF PINInv
<1>2. Attached'
  BY <1>1 DEF Attached, Becomes
<1>3. Verified'
  BY <1>1 DEF Verified, Becomes
<1>4. GoodResults'
  BY <1>1 DEF GoodResults, Good, Becomes
<1>5. SignsWithCached' /\ CachedPINVouched'
  BY <1>1 DEF SignsWithCached, CachedPINVouched
<1>6. \A v \in Workers : op.kind = "unlock" => (Succeeded(v)' <=> Succeeded(v))
  BY <1>1 DEF Succeeded, Becomes, Attached
<1>7. Unlocking' <=> Unlocking
  BY <1>6 DEF Unlocking
<1>8. Known'
  BY <1>1, <1>7 DEF Known
<1> QED BY <1>2, <1>3, <1>4, <1>5, <1>8 DEF PINInv

LEMMA WorkerPINStep ==
    ASSUME TypeInv, PINInv, ~orphaned, NEW w \in Workers, WorkerStep(w)
    PROVE  PINInv'
<1>1. Attached /\ Verified /\ GoodResults /\ SignsWithCached /\ Known /\ CachedPINVouched
  BY DEF PINInv
<1>2. TypeOK /\ SessionShape
  BY DEF TypeInv
<1>3. worker[w].step # "idle"
  BY DEF WorkerStep, OpenCard, ReadCertificate, VerifyPIN, NoteVerified,
         NoteRejected, OpenKey, Touch, CloseSession, SendResult
<1>4. op.by = w /\ worker[w].kind = op.kind /\ worker[w].pin = op.pin
  BY <1>1, <1>3 DEF Attached
<1>5. worker[w].step \in InSession => worker[w].serial \in Serials
  BY <1>2 DEF SessionShape
<1>6. CASE OpenCard(w)
  <2>1. worker[w].step = "open" /\ ~Succeeded(w)
        /\ UNCHANGED <<verifiedSerial, pin, pinVerifiedSerial, op, orphaned>>
    BY <1>6 DEF OpenCard, Succeeded, Ended
  <2>2. ASSUME NEW step \in {"verify", "certificate"},
               step = "verify" => worker[w].kind = "unlock",
               Becomes(w, step, card, worker[w].res)
        PROVE  PINInv'
    BY <1>3, <2>1, <2>2, MovePIN DEF Ended
  <2>3. CASE Becomes(w, "send", worker[w].serial, NoResult)
    BY <1>3, <2>1, <2>3, FailureGood, MovePIN DEF Ended
  <2> QED BY <1>2, <1>6, <2>2, <2>3, OpenCardMoves
<1>7. CASE ReadCertificate(w)
  <2>1. worker[w].step = "certificate" /\ ~Succeeded(w)
        /\ UNCHANGED <<verifiedSerial, pin, pinVerifiedSerial, op, orphaned>>
    BY <1>7 DEF ReadCertificate, Succeeded, Ended
  <2>2. CASE worker[w].kind = "sign"
             /\ Becomes(w, "verify", worker[w].serial, worker[w].res)
    BY <1>3, <2>1, <2>2, MovePIN DEF Ended
  <2>3. ASSUME worker[w].kind = "describe", NEW res \in Result,
               Becomes(w, "close", worker[w].serial, res)
        PROVE  PINInv'
    <3>1. Good(worker[w].kind, worker[w].pin, res)
      BY <2>3 DEF Good
    <3> QED BY <1>3, <2>1, <2>3, <3>1, MovePIN DEF Ended
  <2>4. ASSUME NEW b \in BOOLEAN,
               Becomes(w, "close", worker[w].serial, Failure(NoCard, b))
        PROVE  PINInv'
    BY <1>3, <2>1, <2>4, FailureGood, MovePIN DEF Ended
  <2> QED BY <1>2, <1>7, <2>2, <2>3, <2>4, ReadCertificateMoves
<1>8. CASE VerifyPIN(w)
  <2>1. worker[w].step = "verify" /\ ~Succeeded(w)
        /\ UNCHANGED <<verifiedSerial, pin, pinVerifiedSerial, op, orphaned>>
    BY <1>8 DEF VerifyPIN, Succeeded, Ended
  <2>2. worker[w].serial \in Serials /\ worker[w].kind \in {"sign", "unlock"}
    BY <1>1, <1>5, <2>1 DEF InSession, Verified
  <2>3. CASE worker[w].kind = "sign" /\ Vouched(worker[w].serial)
             /\ Becomes(w, "key", worker[w].serial, worker[w].res)
    <3>1. PINOf[worker[w].serial] = worker[w].pin
      BY <1>1, <1>4, <2>2, <2>3 DEF Vouched, Known
    <3> QED BY <1>3, <2>1, <2>3, <3>1, MovePIN DEF Ended
  <2>4. ASSUME NEW b \in BOOLEAN,
               Becomes(w, "close", worker[w].serial, Failure(NoCard, b))
        PROVE  PINInv'
    BY <1>3, <2>1, <2>4, FailureGood, MovePIN DEF Ended
  <2>5. CASE Becomes(w, "note", worker[w].serial, worker[w].res)
             /\ worker[w].pin = PINOf[worker[w].serial]
    BY <1>3, <2>1, <2>2, <2>5, MovePIN DEF Ended
  <2>6. CASE Becomes(w, "close", worker[w].serial, NoResult)
    BY <1>3, <2>1, <2>6, FailureGood, MovePIN DEF Ended
  <2>7. ASSUME NEW b \in BOOLEAN, Becomes(w, "reject", worker[w].serial,
                    [serial |-> NoCard, err |-> "rejected", sharing |-> b])
        PROVE  PINInv'
    <3> DEFINE res == [serial |-> NoCard, err |-> "rejected", sharing |-> b]
    <3>1. res.err = "rejected" /\ Good(worker[w].kind, worker[w].pin, res)
      BY FailureGood
    <3> HIDE DEF res
    <3>2. Becomes(w, "reject", worker[w].serial, res)
      BY <2>7 DEF res
    <3> QED BY <1>3, <2>1, <3>1, <3>2, MovePIN DEF Ended
  <2> QED BY <1>2, <1>8, <2>3, <2>4, <2>5, <2>6, <2>7, VerifyPINMoves
<1>9. CASE NoteVerified(w)
  <2>1. worker[w].step = "note" /\ verifiedSerial' = worker[w].serial
        /\ UNCHANGED <<pin, pinVerifiedSerial, op, orphaned>>
    BY <1>9 DEF NoteVerified
  <2>2. /\ worker[w].serial \in Serials /\ worker[w].kind \in {"sign", "unlock"}
        /\ PINOf[worker[w].serial] = worker[w].pin
    BY <1>1, <1>5, <2>1 DEF InSession, Verified
  <2>3. /\ worker' \in [Workers -> Worker]
        /\ \A v \in Workers : v # w => worker'[v] = worker[v]
        /\ worker'[w].kind = worker[w].kind /\ worker'[w].pin = worker[w].pin
        /\ worker'[w].serial = worker[w].serial
        /\ \/ worker[w].kind = "sign" /\ worker'[w].step = "key"
           \/ /\ worker[w].kind = "unlock" /\ worker'[w].step = "close"
              /\ worker'[w].res.serial = worker[w].serial
              /\ worker'[w].res.err = "none"
    <3> DEFINE ok == [serial |-> worker[w].serial, err |-> "none", sharing |-> FALSE]
    <3>1. ok.serial = worker[w].serial /\ ok.err = "none"
      OBVIOUS
    <3>2. \/ /\ worker[w].kind = "sign"
             /\ Becomes(w, "key", worker[w].serial, worker[w].res)
          \/ worker[w].kind # "sign" /\ Becomes(w, "close", worker[w].serial, ok)
      BY <1>2, <1>9, NoteVerifiedMoves
    <3> HIDE DEF ok
    <3> QED BY <2>2, <3>1, <3>2 DEF Becomes
  <2>4. Attached'
    BY <1>1, <1>4, <2>1, <2>3 DEF Attached
  <2>5. Verified'
    BY <1>1, <2>2, <2>3 DEF Verified
  <2>6. GoodResults'
    BY <1>1, <2>1, <2>2, <2>3 DEF GoodResults, Good, Ended
  <2>7. SignsWithCached' /\ CachedPINVouched'
    BY <1>1, <2>1 DEF SignsWithCached, CachedPINVouched
  <2>8. op'.kind = "sign" \/ Unlocking'
    BY <1>4, <2>1, <2>3 DEF Unlocking, Succeeded, Ended
  <2>9. Known'
    BY <1>4, <2>1, <2>2, <2>8 DEF Known
  <2> QED BY <2>4, <2>5, <2>6, <2>7, <2>9 DEF PINInv
<1>10. CASE NoteRejected(w)
  <2>1. worker[w].step = "reject" /\ verifiedSerial' = NoCard
        /\ UNCHANGED <<pin, pinVerifiedSerial, op, orphaned>>
    BY <1>10 DEF NoteRejected
  <2>2. Becomes(w, "close", worker[w].serial, worker[w].res)
    BY <1>2, <1>10, NoteRejectedMoves
  <2>3. Attached' /\ Verified' /\ GoodResults'
    BY <1>1, <2>1, <2>2 DEF Attached, Verified, GoodResults, Good, Ended, Becomes
  <2>4. SignsWithCached' /\ CachedPINVouched' /\ Known'
    BY <1>1, <2>1 DEF SignsWithCached, CachedPINVouched, Known
  <2> QED BY <2>3, <2>4 DEF PINInv
<1>11. CASE OpenKey(w)
  <2>1. worker[w].step = "key" /\ ~Succeeded(w)
        /\ UNCHANGED <<verifiedSerial, pin, pinVerifiedSerial, op, orphaned>>
    BY <1>11 DEF OpenKey, Succeeded, Ended
  <2>2. worker[w].kind = "sign" /\ PINOf[worker[w].serial] = worker[w].pin
    BY <1>1, <2>1 DEF Verified
  <2>3. CASE Becomes(w, "touch", worker[w].serial, worker[w].res)
    BY <1>3, <2>1, <2>2, <2>3, MovePIN DEF Ended
  <2>4. ASSUME NEW b \in BOOLEAN,
               Becomes(w, "close", worker[w].serial, Failure(worker[w].serial, b))
        PROVE  PINInv'
    <3>1. Good(worker[w].kind, worker[w].pin, Failure(worker[w].serial, b))
      BY <2>2 DEF Good, Failure
    <3> QED BY <1>3, <2>1, <2>2, <2>4, <3>1, MovePIN DEF Ended
  <2> QED BY <1>2, <1>11, <2>3, <2>4, OpenKeyMoves
<1>12. CASE Touch(w)
  <2>1. worker[w].step = "touch" /\ ~Succeeded(w)
        /\ UNCHANGED <<verifiedSerial, pin, pinVerifiedSerial, op, orphaned>>
    BY <1>12 DEF Touch, Succeeded, Ended
  <2>2. worker[w].kind = "sign" /\ PINOf[worker[w].serial] = worker[w].pin
    BY <1>1, <2>1 DEF Verified
  <2>3. PICK res \in Result : /\ res.serial = worker[w].serial
                              /\ Becomes(w, "close", worker[w].serial, res)
    BY <1>2, <1>12, TouchMoves
  <2>4. Good(worker[w].kind, worker[w].pin, res)
    BY <2>2, <2>3 DEF Good
  <2> QED BY <1>3, <2>1, <2>2, <2>3, <2>4, MovePIN DEF Ended
<1>13. CASE CloseSession(w)
  <2>1. worker[w].step = "close"
        /\ UNCHANGED <<verifiedSerial, pin, pinVerifiedSerial, op, orphaned>>
    BY <1>13 DEF CloseSession
  <2>2. Becomes(w, "send", NoCard, worker[w].res)
    BY <1>2, <1>13, CloseSessionMoves
  <2>3. Good(worker[w].kind, worker[w].pin, worker[w].res)
    BY <1>1, <2>1 DEF GoodResults, Ended
  <2> QED BY <1>3, <2>1, <2>2, <2>3, MovePIN DEF Succeeded, Ended
<1>14. CASE SendResult(w)
  <2>1. worker[w].step = "send"
        /\ UNCHANGED <<verifiedSerial, pin, pinVerifiedSerial, op, orphaned>>
    BY <1>14 DEF SendResult
  <2>2. Becomes(w, "done", worker[w].serial, worker[w].res)
    BY <1>2, <1>4, <1>14, SendResultMoves
  <2>3. Good(worker[w].kind, worker[w].pin, worker[w].res)
    BY <1>1, <2>1 DEF GoodResults, Ended
  <2> QED BY <1>3, <2>1, <2>2, <2>3, MovePIN DEF Succeeded, Ended
<1> QED BY <1>6, <1>7, <1>8, <1>9, <1>10, <1>11, <1>12, <1>13, <1>14 DEF WorkerStep

\* Between operations, and before the first attempt, no worker is busy.
LEMMA AllIdle ==
    ASSUME TypeInv, PINInv, ~orphaned, pc \notin {"await", "drain"}
    PROVE  \A w \in Workers : worker[w].step = "idle"
BY DEF TypeInv, OpShape, PINInv, Attached

\* The operation begins: with the cached PIN, a new one or none.
LEMMA BeginPIN ==
    ASSUME TypeInv, PINInv, ~orphaned,
           \/ \E r \in BOOLEAN : BeginSign(r)
           \/ \E p \in PINs : BeginUnlock(p)
           \/ BeginDescribe
    PROVE  PINInv'
<1>1. Known /\ CachedPINVouched /\ pc = "free"
  BY DEF PINInv, BeginSign, BeginUnlock, BeginDescribe, Begins
<1>2. op.kind = "none" /\ \A w \in Workers : worker[w].step = "idle"
  BY <1>1, AllIdle DEF TypeInv, OpShape
<1>3. verifiedSerial # NoCard /\ pin # NoPIN => PINOf[verifiedSerial] = pin
  BY <1>1, <1>2 DEF Known, Unlocking
<1>4. ASSUME NEW kind \in Kinds, NEW p \in PINs \cup {NoPIN}, NEW r \in BOOLEAN,
             Begins(kind, p, r)
      PROVE  /\ op'.kind = kind /\ op'.pin = p /\ op'.res = NoResult
             /\ UNCHANGED <<verifiedSerial, worker, orphaned>>
             /\ Attached' /\ Verified' /\ GoodResults' /\ ~Unlocking'
  <2>1. /\ op'.kind = kind /\ op'.pin = p /\ op'.res = NoResult
        /\ UNCHANGED <<verifiedSerial, worker, orphaned>>
    BY <1>4, BeginsType
  <2>2. Attached' /\ Verified' /\ GoodResults'
    BY <1>2, <2>1, FailureGood DEF Attached, Verified, GoodResults, Ended
  <2>3. ~Unlocking'
    BY <1>2, <2>1, FailureGood DEF Unlocking, Succeeded, Ended
  <2> QED BY <2>1, <2>2, <2>3
<1>5. ASSUME NEW r \in BOOLEAN, BeginSign(r) PROVE PINInv'
  <2>1. "sign" \in Kinds /\ pin \in PINs \cup {NoPIN} /\ pin # NoPIN
        /\ Begins("sign", pin, r)
    BY <1>5 DEF Kinds, BeginSign, TypeInv, TypeOK
  <2>2. /\ op'.kind = "sign" /\ op'.pin = pin
        /\ UNCHANGED <<verifiedSerial, worker, orphaned>>
        /\ Attached' /\ Verified' /\ GoodResults'
    BY <1>4, <2>1
  <2>3. \/ pin' = NoPIN /\ pinVerifiedSerial' = NoCard
        \/ UNCHANGED <<pin, pinVerifiedSerial>>
    BY <1>5 DEF BeginSign
  <2>4. SignsWithCached' /\ Known' /\ CachedPINVouched'
    BY <1>1, <1>3, <2>1, <2>2, <2>3 DEF SignsWithCached, Known, CachedPINVouched
  <2> QED BY <2>2, <2>4 DEF PINInv
<1>6. ASSUME NEW kind \in {"unlock", "describe"}, NEW p \in PINs \cup {NoPIN},
             NEW r \in BOOLEAN, Begins(kind, p, r), UNCHANGED <<pin, pinVerifiedSerial>>
      PROVE  PINInv'
  <2>1. kind \in Kinds
    BY DEF Kinds
  <2>2. /\ op'.kind = kind
        /\ UNCHANGED <<verifiedSerial, worker, orphaned>>
        /\ Attached' /\ Verified' /\ GoodResults' /\ ~Unlocking'
    BY <1>4, <1>6, <2>1
  <2>3. SignsWithCached' /\ Known' /\ CachedPINVouched'
    BY <1>1, <1>3, <1>6, <2>2 DEF SignsWithCached, Known, CachedPINVouched
  <2> QED BY <2>2, <2>3 DEF PINInv
<1> QED BY <1>5, <1>6 DEF BeginUnlock, BeginDescribe

\* The worker's result is taken or drained: the worker is gone.
LEMMA TakenPIN ==
    ASSUME TypeInv, PINInv, ~orphaned, TakeResult \/ DrainResult
    PROVE  PINInv'
<1>1. /\ Attached /\ Verified /\ GoodResults /\ SignsWithCached /\ Known
      /\ CachedPINVouched
  BY DEF PINInv
<1>2. /\ op.by \in Workers /\ Sets(op.by, Idle)
      /\ op'.kind = op.kind /\ op'.pin = op.pin
      /\ \/ op'.res = worker[op.by].res
         \/ op'.res \in {NoResult, op.res} /\ op.kind = "sign"
      /\ worker[op.by].step = "done" /\ op.res = NoResult
      /\ UNCHANGED <<verifiedSerial, pin, pinVerifiedSerial, orphaned>>
  <2>1. CASE TakeResult
    BY <2>1, TakeResultMoves DEF TakeResult, TypeInv, OpShape
  <2>2. CASE DrainResult
    BY <2>2, DrainResultMoves DEF DrainResult, TypeInv, OpShape
  <2> QED BY <2>1, <2>2
<1>3. \A w \in Workers : worker'[w].step = "idle"
  BY <1>1, <1>2 DEF Sets, Idle, Attached
<1>4. Good(op.kind, op.pin, worker[op.by].res)
  BY <1>1, <1>2 DEF GoodResults, Attached, Ended
<1>5. Good(op'.kind, op'.pin, op'.res)
  BY <1>2, <1>4, FailureGood
<1>6. Attached' /\ Verified' /\ GoodResults'
  BY <1>3, <1>5 DEF Attached, Verified, GoodResults, Ended
<1>7. SignsWithCached' /\ CachedPINVouched'
  BY <1>1, <1>2 DEF SignsWithCached, CachedPINVouched
<1>8. op.kind = "unlock" => (Unlocking' <=> Unlocking)
  <2>1. Unlocking' <=> op'.kind = "unlock" /\ op'.res.err = "none"
    BY <1>3 DEF Unlocking, Succeeded, Ended
  <2>2. Unlocking <=> op.kind = "unlock" /\ worker[op.by].res.err = "none"
    BY <1>1, <1>2, FailureGood DEF Unlocking, Succeeded, Ended, Attached
  <2> QED BY <1>2, <2>1, <2>2
<1>9. op.kind # "unlock" => ~Unlocking' /\ ~Unlocking
  BY <1>2 DEF Unlocking
<1>10. Known'
  BY <1>1, <1>2, <1>8, <1>9 DEF Known
<1> QED BY <1>6, <1>7, <1>10 DEF PINInv

\* Core takes the result into its cache.
LEMMA ReturnPIN ==
    ASSUME TypeInv, PINInv, ~orphaned, Return
    PROVE  PINInv'
<1>1. /\ Attached /\ Verified /\ GoodResults /\ SignsWithCached /\ Known
      /\ CachedPINVouched
  BY DEF PINInv
<1>2. op' = NoOp /\ pc = "return" /\ UNCHANGED <<verifiedSerial, worker, orphaned>>
  BY DEF Return
<1>3. \A w \in Workers : worker[w].step = "idle"
  BY <1>2, AllIdle
<1>4. op'.kind = "none" /\ op'.res = NoResult
  BY <1>2 DEF NoOp
<1>5. Attached' /\ Verified' /\ GoodResults' /\ SignsWithCached' /\ ~Unlocking'
  BY <1>2, <1>3, <1>4, FailureGood
     DEF Attached, Verified, GoodResults, SignsWithCached, Unlocking, Ended
<1>6. Unlocking <=> op.kind = "unlock" /\ op.res.err = "none"
  BY <1>3 DEF Unlocking, Succeeded, Ended
<1>7. Good(op.kind, op.pin, op.res)
  BY <1>1 DEF GoodResults
<1>8. CASE /\ op.kind = "unlock" /\ op.res.err = "none"
           /\ pin' = op.pin /\ pinVerifiedSerial' = op.res.serial
  <2>1. pin' # NoPIN /\ PINOf[op.res.serial] = pin' /\ CachedPINVouched'
    BY <1>7, <1>8 DEF Good, CachedPINVouched
  <2>2. Known'
    BY <1>1, <1>2, <1>4, <1>5, <1>6, <1>8 DEF Known
  <2> QED BY <1>5, <2>1, <2>2 DEF PINInv
<1>9. CASE pin' = NoPIN /\ pinVerifiedSerial' = NoCard
  <2>1. Known' /\ CachedPINVouched'
    BY <1>4, <1>5, <1>9 DEF Known, CachedPINVouched
  <2> QED BY <1>5, <2>1 DEF PINInv
<1>10. CASE /\ op.kind = "sign" /\ pin' = pin
            /\ pinVerifiedSerial' = IF op.res.serial # NoCard /\ pin # NoPIN
                                    THEN op.res.serial ELSE pinVerifiedSerial
  <2>1. CachedPINVouched'
    BY <1>1, <1>2, <1>7, <1>10 DEF CachedPINVouched, Good, SignsWithCached
  <2>2. Known'
    BY <1>1, <1>2, <1>4, <1>5, <1>10 DEF Known, SignsWithCached
  <2> QED BY <1>5, <2>1, <2>2 DEF PINInv
<1>11. CASE /\ op.kind = "describe" \/ (op.kind = "unlock" /\ op.res.err # "none")
            /\ UNCHANGED <<pin, pinVerifiedSerial>>
  <2>1. CachedPINVouched'
    BY <1>1, <1>2, <1>11 DEF CachedPINVouched
  <2>2. Known'
    BY <1>1, <1>2, <1>4, <1>5, <1>6, <1>11 DEF Known
  <2> QED BY <1>5, <2>1, <2>2 DEF PINInv
<1> QED BY <1>8, <1>9, <1>10, <1>11 DEF Return

\* Every step keeps PINInv; the first orphan ends what it claims.
LEMMA PINStep ==
    ASSUME TypeInv, PINInv, [Next]_vars
    PROVE  PINInv'
<1>1. CASE orphaned'
  BY <1>1 DEF PINInv
<1> SUFFICES ASSUME ~orphaned' PROVE PINInv'
  BY <1>1
<1>2. ASSUME NEW w \in Workers, WorkerStep(w) PROVE UNCHANGED orphaned
  BY <1>2 DEF WorkerStep, OpenCard, ReadCertificate, VerifyPIN, NoteVerified,
              NoteRejected, OpenKey, Touch, CloseSession, SendResult
<1>3. ~orphaned
  BY <1>2 DEF Next, vars, PlugCard, UnplugCard, BeginSign, BeginUnlock, BeginDescribe,
      Begins, Lock, AcquireLease, StartAttempt, TakeResult, ContextEnds, CallerLeaves,
      DrainResult, DrainTimeout, Return
<1>4. /\ Attached /\ Verified /\ GoodResults /\ SignsWithCached /\ Known
      /\ CachedPINVouched
  BY <1>3 DEF PINInv
<1>5. ASSUME UNCHANGED <<verifiedSerial, pin, pinVerifiedSerial, op, worker, orphaned>>
      PROVE  PINInv'
  BY <1>4, <1>5 DEF PINInv, Attached, Verified, GoodResults, Good, SignsWithCached,
                    Known, Unlocking, Succeeded, CachedPINVouched
<1>6. \/ \E s \in Serials : PlugCard(s)
      \/ ContextEnds \/ UNCHANGED vars
      => PINInv'
  BY <1>5 DEF PlugCard, ContextEnds, vars
<1>7. ASSUME UnplugCard PROVE PINInv'
  <2>1. UNCHANGED <<verifiedSerial, pin, pinVerifiedSerial, op, orphaned>>
    BY <1>7 DEF UnplugCard
  <2>2. \A w \in Workers : /\ worker'[w].step = worker[w].step
                           /\ worker'[w].kind = worker[w].kind
                           /\ worker'[w].pin = worker[w].pin
                           /\ worker'[w].serial = worker[w].serial
                           /\ worker'[w].res = worker[w].res
    BY <1>7, UnplugMoves DEF TypeInv
  <2>3. Attached' /\ Verified' /\ GoodResults'
    BY <1>4, <2>1, <2>2 DEF Attached, Verified, GoodResults, Good
  <2>4. Unlocking' <=> Unlocking
    BY <2>1, <2>2 DEF Unlocking, Succeeded
  <2>5. SignsWithCached' /\ Known' /\ CachedPINVouched'
    BY <1>4, <2>1, <2>4 DEF SignsWithCached, Known, CachedPINVouched
  <2> QED BY <2>3, <2>5 DEF PINInv
<1>8. ASSUME Lock PROVE PINInv'
  <2>1. pin' = NoPIN /\ pinVerifiedSerial' = NoCard
        /\ pc = "free" /\ UNCHANGED <<verifiedSerial, op, worker, orphaned>>
    BY <1>8 DEF Lock
  <2>2. op.kind = "none"
    BY <2>1 DEF TypeInv, OpShape
  <2>3. Attached' /\ Verified' /\ GoodResults'
    BY <1>4, <2>1 DEF Attached, Verified, GoodResults, Good
  <2>4. SignsWithCached' /\ Known' /\ CachedPINVouched'
    BY <2>1, <2>2 DEF SignsWithCached, Known, Unlocking, CachedPINVouched
  <2> QED BY <2>3, <2>4 DEF PINInv
<1>9. ASSUME UNCHANGED <<verifiedSerial, pin, pinVerifiedSerial, worker, orphaned>>,
             op'.kind = op.kind, op'.pin = op.pin, op'.by = op.by, op'.res = op.res
      PROVE  PINInv'
  <2>1. Attached' /\ Verified' /\ GoodResults'
    BY <1>4, <1>9 DEF Attached, Verified, GoodResults, Good
  <2>2. Unlocking' <=> Unlocking
    BY <1>9 DEF Unlocking, Succeeded
  <2>3. SignsWithCached' /\ Known' /\ CachedPINVouched'
    BY <1>4, <1>9, <2>2 DEF SignsWithCached, Known, CachedPINVouched
  <2> QED BY <2>1, <2>3 DEF PINInv
<1>10. AcquireLease \/ CallerLeaves => PINInv'
  <2>1. AcquireLease \/ CallerLeaves =>
            UNCHANGED <<verifiedSerial, pin, pinVerifiedSerial, worker, orphaned>>
    BY DEF AcquireLease, CallerLeaves
  <2> QED BY <1>9, <2>1, AcquireLeaseMoves, CallerLeavesMoves
<1>11. ASSUME NEW w \in Workers, StartAttempt(w) PROVE PINInv'
  <2>1. pc = "spawn" /\ UNCHANGED <<verifiedSerial, pin, pinVerifiedSerial, orphaned>>
    BY <1>11 DEF StartAttempt
  <2>2. \A v \in Workers : worker[v].step = "idle"
    BY <1>3, <2>1, AllIdle
  <2>3. /\ op'.kind = op.kind /\ op'.pin = op.pin /\ op'.by = w /\ op'.res = op.res
        /\ \A v \in Workers : v # w => worker'[v] = worker[v]
        /\ worker'[w].step = "open"
        /\ worker'[w].kind = op.kind /\ worker'[w].pin = op.pin
    BY <1>11, StartAttemptMoves
  <2>4. Attached' /\ Verified'
    BY <2>2, <2>3 DEF Attached, Verified
  <2>5. GoodResults'
    BY <1>4, <2>2, <2>3 DEF GoodResults, Good, Ended
  <2>6. Unlocking' <=> Unlocking
    BY <2>2, <2>3 DEF Unlocking, Succeeded, Ended
  <2>7. SignsWithCached' /\ Known' /\ CachedPINVouched'
    BY <1>4, <2>1, <2>3, <2>6 DEF SignsWithCached, Known, CachedPINVouched
  <2> QED BY <2>4, <2>5, <2>7 DEF PINInv
<1>12. ~DrainTimeout
  BY DEF DrainTimeout
<1> QED BY <1>3, <1>6, <1>7, <1>8, <1>10, <1>11, <1>12, WorkerPINStep, BeginPIN,
           TakenPIN, ReturnPIN DEF Next

LEMMA PINInvariant == Spec => [](TypeInv /\ PINInv)
<1>1. TypeInv /\ PINInv /\ [Next]_vars => PINInv'
  BY PINStep
<1> QED BY TypeInvariant, InitPIN, <1>1, PTL DEF Spec

\* Until a worker outlives its operation, the card Core reports as verified
\* accepts the PIN Core has cached.
THEOREM Vouching == Spec => []CachedPINVouched
<1>1. PINInv => CachedPINVouched
  BY DEF PINInv, CachedPINVouched
<1> QED BY PINInvariant, <1>1, PTL

\* A counter falls in two places.  The verification reads it first; the touch
\* does not, but there the PIN is one the card accepts.
LEMMA FinalStep ==
    ASSUME TypeInv, PINInv, [Next]_vars, NEW s \in Serials, ~orphaned, retries[s] = 1
    PROVE  retries'[s] # 0
<1>1. TypeOK /\ Verified
  BY DEF TypeInv, PINInv
<1>2. ASSUME UNCHANGED retries PROVE retries'[s] # 0
  BY <1>2
<1>3. ASSUME NEW c \in Serials, Accepts(c) PROVE retries'[s] # 0
  BY <1>1, <1>3 DEF TypeOK, Accepts
<1>4. ASSUME NEW c \in Serials, Spendable(c), Refuses(c) PROVE retries'[s] # 0
  BY <1>1, <1>4 DEF TypeOK, Spendable, Refuses
<1>5. ASSUME NEW w \in Workers, VerifyPIN(w) PROVE retries'[s] # 0
  <2>1. worker[w].serial \in Serials
    BY <1>5 DEF VerifyPIN, TypeInv, SessionShape, InSession
  <2> QED BY <1>1, <1>2, <1>3, <1>4, <1>5, <2>1, VerifyPINMoves
<1>6. ASSUME NEW w \in Workers, Touch(w) PROVE retries'[s] # 0
  <2>1. worker[w].serial \in Serials /\ PINOf[worker[w].serial] = worker[w].pin
    BY <1>1, <1>6 DEF Touch, TypeInv, SessionShape, InSession, Verified
  <2> QED BY <1>1, <1>2, <1>3, <1>6, <2>1, TouchMoves
<1>7. ASSUME NEW w \in Workers, WorkerStep(w) PROVE retries'[s] # 0
  BY <1>2, <1>5, <1>6, <1>7 DEF WorkerStep, OpenCard, ReadCertificate, NoteVerified,
              NoteRejected, OpenKey, CloseSession, SendResult
<1>8. \/ UNCHANGED retries
      \/ \E w \in Workers : WorkerStep(w)
  BY DEF Next, vars, PlugCard, UnplugCard, BeginSign, BeginUnlock, BeginDescribe,
      Begins, Lock, AcquireLease, StartAttempt, TakeResult, ContextEnds, CallerLeaves,
      DrainResult, DrainTimeout, Return
<1> QED BY <1>2, <1>7, <1>8

\* Until a worker outlives its operation, no operation spends the last PIN
\* attempt that a card allows.
THEOREM FinalAttempt == Spec => FinalAttemptKept
<1>1. TypeInv /\ PINInv /\ [Next]_vars =>
          [\A s \in Serials : ~orphaned /\ retries[s] = 1 => retries'[s] # 0]_vars
  BY FinalStep
<1> QED BY PINInvariant, <1>1, PTL DEF Spec, FinalAttemptKept
=============================================================================
