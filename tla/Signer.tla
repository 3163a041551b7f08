------------------------------- MODULE Signer -------------------------------
(***************************************************************************)
(* The card operations of internal/pivsigner/signer.go (Sign, VerifyPIN    *)
(* and Describe) with the smart-card lease of internal/cardlease around    *)
(* them and the part of internal/core that starts them and uses what they  *)
(* return.                                                                 *)
(*                                                                         *)
(* Core's mintMu admits one operation at a time: `pc' is where it stands,  *)
(* `op' its locals.  Its work in the card is done by a worker.  For Sign   *)
(* that is a goroutine, which the operation stops waiting for when its     *)
(* context ends and which then lives on as an orphan; for the other two it *)
(* is the caller itself.  acquireCard is one step here, and its recovery   *)
(* from contention shows only in how it may fail.                          *)
(***************************************************************************)
EXTENDS Integers, FiniteSets

CONSTANTS
    Serials,         \* the enrolled YubiKeys
    PINs,
    PINOf,           \* serial -> the PIN that card accepts
    MaxRetries,      \* the retry counter of a card whose PIN was accepted
    Workers,         \* bound: goroutines in the card at once
    PINCache,        \* pin_cache: "session" or "never"
    LeaseConfigured, \* whether h.Lease is set
    NoCard, NoPIN, NoWorker

ASSUME SignerAssumption ==
    /\ NoCard \notin Serials
    /\ NoPIN \notin PINs
    /\ NoWorker \notin Workers
    /\ PINOf \in [Serials -> PINs]
    /\ MaxRetries \in Nat
    /\ MaxRetries > 1
    /\ PINCache \in {"session", "never"}
    /\ LeaseConfigured \in BOOLEAN

VARIABLES
    card,               \* the enrolled YubiKey in the reader, or NoCard
    retries,            \* serial -> its PIN retry counter
    verifiedSerial,     \* h.verifiedSerial
    pin,                \* c.pin
    pinVerifiedSerial,  \* c.pinVerifiedSerial
    pc, op,             \* the operation that holds mintMu
    worker,             \* the goroutines in the card
    orphaned,           \* history: some worker outlived its operation
    rejected            \* history: a card refused the PIN that is cached

envVars  == <<card, retries>>
coreVars == <<pin, pinVerifiedSerial>>
vars == <<card, retries, verifiedSerial, pin, pinVerifiedSerial, pc, op,
          worker, orphaned, rejected>>

-----------------------------------------------------------------------------
(* Values.                                                                 *)

\* signResult.  A PINError that clears the cache is "rejected"; `sharing' is
\* IsSharingViolation of an error that acquisition has not handled already.
Result == [serial : Serials \cup {NoCard},
           err : {"none", "failed", "rejected"}, sharing : BOOLEAN]

Failure(serial, sharing) ==
    [serial |-> serial, err |-> "failed", sharing |-> sharing]

NoResult == Failure(NoCard, FALSE)

Kinds == {"sign", "unlock", "describe", "none"}

\* An operation's locals.  The lease is "held" until release, and "closed"
\* when the caller's context ended first.
Operation ==
    [kind : Kinds, pin : PINs \cup {NoPIN}, required : BOOLEAN,
     lease : {"none", "held", "closed"}, retry : BOOLEAN,
     by : Workers \cup {NoWorker}, res : Result]

NoOp == [kind |-> "none", pin |-> NoPIN, required |-> FALSE, lease |-> "none",
         retry |-> FALSE, by |-> NoWorker, res |-> NoResult]

\* A worker's locals.  Its session is open while it has one and has not closed
\* it, and live while the card it was opened on is still in the reader.
Worker ==
    [step : {"idle", "open", "certificate", "verify", "note", "reject",
             "key", "touch", "close", "send", "done"},
     kind : Kinds, pin : PINs \cup {NoPIN}, serial : Serials \cup {NoCard},
     live : BOOLEAN, res : Result]

Idle == [step |-> "idle", kind |-> "none", pin |-> NoPIN, serial |-> NoCard,
         live |-> FALSE, res |-> NoResult]

InSession == {"certificate", "verify", "note", "reject", "key", "touch", "close"}

-----------------------------------------------------------------------------
(* The operator and the reader.                                            *)

PlugCard(s) ==
    /\ card = NoCard
    /\ card' = s
    /\ UNCHANGED <<retries, verifiedSerial, coreVars, pc, op, worker, orphaned,
                   rejected>>

\* Removing a card ends the sessions on it.
UnplugCard ==
    /\ card # NoCard
    /\ card' = NoCard
    /\ worker' = [w \in Workers |-> [worker[w] EXCEPT !.live = FALSE]]
    /\ UNCHANGED <<retries, verifiedSerial, coreVars, pc, op, orphaned, rejected>>

-----------------------------------------------------------------------------
(* The operation: Core under mintMu, then Sign, VerifyPIN or Describe.     *)

\* Workers bounds how many orphans a new operation may find.
Begins(kind, p, required) ==
    /\ pc = "free"
    /\ \E w \in Workers : worker[w] = Idle
    /\ pc' = "lease"
    /\ op' = [NoOp EXCEPT !.kind = kind, !.pin = p, !.required = required]
    /\ UNCHANGED <<envVars, verifiedSerial, worker, orphaned>>

\* SubjectToken with a PIN in the cache; takePIN consumes it under "never".
\* A forwarded mint requires the lease.
BeginSign(required) ==
    /\ pin # NoPIN
    /\ Begins("sign", pin, required)
    /\ IF PINCache = "never"
       THEN pin' = NoPIN /\ pinVerifiedSerial' = NoCard /\ rejected' = FALSE
       ELSE UNCHANGED <<coreVars, rejected>>

BeginUnlock(p) ==
    /\ Begins("unlock", p, FALSE)
    /\ UNCHANGED <<coreVars, rejected>>

BeginDescribe ==
    /\ Begins("describe", NoPIN, TRUE)
    /\ UNCHANGED <<coreVars, rejected>>

Lock ==
    /\ pc = "free"
    /\ pin' = NoPIN
    /\ pinVerifiedSerial' = NoCard
    /\ rejected' = FALSE
    /\ UNCHANGED <<envVars, verifiedSerial, pc, op, worker, orphaned>>

LeaseNeverNeeded(required) == TRUE    \* mutant: its absence is always accepted

\* Only an operation that does not require the lease may go on without it, and
\* only when the service is absent, or not configured at all.
MayBypassLease(required) == ~LeaseConfigured \/ ~required

\* acquireLease: granted; bypassed; or denied, malformed, cut off or required
\* and unavailable.
AcquireLease ==
    /\ pc = "lease"
    /\ \/ LeaseConfigured /\ pc' = "spawn" /\ op' = [op EXCEPT !.lease = "held"]
       \/ MayBypassLease(op.required) /\ pc' = "spawn" /\ UNCHANGED op
       \/ LeaseConfigured /\ pc' = "return" /\ UNCHANGED op
    /\ UNCHANGED <<envVars, verifiedSerial, coreVars, worker, orphaned, rejected>>

\* signAttempt starts its goroutine; VerifyPIN and Describe go on themselves.
StartAttempt(w) ==
    /\ pc = "spawn"
    /\ worker[w] = Idle
    /\ worker' = [worker EXCEPT ![w] =
                     [Idle EXCEPT !.step = "open", !.kind = op.kind, !.pin = op.pin]]
    /\ op' = [op EXCEPT !.by = w]
    /\ pc' = "await"
    /\ UNCHANGED <<envVars, verifiedSerial, coreVars, orphaned, rejected>>

\* The result is received.  Sign makes one fresh attempt after a sharing
\* violation that surfaced past acquisition.
TakeResult ==
    /\ pc = "await"
    /\ worker[op.by].step = "done"
    /\ LET res   == worker[op.by].res
           again == op.kind = "sign" /\ res.err # "none" /\ res.sharing /\ ~op.retry
       IN  /\ pc' = IF again THEN "spawn" ELSE "return"
           /\ op' = [op EXCEPT !.by = NoWorker, !.retry = @ \/ again,
                               !.res = IF again THEN NoResult ELSE res]
    /\ worker' = [worker EXCEPT ![op.by] = Idle]
    /\ UNCHANGED <<envVars, verifiedSerial, coreVars, orphaned, rejected>>

\* The context of signAttempt ends: the hardware deadline, or the caller.
ContextEnds ==
    /\ pc = "await"
    /\ op.kind = "sign"
    /\ pc' = "drain"
    /\ UNCHANGED <<envVars, verifiedSerial, coreVars, op, worker, orphaned,
                   rejected>>

\* The caller goes away: the lease's connection is closed at once.
CallerLeaves ==
    /\ op.lease = "held"
    /\ op' = [op EXCEPT !.lease = "closed"]
    /\ UNCHANGED <<envVars, verifiedSerial, coreVars, pc, worker, orphaned,
                   rejected>>

\* The drained result is dropped, whatever it says.
DrainResult ==
    /\ pc = "drain"
    /\ worker[op.by].step = "done"
    /\ worker' = [worker EXCEPT ![op.by] = Idle]
    /\ op' = [op EXCEPT !.by = NoWorker]
    /\ pc' = "return"
    /\ UNCHANGED <<envVars, verifiedSerial, coreVars, orphaned, rejected>>

DrainWaits == FALSE /\ UNCHANGED vars   \* mutant: the drain has no timer

\* signResultDrainTimeout: the worker is left to itself.
DrainTimeout ==
    /\ pc = "drain"
    /\ worker[op.by].step # "done"
    /\ op' = [op EXCEPT !.by = NoWorker]
    /\ pc' = "return"
    /\ orphaned' = TRUE
    /\ UNCHANGED <<envVars, verifiedSerial, coreVars, worker, rejected>>

\* The lease is released and Core takes the result: Unlock commits its PIN,
\* SubjectToken calls recordPINVerification.
Return ==
    /\ pc = "return"
    /\ LET res == op.res
       IN  \/ /\ op.kind = "unlock" /\ res.err = "none"
              /\ pin' = op.pin
              /\ pinVerifiedSerial' = res.serial
              /\ rejected' = FALSE
           \/ /\ op.kind = "sign" /\ res.err = "rejected"
              /\ pin' = NoPIN
              /\ pinVerifiedSerial' = NoCard
              /\ rejected' = FALSE
           \/ /\ op.kind = "sign" /\ res.err # "rejected"
              /\ pinVerifiedSerial' = IF res.serial # NoCard /\ pin # NoPIN
                                      THEN res.serial ELSE pinVerifiedSerial
              /\ UNCHANGED <<pin, rejected>>
           \/ /\ op.kind = "describe" \/ (op.kind = "unlock" /\ res.err # "none")
              /\ UNCHANGED <<coreVars, rejected>>
    /\ pc' = "free"
    /\ op' = NoOp
    /\ UNCHANGED <<envVars, verifiedSerial, worker, orphaned>>

-----------------------------------------------------------------------------
(* The worker.                                                             *)

Goes(w, step) == worker' = [worker EXCEPT ![w].step = step]

Finishes(w, res) ==
    worker' = [worker EXCEPT ![w].step = "close", ![w].res = res]

\* Fails with the error of a card that may or may not be contended.
Fails(w, serial) == \E sharing \in BOOLEAN : Finishes(w, Failure(serial, sharing))

\* acquireCard.  A session is exclusive, so another worker's makes this fail;
\* so do another client's, an empty reader and the context's end.  A sharing
\* violation has been handled when it is returned.
OpenCard(w) ==
    /\ worker[w].step = "open"
    /\ \/ /\ card # NoCard
          /\ \A v \in Workers :
                ~(worker[v].step \in InSession /\ worker[v].live /\ worker[v].serial = card)
          /\ worker' = [worker EXCEPT
                ![w].step = IF worker[w].kind = "unlock" THEN "verify" ELSE "certificate",
                ![w].serial = card, ![w].live = TRUE]
       \/ worker' = [worker EXCEPT ![w].step = "send", ![w].res = NoResult]
    /\ UNCHANGED <<envVars, verifiedSerial, coreVars, pc, op, orphaned, rejected>>

\* The certificate, its key and, for Sign, digestFor.
ReadCertificate(w) ==
    /\ worker[w].step = "certificate"
    /\ \/ worker[w].live /\ worker[w].kind = "sign" /\ Goes(w, "verify")
       \/ /\ worker[w].live /\ worker[w].kind = "describe"
          /\ Finishes(w, [serial |-> worker[w].serial, err |-> "none", sharing |-> FALSE])
       \/ Fails(w, NoCard)
    /\ UNCHANGED <<envVars, verifiedSerial, coreVars, pc, op, orphaned, rejected>>

VouchedForAny(serial) == verifiedSerial # NoCard  \* mutant: some card accepted it

\* verifyCachedPIN asks a card only when it is not the last one that accepted.
Vouched(serial) == verifiedSerial = serial

SpendsFinal(serial) == retries[serial] > 0   \* mutant: the guard is off by one
SpendsBlind(serial) == TRUE                  \* mutant: the counter is not read

Spendable(serial) == retries[serial] > 1

\* A card judges a PIN.
Accepts(serial) == retries' = [retries EXCEPT ![serial] = MaxRetries]
Refuses(serial) == retries' = [retries EXCEPT ![serial] = @ - 1]

\* The PINError that clears the cached PIN.
Rejects(w, sharing) ==
    worker' = [worker EXCEPT ![w].step = "reject",
        ![w].res = [serial |-> NoCard, err |-> "rejected", sharing |-> sharing]]

\* verifyCachedPIN for Sign, and the same inside VerifyPIN.  A verification
\* that fails for another reason than the PIN is reported the same way.
VerifyPIN(w) ==
    LET me == worker[w]
    IN  /\ me.step = "verify"
        /\ \/ /\ me.kind = "sign" /\ Vouched(me.serial)
              /\ Goes(w, "key")
              /\ UNCHANGED <<retries, rejected>>
           \/ /\ me.kind = "unlock" \/ ~Vouched(me.serial)
              /\ \/ Fails(w, NoCard) /\ UNCHANGED <<retries, rejected>>
                 \/ /\ me.live /\ Spendable(me.serial) /\ me.pin = PINOf[me.serial]
                    /\ Accepts(me.serial)
                    /\ Goes(w, "note")
                    /\ UNCHANGED rejected
                 \/ /\ me.live /\ Spendable(me.serial) /\ me.pin # PINOf[me.serial]
                    /\ Refuses(me.serial)
                    /\ rejected' = (rejected \/ (me.kind = "sign" /\ me.pin = pin))
                    /\ IF me.kind = "sign" THEN Rejects(w, FALSE)
                       ELSE Finishes(w, NoResult)
                 \/ /\ me.kind = "sign"
                    /\ \E sharing \in BOOLEAN : Rejects(w, sharing)
                    /\ UNCHANGED <<retries, rejected>>
        /\ UNCHANGED <<card, verifiedSerial, coreVars, pc, op, orphaned>>

\* setVerifiedSerial(serial).
NoteVerified(w) ==
    /\ worker[w].step = "note"
    /\ verifiedSerial' = worker[w].serial
    /\ IF worker[w].kind = "sign" THEN Goes(w, "key")
       ELSE Finishes(w, [serial |-> worker[w].serial, err |-> "none", sharing |-> FALSE])
    /\ UNCHANGED <<envVars, coreVars, pc, op, orphaned, rejected>>

\* setVerifiedSerial(0).
NoteRejected(w) ==
    /\ worker[w].step = "reject"
    /\ verifiedSerial' = NoCard
    /\ Goes(w, "close")
    /\ UNCHANGED <<envVars, coreVars, pc, op, orphaned, rejected>>

\* The private key, and the touch window that must be left.
OpenKey(w) ==
    /\ worker[w].step = "key"
    /\ \/ worker[w].live /\ Goes(w, "touch")
       \/ Fails(w, worker[w].serial)
    /\ UNCHANGED <<envVars, verifiedSerial, coreVars, pc, op, orphaned, rejected>>

\* signer.Sign: the card checks the PIN again and waits for the touch.
Touch(w) ==
    LET me == worker[w]
    IN  /\ me.step = "touch"
        /\ \/ Fails(w, me.serial) /\ UNCHANGED retries
           \/ /\ me.live /\ retries[me.serial] > 0 /\ me.pin = PINOf[me.serial]
              /\ Accepts(me.serial)
              /\ \/ Finishes(w, [serial |-> me.serial, err |-> "none", sharing |-> FALSE])
                 \/ Finishes(w, Failure(me.serial, FALSE))
           \/ /\ me.live /\ retries[me.serial] > 0 /\ me.pin # PINOf[me.serial]
              /\ Refuses(me.serial)
              /\ Finishes(w, Failure(me.serial, FALSE))
        /\ UNCHANGED <<card, verifiedSerial, coreVars, pc, op, orphaned, rejected>>

\* finish closes the session before the result can be seen.
CloseSession(w) ==
    /\ worker[w].step = "close"
    /\ worker' = [worker EXCEPT ![w].step = "send", ![w].live = FALSE,
                                ![w].serial = NoCard]
    /\ UNCHANGED <<envVars, verifiedSerial, coreVars, pc, op, orphaned, rejected>>

\* What an orphan sends stays in a channel that nobody reads.
SendResult(w) ==
    /\ worker[w].step = "send"
    /\ worker' = [worker EXCEPT ![w] =
                     IF op.by = w THEN [@ EXCEPT !.step = "done"] ELSE Idle]
    /\ UNCHANGED <<envVars, verifiedSerial, coreVars, pc, op, orphaned, rejected>>

-----------------------------------------------------------------------------
(* The specification.                                                      *)

Init ==
    /\ card = NoCard
    /\ retries = [s \in Serials |-> MaxRetries]
    /\ verifiedSerial = NoCard
    /\ pin = NoPIN
    /\ pinVerifiedSerial = NoCard
    /\ pc = "free"
    /\ op = NoOp
    /\ worker = [w \in Workers |-> Idle]
    /\ orphaned = FALSE
    /\ rejected = FALSE

WorkerStep(w) ==
    \/ OpenCard(w)
    \/ ReadCertificate(w)
    \/ VerifyPIN(w)
    \/ NoteVerified(w)
    \/ NoteRejected(w)
    \/ OpenKey(w)
    \/ Touch(w)
    \/ CloseSession(w)
    \/ SendResult(w)

Next ==
    \/ \E s \in Serials : PlugCard(s)
    \/ UnplugCard
    \/ \E required \in BOOLEAN : BeginSign(required)
    \/ \E p \in PINs : BeginUnlock(p)
    \/ BeginDescribe
    \/ Lock
    \/ AcquireLease
    \/ \E w \in Workers : StartAttempt(w)
    \/ TakeResult
    \/ ContextEnds
    \/ CallerLeaves
    \/ DrainResult
    \/ DrainTimeout
    \/ Return
    \/ \E w \in Workers : WorkerStep(w)

Spec == Init /\ [][Next]_vars

\* The steps of the operation itself are bounded by timers: the acquisition
\* budget, the hardware deadline, the drain.  Nothing is assumed of a worker,
\* which may hang in PC/SC for ever.
Fairness ==
    /\ WF_vars(AcquireLease)
    /\ WF_vars(\E w \in Workers : StartAttempt(w))
    /\ WF_vars(ContextEnds)
    /\ WF_vars(DrainTimeout)
    /\ WF_vars(TakeResult \/ DrainResult)
    /\ WF_vars(Return)

FairSpec == Spec /\ Fairness

-----------------------------------------------------------------------------
(* Properties.                                                             *)

\* Type invariant.
TypeOK ==
    /\ card \in Serials \cup {NoCard}
    /\ retries \in [Serials -> 0..MaxRetries]
    /\ verifiedSerial \in Serials \cup {NoCard}
    /\ pin \in PINs \cup {NoPIN}
    /\ pinVerifiedSerial \in Serials \cup {NoCard}
    /\ pc \in {"free", "lease", "spawn", "await", "drain", "return"}
    /\ op \in Operation
    /\ worker \in [Workers -> Worker]
    /\ orphaned \in BOOLEAN
    /\ rejected \in BOOLEAN

\* README, "pivb refuses to spend a card's final PIN retry, both on unlock and
\* when trying a cached PIN against a swapped card".  It holds until a worker
\* outlives its operation: an orphan's setVerifiedSerial vouches for a card and
\* a PIN of the past, and the next signature then skips the retry counter.
FinalAttemptKept ==
    [][\A s \in Serials :
          ~orphaned /\ retries[s] = 1 => retries'[s] # 0]_vars

\* The card that Core reports as verified accepts the PIN that Core has cached:
\* a serial that Sign reports after a failure past the verification, or without
\* one because the card was vouched for, is as good as a verification.
CachedPINVouched ==
    ~orphaned /\ pinVerifiedSerial # NoCard =>
        pin # NoPIN /\ PINOf[pinVerifiedSerial] = pin

\* "Workspace-forwarded describe and mint operations require the lease": no
\* worker has the card for such an operation unless the lease was granted to
\* it, on the retry as on the first attempt.
ForwardedUnderLease ==
    \A w \in Workers :
        LeaseConfigured /\ op.required /\ op.by = w /\ worker[w].step \in InSession
            => op.lease # "none"

\* README, "If a swapped key rejects the cached PIN, pivb spends at most one
\* attempt, clears the cache": a PIN that a card has rejected is not in the
\* cache any more when the operation is over, although no worker outlived one.
RejectionClearsCache == ~orphaned /\ pc = "free" => ~rejected

\* A signature returns to its caller although its worker may hang for ever.
SignAlwaysReturns == op.kind = "sign" ~> pc = "free"
=============================================================================
