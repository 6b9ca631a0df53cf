----------------------------- MODULE RealPayout -----------------------------
(***************************************************************************)
(* The real (Testnet) payout: the Temporal activity that takes one approved *)
(* withdrawal through lease, seqno admission, attempt, signature,           *)
(* broadcast, confirmation and settlement                                   *)
(* (packages/withdrawals/src/real-payout-pipeline.ts), over the rows of     *)
(* Withdrawals, the dispatch lease of the one hot wallet and the chain.     *)
(*                                                                          *)
(* A run of the activity is a process: between two of its transactions the  *)
(* worker may crash, the activity may time out and be started again while   *)
(* the old run goes on (a zombie), the lease may expire, other runs, the    *)
(* Owner and the chain may act.  A run that throws is started again by      *)
(* Temporal; a run that returns, with whatever result, completes the        *)
(* workflow for good.                                                       *)
(***************************************************************************)
EXTENDS Withdrawals, PayoutAttempts, SeqnoAdmission

CONSTANTS
  Runs,        \* slots for runs of the activity that exist at the same time
  NoRun,       \* no run
  NoOwner,     \* there is no lease row
  Zombies,     \* a run whose activity timed out may go on beside the new one
  MaxToken,    \* bound on the fencing tokens handed out
  MaxAttempts, \* bound on the attempts of one withdrawal
  Executed     \* messages the hot wallet has executed before

ASSUME RunsAssumption ==
  /\ NoRun \notin Runs /\ NoOwner \notin Ids
  /\ Zombies \in BOOLEAN
  /\ MaxToken \in Nat
  /\ MaxAttempts \in Nat
  /\ Executed \in Nat

\* The control center issues cards for MANUAL_REVIEW; no decision is made on a
\* withdrawal that is to be reconciled.
ASSUME ReviewAssumption == "RECONCILE_REQUIRED" \notin DecisionStates

INSTANCE HotWalletLease WITH Owners <- Ids

VARIABLES
  lease,    \* the dispatch lease row of the hot wallet
  attempts, \* attempts[w]: the withdrawal_attempts rows of w
  runs,     \* runs[r]: program counter and locals of run r
  current,  \* current[w]: the run Temporal waits for
  chain,    \* the hot wallet's seqno, messages on their way, payments made
  sends     \* sends[w]: sendBoc calls made for w (history)

vars == << rowVars, lease, attempts, runs, current, chain, sends >>

-----------------------------------------------------------------------------
(* A run keeps the withdrawal w it works for, the state st and the attempt  *)
(* (number k, signed message present, submitted) it read without a lock,    *)
(* and until its attempt exists the fencing token and the seqno it was      *)
(* given.  What it no longer uses it forgets.                               *)

ProgramCounters ==
  { "idle", "start", "attempt", "orphan", "admitOrphan", "createOrphan", "created",
    "load", "admit", "enter", "readmit", "create", "failSigning", "sign", "failSign",
    "persist", "submit", "context", "resign", "repersist", "reread", "noEvidence",
    "resubmit", "reconcile", "send", "ambiguous", "evidence", "reload",
    "observe", "unconfirmed", "confirm", "settle", "settleOnly", "return" }

Run == [ pc : ProgramCounters, w : Ids \cup { NoOwner }, st : States \cup { "NONE" },
         k : Nat, boc : BOOLEAN, sub : BOOLEAN, token : Nat, seq : Nat ]

IdleRun == [ pc |-> "idle", w |-> NoOwner, st |-> "NONE", k |-> 0, boc |-> FALSE,
             sub |-> FALSE, token |-> 0, seq |-> 0 ]

PayoutTypeOK ==
  /\ TypeOK
  /\ lease \in Lease
  /\ attempts \in [Ids -> Seq(Attempt)]
  /\ runs \in [Runs -> Run]
  /\ current \in [Ids -> Runs \cup { NoRun }]
  /\ chain \in [ seqno : Nat, mempool : SUBSET (Ids \X Nat), paid : SUBSET (Ids \X Nat) ]
  /\ sends \in [Ids -> Nat]

At(r, pc) == runs[r].pc = pc

\* The withdrawal run r works for, its state and its attempts, and the attempt
\* the run works on.
W(r) == runs[r].w
State(r) == wd[W(r)].state
Tries(r) == attempts[W(r)]
Try(r) == Tries(r)[runs[r].k]

Goto(r, pc) == runs' = [runs EXCEPT ![r].pc = pc]

\* The run goes on at pc with attempt k and forgets its other locals.
GotoWith(r, pc, k) ==
  runs' = [runs EXCEPT ![r] = [IdleRun EXCEPT !.pc = pc, !.w = W(r), !.k = k]]

\* The activity is about to return normally.
Returning(r) == GotoWith(r, "return", 0)

\* transitionWithdrawal: compare and swap of the state, along the table.
Transition(r, from, to) ==
  /\ State(r) = from
  /\ to \in Successors(from)
  /\ wd' = [wd EXCEPT ![W(r)].state = to]

\* An UPDATE of the attempt the run works on.
WriteAttempt(r, a) ==
  LET as == [Tries(r) EXCEPT ![runs[r].k] = a]
  IN  OneLive(as) /\ attempts' = [attempts EXCEPT ![W(r)] = as]

\* Mutant: only a recorded submission blocks a takeover.
SubmittedByOthers(w) ==
  \E v \in Ids \ { w } : \E k \in DOMAIN attempts[v] : attempts[v][k].submitted

\* Another withdrawal has possibly-broadcast work that is not resolved.
UnresolvedByOthers(w) ==
  \E v \in Ids \ { w } : \E k \in DOMAIN attempts[v] :
    Unresolved(wd[v], attempts[v], k, nonpayment[v])

\* What a run never changes, and what a transaction of it leaves alone when it
\* writes the withdrawal, the lease and the attempt.
rowsButWd == << quote, ledger, approvals, nonpayment, outbox, workflow >>
outsideTxn == << rowsButWd, current, chain, sends >>
allButRuns == << rowVars, lease, attempts, current, chain, sends >>

-----------------------------------------------------------------------------
(* Temporal and the worker: apps/worker/src/workflows.ts, activities.ts.    *)

\* The workflow schedules its one activity; also the retry of a failed one.
StartRun(r, w) ==
  /\ At(r, "idle") /\ workflow[w] = "RUNNING" /\ current[w] = NoRun
  /\ runs' = [runs EXCEPT ![r] = [IdleRun EXCEPT !.pc = "start", !.w = w]]
  /\ current' = [current EXCEPT ![w] = r]
  /\ UNCHANGED << rowVars, lease, attempts, chain, sends >>

\* The run is over: if Temporal still waits for it, it knows.
RunEnds(r) ==
  /\ runs' = [runs EXCEPT ![r] = IdleRun]
  /\ current' = [current EXCEPT ![W(r)] = IF @ = r THEN NoRun ELSE @]

\* The activity returned; the workflow returns its result and is complete,
\* whatever that result is.
Finish(r) ==
  /\ At(r, "return")
  /\ RunEnds(r)
  /\ workflow' = [workflow EXCEPT ![W(r)] = IF current[W(r)] = r THEN "COMPLETED" ELSE @]
  /\ UNCHANGED << quote, wd, ledger, approvals, nonpayment, outbox,
                  lease, attempts, chain, sends >>

\* The worker crashes, a call fails, or a check of the code throws and its
\* transaction is rolled back: the run ends without a result.
Fail(r) ==
  /\ ~At(r, "idle")
  /\ RunEnds(r)
  /\ UNCHANGED << rowVars, lease, attempts, chain, sends >>

\* startToCloseTimeout passes: Temporal gives the run up, the worker does not.
Timeout(w) ==
  /\ Zombies /\ current[w] # NoRun
  /\ current' = [current EXCEPT ![w] = NoRun]
  /\ UNCHANGED << rowVars, lease, attempts, runs, chain, sends >>

-----------------------------------------------------------------------------
(* Entry: what the withdrawal's state and its latest attempt call for.      *)

InFlightStates ==
  { "SIGNING", "BROADCASTING", "BROADCASTED", "CONFIRMING", "RECONCILE_REQUIRED" }

\* The state is read without a lock; a pause or a missing resource returns.
ReadState(r) ==
  /\ At(r, "start")
  /\ \/ Returning(r)
     \/ runs' = [runs EXCEPT ![r].pc = "attempt", ![r].st = State(r)]
  /\ UNCHANGED allButRuns

\* loadPersistedAttempt: the latest attempt, as it is now.
Snapshot(r) ==
  LET k == Len(Tries(r))
  IN  [ IdleRun EXCEPT !.pc = "context", !.w = W(r), !.k = k,
                       !.boc = Tries(r)[k].boc, !.sub = Tries(r)[k].submitted ]

\* Then the attempt is read.  Past SIGNING there always is one (OneMessage), so
\* the branch for a missing one is left out.
ReadAttempt(r) ==
  /\ At(r, "attempt")
  /\ CASE runs[r].st = "CONFIRMED" -> GotoWith(r, "settleOnly", 0)
       [] runs[r].st \in InFlightStates /\ Tries(r) # << >> ->
            runs' = [runs EXCEPT ![r] = Snapshot(r)]
       [] runs[r].st = "SIGNING" /\ Tries(r) = << >> -> GotoWith(r, "orphan", 0)
       [] OTHER -> GotoWith(r, "load", 0)
  /\ UNCHANGED allButRuns

-----------------------------------------------------------------------------
(* SIGNING with no attempt: goes on only under a live lease of its own.     *)

\* The lease is read without a lock; without a live one, or with the signer
\* locked, the run returns BLOCKED.
ReadLease(r) ==
  /\ At(r, "orphan")
  /\ \/ Returning(r)
     \/ /\ Active(lease) /\ lease.owner = W(r)
        /\ runs' = [runs EXCEPT ![r].pc = "admitOrphan", ![r].token = lease.token]
  /\ UNCHANGED allButRuns

\* admitWalletSeqno, then the canonical hash; either may fail.
AdmitOrphan(r) ==
  /\ At(r, "admitOrphan")
  /\ \/ Goto(r, "failSigning")
     \/ \E n \in AdmittedSeqnos(chain.seqno) :
          runs' = [runs EXCEPT ![r].pc = "createOrphan", ![r].seq = n]
  /\ UNCHANGED allButRuns

\* The attempt just created is read back and resumed.
ReadCreated(r) ==
  /\ At(r, "created")
  /\ runs' = [runs EXCEPT ![r] = Snapshot(r)]
  /\ UNCHANGED allButRuns

-----------------------------------------------------------------------------
(* The first pass: queue, admit, enter SIGNING with the lease, create.      *)

\* Mutant: a withdrawal that is already queued is not accepted.
LoadUnqueued(r) ==
  /\ At(r, "load")
  /\ State(r) \in { "APPROVED", "FAILED_PRE_BROADCAST" }
  /\ wd' = [wd EXCEPT ![W(r)].state = "QUEUED"]
  /\ Goto(r, "admit")
  /\ UNCHANGED << lease, attempts, outsideTxn >>

LoadApproved(r) ==
  /\ At(r, "load")
  /\ State(r) \in { "APPROVED", "FAILED_PRE_BROADCAST", "QUEUED" }
  /\ wd' = [wd EXCEPT ![W(r)].state = "QUEUED"]
  /\ Goto(r, "admit")
  /\ UNCHANGED << lease, attempts, outsideTxn >>

\* The signer's identity and the seqno both providers agree on, or BLOCKED.
Admit(r) ==
  /\ At(r, "admit")
  /\ \/ Returning(r)
     \/ \E n \in AdmittedSeqnos(chain.seqno) :
          runs' = [runs EXCEPT ![r].pc = "enter", ![r].seq = n]
  /\ UNCHANGED allButRuns

\* QUEUED -> SIGNING with the lease, in one transaction ...
EnterSigning(r) ==
  /\ At(r, "enter")
  /\ CanAcquire(lease, W(r), UnresolvedByOthers(W(r)))
  /\ Acquired(lease, W(r)).token <= MaxToken
  /\ Transition(r, "QUEUED", "SIGNING")
  /\ lease' = Acquired(lease, W(r))
  /\ runs' = [runs EXCEPT ![r].pc = "readmit", ![r].token = lease'.token]
  /\ UNCHANGED << attempts, outsideTxn >>

\* ... or, when the lease is not to be had, on to FAILED_PRE_BROADCAST.
EnterWithoutLease(r) ==
  /\ At(r, "enter")
  /\ ~CanAcquire(lease, W(r), UnresolvedByOthers(W(r)))
  /\ State(r) = "QUEUED"
  /\ wd' = [wd EXCEPT ![W(r)].state = "FAILED_PRE_BROADCAST"]
  /\ Returning(r)
  /\ UNCHANGED << lease, attempts, outsideTxn >>

\* The second admission must find the same seqno; it, or the hash, may fail.
Readmit(r) ==
  /\ At(r, "readmit")
  /\ \/ Goto(r, "failSigning")
     \/ runs[r].seq \in AdmittedSeqnos(chain.seqno) /\ Goto(r, "create")
  /\ UNCHANGED allButRuns

\* createWithdrawalAttempt, under the fence.
CreateAttempt(r) ==
  /\ At(r, "create") \/ At(r, "createOrphan")
  /\ FenceHolds(lease, W(r), runs[r].token)
  /\ AttemptAllowed(State(r), Tries(r))
  /\ Len(Tries(r)) < MaxAttempts
  /\ attempts' = [attempts EXCEPT ![W(r)] = Append(@, NewAttempt(runs[r].token, runs[r].seq))]
  /\ GotoWith(r, IF At(r, "create") THEN "sign" ELSE "created", Len(Tries(r)) + 1)
  /\ UNCHANGED << wd, lease, outsideTxn >>

\* Its error is caught.
CreateFails(r) ==
  /\ At(r, "create") \/ At(r, "createOrphan")
  /\ Goto(r, "failSigning")
  /\ UNCHANGED allButRuns

\* SIGNING -> FAILED_PRE_BROADCAST, releasing the lease this run was given.
FailSigning(r) ==
  /\ At(r, "failSigning")
  /\ Transition(r, "SIGNING", "FAILED_PRE_BROADCAST")
  /\ lease' = ReleasedBy(lease, W(r), runs[r].token)
  /\ Returning(r)
  /\ UNCHANGED << attempts, outsideTxn >>

-----------------------------------------------------------------------------
(* Resume: resumePersistedPipeline.                                         *)

\* Mutant: a resume does not look at broadcast_submitted_at.
ResumeAtWithoutSubmitted(st, boc, sub) ==
  IF st = "CONFIRMED" THEN "settleOnly"
  ELSE IF boc THEN "resubmit"
  ELSE IF st = "SIGNING" THEN "resign"
  ELSE "noEvidence"

\* Where a run goes on that saw the withdrawal in st and its latest attempt
\* with (boc) or without its message persisted, submitted (sub) or not.  There
\* is no case for a message that is persisted while the withdrawal is SIGNING
\* (the code would catch up with the state): the message and BROADCASTING are
\* written in one transaction, and the attempt is read before the state.
ResumeAt(st, boc, sub) ==
  IF st = "CONFIRMED" THEN "settleOnly"
  ELSE IF sub THEN "reconcile"
  ELSE IF boc THEN "resubmit"
  ELSE IF st = "SIGNING" THEN "resign"
  ELSE "noEvidence"

\* Only two of the branches use the state they saw again.
Resume(r, k, st, boc, sub) ==
  LET pc == ResumeAt(st, boc, sub)
  IN  runs' = [runs EXCEPT ![r] =
        [ IdleRun EXCEPT !.pc = pc, !.w = W(r), !.k = k,
                         !.st = IF pc \in { "noEvidence", "reconcile" } THEN st ELSE "NONE" ]]

\* loadPersistedContext: the state is read again, after the attempt.
ReadContext(r) ==
  /\ At(r, "context")
  /\ Resume(r, runs[r].k, State(r), runs[r].boc, runs[r].sub)
  /\ UNCHANGED allButRuns

\* After its own persist the run reads the latest attempt again.
Reread(r) ==
  /\ At(r, "reread")
  /\ LET a == Snapshot(r) IN Resume(r, a.k, "BROADCASTING", a.boc, a.sub)
  /\ UNCHANGED allButRuns

\* The signer's policy (packages/signing/src/policy.ts) on attempt a of w: a
\* PENDING attempt whose fence is the token of the lease, whoever owns that;
\* an expired lease is refused, a released one is not.
SignerAccepts(w, a) ==
  /\ wd[w].state \in { "QUEUED", "SIGNING" }
  /\ ~a.started /\ a.result = "PENDING"
  /\ a.fence = lease.token
  /\ ~lease.expired \/ lease.released

\* The signer signs the stored intent of an attempt and nothing else.
Sign(r) ==
  /\ At(r, "sign") \/ At(r, "resign")
  /\ \/ SignerAccepts(W(r), Try(r)) /\ Goto(r, IF At(r, "sign") THEN "persist" ELSE "repersist")
     \/ Goto(r, "failSign")
  /\ UNCHANGED allButRuns

\* The signer refused or could not be reached: nothing was broadcast.
FailSign(r) ==
  /\ At(r, "failSign")
  /\ MayFailPre(Try(r))
  /\ WriteAttempt(r, [Try(r) EXCEPT !.result = "FAILED_PRE_BROADCAST"])
  /\ Transition(r, "SIGNING", "FAILED_PRE_BROADCAST")
  /\ lease' = ReleasedBy(lease, W(r), Try(r).fence)
  /\ Returning(r)
  /\ UNCHANGED outsideTxn

\* The signed message is made durable before anything is sent: under the fence
\* on the first pass ...
Persist(r) ==
  /\ At(r, "persist")
  /\ FenceHolds(lease, W(r), Try(r).fence)
  /\ Unsent(Try(r))
  /\ WriteAttempt(r, WithBoc(Try(r)))
  /\ Transition(r, "SIGNING", "BROADCASTING")
  /\ Goto(r, "submit")
  /\ UNCHANGED << lease, outsideTxn >>

\* ... and without it on a resume.
PersistOnResume(r) ==
  /\ At(r, "repersist")
  /\ Unsent(Try(r))
  /\ WriteAttempt(r, WithBoc(Try(r)))
  /\ Transition(r, "SIGNING", "BROADCASTING")
  /\ Goto(r, "reread")
  /\ UNCHANGED << lease, outsideTxn >>

\* Mutant: without evidence the withdrawal is taken for failed and returnable.
NoEvidenceAsFailure(r) ==
  /\ At(r, "noEvidence")
  /\ MayFailPre(Try(r))
  /\ WriteAttempt(r, [Try(r) EXCEPT !.result = "FAILED_PRE_BROADCAST"])
  /\ State(r) = runs[r].st
  /\ wd' = [wd EXCEPT ![W(r)].state = "FAILED_PRE_BROADCAST"]
  /\ Returning(r)
  /\ UNCHANGED << lease, outsideTxn >>

\* Neither message nor submission, and no longer SIGNING: the attempt is
\* closed, and a withdrawal said to be broadcasting goes to reconciliation.
NoEvidence(r) ==
  /\ At(r, "noEvidence")
  /\ MayFailPre(Try(r))
  /\ WriteAttempt(r, [Try(r) EXCEPT !.result = "FAILED_PRE_BROADCAST"])
  /\ IF runs[r].st \in { "BROADCASTING", "BROADCASTED", "CONFIRMING" }
       THEN Transition(r, runs[r].st, "RECONCILE_REQUIRED")
       ELSE UNCHANGED wd
  /\ Returning(r)
  /\ UNCHANGED << lease, outsideTxn >>

\* Already submitted: never sent again, only observed.
ReconcileOnResume(r) ==
  /\ At(r, "reconcile")
  /\ CASE runs[r].st \in { "SIGNING", "BROADCASTING" } ->
            /\ State(r) = runs[r].st
            /\ wd' = [wd EXCEPT ![W(r)].state = "RECONCILE_REQUIRED"]
       [] runs[r].st = "BROADCASTED" -> Transition(r, "BROADCASTED", "CONFIRMING")
       [] OTHER -> UNCHANGED wd
  /\ GotoWith(r, "observe", runs[r].k)
  /\ UNCHANGED << lease, attempts, outsideTxn >>

-----------------------------------------------------------------------------
(* Broadcast.                                                               *)

\* The intent to submit is durable before sendBoc: under the fence ...
Submit(r) ==
  /\ At(r, "submit")
  /\ FenceHolds(lease, W(r), Try(r).fence)
  /\ WriteAttempt(r, Submitted(Try(r), "UNKNOWN"))
  /\ Goto(r, "send")
  /\ UNCHANGED << wd, lease, outsideTxn >>

\* ... or, on a resume, under a lease acquired again with the same token.
SubmitOnResume(r) ==
  /\ At(r, "resubmit")
  /\ CanAcquire(lease, W(r), UnresolvedByOthers(W(r)))
  /\ Acquired(lease, W(r)).token = Try(r).fence
  /\ lease' = Acquired(lease, W(r))
  /\ WriteAttempt(r, Submitted(Try(r), "UNKNOWN"))
  /\ Goto(r, "send")
  /\ UNCHANGED << wd, outsideTxn >>

\* sendBoc: accepted, or refused, timed out or lost, and then the message may
\* be on its way or not.
SendBoc(r) ==
  /\ At(r, "send")
  /\ LET message == << W(r), runs[r].k >>
         sent == [chain EXCEPT !.mempool = @ \cup { message }]
     IN  \/ chain' = sent /\ Goto(r, "evidence")
         \/ chain' \in { chain, sent } /\ Goto(r, "ambiguous")
  /\ sends' = [sends EXCEPT ![W(r)] = @ + 1]
  /\ UNCHANGED << rowVars, lease, attempts, current >>

\* Mutant: a send that timed out is taken for one that failed.
AmbiguousAsFailure(r) ==
  /\ At(r, "ambiguous")
  /\ WriteAttempt(r, [Try(r) EXCEPT !.result = "FAILED_PRE_BROADCAST"])
  /\ wd' = [wd EXCEPT ![W(r)].state = "FAILED_PRE_BROADCAST"]
  /\ Returning(r)
  /\ UNCHANGED << lease, outsideTxn >>

\* Every outcome but an accepted send is ambiguous and left to reconciliation.
Ambiguous(r) ==
  /\ At(r, "ambiguous")
  /\ \E result \in { "UNKNOWN", "RECONCILE_REQUIRED" } :
       WriteAttempt(r, Submitted(Try(r), result))
  /\ Transition(r, "BROADCASTING", "RECONCILE_REQUIRED")
  /\ Returning(r)
  /\ UNCHANGED << lease, outsideTxn >>

\* BROADCASTING -> BROADCASTED -> CONFIRMING in one transaction.
BroadcastEvidence(r) ==
  /\ At(r, "evidence")
  /\ WriteAttempt(r, Submitted(Try(r), "BROADCASTED"))
  /\ State(r) = "BROADCASTING"
  /\ wd' = [wd EXCEPT ![W(r)].state = "CONFIRMING"]
  /\ Goto(r, "reload")
  /\ UNCHANGED << lease, outsideTxn >>

ReloadAttempt(r) ==
  /\ At(r, "reload")
  /\ GotoWith(r, "observe", Len(Tries(r)))
  /\ UNCHANGED allButRuns

-----------------------------------------------------------------------------
(* Confirmation and settlement: confirmAndSettle.                           *)

\* Mutant: a message still on its way confirms the withdrawal.
ObserveAccepted(r) ==
  /\ At(r, "observe")
  /\ \/ << W(r), runs[r].k >> \in chain.paid \cup chain.mempool /\ Goto(r, "confirm")
     \/ Goto(r, "unconfirmed")
  /\ UNCHANGED allButRuns

\* Both providers show the payment this attempt intended; or they do not,
\* because there is none or because one of them does not answer for it yet.
Observe(r) ==
  /\ At(r, "observe")
  /\ \/ << W(r), runs[r].k >> \in chain.paid /\ Goto(r, "confirm")
     \/ Goto(r, "unconfirmed")
  /\ UNCHANGED allButRuns

Unconfirmed(r) ==
  /\ At(r, "unconfirmed")
  /\ WriteAttempt(r, [Try(r) EXCEPT !.result = "RECONCILE_REQUIRED"])
  /\ IF State(r) = "CONFIRMING"
       THEN Transition(r, "CONFIRMING", "RECONCILE_REQUIRED")
       ELSE UNCHANGED wd
  /\ Returning(r)
  /\ UNCHANGED << lease, outsideTxn >>

\* The proof and CONFIRMED in one transaction.
Confirm(r) ==
  /\ At(r, "confirm")
  /\ State(r) \in { "CONFIRMING", "RECONCILE_REQUIRED", "CONFIRMED" }
  /\ wd' = [wd EXCEPT ![W(r)].state = "CONFIRMED"]
  /\ Goto(r, "settle")
  /\ UNCHANGED << lease, attempts, outsideTxn >>

\* Mutant: the settlement is posted whether or not the row records one.
SettleAgain(r) ==
  /\ At(r, "settle") \/ At(r, "settleOnly")
  /\ State(r) = "CONFIRMED"
  /\ ledger' = SettlementPosting(ledger, W(r))
  /\ wd' = [wd EXCEPT ![W(r)].settled = TRUE]
  /\ Returning(r)
  /\ UNCHANGED << quote, approvals, nonpayment, outbox, workflow,
                  lease, attempts, current, chain, sends >>

\* settleWithdrawalReservation, once; the run that confirmed also releases the
\* lease its withdrawal owns, a run that found it CONFIRMED does not.
Settle(r) ==
  /\ At(r, "settle") \/ At(r, "settleOnly")
  /\ wd[W(r)].settled \/ (State(r) = "CONFIRMED" /\ wd[W(r)].reserved /\ ~wd[W(r)].released)
  /\ ledger' = IF wd[W(r)].settled THEN ledger ELSE SettlementPosting(ledger, W(r))
  /\ wd' = [wd EXCEPT ![W(r)].settled = TRUE]
  /\ lease' = IF At(r, "settle") /\ lease.owner = W(r)
                THEN [lease EXCEPT !.released = TRUE] ELSE lease
  /\ Returning(r)
  /\ UNCHANGED << quote, approvals, nonpayment, outbox, workflow,
                  attempts, current, chain, sends >>

-----------------------------------------------------------------------------
(* Canary recovery (phase10-canary-signing-recovery.ts): an Owner takes a   *)
(* withdrawal out of SIGNING when its lease ran out before any attempt was  *)
(* created.  That the workflow is terminated and the worker stopped is only *)
(* attested: here a run of the withdrawal may well go on.  The gates on the *)
(* environment, the Owner's session and the confirmation change no state    *)
(* and are taken as passed; the one id the code allows may be any w.        *)

\* What recovery reads, with the withdrawal and the lease locked.
RecoverySnapshot(w) ==
  [ row      |-> wd[w],
    attempts |-> Len(attempts[w]),
    evidence |-> { k \in DOMAIN attempts[w] :
                     attempts[w][k].started \/ attempts[w][k].submitted \/ attempts[w][k].boc },
    lease    |-> lease ]

\* evaluatePreconditions.
Recoverable(w, s) ==
  /\ s.row.state = "SIGNING" /\ s.attempts = 0 /\ s.evidence = {}
  /\ s.row.reserved /\ ~s.row.released /\ ~s.row.settled
  /\ s.lease.owner = w /\ ~s.lease.released /\ s.lease.expired

\* The state and the lease move together, or not at all; the attempts and the
\* reservation stay as they are.
RecoverSigning(w, s) ==
  /\ wd' = [wd EXCEPT ![w].state = "FAILED_PRE_BROADCAST"]
  /\ lease' = ReleasedBy(lease, w, s.lease.token)
  /\ lease'.released
  /\ UNCHANGED << rowsButWd, attempts, current, chain, sends >>

Recover(w) ==
  LET s == RecoverySnapshot(w)
  IN  Recoverable(w, s) /\ RecoverSigning(w, s) /\ UNCHANGED runs

-----------------------------------------------------------------------------
(* The clock and the chain.                                                 *)

LeaseExpires ==
  /\ Active(lease)
  /\ lease' = Expired(lease)
  /\ UNCHANGED << rowVars, attempts, runs, current, chain, sends >>

\* The hot wallet executes a message that carries its current seqno, once; the
\* Jetton transfer in it succeeds or bounces.
WalletExecutes(m) ==
  /\ m \in chain.mempool
  /\ attempts[m[1]][m[2]].seqno = chain.seqno
  /\ \E paid \in { chain.paid, chain.paid \cup { m } } :
       chain' = [ seqno |-> chain.seqno + 1, mempool |-> chain.mempool \ { m }, paid |-> paid ]
  /\ UNCHANGED << rowVars, lease, attempts, runs, current, sends >>

\* A message is lost, outlives valid_until, or carries a used seqno.
MessageLost(m) ==
  /\ m \in chain.mempool
  /\ chain' = [chain EXCEPT !.mempool = @ \ { m }]
  /\ UNCHANGED << rowVars, lease, attempts, runs, current, sends >>

-----------------------------------------------------------------------------

PayoutInit ==
  /\ ReviewInit
  /\ lease = NoLease
  /\ attempts = [w \in Ids |-> << >>]
  /\ runs = [r \in Runs |-> IdleRun]
  /\ current = [w \in Ids |-> NoRun]
  /\ chain = [ seqno |-> Executed, mempool |-> {}, paid |-> {} ]
  /\ sends = [w \in Ids |-> 0]

\* The first pass and the resume create, sign and send by code of their own
\* that does the same.
AttemptStep(r) == CreateAttempt(r) \/ CreateFails(r) \/ FailSigning(r)
SignStep(r) == Sign(r) \/ FailSign(r)
SendStep(r) == SendBoc(r) \/ Ambiguous(r) \/ BroadcastEvidence(r)

\* What a run does by itself.
Step(r) ==
  \/ ReadState(r) \/ ReadAttempt(r)
  \/ ReadLease(r) \/ AdmitOrphan(r) \/ ReadCreated(r)
  \/ LoadApproved(r) \/ Admit(r) \/ EnterSigning(r) \/ EnterWithoutLease(r)
  \/ Readmit(r) \/ AttemptStep(r)
  \/ ReadContext(r) \/ Reread(r) \/ SignStep(r)
  \/ Persist(r) \/ PersistOnResume(r) \/ NoEvidence(r)
  \/ ReconcileOnResume(r) \/ Submit(r) \/ SubmitOnResume(r) \/ SendStep(r)
  \/ ReloadAttempt(r)
  \/ Observe(r) \/ Unconfirmed(r) \/ Confirm(r) \/ Settle(r) \/ Finish(r)

\* The Owner and the relay, as in Withdrawals.
OfficeStep(w) ==
  /\ DecideStep(w) \/ RelayStep(w)
  /\ UNCHANGED << lease, attempts, runs, current, chain, sends >>

PayoutNext ==
  \/ \E r \in Runs : Step(r) \/ Fail(r)
  \/ \E r \in Runs, w \in Ids : StartRun(r, w)
  \/ \E w \in Ids : OfficeStep(w) \/ Recover(w) \/ Timeout(w)
  \/ LeaseExpires
  \/ \E m \in chain.mempool : WalletExecutes(m) \/ MessageLost(m)

PayoutSpec == PayoutInit /\ [][PayoutNext]_vars

\* A run that cannot go on because a check of the code throws; the other
\* failures are crashes and calls that were lost.
Throws(r) == Fail(r) /\ ~ENABLED Step(r)
Accident == \E r \in Runs : Fail(r) /\ ENABLED Step(r)

\* The worker executes what it has started, a check that fails throws, Temporal
\* starts again what has failed, and accidents come to an end.
Fairness ==
  /\ \A r \in Runs : WF_vars(Step(r)) /\ WF_vars(Throws(r))
  /\ \A w \in Ids : WF_vars(\E r \in Runs : StartRun(r, w))
  /\ <>[][~Accident]_vars

FairPayoutSpec == PayoutSpec /\ Fairness

-----------------------------------------------------------------------------
(* Properties.                                                             *)

\* The numbers of the attempts of w whose message may be on the chain.
OnChain(w) == { k \in DOMAIN attempts[w] : << w, k >> \in chain.mempool \cup chain.paid }

\* A run is about to call sendBoc for w.
AboutToSend(w) == \E r \in Runs : At(r, "send") /\ W(r) = w

\* No withdrawal is paid twice, whatever crashes, times out, or is retried: at
\* most one attempt of it ever reaches the chain.
PaidAtMostOnce == \A w \in Ids : Cardinality(OnChain(w)) <= 1

\* CONFIRMED, and with it the settlement of the reservation, is reached only
\* for a withdrawal the wallet really paid.
ConfirmedIsPaid ==
  \A w \in Ids : wd[w].state = "CONFIRMED" => \E m \in chain.paid : m[1] = w

\* Money given back to the user was not and will not be paid out as well.
ReleasedIsNeverPaid ==
  \A w \in Ids : wd[w].released => OnChain(w) = {} /\ ~AboutToSend(w)

\* A message on its way was recorded before it was sent, under an attempt that
\* can no longer be taken for one that failed before the broadcast.
SentIsRecorded ==
  \A w \in Ids :
    /\ AboutToSend(w) \/ OnChain(w) # {} =>
         wd[w].state \in { "BROADCASTING", "CONFIRMING", "RECONCILE_REQUIRED", "CONFIRMED" }
    /\ \A k \in OnChain(w) :
         /\ attempts[w][k].boc /\ attempts[w][k].submitted
         /\ attempts[w][k].result # "FAILED_PRE_BROADCAST"

\* A withdrawal past SIGNING has an attempt whose message is persisted, and never
\* a second one: there is one message of it that could ever be sent.
OneMessage ==
  \A w \in Ids :
    /\ wd[w].state \in InFlightStates \ { "SIGNING" } =>
         \E k \in DOMAIN attempts[w] : attempts[w][k].boc
    /\ \A j, k \in DOMAIN attempts[w] : attempts[w][j].boc /\ attempts[w][k].boc => j = k

\* NO BLIND RESEND: sendBoc is called at most once for a withdrawal.
NoBlindResend == \A w \in Ids : sends[w] <= 1

\* A confirmed withdrawal stays confirmed and a settled one never moves again;
\* a submission, a message and the intent of an attempt are never taken back.
HistoryIsKept ==
  [][\A w \in Ids :
       /\ wd[w].state = "CONFIRMED" => wd'[w].state = "CONFIRMED" /\ ~wd'[w].released
       /\ wd[w].settled => wd'[w] = wd[w]
       /\ \A k \in DOMAIN attempts[w] :
            /\ k \in DOMAIN attempts'[w]
            /\ attempts[w][k].submitted => attempts'[w][k].submitted
            /\ attempts[w][k].boc => attempts'[w][k].boc]_vars

\* A settled withdrawal is no unresolved work: it leaves the wallet to others.
SettledIsResolved ==
  \A w \in Ids : \A k \in DOMAIN attempts[w] :
    wd[w].settled => ~Unresolved(wd[w], attempts[w], k, nonpayment[w])

\* Once accidents end, no activity is retried for ever: each workflow comes to
\* a result (or the instance has no fencing token left to hand out).
WorkflowCompletes ==
  \A w \in Ids :
    workflow[w] = "RUNNING" ~> workflow[w] = "COMPLETED" \/ lease.token = MaxToken

\* The whole payout keeps the promise of PayoutPromise: a withdrawal's money is
\* paid or given back, never both, and the reservation is spent once, after the
\* chain has paid; crashes, retries and overlapping runs included.
Paid == { m[1] : m \in chain.paid }

PaidPromise == INSTANCE PayoutPromise WITH fate <- Fate(Paid), books <- ledger

PayoutPromiseKept == PaidPromise!Spec

\* The pipeline uses the lease as LeaseProtocol says: the fences on its attempts
\* are the ones it was granted, and it submits only under the latest.
OpenWork(w) == { k \in DOMAIN attempts[w] : Unresolved(wd[w], attempts[w], k, nonpayment[w]) }

LeaseRules ==
  INSTANCE LeaseProtocol WITH
    Owners     <- Ids,
    fences     <- UNION { { << w, attempts[w][k].fence >> : k \in DOMAIN attempts[w] } : w \in Ids },
    unresolved <- { w \in Ids : OpenWork(w) # {} },
    submitted  <- { w \in Ids : \E k \in OpenWork(w) : attempts[w][k].submitted }

LeaseRulesKept == LeaseRules!Spec

=============================================================================
