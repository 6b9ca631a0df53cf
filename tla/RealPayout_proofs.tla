-------------------------- MODULE RealPayout_proofs --------------------------
(***************************************************************************)
(* Theorems about the real payout, for any withdrawals and amounts, any     *)
(* number of overlapping runs of the activity, any crashes and timeouts.    *)
(* They rest on the one transition from SIGNING to BROADCASTING: it is the  *)
(* only step that persists a message, it is never taken back, and only a    *)
(* persisted message is submitted.  The last part is about the lease: where *)
(* no run outlives its activity the payout implements LeaseProtocol.        *)
(***************************************************************************)
EXTENDS RealPayout, Withdrawals_proofs, SequenceTheorems

USE RunsAssumption

-----------------------------------------------------------------------------
(* The inductive invariant.                                                *)

\* The states of a withdrawal whose message is persisted.
Late == { "BROADCASTING", "CONFIRMING", "RECONCILE_REQUIRED", "CONFIRMED" }

\* The attempts as of a withdrawal in state st: one message at most, and exactly
\* in the late states; what was submitted was persisted, and has not failed.  No
\* transaction ends in BROADCASTED.
Message(st, as) ==
  /\ st # "BROADCASTED"
  /\ st \in Late <=> \E k \in DOMAIN as : as[k].boc
  /\ \A j, k \in DOMAIN as : as[j].boc /\ as[k].boc => j = k
  /\ \A k \in DOMAIN as : as[k].submitted =>
       as[k].started /\ as[k].boc /\ as[k].result # "FAILED_PRE_BROADCAST"

MessageInv == \A w \in Ids : Message(wd[w].state, attempts[w])

\* What is on the chain was submitted.
ChainInv ==
  \A m \in chain.mempool \cup chain.paid :
    /\ m[1] \in Ids /\ m[2] \in DOMAIN attempts[m[1]]
    /\ attempts[m[1]][m[2]].submitted

Working ==
  { "sign", "failSign", "persist", "submit", "context", "resign", "repersist", "reread",
    "noEvidence", "resubmit", "reconcile", "send", "ambiguous", "evidence", "observe",
    "unconfirmed", "confirm" }

\* What a run at pc with attempt k of w relies on, with the attempts as.
SoundAt(pc, w, k, as, paid) ==
  /\ pc # "idle" => w \in Ids
  /\ pc \in Working => k \in DOMAIN as[w]
  /\ pc \in { "reload", "created" } => as[w] # << >>
  /\ pc \in { "submit", "resubmit" } => as[w][k].boc
  /\ pc \in { "send", "ambiguous", "evidence", "reconcile" } => as[w][k].submitted
  /\ pc = "confirm" => << w, k >> \in paid

Sound(x, as, paid) ==
  /\ SoundAt(x.pc, x.w, x.k, as, paid)
  /\ x.pc = "context" => /\ x.boc => as[x.w][x.k].boc
                         /\ x.sub => as[x.w][x.k].submitted

RunsInv == \A r \in Runs : Sound(runs[r], attempts, chain.paid)

PayoutInv ==
  /\ IInv /\ PayoutTypeOK
  /\ MessageInv /\ ChainInv /\ ConfirmedIsPaid /\ RunsInv

-----------------------------------------------------------------------------
(* Attempts and runs as a step leaves them.                                *)

LEMMA AttemptWrites ==
  ASSUME NEW a \in Attempt, NEW result \in Results
  PROVE  /\ WithBoc(a) \in Attempt /\ WithBoc(a).boc
         /\ WithBoc(a).submitted = a.submitted /\ WithBoc(a).started = a.started
         /\ WithBoc(a).result = a.result /\ WithBoc(a).fence = a.fence
         /\ Submitted(a, result) \in Attempt /\ Submitted(a, result).boc = a.boc
         /\ Submitted(a, result).submitted /\ Submitted(a, result).started
         /\ Submitted(a, result).result = result /\ Submitted(a, result).fence = a.fence
         /\ [a EXCEPT !.result = result] \in Attempt
         /\ [a EXCEPT !.result = result].boc = a.boc
         /\ [a EXCEPT !.result = result].submitted = a.submitted
         /\ [a EXCEPT !.result = result].started = a.started
         /\ [a EXCEPT !.result = result].result = result
         /\ [a EXCEPT !.result = result].fence = a.fence
<1>1. /\ WithBoc(a) \in Attempt /\ WithBoc(a).boc
      /\ WithBoc(a).submitted = a.submitted /\ WithBoc(a).started = a.started
      /\ WithBoc(a).result = a.result /\ WithBoc(a).fence = a.fence
  BY DEF WithBoc, Attempt
<1>2. /\ Submitted(a, result) \in Attempt /\ Submitted(a, result).boc = a.boc
      /\ Submitted(a, result).submitted /\ Submitted(a, result).started
      /\ Submitted(a, result).result = result /\ Submitted(a, result).fence = a.fence
  BY DEF Submitted, Attempt
<1>3. /\ [a EXCEPT !.result = result] \in Attempt
      /\ [a EXCEPT !.result = result].boc = a.boc
      /\ [a EXCEPT !.result = result].submitted = a.submitted
      /\ [a EXCEPT !.result = result].started = a.started
      /\ [a EXCEPT !.result = result].result = result
      /\ [a EXCEPT !.result = result].fence = a.fence
  BY DEF Attempt
<1> QED
  BY <1>1, <1>2, <1>3

\* Rewriting attempt k of w.
Rewritten(w, k, a) ==
  /\ attempts' \in [Ids -> Seq(Attempt)]
  /\ \A v \in Ids \ { w } : attempts'[v] = attempts[v]
  /\ DOMAIN attempts'[w] = DOMAIN attempts[w] /\ Len(attempts'[w]) = Len(attempts[w])
  /\ \A j \in DOMAIN attempts[w] : attempts'[w][j] = IF j = k THEN a ELSE attempts[w][j]

LEMMA Rewrites ==
  ASSUME attempts \in [Ids -> Seq(Attempt)], NEW r \in Runs, W(r) \in Ids,
         runs[r].k \in DOMAIN Tries(r), NEW a \in Attempt, WriteAttempt(r, a)
  PROVE  Rewritten(W(r), runs[r].k, a)
<1> DEFINE w == W(r)
           k == runs[r].k
           as == [Tries(r) EXCEPT ![k] = a]
<1>1. attempts' = [attempts EXCEPT ![w] = as]
  BY DEF WriteAttempt
<1>2. Tries(r) \in Seq(Attempt) /\ Tries(r) = attempts[w]
  BY DEF Tries
<1>3. /\ as \in Seq(Attempt) /\ DOMAIN as = DOMAIN attempts[w] /\ Len(as) = Len(attempts[w])
      /\ \A j \in DOMAIN attempts[w] : as[j] = IF j = k THEN a ELSE attempts[w][j]
  BY <1>2
<1> HIDE DEF as
<1> QED
  BY <1>1, <1>3 DEF Rewritten

LEMMA NotEmpty ==
  ASSUME NEW T, NEW s \in Seq(T)
  PROVE  /\ s # << >> => 1 \in DOMAIN s /\ Len(s) \in DOMAIN s
         /\ \A k \in DOMAIN s : s # << >>
<1>1. Len(s) \in Nat /\ DOMAIN s = 1 .. Len(s)
  OBVIOUS
<1>2. Len(s) = 0 => s = << >>
  BY EmptySeq
<1> QED
  BY <1>1, <1>2

\* No attempt, message or submission is taken back.
Grow(as, bs) ==
  \A w \in Ids : \A k \in DOMAIN as[w] :
    /\ k \in DOMAIN bs[w]
    /\ as[w][k].boc => bs[w][k].boc
    /\ as[w][k].submitted => bs[w][k].submitted

LEMMA SoundStays ==
  ASSUME NEW x, NEW as \in [Ids -> Seq(Attempt)], NEW bs \in [Ids -> Seq(Attempt)],
         Grow(as, bs), NEW P, NEW Q, P \subseteq Q, Sound(x, as, P)
  PROVE  Sound(x, bs, Q)
<1>1. CASE x.pc = "idle"
  BY <1>1 DEF Sound, SoundAt, Working
<1>2. CASE x.pc # "idle"
  <2>1. x.w \in Ids
    BY <1>2 DEF Sound, SoundAt
  <2>2. as[x.w] # << >> => bs[x.w] # << >>
    <3>1. as[x.w] \in Seq(Attempt) /\ bs[x.w] \in Seq(Attempt)
      BY <2>1
    <3>2. as[x.w] # << >> => 1 \in DOMAIN as[x.w]
      BY <3>1, NotEmpty
    <3>3. 1 \in DOMAIN as[x.w] => 1 \in DOMAIN bs[x.w]
      BY <2>1 DEF Grow
    <3> QED
      BY <3>1, <3>2, <3>3, NotEmpty
  <2> QED
    BY <2>1, <2>2 DEF Sound, SoundAt, Grow, Working
<1> QED
  BY <1>1, <1>2

\* Run r goes on at pc with attempt k.
Moved(r, pc, k) ==
  /\ runs' \in [Runs -> Run]
  /\ \A t \in Runs \ { r } : runs'[t] = runs[t]
  /\ runs'[r].pc = pc /\ runs'[r].w = runs[r].w /\ runs'[r].k = k

LEMMA Going ==
  ASSUME runs \in [Runs -> Run], NEW r \in Runs, NEW pc \in ProgramCounters, Goto(r, pc)
  PROVE  Moved(r, pc, runs[r].k) /\ runs'[r] = [runs[r] EXCEPT !.pc = pc]
<1> DEFINE x == [runs[r] EXCEPT !.pc = pc]
<1>1. runs' = [runs EXCEPT ![r] = x]
  BY DEF Goto
<1>2. runs[r] \in Run
  OBVIOUS
<1>3. x \in Run /\ x.pc = pc /\ x.w = runs[r].w /\ x.k = runs[r].k
  BY <1>2 DEF Run
<1> HIDE DEF x
<1>4. runs' \in [Runs -> Run] /\ runs'[r] = x /\ \A t \in Runs \ { r } : runs'[t] = runs[t]
  BY <1>1, <1>3
<1> QED
  BY <1>3, <1>4 DEF Moved, x

LEMMA GoingWith ==
  ASSUME runs \in [Runs -> Run], NEW r \in Runs, NEW pc \in ProgramCounters, NEW k \in Nat,
         GotoWith(r, pc, k)
  PROVE  Moved(r, pc, k)
<1> DEFINE x == [IdleRun EXCEPT !.pc = pc, !.w = W(r), !.k = k]
<1>1. runs' = [runs EXCEPT ![r] = x]
  BY DEF GotoWith
<1>2. runs[r] \in Run
  OBVIOUS
<1>3. runs[r].w \in Ids \cup { NoOwner }
  BY <1>2 DEF Run
<1>4. x \in Run /\ x.pc = pc /\ x.w = runs[r].w /\ x.k = k
  BY <1>3 DEF Run, IdleRun, W
<1> HIDE DEF x
<1> QED
  BY <1>1, <1>4 DEF Moved

\* A run that goes on and remembers a state, a token or a seqno it was given.
LEMMA GoingOn ==
  ASSUME runs \in [Runs -> Run], NEW r \in Runs, NEW pc \in ProgramCounters,
         NEW st \in States \cup { "NONE" }, NEW n \in Nat,
         \/ runs' = [runs EXCEPT ![r].pc = pc, ![r].st = st]
         \/ runs' = [runs EXCEPT ![r].pc = pc, ![r].token = n]
         \/ runs' = [runs EXCEPT ![r].pc = pc, ![r].seq = n]
  PROVE  Moved(r, pc, runs[r].k)
<1> DEFINE y == [runs[r] EXCEPT !.pc = pc]
<1>1. runs[r] \in Run
  OBVIOUS
<1>2. y \in Run /\ y.pc = pc /\ y.w = runs[r].w /\ y.k = runs[r].k
  BY <1>1 DEF Run
<1>3. \/ runs' = [runs EXCEPT ![r] = [y EXCEPT !.st = st]]
      \/ runs' = [runs EXCEPT ![r] = [y EXCEPT !.token = n]]
      \/ runs' = [runs EXCEPT ![r] = [y EXCEPT !.seq = n]]
  OBVIOUS
<1> HIDE DEF y
<1>4. \A z \in { [y EXCEPT !.st = st], [y EXCEPT !.token = n], [y EXCEPT !.seq = n] } :
        z \in Run /\ z.pc = pc /\ z.w = runs[r].w /\ z.k = runs[r].k
  BY <1>2 DEF Run
<1>5. PICK z \in Run : /\ runs' = [runs EXCEPT ![r] = z]
                       /\ z.pc = pc /\ z.w = runs[r].w /\ z.k = runs[r].k
  BY <1>3, <1>4
<1> QED
  BY <1>5 DEF Moved

\* A run that has read the latest attempt knows what is in it.
LEMMA SnapshotIsSound ==
  ASSUME runs \in [Runs -> Run], attempts \in [Ids -> Seq(Attempt)], NEW r \in Runs,
         W(r) \in Ids, Tries(r) # << >>
  PROVE  /\ Snapshot(r) \in Run /\ Snapshot(r).w = W(r)
         /\ Snapshot(r).k = Len(Tries(r)) /\ Len(Tries(r)) \in DOMAIN attempts[W(r)]
         /\ Snapshot(r).pc = "context"
         /\ Snapshot(r).boc = attempts[W(r)][Len(Tries(r))].boc
         /\ Snapshot(r).sub = attempts[W(r)][Len(Tries(r))].submitted
<1> DEFINE a == attempts[W(r)][Len(Tries(r))]
<1>1. attempts[W(r)] \in Seq(Attempt) /\ Tries(r) = attempts[W(r)]
  BY DEF Tries
<1>2. Len(Tries(r)) \in DOMAIN attempts[W(r)] /\ Len(Tries(r)) \in Nat
  BY <1>1, NotEmpty
<1>3. a \in Attempt
  BY <1>1, <1>2
<1>4. a.boc \in BOOLEAN /\ a.submitted \in BOOLEAN
  BY <1>3 DEF Attempt
<1>5. Snapshot(r) = [ IdleRun EXCEPT !.pc = "context", !.w = W(r), !.k = Len(Tries(r)),
                                     !.boc = a.boc, !.sub = a.submitted ]
  BY <1>1 DEF Snapshot
<1> HIDE DEF a
<1>6. Snapshot(r) = [ pc |-> "context", w |-> W(r), st |-> "NONE", k |-> Len(Tries(r)),
                      boc |-> a.boc, sub |-> a.submitted, token |-> 0, seq |-> 0 ]
  BY <1>5 DEF IdleRun
<1>7. "context" \in ProgramCounters
  BY DEF ProgramCounters
<1>8. Snapshot(r) \in Run
  BY <1>2, <1>4, <1>6, <1>7 DEF Run
<1> QED
  BY <1>2, <1>6, <1>8 DEF a

-----------------------------------------------------------------------------
(* Steps by what they write.                                               *)

LEMMA RunsStay ==
  ASSUME PayoutInv, attempts' \in [Ids -> Seq(Attempt)], Grow(attempts, attempts'),
         chain.paid \subseteq chain'.paid,
         \A t \in Runs : \/ runs'[t] = runs[t]
                         \/ Sound(runs'[t], attempts', chain'.paid)
  PROVE  RunsInv'
<1> SUFFICES ASSUME NEW t \in Runs PROVE Sound(runs'[t], attempts', chain'.paid)
  BY DEF RunsInv
<1>1. Sound(runs[t], attempts, chain.paid) /\ attempts \in [Ids -> Seq(Attempt)]
  BY DEF PayoutInv, RunsInv, PayoutTypeOK
<1>2. Sound(runs[t], attempts', chain'.paid)
  BY <1>1, SoundStays
<1> QED
  BY <1>2

LEMMA GrowSame == ASSUME NEW as PROVE Grow(as, as)
  BY DEF Grow

\* What a run at pc needs, but for a context it has read.
LEMMA SoundMoved ==
  ASSUME NEW r \in Runs, NEW pc, NEW k, Moved(r, pc, k), pc # "context",
         SoundAt(pc, W(r), k, attempts', chain'.paid)
  PROVE  Sound(runs'[r], attempts', chain'.paid)
  BY DEF Moved, Sound, W

\* Only the run itself moves.
LEMMA LocalStep ==
  ASSUME PayoutInv, NEW r \in Runs, UNCHANGED allButRuns, runs' \in [Runs -> Run],
         \A t \in Runs \ { r } : runs'[t] = runs[t],
         Sound(runs'[r], attempts, chain.paid)
  PROVE  PayoutInv'
<1>1. UNCHANGED << rowVars, lease, attempts, current, chain, sends >>
  BY DEF allButRuns
<1>2. RunsInv'
  <2>1. Grow(attempts, attempts') /\ attempts' \in [Ids -> Seq(Attempt)]
    BY <1>1, GrowSame DEF PayoutInv, PayoutTypeOK
  <2> QED
    BY <1>1, <2>1, RunsStay
<1>3. IInv'
  BY <1>1 DEF rowVars, PayoutInv, IInv, TypeOK, ReservationMatchesState,
              OneWithdrawalPerRequest, Created
<1>4. PayoutTypeOK'
  BY <1>1, <1>3 DEF PayoutInv, PayoutTypeOK, IInv
<1>5. (MessageInv /\ ChainInv /\ ConfirmedIsPaid)'
  BY <1>1 DEF rowVars, PayoutInv, MessageInv, ChainInv, ConfirmedIsPaid
<1> QED
  BY <1>2, <1>3, <1>4, <1>5 DEF PayoutInv

\* The state of one withdrawal changes, and nothing else of the rows.
MovesTo(w, to) ==
  /\ wd' = [wd EXCEPT ![w].state = to]
  /\ UNCHANGED rowsButWd

LEMMA StateMoves ==
  ASSUME IInv, NEW w \in Ids, NEW to \in States \ { "REJECTED" }, MovesTo(w, to),
         wd[w].state \notin { "NONE", "REJECTED" },
         wd[w].state = "CONFIRMED" => to = "CONFIRMED"
  PROVE  /\ IInv'
         /\ \A v \in Ids : wd'[v].state = IF v = w THEN to ELSE wd[v].state
         /\ \A v \in Ids : /\ wd'[v].released = wd[v].released
                           /\ wd'[v].settled = wd[v].settled
<1>1. wd \in [Ids -> Row]
  BY DEF IInv, TypeOK
<1>2. "NONE" \notin States
  BY DEF States
<1>3. wd'[w] = [wd[w] EXCEPT !.state = to] /\ \A v \in Ids \ { w } : wd'[v] = wd[v]
  BY <1>1 DEF MovesTo
<1>4. wd[w] \in Row
  BY <1>1
<1>5. /\ wd'[w] \in Row /\ wd'[w].state = to /\ wd'[w].key = wd[w].key
      /\ wd'[w].reserved = wd[w].reserved /\ wd'[w].released = wd[w].released
      /\ wd'[w].settled = wd[w].settled
  BY <1>3, <1>4 DEF Row
<1>6. wd' \in [Ids -> Row]
  BY <1>1, <1>5 DEF MovesTo
<1>7. TypeOK'
  BY <1>6 DEF IInv, TypeOK, MovesTo, rowsButWd
<1>8. /\ \A v \in Ids : wd'[v].state = IF v = w THEN to ELSE wd[v].state
      /\ \A v \in Ids : /\ wd'[v].released = wd[v].released
                        /\ wd'[v].settled = wd[v].settled
                        /\ wd'[v].reserved = wd[v].reserved /\ wd'[v].key = wd[v].key
  BY <1>3, <1>5
<1>9. \A v \in Ids : Created(v)' <=> Created(v)
  BY <1>2, <1>8 DEF Created
<1>10. ReservationMatchesState'
  BY <1>8, <1>9 DEF IInv, ReservationMatchesState
<1>11. OneWithdrawalPerRequest'
  BY <1>8, <1>9 DEF IInv, OneWithdrawalPerRequest, MovesTo, rowsButWd
<1> QED
  BY <1>7, <1>8, <1>10, <1>11 DEF IInv

-----------------------------------------------------------------------------
(* The steps of a run that write nothing.                                  *)

\* What the invariant says of a run at work.
LEMMA AtWork ==
  ASSUME PayoutInv, NEW r \in Runs, ~At(r, "idle")
  PROVE  /\ W(r) \in Ids /\ runs[r] \in Run /\ runs \in [Runs -> Run]
         /\ attempts \in [Ids -> Seq(Attempt)]
         /\ attempts[W(r)] \in Seq(Attempt) /\ Tries(r) = attempts[W(r)]
         /\ wd[W(r)] \in Row /\ State(r) = wd[W(r)].state
         /\ State(r) \in States \cup { "NONE" }
         /\ SoundAt(runs[r].pc, W(r), runs[r].k, attempts, chain.paid)
         /\ Sound(runs[r], attempts, chain.paid)
         /\ runs[r].pc \in Working => Try(r) \in Attempt /\ runs[r].k \in DOMAIN attempts[W(r)]
                                       /\ Try(r) = attempts[W(r)][runs[r].k]
<1>1. /\ runs \in [Runs -> Run] /\ attempts \in [Ids -> Seq(Attempt)]
      /\ wd \in [Ids -> Row] /\ Sound(runs[r], attempts, chain.paid)
  BY DEF PayoutInv, PayoutTypeOK, IInv, TypeOK, RunsInv
<1>2. SoundAt(runs[r].pc, W(r), runs[r].k, attempts, chain.paid)
  BY <1>1 DEF Sound, W
<1>3. W(r) \in Ids
  BY <1>2 DEF At, SoundAt
<1>4. Tries(r) = attempts[W(r)] /\ State(r) = wd[W(r)].state
  BY DEF Tries, State
<1>5. State(r) \in States \cup { "NONE" }
  BY <1>1, <1>3, <1>4 DEF Row
<1>6. ASSUME runs[r].pc \in Working
      PROVE  Try(r) \in Attempt /\ runs[r].k \in DOMAIN attempts[W(r)]
             /\ Try(r) = attempts[W(r)][runs[r].k]
  <2>1. runs[r].k \in DOMAIN attempts[W(r)] /\ attempts[W(r)] \in Seq(Attempt)
    BY <1>1, <1>2, <1>3, <1>6 DEF SoundAt
  <2> QED
    BY <1>4, <2>1 DEF Try
<1> QED
  BY <1>1, <1>2, <1>3, <1>4, <1>5, <1>6

LEMMA LocalMove ==
  ASSUME PayoutInv, NEW r \in Runs, UNCHANGED allButRuns, NEW pc, NEW k,
         Moved(r, pc, k), pc # "context", SoundAt(pc, W(r), k, attempts, chain.paid)
  PROVE  PayoutInv'
<1>1. attempts' = attempts /\ chain' = chain
  BY DEF allButRuns
<1>2. Sound(runs'[r], attempts, chain.paid)
  BY <1>1, SoundMoved
<1> QED
  BY <1>2, LocalStep DEF Moved

LEMMA LocalReturn ==
  ASSUME PayoutInv, NEW r \in Runs, ~At(r, "idle"), UNCHANGED allButRuns, Returning(r)
  PROVE  PayoutInv'
<1>1. "return" \in ProgramCounters /\ 0 \in Nat
  BY DEF ProgramCounters
<1>2. Moved(r, "return", 0)
  BY <1>1, AtWork, GoingWith DEF Returning
<1>3. SoundAt("return", W(r), 0, attempts, chain.paid)
  BY AtWork DEF SoundAt, Working
<1> QED
  BY <1>2, <1>3, LocalMove

\* A run may always go on where nothing is asked of it.
Undemanding ==
  { "attempt", "orphan", "admitOrphan", "createOrphan", "load", "admit", "enter", "readmit",
    "create", "failSigning", "settle", "settleOnly", "return" }

LEMMA LocalGo ==
  ASSUME PayoutInv, NEW r \in Runs, ~At(r, "idle"), UNCHANGED allButRuns,
         NEW pc \in Undemanding, NEW st \in States \cup { "NONE" }, NEW n \in Nat,
         \/ Goto(r, pc) \/ GotoWith(r, pc, 0)
         \/ runs' = [runs EXCEPT ![r].pc = pc, ![r].st = st]
         \/ runs' = [runs EXCEPT ![r].pc = pc, ![r].token = n]
         \/ runs' = [runs EXCEPT ![r].pc = pc, ![r].seq = n]
  PROVE  PayoutInv'
<1>1. pc \in ProgramCounters /\ pc # "context" /\ 0 \in Nat
  BY DEF Undemanding, ProgramCounters
<1>2. \A k : SoundAt(pc, W(r), k, attempts, chain.paid)
  BY AtWork DEF SoundAt, Working, Undemanding
<1>3. \E k : Moved(r, pc, k)
  <2>1. CASE Goto(r, pc)
    BY <1>1, <2>1, AtWork, Going
  <2>2. CASE GotoWith(r, pc, 0)
    BY <1>1, <2>2, AtWork, GoingWith
  <2>3. CASE \/ runs' = [runs EXCEPT ![r].pc = pc, ![r].st = st]
             \/ runs' = [runs EXCEPT ![r].pc = pc, ![r].token = n]
             \/ runs' = [runs EXCEPT ![r].pc = pc, ![r].seq = n]
    BY <1>1, <2>3, AtWork, GoingOn
  <2> QED
    BY <2>1, <2>2, <2>3
<1> QED
  BY <1>1, <1>2, <1>3, LocalMove

\* Going on with the attempt it works on.
LEMMA LocalKeep ==
  ASSUME PayoutInv, NEW r \in Runs, runs[r].pc \in Working, UNCHANGED allButRuns,
         NEW pc \in { "sign", "persist", "repersist", "failSign", "reread", "observe",
                      "unconfirmed" },
         Goto(r, pc)
  PROVE  PayoutInv'
<1>1. pc \in ProgramCounters /\ pc # "context" /\ ~At(r, "idle")
  BY DEF ProgramCounters, Working, At
<1>2. Moved(r, pc, runs[r].k)
  BY <1>1, AtWork, Going
<1>3. SoundAt(pc, W(r), runs[r].k, attempts, chain.paid)
  BY <1>1, AtWork DEF SoundAt, Working
<1> QED
  BY <1>1, <1>2, <1>3, LocalMove

LEMMA ResumeKeeps ==
  ASSUME PayoutInv, NEW r \in Runs, ~At(r, "idle"), UNCHANGED allButRuns,
         NEW k \in DOMAIN attempts[W(r)], NEW st \in States \cup { "NONE" }, NEW boc, NEW sub,
         boc => attempts[W(r)][k].boc, sub => attempts[W(r)][k].submitted,
         Resume(r, k, st, boc, sub)
  PROVE  PayoutInv'
<1> DEFINE pc == ResumeAt(st, boc, sub)
           seen == IF pc \in { "noEvidence", "reconcile" } THEN st ELSE "NONE"
           y == [ IdleRun EXCEPT !.pc = pc, !.w = W(r), !.k = k ]
           x == [ y EXCEPT !.st = seen ]
<1>1. /\ pc \in { "settleOnly", "reconcile", "resubmit", "resign", "noEvidence" }
      /\ pc = "reconcile" => sub
      /\ pc = "resubmit" => boc
  BY DEF ResumeAt
<1>2. seen \in States \cup { "NONE" } /\ k \in Nat
  BY AtWork
<1>3. runs' = [runs EXCEPT ![r] = [ IdleRun EXCEPT !.pc = pc, !.w = W(r), !.k = k, !.st = seen ]]
  BY DEF Resume
<1> HIDE DEF pc, seen
<1>4. pc \in ProgramCounters
  BY <1>1 DEF ProgramCounters
<1>5. y \in Run /\ y.pc = pc /\ y.w = W(r) /\ y.k = k
  BY <1>2, <1>4, AtWork DEF Run, IdleRun
<1>6. runs' = [runs EXCEPT ![r] = x]
  BY <1>3
<1> HIDE DEF y
<1>7. x \in Run /\ x.pc = pc /\ x.w = W(r) /\ x.k = k
  BY <1>2, <1>5 DEF Run
<1> HIDE DEF x
<1>8. Moved(r, pc, k)
  BY <1>6, <1>7, AtWork DEF Moved, W
<1>9. SoundAt(pc, W(r), k, attempts, chain.paid)
  BY <1>1, AtWork DEF SoundAt, Working
<1> QED
  BY <1>1, <1>8, <1>9, LocalMove

LEMMA SnapshotKeeps ==
  ASSUME PayoutInv, NEW r \in Runs, ~At(r, "idle"), UNCHANGED allButRuns,
         Tries(r) # << >>, runs' = [runs EXCEPT ![r] = Snapshot(r)]
  PROVE  PayoutInv'
<1> DEFINE x == Snapshot(r)
<1>1. /\ x \in Run /\ x.w = W(r) /\ x.k \in DOMAIN attempts[W(r)] /\ x.pc = "context"
      /\ x.boc = attempts[W(r)][x.k].boc /\ x.sub = attempts[W(r)][x.k].submitted
  BY AtWork, SnapshotIsSound
<1> HIDE DEF x
<1>2. Sound(x, attempts, chain.paid)
  BY <1>1, AtWork DEF Sound, SoundAt, Working
<1>3. runs' = [runs EXCEPT ![r] = x]
  BY DEF x
<1> QED
  BY <1>1, <1>2, <1>3, AtWork, LocalStep

\* The seqno of an admission is a number.
LEMMA AdmittedType ==
  ASSUME PayoutInv PROVE AdmittedSeqnos(chain.seqno) \subseteq Nat
<1>1. chain.seqno \in Nat
  BY DEF PayoutInv, PayoutTypeOK
<1> QED
  BY <1>1 DEF AdmittedSeqnos

LEMMA ReadingKeeps ==
  ASSUME PayoutInv, NEW r \in Runs,
         \/ ReadState(r) \/ ReadAttempt(r) \/ ReadLease(r) \/ AdmitOrphan(r) \/ ReadCreated(r)
         \/ Admit(r) \/ Readmit(r) \/ CreateFails(r)
  PROVE  PayoutInv'
<1>1. CASE ReadState(r)
  <2>1. ~At(r, "idle") /\ UNCHANGED allButRuns
    BY <1>1 DEF ReadState, At
  <2>2. CASE Returning(r)
    BY <2>1, <2>2, LocalReturn
  <2>3. CASE runs' = [runs EXCEPT ![r].pc = "attempt", ![r].st = State(r)]
    BY <2>1, <2>3, AtWork, LocalGo DEF Undemanding
  <2> QED
    BY <1>1, <2>2, <2>3 DEF ReadState
<1>2. CASE ReadAttempt(r)
  <2>1. ~At(r, "idle") /\ UNCHANGED allButRuns
    BY <1>2 DEF ReadAttempt, At
  <2>2. \/ \E pc \in { "settleOnly", "orphan", "load" } : GotoWith(r, pc, 0)
        \/ Tries(r) # << >> /\ runs' = [runs EXCEPT ![r] = Snapshot(r)]
    BY <1>2 DEF ReadAttempt
  <2>3. ASSUME NEW pc \in { "settleOnly", "orphan", "load" }, GotoWith(r, pc, 0)
        PROVE  PayoutInv'
    <3>1. pc \in Undemanding
      BY DEF Undemanding
    <3> QED
      BY <2>1, <2>3, <3>1, LocalGo
  <2> QED
    BY <2>1, <2>2, <2>3, SnapshotKeeps
<1>3. CASE ReadLease(r)
  <2>1. ~At(r, "idle") /\ UNCHANGED allButRuns /\ lease.token \in Nat
    BY <1>3 DEF ReadLease, At, PayoutInv, PayoutTypeOK, Lease
  <2>2. CASE Returning(r)
    BY <2>1, <2>2, LocalReturn
  <2>3. CASE runs' = [runs EXCEPT ![r].pc = "admitOrphan", ![r].token = lease.token]
    BY <2>1, <2>3, LocalGo DEF Undemanding
  <2> QED
    BY <1>3, <2>2, <2>3 DEF ReadLease
<1>4. CASE AdmitOrphan(r)
  <2>1. ~At(r, "idle") /\ UNCHANGED allButRuns
    BY <1>4 DEF AdmitOrphan, At
  <2>2. CASE Goto(r, "failSigning")
    BY <2>1, <2>2, LocalGo DEF Undemanding
  <2>3. ASSUME NEW n \in AdmittedSeqnos(chain.seqno),
               runs' = [runs EXCEPT ![r].pc = "createOrphan", ![r].seq = n]
        PROVE  PayoutInv'
    BY <2>1, <2>3, AdmittedType, LocalGo DEF Undemanding
  <2> QED
    BY <1>4, <2>2, <2>3 DEF AdmitOrphan
<1>5. CASE ReadCreated(r)
  <2>1. ~At(r, "idle") /\ UNCHANGED allButRuns
        /\ runs' = [runs EXCEPT ![r] = Snapshot(r)] /\ runs[r].pc = "created"
    BY <1>5 DEF ReadCreated, At
  <2>2. Tries(r) # << >>
    BY <2>1, AtWork DEF SoundAt
  <2> QED
    BY <2>1, <2>2, SnapshotKeeps
<1>6. CASE Admit(r)
  <2>1. ~At(r, "idle") /\ UNCHANGED allButRuns
    BY <1>6 DEF Admit, At
  <2>2. CASE Returning(r)
    BY <2>1, <2>2, LocalReturn
  <2>3. ASSUME NEW n \in AdmittedSeqnos(chain.seqno),
               runs' = [runs EXCEPT ![r].pc = "enter", ![r].seq = n]
        PROVE  PayoutInv'
    BY <2>1, <2>3, AdmittedType, LocalGo DEF Undemanding
  <2> QED
    BY <1>6, <2>2, <2>3 DEF Admit
<1>7. CASE Readmit(r) \/ CreateFails(r)
  <2>1. ~At(r, "idle") /\ UNCHANGED allButRuns
        /\ \E pc \in { "failSigning", "create" } : Goto(r, pc)
    BY <1>7 DEF Readmit, CreateFails, At
  <2>2. \A pc \in { "failSigning", "create" } : pc \in Undemanding
    BY DEF Undemanding
  <2> QED
    BY <2>1, <2>2, LocalGo
<1> QED
  BY <1>1, <1>2, <1>3, <1>4, <1>5, <1>6, <1>7

LEMMA LookingKeeps ==
  ASSUME PayoutInv, NEW r \in Runs,
         \/ ReadContext(r) \/ Reread(r) \/ Sign(r) \/ ReloadAttempt(r) \/ Observe(r)
  PROVE  PayoutInv'
<1>1. CASE ReadContext(r)
  <2>1. ~At(r, "idle") /\ UNCHANGED allButRuns /\ runs[r].pc = "context"
        /\ Resume(r, runs[r].k, State(r), runs[r].boc, runs[r].sub)
    BY <1>1 DEF ReadContext, At
  <2>2. /\ runs[r].k \in DOMAIN attempts[W(r)]
        /\ runs[r].boc => attempts[W(r)][runs[r].k].boc
        /\ runs[r].sub => attempts[W(r)][runs[r].k].submitted
    BY <2>1, AtWork DEF Working, Sound, W
  <2> QED
    BY <2>1, <2>2, AtWork, ResumeKeeps
<1>2. CASE Reread(r)
  <2> DEFINE a == Snapshot(r)
  <2>1. ~At(r, "idle") /\ UNCHANGED allButRuns /\ runs[r].pc = "reread"
        /\ Resume(r, a.k, "BROADCASTING", a.boc, a.sub)
    BY <1>2 DEF Reread, At
  <2>2. Tries(r) # << >>
    BY <2>1, AtWork, NotEmpty DEF Working
  <2>3. /\ a.k \in DOMAIN attempts[W(r)]
        /\ a.boc = attempts[W(r)][a.k].boc /\ a.sub = attempts[W(r)][a.k].submitted
    BY <2>1, <2>2, AtWork, SnapshotIsSound
  <2>4. "BROADCASTING" \in States \cup { "NONE" }
    BY DEF States
  <2> HIDE DEF a
  <2> QED
    BY <2>1, <2>3, <2>4, ResumeKeeps
<1>3. CASE Sign(r)
  <2>1. runs[r].pc \in Working /\ UNCHANGED allButRuns
        /\ \E pc \in { "persist", "repersist", "failSign" } : Goto(r, pc)
    BY <1>3 DEF Sign, At, Working
  <2> QED
    BY <2>1, LocalKeep
<1>4. CASE ReloadAttempt(r)
  <2>1. ~At(r, "idle") /\ UNCHANGED allButRuns /\ runs[r].pc = "reload"
        /\ GotoWith(r, "observe", Len(Tries(r)))
    BY <1>4 DEF ReloadAttempt, At
  <2>2. Len(Tries(r)) \in DOMAIN attempts[W(r)] /\ Len(Tries(r)) \in Nat
    <3>1. attempts[W(r)] # << >> /\ attempts[W(r)] \in Seq(Attempt) /\ Tries(r) = attempts[W(r)]
      BY <2>1, AtWork DEF SoundAt
    <3> QED
      BY <3>1, NotEmpty
  <2>3. Moved(r, "observe", Len(Tries(r)))
    BY <2>1, <2>2, AtWork, GoingWith DEF ProgramCounters
  <2>4. SoundAt("observe", W(r), Len(Tries(r)), attempts, chain.paid)
    BY <2>1, <2>2, AtWork DEF SoundAt, Working
  <2> QED
    BY <2>1, <2>3, <2>4, LocalMove
<1>5. CASE Observe(r)
  <2>1. runs[r].pc = "observe" /\ UNCHANGED allButRuns
    BY <1>5 DEF Observe, At
  <2>2. CASE Goto(r, "unconfirmed")
    BY <2>1, <2>2, LocalKeep DEF Working
  <2>3. CASE << W(r), runs[r].k >> \in chain.paid /\ Goto(r, "confirm")
    <3>1. ~At(r, "idle")
      BY <2>1 DEF At
    <3>2. Moved(r, "confirm", runs[r].k)
      BY <2>3, <3>1, AtWork, Going DEF ProgramCounters
    <3>3. SoundAt("confirm", W(r), runs[r].k, attempts, chain.paid)
      BY <2>1, <2>3, <3>1, AtWork DEF SoundAt, Working
    <3> QED
      BY <2>1, <3>2, <3>3, LocalMove
  <2> QED
    BY <1>5, <2>2, <2>3 DEF Observe
<1> QED
  BY <1>1, <1>2, <1>3, <1>4, <1>5

-----------------------------------------------------------------------------
(* The steps of a run that write.                                          *)

LEMMA LeaseTypes ==
  ASSUME NEW l \in Lease, NEW o \in Ids, NEW token
  PROVE  /\ Acquired(l, o) \in Lease /\ ReleasedBy(l, o, token) \in Lease
         /\ Expired(l) \in Lease /\ [l EXCEPT !.released = TRUE] \in Lease
<1>1. Renewed(l) \in Lease /\ [l EXCEPT !.released = TRUE] \in Lease /\ Expired(l) \in Lease
  BY DEF Lease, Renewed, Expired
<1>2. Taken(l, o) \in Lease
  BY DEF Lease, Taken
<1> QED
  BY <1>1, <1>2 DEF Acquired, ReleasedBy

\* No withdrawal becomes late or ceases to be.
StagesStay ==
  \A v \in Ids : /\ wd'[v].state \in Late <=> wd[v].state \in Late
                 /\ wd'[v].state = "BROADCASTED" => wd[v].state = "BROADCASTED"

\* A withdrawal becomes CONFIRMED only by a payment.
LEMMA ConfirmedStays ==
  ASSUME ConfirmedIsPaid, chain.paid \subseteq chain'.paid,
         \A v \in Ids : wd'[v].state = "CONFIRMED" => wd[v].state = "CONFIRMED"
  PROVE  ConfirmedIsPaid'
  BY DEF ConfirmedIsPaid

\* Attempts are left alone.
LEMMA AttemptsStay ==
  ASSUME MessageInv, attempts' = attempts, StagesStay
  PROVE  MessageInv' /\ Grow(attempts, attempts')
  BY GrowSame DEF MessageInv, Message, StagesStay

\* An attempt is written that keeps its message.
LEMMA RewriteKeeps ==
  ASSUME MessageInv, NEW w \in Ids, NEW k \in DOMAIN attempts[w], NEW a, Rewritten(w, k, a),
         a.boc = attempts[w][k].boc, attempts[w][k].submitted => a.submitted,
         a.submitted => a.started /\ a.boc /\ a.result # "FAILED_PRE_BROADCAST",
         StagesStay
  PROVE  MessageInv' /\ Grow(attempts, attempts')
<1>1. ASSUME NEW v \in Ids PROVE Message(wd'[v].state, attempts'[v])
  <2>1. /\ Message(wd[v].state, attempts[v])
        /\ wd'[v].state \in Late <=> wd[v].state \in Late
        /\ wd'[v].state = "BROADCASTED" => wd[v].state = "BROADCASTED"
    BY DEF MessageInv, StagesStay
  <2>2. CASE v = w
    <3>1. /\ DOMAIN attempts'[v] = DOMAIN attempts[v]
          /\ \A j \in DOMAIN attempts[v] :
               /\ attempts'[v][j].boc = attempts[v][j].boc
               /\ attempts'[v][j].submitted =>
                    /\ attempts'[v][j].started /\ attempts'[v][j].boc
                    /\ attempts'[v][j].result # "FAILED_PRE_BROADCAST"
      BY <2>1, <2>2, SMTT(30) DEF Rewritten, Message
    <3> QED
      BY <2>1, <3>1 DEF Message
  <2>3. CASE v # w
    BY <2>1, <2>3 DEF Rewritten, Message
  <2> QED
    BY <2>2, <2>3
<1>2. Grow(attempts, attempts')
  <2>1. ASSUME NEW v \in Ids, NEW j \in DOMAIN attempts[v]
        PROVE  /\ j \in DOMAIN attempts'[v]
               /\ attempts[v][j].boc => attempts'[v][j].boc
               /\ attempts[v][j].submitted => attempts'[v][j].submitted
    BY DEF Rewritten
  <2> QED
    BY <2>1 DEF Grow
<1> QED
  BY <1>1, <1>2 DEF MessageInv

\* What a step of run r leaves alone when it writes the rows of its withdrawal.
LEMMA WriteStep ==
  ASSUME PayoutInv, NEW r \in Runs, IInv', lease' \in Lease,
         attempts' \in [Ids -> Seq(Attempt)], Grow(attempts, attempts'),
         UNCHANGED << current, chain, sends >>, MessageInv', ConfirmedIsPaid',
         NEW pc, NEW k, Moved(r, pc, k), pc # "context",
         SoundAt(pc, W(r), k, attempts', chain.paid)
  PROVE  PayoutInv'
<1>1. RunsInv'
  <2>1. Sound(runs'[r], attempts', chain'.paid)
    BY SoundMoved
  <2> QED
    BY <2>1, RunsStay DEF Moved
<1>2. ChainInv'
  BY DEF PayoutInv, ChainInv, Grow
<1>3. PayoutTypeOK'
  BY DEF PayoutInv, PayoutTypeOK, IInv, Moved
<1> QED
  BY <1>1, <1>2, <1>3 DEF PayoutInv

\* Run r moves its withdrawal to another state that is late only if it was, and
\* writes no attempt; it goes on where nothing is asked of it.
LEMMA StateStep ==
  ASSUME PayoutInv, NEW r \in Runs, ~At(r, "idle"),
         NEW to \in States \ { "REJECTED", "CONFIRMED", "BROADCASTED" }, MovesTo(W(r), to),
         State(r) \notin { "NONE", "REJECTED", "CONFIRMED" },
         to \in Late <=> State(r) \in Late, lease' \in Lease,
         UNCHANGED << attempts, current, chain, sends >>,
         NEW pc, NEW k, Moved(r, pc, k), pc # "context",
         SoundAt(pc, W(r), k, attempts, chain.paid)
  PROVE  PayoutInv'
<1>1. W(r) \in Ids /\ State(r) = wd[W(r)].state
  BY AtWork
<1>2. /\ IInv'
      /\ \A v \in Ids : wd'[v].state = IF v = W(r) THEN to ELSE wd[v].state
  BY <1>1, StateMoves DEF PayoutInv
<1>3. MessageInv' /\ Grow(attempts, attempts')
  <2>1. StagesStay
    BY <1>1, <1>2 DEF StagesStay
  <2> QED
    BY <2>1, AttemptsStay DEF PayoutInv
<1>4. ConfirmedIsPaid'
  BY <1>1, <1>2, ConfirmedStays DEF PayoutInv
<1>5. attempts' \in [Ids -> Seq(Attempt)]
  BY AtWork
<1> QED
  BY <1>2, <1>3, <1>4, <1>5, WriteStep

\* Run r writes its attempt, without a message, and perhaps the state.
LEMMA AttemptStepKeeps ==
  ASSUME PayoutInv, NEW r \in Runs, runs[r].pc \in Working,
         NEW a \in Attempt, WriteAttempt(r, a),
         a.boc = Try(r).boc, Try(r).submitted => a.submitted,
         a.submitted => a.started /\ a.boc /\ a.result # "FAILED_PRE_BROADCAST",
         NEW to \in States \ { "REJECTED", "CONFIRMED", "BROADCASTED" },
         \/ UNCHANGED rowVars
         \/ /\ MovesTo(W(r), to)
            /\ State(r) \notin { "NONE", "REJECTED", "CONFIRMED" }
            /\ to \in Late <=> State(r) \in Late,
         lease' \in Lease, UNCHANGED << current, chain, sends >>,
         NEW pc, NEW k, Moved(r, pc, k), pc # "context",
         \A as \in [Ids -> Seq(Attempt)] :
           Grow(attempts, as) /\ as[W(r)][runs[r].k] = a =>
             SoundAt(pc, W(r), k, as, chain.paid)
  PROVE  PayoutInv'
<1>1. /\ W(r) \in Ids /\ State(r) = wd[W(r)].state /\ runs[r].k \in DOMAIN attempts[W(r)]
      /\ Try(r) = attempts[W(r)][runs[r].k] /\ attempts \in [Ids -> Seq(Attempt)]
      /\ Tries(r) = attempts[W(r)]
  BY AtWork DEF At, Working
<1>2. Rewritten(W(r), runs[r].k, a)
  BY <1>1, Rewrites
<1>3. /\ IInv' /\ StagesStay
      /\ \A v \in Ids : wd'[v].state = "CONFIRMED" => wd[v].state = "CONFIRMED"
  <2>1. CASE UNCHANGED rowVars
    BY <2>1, RowsStay DEF PayoutInv, rowVars, StagesStay
  <2>2. CASE /\ MovesTo(W(r), to)
             /\ State(r) \notin { "NONE", "REJECTED", "CONFIRMED" }
             /\ to \in Late <=> State(r) \in Late
    BY <1>1, <2>2, StateMoves DEF PayoutInv, StagesStay
  <2> QED
    BY <2>1, <2>2
<1>4. MessageInv' /\ Grow(attempts, attempts')
  BY <1>1, <1>2, <1>3, RewriteKeeps DEF PayoutInv
<1>5. ConfirmedIsPaid'
  BY <1>3, ConfirmedStays DEF PayoutInv
<1>6. attempts' \in [Ids -> Seq(Attempt)] /\ attempts'[W(r)][runs[r].k] = a
  BY <1>1, <1>2 DEF Rewritten
<1> QED
  BY <1>3, <1>4, <1>5, <1>6, WriteStep

\* Before SIGNING and in it: no message is persisted.
LEMMA QueueingKeeps ==
  ASSUME PayoutInv, NEW r \in Runs,
         \/ LoadApproved(r) \/ EnterSigning(r) \/ EnterWithoutLease(r) \/ FailSigning(r)
  PROVE  PayoutInv'
<1>1. lease \in Lease /\ \A pc \in ProgramCounters : pc # "context" => TRUE
  BY DEF PayoutInv, PayoutTypeOK
<1>2. CASE LoadApproved(r)
  <2>1. ~At(r, "idle") /\ MovesTo(W(r), "QUEUED") /\ Goto(r, "admit")
        /\ State(r) \in { "APPROVED", "FAILED_PRE_BROADCAST", "QUEUED" }
        /\ UNCHANGED << lease, attempts, current, chain, sends >>
    BY <1>2 DEF LoadApproved, At, MovesTo, outsideTxn
  <2>2. Moved(r, "admit", runs[r].k)
    BY <2>1, AtWork, Going DEF ProgramCounters
  <2>3. SoundAt("admit", W(r), runs[r].k, attempts, chain.paid)
    BY <2>1, AtWork DEF SoundAt, Working
  <2>4. "QUEUED" \in States \ { "REJECTED", "CONFIRMED", "BROADCASTED" } /\ "QUEUED" \notin Late
        /\ State(r) \notin Late
    BY <2>1 DEF States, Late
  <2> QED
    BY <1>1, <2>1, <2>2, <2>3, <2>4, StateStep
<1>3. CASE EnterSigning(r)
  <2>1. ~At(r, "idle") /\ MovesTo(W(r), "SIGNING") /\ State(r) = "QUEUED"
        /\ lease' = Acquired(lease, W(r))
        /\ runs' = [runs EXCEPT ![r].pc = "readmit", ![r].token = lease'.token]
        /\ UNCHANGED << attempts, current, chain, sends >>
    BY <1>3 DEF EnterSigning, Transition, At, MovesTo, outsideTxn
  <2>2. lease' \in Lease /\ lease'.token \in Nat
    <3>1. W(r) \in Ids
      BY <2>1, AtWork
    <3>2. Acquired(lease, W(r)) \in Lease
      BY <1>1, <3>1, LeaseTypes
    <3>3. lease' \in Lease
      BY <2>1, <3>2
    <3> QED
      BY <3>3 DEF Lease
  <2>3. Moved(r, "readmit", runs[r].k)
    BY <2>1, <2>2, AtWork, GoingOn DEF ProgramCounters
  <2>4. SoundAt("readmit", W(r), runs[r].k, attempts, chain.paid)
    BY <2>1, AtWork DEF SoundAt, Working
  <2>5. "SIGNING" \in States \ { "REJECTED", "CONFIRMED", "BROADCASTED" } /\ "SIGNING" \notin Late
        /\ State(r) \notin Late
    BY <2>1 DEF States, Late
  <2> QED
    BY <2>1, <2>2, <2>3, <2>4, <2>5, StateStep
<1>4. CASE EnterWithoutLease(r) \/ FailSigning(r)
  <2>1. ~At(r, "idle") /\ MovesTo(W(r), "FAILED_PRE_BROADCAST")
        /\ State(r) \in { "QUEUED", "SIGNING" } /\ Returning(r)
        /\ (lease' = lease \/ lease' = ReleasedBy(lease, W(r), runs[r].token))
        /\ UNCHANGED << attempts, current, chain, sends >>
    BY <1>4 DEF EnterWithoutLease, FailSigning, Transition, At, MovesTo, outsideTxn
  <2>2. lease' \in Lease
    <3>1. W(r) \in Ids
      BY <2>1, AtWork
    <3>2. ReleasedBy(lease, W(r), runs[r].token) \in Lease
      BY <1>1, <3>1, LeaseTypes
    <3> QED
      BY <1>1, <2>1, <3>2
  <2>3. Moved(r, "return", 0)
    BY <2>1, AtWork, GoingWith DEF ProgramCounters, Returning
  <2>4. SoundAt("return", W(r), 0, attempts, chain.paid)
    BY <2>1, AtWork DEF SoundAt, Working
  <2>5. "FAILED_PRE_BROADCAST" \in States \ { "REJECTED", "CONFIRMED", "BROADCASTED" }
        /\ "FAILED_PRE_BROADCAST" \notin Late /\ State(r) \notin Late
    BY <2>1 DEF States, Late
  <2> QED
    BY <2>1, <2>2, <2>3, <2>4, <2>5, StateStep
<1> QED
  BY <1>2, <1>3, <1>4

\* A new attempt has no message.
LEMMA CreateKeeps ==
  ASSUME PayoutInv, NEW r \in Runs, CreateAttempt(r) PROVE PayoutInv'
<1> DEFINE w == W(r)
           new == NewAttempt(runs[r].token, runs[r].seq)
           pc == IF At(r, "create") THEN "sign" ELSE "created"
           n == Len(attempts[w])
<1>1. /\ ~At(r, "idle") /\ attempts' = [attempts EXCEPT ![w] = Append(attempts[w], new)]
      /\ GotoWith(r, pc, Len(Tries(r)) + 1)
      /\ UNCHANGED << rowVars, lease, current, chain, sends >>
  BY DEF CreateAttempt, At, outsideTxn, rowsButWd, rowVars
<1>2. new \in Attempt /\ ~new.boc /\ ~new.submitted
  <2>1. runs[r] \in Run
    BY <1>1, AtWork
  <2>2. runs[r].token \in Nat /\ runs[r].seq \in Nat
    BY <2>1 DEF Run
  <2> QED
    BY <2>2 DEF NewAttempt, Attempt, Results
<1>3. /\ w \in Ids /\ attempts \in [Ids -> Seq(Attempt)] /\ attempts[w] \in Seq(Attempt)
      /\ Tries(r) = attempts[w]
  BY <1>1, AtWork
<1>4. pc \in ProgramCounters /\ pc \in { "sign", "created" }
  BY DEF ProgramCounters
<1>5. n \in Nat /\ DOMAIN attempts[w] = 1 .. n
  BY <1>3
<1> HIDE DEF new, pc
<1>6. /\ Append(attempts[w], new) \in Seq(Attempt)
      /\ DOMAIN Append(attempts[w], new) = 1 .. n + 1
      /\ \A k \in 1 .. n : Append(attempts[w], new)[k] = attempts[w][k]
      /\ Append(attempts[w], new)[n + 1] = new
  BY <1>2, <1>3
<1>7. /\ attempts' \in [Ids -> Seq(Attempt)]
      /\ attempts'[w] = Append(attempts[w], new) /\ \A v \in Ids \ { w } : attempts'[v] = attempts[v]
  BY <1>1, <1>3, <1>6
<1> HIDE DEF n
<1>8. Grow(attempts, attempts')
  <2>1. ASSUME NEW v \in Ids, NEW k \in DOMAIN attempts[v]
        PROVE  k \in DOMAIN attempts'[v] /\ attempts'[v][k] = attempts[v][k]
    BY <1>5, <1>6, <1>7
  <2> QED
    BY <2>1 DEF Grow
<1>9. MessageInv'
  <2>1. Message(wd[w].state, attempts[w])
    BY <1>3 DEF PayoutInv, MessageInv
  <2>2. Message(wd[w].state, attempts'[w])
    <3>1. \A k \in DOMAIN attempts'[w] :
            /\ attempts'[w][k].boc => k \in DOMAIN attempts[w] /\ attempts'[w][k] = attempts[w][k]
            /\ attempts'[w][k].submitted => k \in DOMAIN attempts[w]
                                            /\ attempts'[w][k] = attempts[w][k]
      BY <1>2, <1>5, <1>6, <1>7
    <3>2. \A k \in DOMAIN attempts[w] : k \in DOMAIN attempts'[w] /\ attempts'[w][k] = attempts[w][k]
      BY <1>5, <1>6, <1>7
    <3> QED
      BY <2>1, <3>1, <3>2 DEF Message
  <2> QED
    BY <1>1, <1>7, <2>2 DEF PayoutInv, MessageInv, rowVars
<1>10. IInv' /\ ConfirmedIsPaid'
  BY <1>1, RowsStay, ConfirmedStays DEF PayoutInv, rowVars
<1>11. Moved(r, pc, n + 1)
  BY <1>1, <1>3, <1>4, <1>5, AtWork, GoingWith DEF n
<1>12. SoundAt(pc, w, n + 1, attempts', chain.paid)
  <2>1. n + 1 \in DOMAIN attempts'[w]
    BY <1>5, <1>6, <1>7
  <2>2. attempts'[w] # << >>
    BY <1>3, <1>7, <2>1, NotEmpty
  <2> QED
    BY <1>3, <1>4, <2>1, <2>2 DEF SoundAt, Working
<1>13. lease' \in Lease
  BY <1>1 DEF PayoutInv, PayoutTypeOK
<1> QED
  BY <1>1, <1>4, <1>7, <1>8, <1>9, <1>10, <1>11, <1>12, <1>13, WriteStep

\* The one step that persists a message.
LEMMA PersistKeeps ==
  ASSUME PayoutInv, NEW r \in Runs, Persist(r) \/ PersistOnResume(r) PROVE PayoutInv'
<1> DEFINE w == W(r)
           k == runs[r].k
           a == WithBoc(Try(r))
<1>1. /\ runs[r].pc \in Working /\ ~At(r, "idle")
      /\ WriteAttempt(r, a) /\ MovesTo(w, "BROADCASTING")
      /\ State(r) = "SIGNING" /\ \E pc \in { "submit", "reread" } : Goto(r, pc)
      /\ UNCHANGED << lease, current, chain, sends >>
  BY DEF Persist, PersistOnResume, At, Working, Transition, MovesTo, outsideTxn
<1>2. /\ w \in Ids /\ State(r) = wd[w].state /\ k \in DOMAIN attempts[w]
      /\ Try(r) = attempts[w][k] /\ attempts \in [Ids -> Seq(Attempt)]
      /\ Tries(r) = attempts[w] /\ Try(r) \in Attempt
  BY <1>1, AtWork
<1>3. a \in Attempt /\ a.boc /\ a.submitted = Try(r).submitted
  BY <1>2, AttemptWrites DEF Results
<1>4. Rewritten(w, k, a)
  BY <1>1, <1>2, <1>3, Rewrites
<1> HIDE DEF a, k, w
<1>5. /\ IInv' /\ \A v \in Ids : wd'[v].state = IF v = w THEN "BROADCASTING" ELSE wd[v].state
  <2>1. "BROADCASTING" \in States \ { "REJECTED" }
    BY DEF States
  <2> QED
    BY <1>1, <1>2, <2>1, StateMoves DEF PayoutInv
<1>6. \A j \in DOMAIN attempts[w] : ~attempts[w][j].boc /\ ~attempts[w][j].submitted
  <2>1. Message(wd[w].state, attempts[w]) /\ wd[w].state \notin Late
    BY <1>1, <1>2 DEF PayoutInv, MessageInv, Late
  <2> QED
    BY <2>1 DEF Message
<1>7. MessageInv'
  <2>1. Message("BROADCASTING", attempts'[w])
    <3>1. \A j \in DOMAIN attempts'[w] :
            /\ attempts'[w][j].boc <=> j = k
            /\ ~attempts'[w][j].submitted
      BY <1>2, <1>3, <1>4, <1>6 DEF Rewritten
    <3>2. k \in DOMAIN attempts'[w]
      BY <1>2, <1>4 DEF Rewritten
    <3> QED
      BY <3>1, <3>2 DEF Message, Late
  <2>2. ASSUME NEW v \in Ids \ { w } PROVE Message(wd'[v].state, attempts'[v])
    BY <1>4, <1>5 DEF Rewritten, PayoutInv, MessageInv
  <2> QED
    BY <1>2, <1>5, <2>1, <2>2 DEF MessageInv
<1>8. Grow(attempts, attempts')
  <2>1. ASSUME NEW v \in Ids, NEW j \in DOMAIN attempts[v]
        PROVE  /\ j \in DOMAIN attempts'[v]
               /\ attempts[v][j].boc => attempts'[v][j].boc
               /\ attempts[v][j].submitted => attempts'[v][j].submitted
    BY <1>3, <1>4, <1>6 DEF Rewritten
  <2> QED
    BY <2>1 DEF Grow
<1>9. ConfirmedIsPaid'
  BY <1>1, <1>5, ConfirmedStays DEF PayoutInv
<1>10. attempts' \in [Ids -> Seq(Attempt)] /\ lease' \in Lease
  BY <1>1, <1>4 DEF Rewritten, PayoutInv, PayoutTypeOK
<1>11. PICK pc \in { "submit", "reread" } : Goto(r, pc)
  BY <1>1
<1>12. Moved(r, pc, k)
  BY <1>1, <1>11, AtWork, Going, ZenonT(30) DEF ProgramCounters, k
<1>13. SoundAt(pc, W(r), k, attempts', chain.paid)
  <2>1. k \in DOMAIN attempts'[w] /\ attempts'[w][k].boc
    BY <1>2, <1>3, <1>4 DEF Rewritten
  <2> QED
    BY <1>2, <2>1 DEF SoundAt, Working, w
<1> QED
  BY <1>1, <1>5, <1>7, <1>8, <1>9, <1>10, <1>12, <1>13, WriteStep

\* What is known of the attempt a run works on.
LEMMA OfTry ==
  ASSUME PayoutInv, NEW r \in Runs, runs[r].pc \in Working
  PROVE  /\ ~At(r, "idle") /\ Try(r) \in Attempt /\ State(r) # "BROADCASTED"
         /\ Try(r).boc => State(r) \in Late
         /\ Try(r).submitted => /\ Try(r).started /\ Try(r).boc
                                /\ Try(r).result # "FAILED_PRE_BROADCAST"
         /\ runs[r].pc \in { "submit", "resubmit" } => Try(r).boc
         /\ runs[r].pc \in { "send", "ambiguous", "evidence", "reconcile" } => Try(r).submitted
<1>1. ~At(r, "idle")
  BY DEF At, Working
<1>2. /\ W(r) \in Ids /\ runs[r].k \in DOMAIN attempts[W(r)] /\ Try(r) \in Attempt
      /\ Try(r) = attempts[W(r)][runs[r].k] /\ State(r) = wd[W(r)].state
      /\ SoundAt(runs[r].pc, W(r), runs[r].k, attempts, chain.paid)
  BY <1>1, AtWork
<1>3. Message(State(r), attempts[W(r)])
  BY <1>2 DEF PayoutInv, MessageInv
<1> QED
  BY <1>1, <1>2, <1>3 DEF Message, SoundAt

\* A run that returns asks for nothing.
LEMMA ReturnMoves ==
  ASSUME PayoutInv, NEW r \in Runs, ~At(r, "idle"), Returning(r)
  PROVE  /\ Moved(r, "return", 0)
         /\ \A as : SoundAt("return", W(r), 0, as, chain.paid)
<1>1. "return" \in ProgramCounters /\ 0 \in Nat
  BY DEF ProgramCounters
<1>2. Moved(r, "return", 0)
  BY <1>1, AtWork, GoingWith DEF Returning
<1> QED
  BY <1>2, AtWork DEF SoundAt, Working

\* Closing an attempt of which nothing was sent.
LEMMA ClosingKeeps ==
  ASSUME PayoutInv, NEW r \in Runs, FailSign(r) \/ NoEvidence(r) PROVE PayoutInv'
<1> DEFINE a == [Try(r) EXCEPT !.result = "FAILED_PRE_BROADCAST"]
<1>1. /\ runs[r].pc \in Working /\ WriteAttempt(r, a) /\ Returning(r) /\ ~Try(r).started
      /\ UNCHANGED << current, chain, sends >>
  BY DEF FailSign, NoEvidence, At, Working, MayFailPre, outsideTxn
<1>2. Try(r) \in Attempt /\ ~Try(r).submitted /\ ~At(r, "idle")
  BY <1>1, OfTry
<1>3. a \in Attempt /\ a.boc = Try(r).boc /\ ~a.submitted
  <2>1. "FAILED_PRE_BROADCAST" \in Results
    BY DEF Results
  <2> QED
    BY <1>2, <2>1, AttemptWrites
<1>4. lease' \in Lease
  <2>1. lease \in Lease /\ W(r) \in Ids
    BY <1>2, AtWork DEF PayoutInv, PayoutTypeOK
  <2>2. ReleasedBy(lease, W(r), Try(r).fence) \in Lease
    BY <2>1, LeaseTypes
  <2> QED
    BY <2>1, <2>2 DEF FailSign, NoEvidence
<1>5. PICK to \in { "FAILED_PRE_BROADCAST", "RECONCILE_REQUIRED" } :
        \/ UNCHANGED rowVars
        \/ /\ MovesTo(W(r), to)
           /\ State(r) \notin { "NONE", "REJECTED", "CONFIRMED" }
           /\ to \in Late <=> State(r) \in Late
  <2>1. CASE FailSign(r)
    <3>1. MovesTo(W(r), "FAILED_PRE_BROADCAST") /\ State(r) = "SIGNING"
      BY <2>1 DEF FailSign, Transition, MovesTo, outsideTxn
    <3> QED
      BY <3>1 DEF Late
  <2>2. CASE NoEvidence(r)
    <3>1. \/ UNCHANGED rowVars
          \/ /\ MovesTo(W(r), "RECONCILE_REQUIRED")
             /\ State(r) \in { "BROADCASTING", "BROADCASTED", "CONFIRMING" }
      BY <2>2 DEF NoEvidence, Transition, MovesTo, outsideTxn, rowsButWd, rowVars
    <3>2. State(r) # "BROADCASTED"
      BY <1>1, OfTry
    <3> QED
      BY <3>1, <3>2 DEF Late
  <2> QED
    BY <2>1, <2>2
<1>6. to \in States \ { "REJECTED", "CONFIRMED", "BROADCASTED" }
  BY <1>5 DEF States
<1>7. Moved(r, "return", 0) /\ \A as : SoundAt("return", W(r), 0, as, chain.paid)
  BY <1>1, <1>2, ReturnMoves
<1> HIDE DEF a
<1> QED
  BY <1>1, <1>2, <1>3, <1>4, <1>5, <1>6, <1>7, AttemptStepKeeps

\* The intent to send is recorded of a persisted message.
LEMMA SubmitKeeps ==
  ASSUME PayoutInv, NEW r \in Runs, Submit(r) \/ SubmitOnResume(r) PROVE PayoutInv'
<1> DEFINE a == Submitted(Try(r), "UNKNOWN")
<1>1. /\ runs[r].pc \in { "submit", "resubmit" } /\ WriteAttempt(r, a) /\ Goto(r, "send")
      /\ lease' = lease \/ lease' = Acquired(lease, W(r))
      /\ UNCHANGED << rowVars, current, chain, sends >>
  BY DEF Submit, SubmitOnResume, At, outsideTxn, rowsButWd, rowVars
<1>2. runs[r].pc \in Working
  BY <1>1 DEF Working
<1>3. Try(r) \in Attempt /\ Try(r).boc /\ ~At(r, "idle")
  BY <1>1, <1>2, OfTry
<1>4. /\ a \in Attempt /\ a.boc = Try(r).boc /\ a.submitted /\ a.started
      /\ a.result # "FAILED_PRE_BROADCAST"
  BY <1>3, AttemptWrites DEF Results
<1>5. lease' \in Lease
  <2>1. lease \in Lease /\ W(r) \in Ids
    BY <1>3, AtWork DEF PayoutInv, PayoutTypeOK
  <2>2. Acquired(lease, W(r)) \in Lease
    BY <2>1, LeaseTypes
  <2> QED
    BY <1>1, <2>1, <2>2
<1>6. "QUEUED" \in States \ { "REJECTED", "CONFIRMED", "BROADCASTED" }
  BY DEF States
<1>7. Moved(r, "send", runs[r].k)
  BY <1>1, <1>3, AtWork, Going DEF ProgramCounters
<1> HIDE DEF a
<1>8. ASSUME NEW as, Grow(attempts, as), as[W(r)][runs[r].k] = a
      PROVE  SoundAt("send", W(r), runs[r].k, as, chain.paid)
  <2>1. W(r) \in Ids /\ runs[r].k \in DOMAIN attempts[W(r)]
    BY <1>2, <1>3, AtWork
  <2> QED
    BY <1>4, <1>8, <2>1 DEF SoundAt, Grow
<1> QED
  BY <1>1, <1>2, <1>3, <1>4, <1>5, <1>6, <1>7, <1>8, AttemptStepKeeps, ZenonT(30)

\* What is written of a message after it was sent.
LEMMA SentKeeps ==
  ASSUME PayoutInv, NEW r \in Runs,
         Ambiguous(r) \/ BroadcastEvidence(r)
  PROVE  PayoutInv'
<1>1. /\ runs[r].pc \in { "ambiguous", "evidence" } /\ State(r) = "BROADCASTING"
      /\ UNCHANGED << lease, current, chain, sends >>
  BY DEF Ambiguous, BroadcastEvidence, At, Transition, outsideTxn
<1>2. PICK result \in { "UNKNOWN", "RECONCILE_REQUIRED", "BROADCASTED" } :
        WriteAttempt(r, Submitted(Try(r), result))
  BY DEF Ambiguous, BroadcastEvidence
<1> DEFINE a == Submitted(Try(r), result)
<1>3. runs[r].pc \in Working
  BY <1>1 DEF Working
<1>4. Try(r) \in Attempt /\ Try(r).boc /\ ~At(r, "idle")
  BY <1>1, <1>3, OfTry
<1>5. /\ a \in Attempt /\ a.boc = Try(r).boc /\ a.submitted /\ a.started
      /\ a.result # "FAILED_PRE_BROADCAST"
  <2>1. result \in Results
    BY DEF Results
  <2>2. /\ a \in Attempt /\ a.boc = Try(r).boc /\ a.submitted /\ a.started
        /\ a.result = result
    BY <1>4, <2>1, AttemptWrites
  <2> QED
    BY <1>4, <2>2
<1>6. lease' \in Lease
  BY <1>1 DEF PayoutInv, PayoutTypeOK
<1>7. PICK to \in { "CONFIRMING", "RECONCILE_REQUIRED" } : MovesTo(W(r), to)
  BY DEF Ambiguous, BroadcastEvidence, Transition, MovesTo, outsideTxn
<1>8. /\ to \in States \ { "REJECTED", "CONFIRMED", "BROADCASTED" }
      /\ State(r) \notin { "NONE", "REJECTED", "CONFIRMED" }
      /\ to \in Late <=> State(r) \in Late
  BY <1>1, <1>7 DEF States, Late
<1>9. WriteAttempt(r, a)
  BY <1>2
<1> HIDE DEF a
<1>10. CASE Ambiguous(r)
  <2>1. Returning(r)
    BY <1>10 DEF Ambiguous
  <2>2. Moved(r, "return", 0) /\ \A as : SoundAt("return", W(r), 0, as, chain.paid)
    BY <1>4, <2>1, ReturnMoves
  <2> QED
    BY <1>1, <1>3, <1>4, <1>5, <1>6, <1>7, <1>8, <1>9, <2>2, AttemptStepKeeps
<1>11. CASE BroadcastEvidence(r)
  <2>1. Goto(r, "reload")
    BY <1>11 DEF BroadcastEvidence
  <2>2. Moved(r, "reload", runs[r].k)
    BY <1>4, <2>1, AtWork, Going DEF ProgramCounters
  <2>3. ASSUME NEW as \in [Ids -> Seq(Attempt)], Grow(attempts, as)
        PROVE  SoundAt("reload", W(r), runs[r].k, as, chain.paid)
    <3>1. W(r) \in Ids /\ runs[r].k \in DOMAIN attempts[W(r)]
      BY <1>3, <1>4, AtWork
    <3>2. runs[r].k \in DOMAIN as[W(r)] /\ as[W(r)] \in Seq(Attempt)
      BY <2>3, <3>1 DEF Grow
    <3>3. as[W(r)] # << >>
      BY <3>2, NotEmpty
    <3> QED
      BY <3>1, <3>3 DEF SoundAt, Working
  <2> QED
    BY <1>1, <1>3, <1>4, <1>5, <1>6, <1>7, <1>8, <1>9, <2>2, <2>3, AttemptStepKeeps
<1> QED
  BY <1>10, <1>11

\* A payment that is not to be seen is left to reconciliation.
LEMMA UnconfirmedKeeps == ASSUME PayoutInv, NEW r \in Runs, Unconfirmed(r) PROVE PayoutInv'
<1> DEFINE a == [Try(r) EXCEPT !.result = "RECONCILE_REQUIRED"]
           to == "RECONCILE_REQUIRED"
<1>1. /\ runs[r].pc \in Working /\ WriteAttempt(r, a) /\ Returning(r)
      /\ UNCHANGED << lease, current, chain, sends >>
      /\ UNCHANGED rowVars \/ (MovesTo(W(r), to) /\ State(r) = "CONFIRMING")
  BY DEF Unconfirmed, At, Working, Transition, MovesTo, outsideTxn, rowsButWd, rowVars
<1>2. /\ Try(r) \in Attempt /\ ~At(r, "idle")
      /\ Try(r).submitted => Try(r).started /\ Try(r).boc
  BY <1>1, OfTry
<1>3. a \in Attempt /\ a.boc = Try(r).boc /\ a.submitted = Try(r).submitted
      /\ a.started = Try(r).started /\ a.result # "FAILED_PRE_BROADCAST"
  <2>1. "RECONCILE_REQUIRED" \in Results
    BY DEF Results
  <2>2. /\ a \in Attempt /\ a.boc = Try(r).boc /\ a.submitted = Try(r).submitted
        /\ a.started = Try(r).started /\ a.result = "RECONCILE_REQUIRED"
    BY <1>2, <2>1, AttemptWrites
  <2> QED
    BY <2>2
<1>4. lease' \in Lease
  BY <1>1 DEF PayoutInv, PayoutTypeOK
<1>5. /\ to \in States \ { "REJECTED", "CONFIRMED", "BROADCASTED" }
      /\ State(r) = "CONFIRMING" => /\ State(r) \notin { "NONE", "REJECTED", "CONFIRMED" }
                                    /\ to \in Late <=> State(r) \in Late
  BY DEF States, Late
<1>6. Moved(r, "return", 0) /\ \A as : SoundAt("return", W(r), 0, as, chain.paid)
  BY <1>1, <1>2, ReturnMoves
<1> HIDE DEF a, to
<1> QED
  BY <1>1, <1>2, <1>3, <1>4, <1>5, <1>6, AttemptStepKeeps

\* A resume that only observes leaves the states of sent messages.
LEMMA ReconcileKeeps == ASSUME PayoutInv, NEW r \in Runs, ReconcileOnResume(r) PROVE PayoutInv'
<1>1. /\ runs[r].pc = "reconcile" /\ GotoWith(r, "observe", runs[r].k)
      /\ UNCHANGED << lease, attempts, current, chain, sends >>
      /\ \/ UNCHANGED rowVars
         \/ MovesTo(W(r), "RECONCILE_REQUIRED") /\ State(r) \in { "SIGNING", "BROADCASTING" }
         \/ State(r) = "BROADCASTED"
  BY DEF ReconcileOnResume, At, Transition, MovesTo, outsideTxn, rowsButWd, rowVars
<1>2. runs[r].pc \in Working
  BY <1>1 DEF Working
<1>3. ~At(r, "idle") /\ State(r) \in Late /\ State(r) # "BROADCASTED"
  BY <1>1, <1>2, OfTry
<1>4. /\ W(r) \in Ids /\ runs[r].k \in DOMAIN attempts[W(r)] /\ attempts[W(r)] \in Seq(Attempt)
      /\ runs \in [Runs -> Run]
  BY <1>2, <1>3, AtWork
<1>5. Moved(r, "observe", runs[r].k)
  <2>1. "observe" \in ProgramCounters /\ runs[r].k \in Nat
    BY <1>4 DEF ProgramCounters
  <2> QED
    BY <1>1, <1>4, <2>1, GoingWith
<1>6. SoundAt("observe", W(r), runs[r].k, attempts, chain.paid)
  BY <1>4 DEF SoundAt, Working
<1>7. CASE UNCHANGED rowVars
  <2>1. UNCHANGED allButRuns
    BY <1>1, <1>7 DEF allButRuns
  <2> QED
    BY <1>5, <1>6, <2>1, LocalMove
<1>8. CASE MovesTo(W(r), "RECONCILE_REQUIRED") /\ State(r) \in { "SIGNING", "BROADCASTING" }
  <2>1. /\ "RECONCILE_REQUIRED" \in States \ { "REJECTED", "CONFIRMED", "BROADCASTED" }
        /\ State(r) \notin { "NONE", "REJECTED", "CONFIRMED" }
        /\ "RECONCILE_REQUIRED" \in Late
    BY <1>8 DEF States, Late
  <2>2. lease' \in Lease
    BY <1>1 DEF PayoutInv, PayoutTypeOK
  <2> QED
    BY <1>1, <1>3, <1>5, <1>6, <1>8, <2>1, <2>2, StateStep
<1> QED
  BY <1>1, <1>3, <1>7, <1>8

LEMMA SendKeeps == ASSUME PayoutInv, NEW r \in Runs, SendBoc(r) PROVE PayoutInv'
<1> DEFINE m == << W(r), runs[r].k >>
           sent == [chain EXCEPT !.mempool = chain.mempool \cup { m }]
<1>1. /\ runs[r].pc = "send" /\ chain' \in { chain, sent }
      /\ \E pc \in { "evidence", "ambiguous" } : Goto(r, pc)
      /\ sends' = [sends EXCEPT ![W(r)] = @ + 1]
      /\ UNCHANGED << rowVars, lease, attempts, current >>
  BY DEF SendBoc, At
<1>2. runs[r].pc \in Working
  BY <1>1 DEF Working
<1>3. ~At(r, "idle") /\ Try(r).submitted
  BY <1>1, <1>2, OfTry
<1>4. /\ W(r) \in Ids /\ runs[r].k \in DOMAIN attempts[W(r)] /\ attempts[W(r)] \in Seq(Attempt)
      /\ Try(r) = attempts[W(r)][runs[r].k] /\ runs \in [Runs -> Run]
  BY <1>2, <1>3, AtWork
<1>5. m \in Ids \X Nat /\ m[1] = W(r) /\ m[2] = runs[r].k
  BY <1>4
<1> HIDE DEF m
<1>6. /\ chain' \in [ seqno : Nat, mempool : SUBSET (Ids \X Nat), paid : SUBSET (Ids \X Nat) ]
      /\ chain'.paid = chain.paid /\ chain'.mempool \subseteq chain.mempool \cup { m }
  <2>1. chain \in [ seqno : Nat, mempool : SUBSET (Ids \X Nat), paid : SUBSET (Ids \X Nat) ]
    BY DEF PayoutInv, PayoutTypeOK
  <2> QED
    BY <1>1, <1>5, <2>1
<1>7. ChainInv'
  <2>1. \A n \in chain'.mempool \cup chain'.paid : n \in chain.mempool \cup chain.paid \/ n = m
    BY <1>6
  <2> QED
    BY <1>1, <1>3, <1>4, <1>5, <2>1 DEF PayoutInv, ChainInv
<1>8. PICK pc \in { "evidence", "ambiguous" } : Goto(r, pc)
  BY <1>1
<1>9. Moved(r, pc, runs[r].k)
  BY <1>4, <1>8, Going, ZenonT(30) DEF ProgramCounters
<1>10. RunsInv'
  <2>1. SoundAt(pc, W(r), runs[r].k, attempts', chain'.paid)
    BY <1>1, <1>3, <1>4 DEF SoundAt, Working
  <2>2. Sound(runs'[r], attempts', chain'.paid)
    BY <1>9, <2>1, SoundMoved
  <2>3. Grow(attempts, attempts') /\ attempts' \in [Ids -> Seq(Attempt)]
    BY <1>1, GrowSame DEF PayoutInv, PayoutTypeOK
  <2> QED
    BY <1>6, <1>9, <2>2, <2>3, RunsStay DEF Moved
<1>11. IInv' /\ (MessageInv /\ ConfirmedIsPaid)'
  BY <1>1, <1>6, RowsStay DEF PayoutInv, rowVars, MessageInv, ConfirmedIsPaid
<1>12. sends' \in [Ids -> Nat]
  BY <1>1, <1>4 DEF PayoutInv, PayoutTypeOK
<1>13. PayoutTypeOK'
  BY <1>1, <1>6, <1>9, <1>11, <1>12 DEF PayoutInv, PayoutTypeOK, IInv, Moved
<1> QED
  BY <1>7, <1>10, <1>11, <1>13 DEF PayoutInv

\* The one step to CONFIRMED has found the payment.
LEMMA ConfirmKeeps == ASSUME PayoutInv, NEW r \in Runs, Confirm(r) PROVE PayoutInv'
<1>1. /\ runs[r].pc = "confirm" /\ MovesTo(W(r), "CONFIRMED") /\ Goto(r, "settle")
      /\ State(r) \in { "CONFIRMING", "RECONCILE_REQUIRED", "CONFIRMED" }
      /\ UNCHANGED << lease, attempts, current, chain, sends >>
  BY DEF Confirm, At, MovesTo, outsideTxn
<1>2. ~At(r, "idle")
  BY <1>1 DEF At
<1>3. /\ W(r) \in Ids /\ State(r) = wd[W(r)].state /\ << W(r), runs[r].k >> \in chain.paid
      /\ attempts \in [Ids -> Seq(Attempt)] /\ runs \in [Runs -> Run]
  BY <1>1, <1>2, AtWork DEF SoundAt
<1>4. /\ IInv'
      /\ \A v \in Ids : wd'[v].state = IF v = W(r) THEN "CONFIRMED" ELSE wd[v].state
  <2>1. "CONFIRMED" \in States \ { "REJECTED" }
    BY DEF States
  <2> QED
    BY <1>1, <1>3, <2>1, StateMoves DEF PayoutInv
<1>5. MessageInv' /\ Grow(attempts, attempts')
  <2>1. StagesStay
    BY <1>1, <1>3, <1>4 DEF StagesStay, Late
  <2> QED
    BY <1>1, <2>1, AttemptsStay DEF PayoutInv
<1>6. ConfirmedIsPaid'
  <2>1. \E m \in chain.paid : m[1] = W(r)
    BY <1>3
  <2> QED
    BY <1>1, <1>4, <2>1 DEF PayoutInv, ConfirmedIsPaid
<1>7. Moved(r, "settle", runs[r].k)
  BY <1>1, <1>3, Going DEF ProgramCounters
<1>8. SoundAt("settle", W(r), runs[r].k, attempts, chain.paid)
  BY <1>3 DEF SoundAt, Working
<1>9. lease' \in Lease /\ attempts' \in [Ids -> Seq(Attempt)]
  BY <1>1 DEF PayoutInv, PayoutTypeOK
<1> QED
  BY <1>1, <1>4, <1>5, <1>6, <1>7, <1>8, <1>9, WriteStep

\* The rows after a settlement.
LEMMA SettledRows ==
  ASSUME PayoutInv, NEW r \in Runs, Settle(r)
  PROVE  /\ W(r) \in Ids /\ wd[W(r)].state = "CONFIRMED" /\ ~wd[W(r)].released
         /\ wd'[W(r)].settled
         /\ \A v \in Ids : v # W(r) => wd'[v] = wd[v]
         /\ \A v \in Ids : /\ wd'[v].state = wd[v].state /\ wd'[v].key = wd[v].key
                           /\ wd'[v].reserved = wd[v].reserved
                           /\ wd'[v].released = wd[v].released
         /\ wd' \in [Ids -> Row]
<1>1. ~At(r, "idle") /\ wd' = [wd EXCEPT ![W(r)].settled = TRUE]
      /\ (wd[W(r)].settled \/ (State(r) = "CONFIRMED" /\ ~wd[W(r)].released))
  BY DEF Settle, At
<1>2. W(r) \in Ids /\ wd \in [Ids -> Row] /\ wd[W(r)] \in Row /\ State(r) = wd[W(r)].state
  BY <1>1, AtWork DEF PayoutInv, IInv, TypeOK
<1>3. wd[W(r)].state = "CONFIRMED" /\ ~wd[W(r)].released
  BY <1>1, <1>2 DEF PayoutInv, IInv, ReservationMatchesState
<1> DEFINE row == [wd[W(r)] EXCEPT !.settled = TRUE]
<1>4. /\ row \in Row /\ row.state = wd[W(r)].state /\ row.key = wd[W(r)].key
      /\ row.reserved = wd[W(r)].reserved /\ row.released = wd[W(r)].released /\ row.settled
  BY <1>2 DEF Row
<1>5. wd' = [wd EXCEPT ![W(r)] = row]
  BY <1>1
<1> HIDE DEF row
<1> QED
  BY <1>2, <1>3, <1>4, <1>5

LEMMA SettleKeeps == ASSUME PayoutInv, NEW r \in Runs, Settle(r) PROVE PayoutInv'
<1>1. /\ ~At(r, "idle") /\ Returning(r)
      /\ ledger' = ledger \/ ledger' = SettlementPosting(ledger, W(r))
      /\ lease' = lease \/ lease' = [lease EXCEPT !.released = TRUE]
      /\ UNCHANGED << quote, approvals, nonpayment, outbox, workflow,
                      attempts, current, chain, sends >>
  BY DEF Settle, At
<1>2. /\ W(r) \in Ids /\ wd[W(r)].state = "CONFIRMED" /\ wd'[W(r)].settled
      /\ \A v \in Ids : v # W(r) => wd'[v] = wd[v]
      /\ \A v \in Ids : /\ wd'[v].state = wd[v].state /\ wd'[v].key = wd[v].key
                        /\ wd'[v].reserved = wd[v].reserved
                        /\ wd'[v].released = wd[v].released
      /\ wd' \in [Ids -> Row]
  BY SettledRows
<1>3. ledger' \in LedgerType
  <2>1. ledger \in LedgerType
    BY DEF PayoutInv, IInv, TypeOK, LedgerType
  <2>2. SettlementPosting(ledger, W(r)) \in LedgerType
    BY <1>2, <2>1, SettlementType
  <2> QED
    BY <1>1, <2>1, <2>2
<1>4. IInv'
  <2>1. TypeOK'
    BY <1>1, <1>2, <1>3 DEF PayoutInv, IInv, TypeOK, LedgerType
  <2>2. \A v \in Ids : Created(v)' <=> Created(v)
    BY <1>2 DEF Created
  <2>3. ReservationMatchesState'
    BY <1>2, <2>2 DEF PayoutInv, IInv, ReservationMatchesState
  <2>4. OneWithdrawalPerRequest'
    BY <1>1, <1>2, <2>2 DEF PayoutInv, IInv, OneWithdrawalPerRequest
  <2> QED
    BY <2>1, <2>3, <2>4 DEF IInv
<1>5. MessageInv' /\ Grow(attempts, attempts') /\ ConfirmedIsPaid'
  <2>1. StagesStay
    BY <1>2 DEF StagesStay
  <2> QED
    BY <1>1, <1>2, <2>1, AttemptsStay, ConfirmedStays DEF PayoutInv
<1>6. lease' \in Lease /\ attempts' \in [Ids -> Seq(Attempt)]
  <2>1. lease \in Lease /\ attempts \in [Ids -> Seq(Attempt)]
    BY DEF PayoutInv, PayoutTypeOK
  <2>2. [lease EXCEPT !.released = TRUE] \in Lease
    BY <1>2, <2>1, LeaseTypes
  <2> QED
    BY <1>1, <2>1, <2>2
<1>7. Moved(r, "return", 0) /\ \A as : SoundAt("return", W(r), 0, as, chain.paid)
  BY <1>1, ReturnMoves
<1> QED
  BY <1>1, <1>4, <1>5, <1>6, <1>7, WriteStep

-----------------------------------------------------------------------------
(* Temporal, the Owner, the clock and the chain.                           *)

\* A step of none of the runs that keeps every withdrawal's stage.
LEMMA OutsideStep ==
  ASSUME PayoutInv, IInv', StagesStay, lease' \in Lease,
         \A v \in Ids : wd'[v].state = "CONFIRMED" => wd[v].state = "CONFIRMED",
         UNCHANGED << attempts, chain, sends >>,
         current' \in [Ids -> Runs \cup { NoRun }], runs' \in [Runs -> Run],
         \A t \in Runs : runs'[t] = runs[t] \/ Sound(runs'[t], attempts, chain.paid)
  PROVE  PayoutInv'
<1>1. MessageInv' /\ Grow(attempts, attempts')
  BY AttemptsStay DEF PayoutInv
<1>2. ConfirmedIsPaid'
  BY ConfirmedStays DEF PayoutInv
<1>3. RunsInv'
  <2>1. attempts' \in [Ids -> Seq(Attempt)]
    BY DEF PayoutInv, PayoutTypeOK
  <2> QED
    BY <1>1, <2>1, RunsStay
<1>4. ChainInv' /\ PayoutTypeOK'
  BY DEF PayoutInv, ChainInv, PayoutTypeOK, IInv
<1> QED
  BY <1>1, <1>2, <1>3, <1>4 DEF PayoutInv

\* The rows are left alone but for the workflow of one withdrawal.
LEMMA WorkflowMoves ==
  ASSUME PayoutInv, UNCHANGED << quote, wd, ledger, approvals, nonpayment, outbox >>,
         workflow' \in [Ids -> { "NONE", "RUNNING", "COMPLETED" }]
  PROVE  /\ IInv' /\ StagesStay
         /\ \A v \in Ids : wd'[v].state = "CONFIRMED" => wd[v].state = "CONFIRMED"
  BY DEF PayoutInv, IInv, TypeOK, ReservationMatchesState, OneWithdrawalPerRequest, Created,
         StagesStay

LEMMA StartKeeps ==
  ASSUME PayoutInv, NEW r \in Runs, NEW w \in Ids, StartRun(r, w) PROVE PayoutInv'
<1> DEFINE x == [IdleRun EXCEPT !.pc = "start", !.w = w]
<1>1. /\ runs' = [runs EXCEPT ![r] = x] /\ current' = [current EXCEPT ![w] = r]
      /\ UNCHANGED << rowVars, lease, attempts, chain, sends >>
  BY DEF StartRun
<1>2. x \in Run /\ x.pc = "start" /\ x.w = w
  BY DEF IdleRun, Run, ProgramCounters
<1> HIDE DEF x
<1>3. Sound(x, attempts, chain.paid)
  BY <1>2 DEF Sound, SoundAt, Working
<1>4. /\ runs \in [Runs -> Run] /\ current \in [Ids -> Runs \cup { NoRun }] /\ lease \in Lease
      /\ workflow \in [Ids -> { "NONE", "RUNNING", "COMPLETED" }]
  BY DEF PayoutInv, PayoutTypeOK, IInv, TypeOK
<1>5. /\ runs' \in [Runs -> Run] /\ current' \in [Ids -> Runs \cup { NoRun }]
      /\ \A t \in Runs : runs'[t] = runs[t] \/ Sound(runs'[t], attempts, chain.paid)
  BY <1>1, <1>2, <1>3, <1>4
<1>6. /\ IInv' /\ StagesStay
      /\ \A v \in Ids : wd'[v].state = "CONFIRMED" => wd[v].state = "CONFIRMED"
  BY <1>1, <1>4, WorkflowMoves DEF rowVars
<1> QED
  BY <1>1, <1>4, <1>5, <1>6, OutsideStep

LEMMA EndKeeps ==
  ASSUME PayoutInv, NEW r \in Runs, Finish(r) \/ Fail(r) PROVE PayoutInv'
<1>1. /\ ~At(r, "idle") /\ RunEnds(r)
      /\ UNCHANGED << quote, wd, ledger, approvals, nonpayment, outbox,
                      lease, attempts, chain, sends >>
  BY DEF Finish, Fail, At, rowVars
<1>2. /\ W(r) \in Ids /\ runs \in [Runs -> Run] /\ lease \in Lease
      /\ current \in [Ids -> Runs \cup { NoRun }]
      /\ workflow \in [Ids -> { "NONE", "RUNNING", "COMPLETED" }]
  BY <1>1, AtWork DEF PayoutInv, PayoutTypeOK, IInv, TypeOK
<1>3. workflow' \in [Ids -> { "NONE", "RUNNING", "COMPLETED" }]
  BY <1>2 DEF Finish, Fail, rowVars
<1>4. IdleRun \in Run /\ Sound(IdleRun, attempts, chain.paid)
  BY DEF IdleRun, Run, ProgramCounters, Sound, SoundAt, Working
<1>5. /\ runs' \in [Runs -> Run] /\ current' \in [Ids -> Runs \cup { NoRun }]
      /\ \A t \in Runs : runs'[t] = runs[t] \/ Sound(runs'[t], attempts, chain.paid)
  BY <1>1, <1>2, <1>4 DEF RunEnds
<1>6. /\ IInv' /\ StagesStay
      /\ \A v \in Ids : wd'[v].state = "CONFIRMED" => wd[v].state = "CONFIRMED"
  BY <1>1, <1>3, WorkflowMoves
<1> QED
  BY <1>1, <1>2, <1>5, <1>6, OutsideStep

\* Neither a lost call nor the clock touches the rows.
LEMMA ClockKeeps ==
  ASSUME PayoutInv, LeaseExpires \/ \E w \in Ids : Timeout(w) PROVE PayoutInv'
<1>1. UNCHANGED << rowVars, attempts, runs, chain, sends >>
  BY DEF LeaseExpires, Timeout
<1>2. /\ runs \in [Runs -> Run] /\ current \in [Ids -> Runs \cup { NoRun }] /\ lease \in Lease
      /\ workflow \in [Ids -> { "NONE", "RUNNING", "COMPLETED" }]
  BY DEF PayoutInv, PayoutTypeOK, IInv, TypeOK
<1>3. lease' \in Lease /\ current' \in [Ids -> Runs \cup { NoRun }]
  <2>1. CASE LeaseExpires
    <3>1. Expired(lease) \in Lease
      BY <1>2 DEF Lease, Expired
    <3> QED
      BY <1>2, <2>1, <3>1 DEF LeaseExpires
  <2>2. CASE \E w \in Ids : Timeout(w)
    BY <1>2, <2>2 DEF Timeout
  <2> QED
    BY <2>1, <2>2
<1>4. /\ IInv' /\ StagesStay
      /\ \A v \in Ids : wd'[v].state = "CONFIRMED" => wd[v].state = "CONFIRMED"
  BY <1>1, <1>2, WorkflowMoves DEF rowVars
<1> QED
  BY <1>1, <1>2, <1>3, <1>4, OutsideStep

\* A decision finds the withdrawal before its message is persisted.
LEMMA DecisionIsEarly ==
  ASSUME PayoutInv, NEW w \in Ids, DecideStep(w)
  PROVE  /\ wd[w].state \notin Late
         /\ \A v \in Ids : v # w => wd'[v] = wd[v]
         /\ wd'[w].state \in { "APPROVED", "HELD", "REJECTED" }
         /\ wd'[w].settled = wd[w].settled
         /\ wd'[w].state = "REJECTED" <=> wd'[w].released
<1>1. PICK expected \in DecisionStates, decision \in Decisions, tag \in Tags, ack \in BOOLEAN :
        Decide(w, expected, decision, tag, ack)
  BY DEF DecideStep
<1> DEFINE to == DecisionTarget(decision)
           row == [ wd[w] EXCEPT !.state = to,
                                 !.released = wd[w].released \/ decision = "REJECT" ]
<1>2. TypeOK /\ IInv
  BY DEF PayoutInv, IInv
<1>3. /\ wd' = [wd EXCEPT ![w] = row] /\ to \in { "APPROVED", "HELD", "REJECTED" }
      /\ wd[w].state \notin { "NONE", "CONFIRMED", "REJECTED" }
  BY <1>1, <1>2, DecisionStep
<1>4. to \in Successors(wd[w].state) /\ wd[w].state # "RECONCILE_REQUIRED"
  BY <1>1, ReviewAssumption DEF Decide, DecisionAllowed, TransitionAllowed
<1>5. wd[w].state \notin Late
  BY <1>3, <1>4 DEF Successors, Late
<1>6. wd \in [Ids -> Row] /\ wd[w] \in Row
  BY <1>2 DEF TypeOK
<1>7. row.state = to /\ row.settled = wd[w].settled
  BY <1>6 DEF Row
<1> HIDE DEF row, to
<1>8. wd'[w] = row /\ \A v \in Ids : v # w => wd'[v] = wd[v]
  BY <1>3, <1>6
<1>9. wd'[w].state = "REJECTED" <=> wd'[w].released
  BY <1>2, DecideStepKeeps DEF IInv, ReservationMatchesState
<1> QED
  BY <1>3, <1>5, <1>7, <1>8, <1>9

LEMMA OfficeKeeps == ASSUME PayoutInv, NEW w \in Ids, OfficeStep(w) PROVE PayoutInv'
<1>1. UNCHANGED << lease, attempts, runs, current, chain, sends >>
  BY DEF OfficeStep
<1>2. runs \in [Runs -> Run] /\ current \in [Ids -> Runs \cup { NoRun }] /\ lease \in Lease
  BY DEF PayoutInv, PayoutTypeOK
<1>3. /\ IInv' /\ StagesStay
      /\ \A v \in Ids : wd'[v].state = "CONFIRMED" => wd[v].state = "CONFIRMED"
  <2>1. CASE DecideStep(w)
    <3>1. IInv'
      BY <2>1, DecideStepKeeps DEF PayoutInv
    <3>2. /\ wd[w].state \notin Late
          /\ \A v \in Ids : v # w => wd'[v] = wd[v]
          /\ wd'[w].state \in { "APPROVED", "HELD", "REJECTED" }
      BY <2>1, DecisionIsEarly
    <3>3. ASSUME NEW v \in Ids
          PROVE  /\ wd'[v].state \in Late <=> wd[v].state \in Late
                 /\ wd'[v].state = "BROADCASTED" => wd[v].state = "BROADCASTED"
                 /\ wd'[v].state = "CONFIRMED" => wd[v].state = "CONFIRMED"
      BY <3>2 DEF Late
    <3> QED
      BY <3>1, <3>3 DEF StagesStay
  <2>2. CASE RelayStep(w)
    <3>1. IInv' /\ wd' = wd
      BY <2>2, RelayStepKeeps DEF PayoutInv, RelayStep, RelayDispatch, RelayStartThenCrash
    <3> QED
      BY <3>1 DEF StagesStay
  <2> QED
    BY <2>1, <2>2 DEF OfficeStep
<1> QED
  BY <1>1, <1>2, <1>3, OutsideStep

LEMMA RecoverKeeps == ASSUME PayoutInv, NEW w \in Ids, Recover(w) PROVE PayoutInv'
<1>1. /\ wd[w].state = "SIGNING" /\ MovesTo(w, "FAILED_PRE_BROADCAST")
      /\ lease' = ReleasedBy(lease, w, lease.token)
      /\ UNCHANGED << attempts, runs, current, chain, sends >>
  BY DEF Recover, RecoverySnapshot, Recoverable, RecoverSigning, MovesTo
<1>2. runs \in [Runs -> Run] /\ current \in [Ids -> Runs \cup { NoRun }] /\ lease \in Lease
  BY DEF PayoutInv, PayoutTypeOK
<1>3. lease' \in Lease
  <2>1. ReleasedBy(lease, w, lease.token) \in Lease
    BY <1>2, LeaseTypes
  <2> QED
    BY <1>1, <2>1
<1>4. /\ IInv'
      /\ \A v \in Ids : wd'[v].state = IF v = w THEN "FAILED_PRE_BROADCAST" ELSE wd[v].state
  <2>1. "FAILED_PRE_BROADCAST" \in States \ { "REJECTED" }
    BY DEF States
  <2> QED
    BY <1>1, <2>1, StateMoves DEF PayoutInv
<1>5. /\ StagesStay
      /\ \A v \in Ids : wd'[v].state = "CONFIRMED" => wd[v].state = "CONFIRMED"
  BY <1>1, <1>4 DEF StagesStay, Late
<1> QED
  BY <1>1, <1>2, <1>3, <1>4, <1>5, OutsideStep

LEMMA ChainKeeps ==
  ASSUME PayoutInv, NEW m \in chain.mempool, WalletExecutes(m) \/ MessageLost(m)
  PROVE  PayoutInv'
<1>1. UNCHANGED << rowVars, lease, attempts, runs, current, sends >>
  BY DEF WalletExecutes, MessageLost
<1>2. chain \in [ seqno : Nat, mempool : SUBSET (Ids \X Nat), paid : SUBSET (Ids \X Nat) ]
  BY DEF PayoutInv, PayoutTypeOK
<1>3. /\ chain' \in [ seqno : Nat, mempool : SUBSET (Ids \X Nat), paid : SUBSET (Ids \X Nat) ]
      /\ chain.paid \subseteq chain'.paid
      /\ chain'.mempool \cup chain'.paid \subseteq chain.mempool \cup chain.paid
  <2>1. CASE WalletExecutes(m)
    <3>1. PICK paid \in { chain.paid, chain.paid \cup { m } } :
            chain' = [ seqno |-> chain.seqno + 1, mempool |-> chain.mempool \ { m },
                       paid |-> paid ]
      BY <2>1 DEF WalletExecutes
    <3> QED
      BY <1>2, <3>1
  <2>2. CASE MessageLost(m)
    <3>1. chain' = [chain EXCEPT !.mempool = chain.mempool \ { m }]
      BY <2>2 DEF MessageLost
    <3> QED
      BY <1>2, <3>1
  <2> QED
    BY <2>1, <2>2
<1>4. IInv' /\ (MessageInv /\ ChainInv /\ ConfirmedIsPaid)'
  BY <1>1, <1>3, RowsStay DEF PayoutInv, rowVars, MessageInv, ChainInv, ConfirmedIsPaid
<1>5. RunsInv'
  <2>1. Grow(attempts, attempts') /\ attempts' \in [Ids -> Seq(Attempt)]
    BY <1>1, GrowSame DEF PayoutInv, PayoutTypeOK
  <2> QED
    BY <1>1, <1>3, <2>1, RunsStay
<1>6. PayoutTypeOK'
  BY <1>1, <1>3, <1>4 DEF PayoutInv, PayoutTypeOK, IInv
<1> QED
  BY <1>4, <1>5, <1>6 DEF PayoutInv

-----------------------------------------------------------------------------
(* The invariant holds.                                                    *)

LEMMA PayoutStarts == PayoutInit => PayoutInv
<1> SUFFICES ASSUME PayoutInit PROVE PayoutInv
  OBVIOUS
<1>1. IInv
  BY ReviewKeeps DEF PayoutInit
<1>2. \A w \in Ids : wd[w].state = "MANUAL_REVIEW" /\ attempts[w] = << >>
  BY DEF PayoutInit, ReviewInit, UnderReview
<1>3. IdleRun \in Run /\ \A as, paid : Sound(IdleRun, as, paid)
  BY DEF IdleRun, Run, ProgramCounters, Sound, SoundAt, Working
<1>4. PayoutTypeOK
  <2>1. lease \in Lease
    BY DEF PayoutInit, NoLease, Lease
  <2>2. /\ attempts \in [Ids -> Seq(Attempt)] /\ current \in [Ids -> Runs \cup { NoRun }]
        /\ sends \in [Ids -> Nat]
        /\ chain \in [ seqno : Nat, mempool : SUBSET (Ids \X Nat), paid : SUBSET (Ids \X Nat) ]
    BY DEF PayoutInit
  <2>3. runs \in [Runs -> Run]
    BY <1>3 DEF PayoutInit
  <2> QED
    BY <1>1, <2>1, <2>2, <2>3 DEF PayoutTypeOK, IInv
<1>5. MessageInv
  <2>1. \A w \in Ids : DOMAIN attempts[w] = {}
    BY <1>2
  <2> QED
    BY <1>2, <2>1 DEF MessageInv, Message, Late
<1>6. ChainInv /\ ConfirmedIsPaid
  BY <1>2 DEF PayoutInit, ChainInv, ConfirmedIsPaid
<1>7. RunsInv
  BY <1>3 DEF PayoutInit, RunsInv
<1> QED
  BY <1>1, <1>4, <1>5, <1>6, <1>7 DEF PayoutInv

LEMMA RunKeeps == ASSUME PayoutInv, NEW r \in Runs, Step(r) PROVE PayoutInv'
<1>1. CASE \/ ReadState(r) \/ ReadAttempt(r) \/ ReadLease(r) \/ AdmitOrphan(r) \/ ReadCreated(r)
           \/ Admit(r) \/ Readmit(r) \/ CreateFails(r)
  BY <1>1, ReadingKeeps
<1>2. CASE ReadContext(r) \/ Reread(r) \/ Sign(r) \/ ReloadAttempt(r) \/ Observe(r)
  BY <1>2, LookingKeeps
<1>3. CASE LoadApproved(r) \/ EnterSigning(r) \/ EnterWithoutLease(r) \/ FailSigning(r)
  BY <1>3, QueueingKeeps
<1>4. CASE CreateAttempt(r)
  BY <1>4, CreateKeeps
<1>5. CASE Persist(r) \/ PersistOnResume(r)
  BY <1>5, PersistKeeps
<1>6. CASE FailSign(r) \/ NoEvidence(r)
  BY <1>6, ClosingKeeps
<1>7. CASE Submit(r) \/ SubmitOnResume(r)
  BY <1>7, SubmitKeeps
<1>8. CASE SendBoc(r)
  BY <1>8, SendKeeps
<1>9. CASE Ambiguous(r) \/ BroadcastEvidence(r)
  BY <1>9, SentKeeps
<1>10. CASE ReconcileOnResume(r) \/ Unconfirmed(r)
  BY <1>10, ReconcileKeeps, UnconfirmedKeeps
<1>11. CASE Confirm(r) \/ Settle(r)
  BY <1>11, ConfirmKeeps, SettleKeeps
<1>12. CASE Finish(r)
  BY <1>12, EndKeeps
<1> QED
  BY <1>1, <1>2, <1>3, <1>4, <1>5, <1>6, <1>7, <1>8, <1>9, <1>10, <1>11, <1>12
     DEF Step, AttemptStep, SignStep, SendStep

LEMMA PayoutKeeps == PayoutInv /\ [PayoutNext]_vars => PayoutInv'
<1> SUFFICES ASSUME PayoutInv, [PayoutNext]_vars PROVE PayoutInv'
  OBVIOUS
<1>1. CASE UNCHANGED vars
  <2>1. UNCHANGED << rowVars, lease, attempts, runs, current, chain, sends >>
    BY <1>1 DEF vars
  <2>2. IInv'
    BY <2>1, RowsStay DEF PayoutInv, rowVars
  <2> QED
    BY <2>1, <2>2 DEF PayoutInv, PayoutTypeOK, IInv, rowVars, MessageInv, ChainInv,
                      ConfirmedIsPaid, RunsInv
<1>2. ASSUME NEW r \in Runs, Step(r) \/ Fail(r) PROVE PayoutInv'
  BY <1>2, RunKeeps, EndKeeps
<1>3. ASSUME NEW r \in Runs, NEW w \in Ids, StartRun(r, w) PROVE PayoutInv'
  BY <1>3, StartKeeps
<1>4. ASSUME NEW w \in Ids, OfficeStep(w) \/ Recover(w) \/ Timeout(w) PROVE PayoutInv'
  BY <1>4, OfficeKeeps, RecoverKeeps, ClockKeeps
<1>5. CASE LeaseExpires
  BY <1>5, ClockKeeps
<1>6. ASSUME NEW m \in chain.mempool, WalletExecutes(m) \/ MessageLost(m) PROVE PayoutInv'
  BY <1>6, ChainKeeps
<1> QED
  BY <1>1, <1>2, <1>3, <1>4, <1>5, <1>6 DEF PayoutNext

THEOREM PayoutInvariant == PayoutSpec => []PayoutInv
  BY PayoutStarts, PayoutKeeps, PTL DEF PayoutSpec

\* Every row, lease, attempt, run and message of the payout has its type.
THEOREM PayoutTypesHold == PayoutSpec => []PayoutTypeOK
<1>1. PayoutInv => PayoutTypeOK
  BY DEF PayoutInv
<1> QED
  BY <1>1, PayoutInvariant, PTL

\* What the invariant says of the messages of one withdrawal.
LEMMA OneIsSent ==
  ASSUME PayoutInv, NEW w \in Ids
  PROVE  /\ \A k \in OnChain(w) : /\ k \in DOMAIN attempts[w] /\ attempts[w][k].submitted
                                  /\ attempts[w][k].boc
                                  /\ attempts[w][k].result # "FAILED_PRE_BROADCAST"
         /\ \A j, k \in OnChain(w) : j = k
         /\ AboutToSend(w) \/ OnChain(w) # {} => wd[w].state \in Late
<1>1. Message(wd[w].state, attempts[w])
  BY DEF PayoutInv, MessageInv
<1>2. \A k \in OnChain(w) : k \in DOMAIN attempts[w] /\ attempts[w][k].submitted
  BY DEF PayoutInv, ChainInv, OnChain
<1>3. ASSUME AboutToSend(w) PROVE \E k \in DOMAIN attempts[w] : attempts[w][k].submitted
  <2>1. PICK r \in Runs : runs[r].pc = "send" /\ W(r) = w
    BY <1>3 DEF AboutToSend, At
  <2> QED
    BY <2>1, AtWork DEF At, SoundAt, Working
<1> QED
  BY <1>1, <1>2, <1>3 DEF Message

\* Whatever crashes, times out, or is retried, and however many runs overlap, no
\* withdrawal has two messages on the chain.
THEOREM PaidOnce == PayoutSpec => []PaidAtMostOnce
<1>1. PayoutInv => PaidAtMostOnce
  <2> SUFFICES ASSUME PayoutInv, NEW w \in Ids PROVE Cardinality(OnChain(w)) <= 1
    BY DEF PaidAtMostOnce
  <2>1. CASE OnChain(w) = {}
    BY <2>1, FS_EmptySet
  <2>2. CASE OnChain(w) # {}
    <3>1. PICK k : k \in OnChain(w)
      BY <2>2
    <3>2. OnChain(w) = { k }
      BY <3>1, OneIsSent
    <3>3. Cardinality({ k }) = 1
      BY FS_Singleton
    <3> QED
      BY <3>2, <3>3
  <2> QED
    BY <2>1, <2>2
<1> QED
  BY <1>1, PayoutInvariant, PTL

\* A withdrawal is CONFIRMED, and its reservation spent, only after the wallet
\* paid it, whichever run observed the payment.
THEOREM ConfirmedWasPaid == PayoutSpec => []ConfirmedIsPaid
<1>1. PayoutInv => ConfirmedIsPaid
  BY DEF PayoutInv
<1> QED
  BY <1>1, PayoutInvariant, PTL

\* Money given back by a rejection is never also paid out, not even by a run that
\* goes on after the rejection.
THEOREM ReleasedWasNotPaid == PayoutSpec => []ReleasedIsNeverPaid
<1>1. PayoutInv => ReleasedIsNeverPaid
  <2> SUFFICES ASSUME PayoutInv, NEW w \in Ids, wd[w].released
               PROVE  OnChain(w) = {} /\ ~AboutToSend(w)
    BY DEF ReleasedIsNeverPaid
  <2>1. wd[w].state \notin Late
    BY DEF PayoutInv, IInv, ReservationMatchesState, Late
  <2> QED
    BY <2>1, OneIsSent
<1> QED
  BY <1>1, PayoutInvariant, PTL

\* Before a message is on its way the database says so, and no operation may take
\* its attempt for one that failed before the broadcast.
THEOREM SendingIsRecorded == PayoutSpec => []SentIsRecorded
<1>1. PayoutInv => SentIsRecorded
  BY OneIsSent DEF SentIsRecorded, Late
<1> QED
  BY <1>1, PayoutInvariant, PTL

\* At most one message of a withdrawal is ever persisted, and every withdrawal
\* past SIGNING has it: the branch of the code for a missing one is never taken.
THEOREM MessageIsUnique == PayoutSpec => []OneMessage
<1>1. PayoutInv => OneMessage
  <2> SUFFICES ASSUME PayoutInv, NEW w \in Ids
               PROVE  /\ wd[w].state \in InFlightStates \ { "SIGNING" } =>
                           \E k \in DOMAIN attempts[w] : attempts[w][k].boc
                      /\ \A j, k \in DOMAIN attempts[w] :
                           attempts[w][j].boc /\ attempts[w][k].boc => j = k
    BY DEF OneMessage
  <2>1. Message(wd[w].state, attempts[w])
    BY DEF PayoutInv, MessageInv
  <2> QED
    BY <2>1 DEF Message, InFlightStates, Late
<1> QED
  BY <1>1, PayoutInvariant, PTL

-----------------------------------------------------------------------------
(* What no step takes back.                                                *)

LEMMA WritesGrow ==
  ASSUME PayoutInv, NEW r \in Runs, runs[r].pc \in Working, NEW result \in Results,
         \/ WriteAttempt(r, WithBoc(Try(r)))
         \/ WriteAttempt(r, Submitted(Try(r), result))
         \/ WriteAttempt(r, [Try(r) EXCEPT !.result = result])
  PROVE  Grow(attempts, attempts')
<1>1. /\ ~At(r, "idle") /\ Try(r) \in Attempt
  BY OfTry
<1>2. /\ W(r) \in Ids /\ runs[r].k \in DOMAIN attempts[W(r)] /\ Tries(r) = attempts[W(r)]
      /\ Try(r) = attempts[W(r)][runs[r].k] /\ attempts \in [Ids -> Seq(Attempt)]
  BY <1>1, AtWork
<1>3. PICK a \in Attempt : /\ WriteAttempt(r, a)
                           /\ Try(r).boc => a.boc
                           /\ Try(r).submitted => a.submitted
  <2>1. CASE WriteAttempt(r, WithBoc(Try(r)))
    BY <1>1, <2>1, AttemptWrites
  <2>2. CASE WriteAttempt(r, Submitted(Try(r), result))
    <3> DEFINE a == Submitted(Try(r), result)
    <3>1. /\ a \in Attempt /\ a.boc = Try(r).boc
          /\ Try(r).submitted => a.submitted
      BY <1>1, AttemptWrites
    <3>2. WriteAttempt(r, a)
      BY <2>2
    <3> HIDE DEF a
    <3> QED
      BY <3>1, <3>2
  <2>3. CASE WriteAttempt(r, [Try(r) EXCEPT !.result = result])
    <3> DEFINE a == [Try(r) EXCEPT !.result = result]
    <3>1. /\ a \in Attempt /\ a.boc = Try(r).boc
          /\ Try(r).submitted => a.submitted
      BY <1>1, AttemptWrites
    <3>2. WriteAttempt(r, a)
      BY <2>3
    <3> HIDE DEF a
    <3> QED
      BY <3>1, <3>2
  <2> QED
    BY <2>1, <2>2, <2>3
<1>4. Rewritten(W(r), runs[r].k, a)
  BY <1>2, <1>3, Rewrites
<1>5. ASSUME NEW v \in Ids, NEW j \in DOMAIN attempts[v]
      PROVE  /\ j \in DOMAIN attempts'[v]
             /\ attempts[v][j].boc => attempts'[v][j].boc
             /\ attempts[v][j].submitted => attempts'[v][j].submitted
  BY <1>2, <1>3, <1>4, ZenonT(30) DEF Rewritten
<1> QED
  BY <1>5 DEF Grow

LEMMA CreationGrows == ASSUME PayoutInv, NEW r \in Runs, CreateAttempt(r)
                       PROVE  Grow(attempts, attempts')
<1> DEFINE w == W(r)
           new == NewAttempt(runs[r].token, runs[r].seq)
<1>1. ~At(r, "idle") /\ attempts' = [attempts EXCEPT ![w] = Append(attempts[w], new)]
  BY DEF CreateAttempt, At
<1>2. w \in Ids /\ attempts \in [Ids -> Seq(Attempt)] /\ attempts[w] \in Seq(Attempt)
  BY <1>1, AtWork
<1> HIDE DEF new
<1>3. \A v \in Ids : \A k \in DOMAIN attempts[v] :
        k \in DOMAIN attempts'[v] /\ attempts'[v][k] = attempts[v][k]
  BY <1>1, <1>2
<1> QED
  BY <1>3 DEF Grow

LEMMA AttemptsGrow == ASSUME PayoutInv, PayoutNext PROVE Grow(attempts, attempts')
<1>1. CASE attempts' = attempts
  BY <1>1, GrowSame
<1>2. ASSUME NEW r \in Runs, Step(r), attempts' # attempts PROVE Grow(attempts, attempts')
  <2>1. CASE CreateAttempt(r)
    BY <2>1, CreationGrows
  <2>2. CASE Persist(r) \/ PersistOnResume(r)
    <3>1. runs[r].pc \in Working /\ WriteAttempt(r, WithBoc(Try(r)))
      BY <2>2 DEF Persist, PersistOnResume, At, Working
    <3>2. "UNKNOWN" \in Results
      BY DEF Results
    <3> QED
      BY <3>1, <3>2, WritesGrow
  <2>3. CASE FailSign(r) \/ NoEvidence(r) \/ Unconfirmed(r)
    <3>1. runs[r].pc \in Working
          /\ \E result \in { "FAILED_PRE_BROADCAST", "RECONCILE_REQUIRED" } :
               WriteAttempt(r, [Try(r) EXCEPT !.result = result])
      BY <2>3 DEF FailSign, NoEvidence, Unconfirmed, At, Working
    <3>2. { "FAILED_PRE_BROADCAST", "RECONCILE_REQUIRED" } \subseteq Results
      BY DEF Results
    <3> QED
      BY <3>1, <3>2, WritesGrow
  <2>4. CASE Submit(r) \/ SubmitOnResume(r) \/ Ambiguous(r) \/ BroadcastEvidence(r)
    <3>1. runs[r].pc \in Working
          /\ \E result \in { "UNKNOWN", "RECONCILE_REQUIRED", "BROADCASTED" } :
               WriteAttempt(r, Submitted(Try(r), result))
      BY <2>4 DEF Submit, SubmitOnResume, Ambiguous, BroadcastEvidence, At, Working
    <3>2. { "UNKNOWN", "RECONCILE_REQUIRED", "BROADCASTED" } \subseteq Results
      BY DEF Results
    <3> QED
      BY <3>1, <3>2, WritesGrow
  <2>5. CASE \/ ReadState(r) \/ ReadAttempt(r) \/ ReadLease(r) \/ AdmitOrphan(r)
             \/ ReadCreated(r) \/ Admit(r) \/ Readmit(r) \/ CreateFails(r)
             \/ ReadContext(r) \/ Reread(r) \/ Sign(r) \/ ReloadAttempt(r) \/ Observe(r)
    BY <1>2, <2>5 DEF ReadState, ReadAttempt, ReadLease, AdmitOrphan, ReadCreated, Admit,
                      Readmit, CreateFails, ReadContext, Reread, Sign, ReloadAttempt,
                      Observe, allButRuns
  <2>6. CASE \/ LoadApproved(r) \/ EnterSigning(r) \/ EnterWithoutLease(r) \/ FailSigning(r)
             \/ ReconcileOnResume(r) \/ SendBoc(r) \/ Confirm(r) \/ Settle(r) \/ Finish(r)
    BY <1>2, <2>6 DEF LoadApproved, EnterSigning, EnterWithoutLease, FailSigning,
                      ReconcileOnResume, SendBoc, Confirm, Settle, Finish
  <2> QED
    BY <1>2, <2>1, <2>2, <2>3, <2>4, <2>5, <2>6 DEF Step, AttemptStep, SignStep, SendStep
<1>3. ASSUME NEW r \in Runs, Fail(r) \/ \E w \in Ids : StartRun(r, w) PROVE attempts' = attempts
  BY <1>3 DEF Fail, StartRun
<1>4. ASSUME NEW w \in Ids, OfficeStep(w) \/ Recover(w) \/ Timeout(w) PROVE attempts' = attempts
  BY <1>4 DEF OfficeStep, Recover, RecoverSigning, Timeout
<1>5. CASE LeaseExpires \/ \E m \in chain.mempool : WalletExecutes(m) \/ MessageLost(m)
  BY <1>1, <1>5 DEF LeaseExpires, WalletExecutes, MessageLost
<1> QED
  BY <1>1, <1>2, <1>3, <1>4, <1>5 DEF PayoutNext

\* What a run writes of its withdrawal's row, but for the settlement.
LEMMA RowWrites ==
  ASSUME NEW r \in Runs, Step(r), ~Settle(r)
  PROVE  \/ wd' = wd
         \/ \E to : /\ wd' = [wd EXCEPT ![W(r)].state = to] /\ ~At(r, "idle")
                    /\ State(r) # "CONFIRMED" \/ to = "CONFIRMED"
                    /\ State(r) # "NONE" /\ to # "NONE"
<1>1. CASE \/ ReadState(r) \/ ReadAttempt(r) \/ ReadLease(r) \/ AdmitOrphan(r)
           \/ ReadCreated(r) \/ Admit(r) \/ Readmit(r) \/ CreateFails(r)
           \/ ReadContext(r) \/ Reread(r) \/ Sign(r) \/ ReloadAttempt(r) \/ Observe(r)
  BY <1>1 DEF ReadState, ReadAttempt, ReadLease, AdmitOrphan, ReadCreated, Admit,
              Readmit, CreateFails, ReadContext, Reread, Sign, ReloadAttempt,
              Observe, allButRuns, rowVars
<1>2. CASE \/ CreateAttempt(r) \/ Submit(r) \/ SubmitOnResume(r) \/ SendBoc(r) \/ Finish(r)
  BY <1>2 DEF CreateAttempt, Submit, SubmitOnResume, SendBoc, Finish, rowVars
<1>3. CASE LoadApproved(r) \/ EnterSigning(r) \/ EnterWithoutLease(r) \/ FailSigning(r)
  BY <1>3 DEF LoadApproved, EnterSigning, EnterWithoutLease, FailSigning, Transition, At
<1>4. CASE FailSign(r) \/ Persist(r) \/ PersistOnResume(r) \/ Ambiguous(r) \/ BroadcastEvidence(r)
  BY <1>4 DEF FailSign, Persist, PersistOnResume, Ambiguous, BroadcastEvidence, Transition, At
<1>5. CASE NoEvidence(r) \/ ReconcileOnResume(r) \/ Unconfirmed(r) \/ Confirm(r)
  BY <1>5 DEF NoEvidence, ReconcileOnResume, Unconfirmed, Confirm, Transition, At
<1> QED
  BY <1>1, <1>2, <1>3, <1>4, <1>5 DEF Step, AttemptStep, SignStep, SendStep

\* Only the settlement writes the row of a confirmed withdrawal.
LEMMA ConfirmedRowStays ==
  ASSUME PayoutInv, PayoutNext, NEW v \in Ids, wd[v].state = "CONFIRMED"
  PROVE  wd'[v] = wd[v] \/ \E r \in Runs : Settle(r) /\ W(r) = v
<1>1. wd \in [Ids -> Row] /\ wd[v] \in Row
  BY DEF PayoutInv, IInv, TypeOK
<1>2. ASSUME NEW r \in Runs, Step(r) PROVE wd'[v] = wd[v] \/ (Settle(r) /\ W(r) = v)
  <2>1. CASE Settle(r)
    BY <2>1, SettledRows
  <2>2. ASSUME NEW to, wd' = [wd EXCEPT ![W(r)].state = to], ~At(r, "idle"),
               State(r) # "CONFIRMED" \/ to = "CONFIRMED"
        PROVE  wd'[v] = wd[v]
    <3>1. W(r) \in Ids /\ State(r) = wd[W(r)].state
      BY <2>2, AtWork
    <3>2. CASE W(r) # v
      BY <1>1, <2>2, <3>1, <3>2
    <3>3. CASE W(r) = v
      <4>1. to = "CONFIRMED" /\ wd'[v] = [wd[v] EXCEPT !.state = "CONFIRMED"]
        BY <1>1, <2>2, <3>1, <3>3
      <4> QED
        BY <1>1, <4>1 DEF Row
    <3> QED
      BY <3>2, <3>3
  <2> QED
    BY <1>2, <2>1, <2>2, RowWrites
<1>3. ASSUME NEW r \in Runs, Fail(r) \/ \E w \in Ids : StartRun(r, w) PROVE wd' = wd
  BY <1>3 DEF Fail, StartRun, rowVars
<1>4. ASSUME NEW w \in Ids, OfficeStep(w) PROVE wd'[v] = wd[v]
  <2>1. CASE DecideStep(w)
    BY <2>1, DecisionIsEarly DEF Late
  <2>2. CASE RelayStep(w)
    BY <2>2 DEF RelayStep, RelayDispatch, RelayStartThenCrash
  <2> QED
    BY <1>4, <2>1, <2>2 DEF OfficeStep
<1>5. ASSUME NEW w \in Ids, Recover(w) PROVE wd'[v] = wd[v]
  BY <1>1, <1>5 DEF Recover, RecoverySnapshot, Recoverable, RecoverSigning
<1>6. CASE \/ \E w \in Ids : Timeout(w)
           \/ LeaseExpires \/ \E m \in chain.mempool : WalletExecutes(m) \/ MessageLost(m)
  BY <1>6 DEF Timeout, LeaseExpires, WalletExecutes, MessageLost, rowVars
<1> QED
  BY <1>2, <1>3, <1>4, <1>5, <1>6 DEF PayoutNext

\* No crash, retry or late run takes back a confirmation, a settlement, or the
\* record that a message was signed or submitted.
THEOREM HistoryStands == PayoutSpec => HistoryIsKept
<1> DEFINE Kept ==
      \A w \in Ids :
        /\ wd[w].state = "CONFIRMED" => wd'[w].state = "CONFIRMED" /\ ~wd'[w].released
        /\ wd[w].settled => wd'[w] = wd[w]
        /\ \A k \in DOMAIN attempts[w] :
             /\ k \in DOMAIN attempts'[w]
             /\ attempts[w][k].submitted => attempts'[w][k].submitted
             /\ attempts[w][k].boc => attempts'[w][k].boc
<1>1. PayoutInv /\ [PayoutNext]_vars => [Kept]_vars
  <2> SUFFICES ASSUME PayoutInv, PayoutNext PROVE Kept
    OBVIOUS
  <2> SUFFICES ASSUME NEW w \in Ids
               PROVE  /\ wd[w].state = "CONFIRMED" => wd'[w].state = "CONFIRMED" /\ ~wd'[w].released
                      /\ wd[w].settled => wd'[w] = wd[w]
                      /\ \A k \in DOMAIN attempts[w] :
                           /\ k \in DOMAIN attempts'[w]
                           /\ attempts[w][k].submitted => attempts'[w][k].submitted
                           /\ attempts[w][k].boc => attempts'[w][k].boc
    OBVIOUS
  <2>1. /\ wd[w] \in Row
        /\ wd[w].settled => wd[w].state = "CONFIRMED"
        /\ wd[w].state = "CONFIRMED" => ~wd[w].released
    BY DEF PayoutInv, IInv, TypeOK, ReservationMatchesState
  <2>2. ASSUME NEW r \in Runs, Settle(r), W(r) = w
        PROVE  /\ wd'[w].state = "CONFIRMED" /\ ~wd'[w].released
               /\ wd[w].settled => wd'[w] = wd[w]
    <3>1. wd' = [wd EXCEPT ![w].settled = TRUE]
      BY <2>2 DEF Settle
    <3>2. wd[w].state = "CONFIRMED" /\ wd'[w].state = wd[w].state /\ wd'[w].released = wd[w].released
      BY <2>2, SettledRows
    <3>3. wd[w].settled => wd'[w] = wd[w]
      BY <2>1, <3>1 DEF Row, PayoutInv, IInv, TypeOK
    <3> QED
      BY <2>1, <3>2, <3>3
  <2>3. Grow(attempts, attempts')
    BY AttemptsGrow
  <2> QED
    BY <2>1, <2>2, <2>3, ConfirmedRowStays DEF Grow
<1> QED
  BY <1>1, PayoutInvariant, PTL DEF PayoutSpec, HistoryIsKept

-----------------------------------------------------------------------------
(* RealPayout implements PayoutPromise.                                    *)

\* The fate of withdrawal w with this row, if the wallet has paid those in P.
FateBy(row, w, P) ==
  CASE row.settled -> "settled"
    [] ~row.settled /\ w \in P -> "paid"
    [] row.released /\ w \notin P -> "returned"
    [] ~(row.state # "NONE") -> "none"
    [] OTHER -> "reserved"

LEMMA PaidFates ==
  /\ Fate(Paid) = [w \in Ids |-> FateBy(wd[w], w, Paid)]
  /\ Fate(Paid)' = [w \in Ids |-> FateBy(wd'[w], w, Paid')]
  BY DEF Fate, FateBy, Created

LEMMA FateValues ==
  ASSUME NEW row \in Row, row.state # "NONE", NEW w, NEW P
  PROVE  /\ row.settled /\ ~row.released => FateBy(row, w, P) = "settled"
         /\ ~row.settled /\ w \in P => FateBy(row, w, P) = "paid"
         /\ ~row.settled /\ w \notin P /\ row.released => FateBy(row, w, P) = "returned"
         /\ ~row.settled /\ w \notin P /\ ~row.released => FateBy(row, w, P) = "reserved"
  BY DEF FateBy

\* Nothing of a withdrawal that its fate depends on has changed.
SameFate(v) == FateBy(wd'[v], v, Paid') = FateBy(wd[v], v, Paid)

LEMMA FatesStay == ASSUME \A v \in Ids : SameFate(v) PROVE Fate(Paid)' = Fate(Paid)
<1> HIDE DEF FateBy
<1> QED
  BY PaidFates DEF SameFate

LEMMA OneFateMoves ==
  ASSUME NEW w \in Ids, \A v \in Ids \ { w } : SameFate(v), NEW from, NEW to,
         FateBy(wd[w], w, Paid) = from, FateBy(wd'[w], w, Paid') = to
  PROVE  Fate(Paid)[w] = from /\ Fate(Paid)' = [Fate(Paid) EXCEPT ![w] = to]
<1> DEFINE f == Fate(Paid)
           g == Fate(Paid)'
<1>1. f = [v \in Ids |-> FateBy(wd[v], v, Paid)] /\ g = [v \in Ids |-> FateBy(wd'[v], v, Paid')]
  BY PaidFates
<1> HIDE DEF f, g
<1>2. f[w] = from /\ g = [f EXCEPT ![w] = to]
  BY <1>1 DEF SameFate
<1> QED
  BY <1>2 DEF f, g

\* A withdrawal whose row keeps its money columns, paid or not as before.
LEMMA FateKept ==
  ASSUME NEW v \in Ids, wd[v] \in Row, wd'[v] \in Row, Paid' = Paid,
         wd'[v].settled = wd[v].settled, wd'[v].released = wd[v].released,
         wd'[v].state # "NONE" <=> wd[v].state # "NONE"
  PROVE  SameFate(v)
  BY DEF SameFate, FateBy

LEMMA PromiseStarts == PayoutInit => PaidPromise!Init
<1> SUFFICES ASSUME PayoutInit PROVE PaidPromise!Init
  OBVIOUS
<1>1. Paid = {} /\ PayoutInv
  BY PayoutStarts DEF PayoutInit, Paid
<1>2. \A w \in Ids : /\ wd[w] \in Row /\ wd[w].state # "NONE" /\ ~wd[w].settled /\ ~wd[w].released
  BY <1>1 DEF PayoutInv, IInv, TypeOK, PayoutInit, ReviewInit, UnderReview
<1>3. \A w \in Ids : FateBy(wd[w], w, Paid) = "reserved"
  BY <1>1, <1>2, FateValues
<1>4. Fate(Paid) = [w \in Ids |-> "reserved"]
  BY <1>3, PaidFates
<1>5. Fate(Paid) \in [Ids -> { "none", "reserved" }]
  BY <1>4
<1> QED
  BY <1>5 DEF PaidPromise!Init, Paid

\* The wallet pays a withdrawal that is neither settled nor given back, or pays
\* nothing.
LEMMA PaymentIsPromised ==
  ASSUME PayoutInv, NEW m \in chain.mempool, WalletExecutes(m) \/ MessageLost(m)
  PROVE  PaidPromise!Next \/ (Fate(Paid)' = Fate(Paid) /\ ledger' = ledger)
<1> DEFINE w == m[1]
<1>1. wd' = wd /\ ledger' = ledger /\ wd \in [Ids -> Row]
  BY DEF WalletExecutes, MessageLost, rowVars, PayoutInv, IInv, TypeOK
<1>2. chain \in [ seqno : Nat, mempool : SUBSET (Ids \X Nat), paid : SUBSET (Ids \X Nat) ]
  BY DEF PayoutInv, PayoutTypeOK
<1>3. chain'.paid = chain.paid \/ chain'.paid = chain.paid \cup { m }
  <2>1. CASE WalletExecutes(m)
    BY <2>1 DEF WalletExecutes
  <2>2. CASE MessageLost(m)
    BY <1>2, <2>2 DEF MessageLost
  <2> QED
    BY <2>1, <2>2
<1>4. CASE Paid' = Paid
  <2>1. \A v \in Ids : SameFate(v)
    BY <1>1, <1>4 DEF SameFate
  <2> QED
    BY <1>1, <2>1, FatesStay
<1>5. CASE Paid' # Paid
  <2>1. Paid' = Paid \cup { w } /\ w \notin Paid
    BY <1>3, <1>5 DEF Paid
  <2>2. w \in Ids /\ m = << w, m[2] >>
    BY <1>2
  <2>3. m[2] \in OnChain(w)
    BY <2>2 DEF PayoutInv, ChainInv, OnChain
  <2>4. wd[w].state \in Late
    BY <2>2, <2>3, OneIsSent
  <2>5. wd[w] \in Row /\ ~wd[w].settled /\ ~wd[w].released /\ wd[w].state # "NONE"
    <3>1. wd[w].state # "CONFIRMED"
      BY <2>1, <2>2 DEF PayoutInv, ConfirmedIsPaid, Paid
    <3> QED
      BY <1>1, <2>2, <2>4, <3>1 DEF PayoutInv, IInv, ReservationMatchesState, Late
  <2> HIDE DEF w
  <2>6. FateBy(wd[w], w, Paid) = "reserved" /\ FateBy(wd'[w], w, Paid') = "paid"
    BY <1>1, <2>1, <2>5, FateValues
  <2>7. \A v \in Ids \ { w } : SameFate(v)
    BY <1>1, <2>1 DEF SameFate, FateBy
  <2>8. Fate(Paid)[w] = "reserved" /\ Fate(Paid)' = [Fate(Paid) EXCEPT ![w] = "paid"]
    BY <2>2, <2>6, <2>7, OneFateMoves
  <2>9. PaidPromise!Pay(w)
    BY <1>1, <2>8 DEF PaidPromise!Pay, PaidPromise!Becomes, Paid
  <2> QED
    BY <2>2, <2>9 DEF PaidPromise!Next
<1> QED
  BY <1>4, <1>5

LEMMA SettlementIsPromised ==
  ASSUME PayoutInv, NEW r \in Runs, Settle(r)
  PROVE  PaidPromise!Next \/ (Fate(Paid)' = Fate(Paid) /\ ledger' = ledger)
<1> DEFINE w == W(r)
<1>1. /\ w \in Ids /\ wd[w].state = "CONFIRMED" /\ ~wd[w].released /\ wd'[w].settled
      /\ wd'[w].state = wd[w].state /\ wd'[w].released = wd[w].released
      /\ \A v \in Ids : v # w => wd'[v] = wd[v]
      /\ wd' \in [Ids -> Row] /\ wd \in [Ids -> Row]
  BY SettledRows DEF PayoutInv, IInv, TypeOK
<1>2. chain' = chain /\ wd' = [wd EXCEPT ![w].settled = TRUE]
      /\ ledger' = IF wd[w].settled THEN ledger ELSE SettlementPosting(ledger, w)
  BY DEF Settle
<1>3. w \in Paid /\ Paid' = Paid
  BY <1>1, <1>2 DEF PayoutInv, ConfirmedIsPaid, Paid
<1> HIDE DEF w
<1>4. \A v \in Ids \ { w } : SameFate(v)
  BY <1>1, <1>3 DEF SameFate
<1>5. FateBy(wd'[w], w, Paid') = "settled"
  BY <1>1, FateValues
<1>6. CASE wd[w].settled
  <2>1. FateBy(wd[w], w, Paid) = "settled"
    BY <1>1, <1>6, FateValues
  <2>2. \A v \in Ids : SameFate(v)
    BY <1>4, <1>5, <2>1 DEF SameFate
  <2> QED
    BY <1>2, <1>6, <2>2, FatesStay
<1>7. CASE ~wd[w].settled
  <2>1. FateBy(wd[w], w, Paid) = "paid"
    BY <1>1, <1>3, <1>7, FateValues
  <2>2. Fate(Paid)[w] = "paid" /\ Fate(Paid)' = [Fate(Paid) EXCEPT ![w] = "settled"]
    BY <1>1, <1>4, <1>5, <2>1, OneFateMoves
  <2>3. ledger' = [ledger EXCEPT !.reserved[Owner[w]] = @ - Gross[w],
                                 !.hot = @ - (Gross[w] - Fee[w]), !.fees = @ + Fee[w]]
    BY <1>2, <1>7 DEF SettlementPosting, Net
  <2>4. PaidPromise!Settle(w)
    BY <2>2, <2>3 DEF PaidPromise!Settle, PaidPromise!Becomes, Paid
  <2> QED
    BY <1>1, <2>4 DEF PaidPromise!Next
<1> QED
  BY <1>6, <1>7

\* A rejection finds no message of the withdrawal on the chain.
LEMMA OfficeIsPromised ==
  ASSUME PayoutInv, NEW w \in Ids, OfficeStep(w)
  PROVE  PaidPromise!Next \/ (Fate(Paid)' = Fate(Paid) /\ ledger' = ledger)
<1>1. chain' = chain /\ Paid' = Paid
  BY DEF OfficeStep, Paid
<1>2. CASE RelayStep(w)
  <2>1. wd' = wd /\ ledger' = ledger
    BY <1>2 DEF RelayStep, RelayDispatch, RelayStartThenCrash
  <2>2. \A v \in Ids : SameFate(v)
    BY <1>1, <2>1 DEF SameFate
  <2> QED
    BY <2>1, <2>2, FatesStay
<1>3. CASE DecideStep(w)
  <2>1. PICK expected \in DecisionStates, decision \in Decisions, tag \in Tags, ack \in BOOLEAN :
          Decide(w, expected, decision, tag, ack)
    BY <1>3 DEF DecideStep
  <2>2. /\ wd[w].state \notin Late
        /\ \A v \in Ids : v # w => wd'[v] = wd[v]
        /\ wd'[w].state \in { "APPROVED", "HELD", "REJECTED" }
        /\ wd'[w].settled = wd[w].settled
        /\ wd'[w].state = "REJECTED" <=> wd'[w].released
    BY <1>3, DecisionIsEarly
  <2>3. wd[w].state \notin { "NONE", "CONFIRMED", "REJECTED" }
        /\ (DecisionTarget(decision) = "REJECTED" <=> decision = "REJECT")
        /\ wd'[w].state = DecisionTarget(decision)
    <3>1. TypeOK
      BY DEF PayoutInv, IInv
    <3>2. wd' = [wd EXCEPT ![w] = [ @ EXCEPT !.state = DecisionTarget(decision),
                                       !.released = wd[w].released \/ decision = "REJECT" ]]
      BY <2>1, <3>1, DecisionStep
    <3>3. wd'[w].state = DecisionTarget(decision)
      BY <3>1, <3>2 DEF TypeOK, Row
    <3> QED
      BY <2>1, <3>1, <3>3, DecisionStep
  <2>4. wd[w] \in Row /\ wd'[w] \in Row /\ ~wd[w].settled /\ ~wd[w].released
    <3>1. IInv'
      BY <1>3, DecideStepKeeps DEF PayoutInv
    <3> QED
      BY <2>3, <3>1 DEF PayoutInv, IInv, TypeOK, ReservationMatchesState
  <2>5. w \notin Paid
    <3>1. ASSUME NEW m \in chain.paid, m[1] = w PROVE FALSE
      <4>1. m = << w, m[2] >> /\ m[2] \in DOMAIN attempts[w]
        BY <3>1 DEF PayoutInv, PayoutTypeOK, ChainInv
      <4>2. m[2] \in OnChain(w)
        BY <4>1 DEF OnChain
      <4> QED
        BY <2>2, <4>2, OneIsSent
    <3> QED
      BY <3>1 DEF Paid
  <2>6. \A v \in Ids \ { w } : SameFate(v)
    BY <1>1, <2>2 DEF SameFate
  <2>7. FateBy(wd[w], w, Paid) = "reserved"
    BY <2>3, <2>4, <2>5, FateValues
  <2>8. CASE decision = "REJECT"
    <3>1. FateBy(wd'[w], w, Paid') = "returned"
      BY <1>1, <2>2, <2>3, <2>4, <2>5, <2>8, FateValues
    <3>2. Fate(Paid)[w] = "reserved" /\ Fate(Paid)' = [Fate(Paid) EXCEPT ![w] = "returned"]
      BY <2>6, <2>7, <3>1, OneFateMoves
    <3>3. ledger' = ReleasePosting(ledger, w)
      BY <2>1, <2>4, <2>8 DEF Decide, LedgerAfterRelease
    <3>4. PaidPromise!Return(w)
      BY <3>2, <3>3 DEF PaidPromise!Return, PaidPromise!Becomes, Paid, ReleasePosting
    <3> QED
      BY <3>4 DEF PaidPromise!Next
  <2>9. CASE decision # "REJECT"
    <3>1. FateBy(wd'[w], w, Paid') = "reserved"
      BY <1>1, <2>2, <2>3, <2>4, <2>5, <2>9, FateValues
    <3>2. \A v \in Ids : SameFate(v)
      BY <2>6, <2>7, <3>1 DEF SameFate
    <3>3. ledger' = ledger
      BY <2>1, <2>9 DEF Decide
    <3> QED
      BY <3>2, <3>3, FatesStay
  <2> QED
    BY <2>8, <2>9
<1> QED
  BY <1>2, <1>3 DEF OfficeStep

\* No other step of a run moves money, nor any clock.
LEMMA RunMovesNoMoney ==
  ASSUME PayoutInv, PayoutInv', NEW r \in Runs, Step(r), ~Settle(r)
  PROVE  Fate(Paid)' = Fate(Paid) /\ ledger' = ledger
<1>1. Paid' = Paid /\ ledger' = ledger
  <2>1. CASE \/ ReadState(r) \/ ReadAttempt(r) \/ ReadLease(r) \/ AdmitOrphan(r)
             \/ ReadCreated(r) \/ Admit(r) \/ Readmit(r) \/ CreateFails(r)
             \/ ReadContext(r) \/ Reread(r) \/ Sign(r) \/ ReloadAttempt(r) \/ Observe(r)
    BY <2>1 DEF ReadState, ReadAttempt, ReadLease, AdmitOrphan, ReadCreated, Admit,
                Readmit, CreateFails, ReadContext, Reread, Sign, ReloadAttempt,
                Observe, allButRuns, rowVars, Paid
  <2>2. CASE \/ LoadApproved(r) \/ EnterSigning(r) \/ EnterWithoutLease(r) \/ FailSigning(r)
             \/ CreateAttempt(r) \/ FailSign(r) \/ Persist(r) \/ PersistOnResume(r)
             \/ NoEvidence(r) \/ ReconcileOnResume(r)
    BY <2>2 DEF LoadApproved, EnterSigning, EnterWithoutLease, FailSigning, CreateAttempt,
                FailSign, Persist, PersistOnResume, NoEvidence, ReconcileOnResume,
                outsideTxn, rowsButWd, Paid
  <2>3. CASE \/ Submit(r) \/ SubmitOnResume(r) \/ Ambiguous(r) \/ BroadcastEvidence(r)
             \/ Unconfirmed(r) \/ Confirm(r) \/ Finish(r)
    BY <2>3 DEF Submit, SubmitOnResume, Ambiguous, BroadcastEvidence, Unconfirmed,
                Confirm, Finish, outsideTxn, rowsButWd, Paid
  <2>4. CASE SendBoc(r)
    <3>1. ledger' = ledger /\ \E pool : chain' = chain \/ chain' = [chain EXCEPT !.mempool = pool]
      BY <2>4 DEF SendBoc, rowVars
    <3>2. chain'.paid = chain.paid
      BY <3>1 DEF PayoutInv, PayoutTypeOK
    <3> QED
      BY <3>1, <3>2 DEF Paid
  <2> QED
    BY <2>1, <2>2, <2>3, <2>4 DEF Step, AttemptStep, SignStep, SendStep
<1>2. wd \in [Ids -> Row] /\ wd' \in [Ids -> Row]
  BY DEF PayoutInv, IInv, TypeOK
<1>3. ASSUME NEW v \in Ids PROVE SameFate(v)
  <2>1. CASE wd' = wd
    BY <1>1, <2>1 DEF SameFate
  <2>2. ASSUME NEW to, wd' = [wd EXCEPT ![W(r)].state = to], ~At(r, "idle"),
               State(r) # "NONE", to # "NONE"
        PROVE  SameFate(v)
    <3>1. W(r) \in Ids /\ State(r) = wd[W(r)].state
      BY <2>2, AtWork
    <3>2. wd[v] \in Row /\ wd'[v] = IF v = W(r) THEN [wd[v] EXCEPT !.state = to] ELSE wd[v]
      BY <1>2, <2>2, <3>1
    <3>3. /\ wd'[v].settled = wd[v].settled /\ wd'[v].released = wd[v].released
          /\ wd'[v].state # "NONE" <=> wd[v].state # "NONE"
      BY <2>2, <3>1, <3>2 DEF Row
    <3> QED
      BY <1>1, <1>2, <3>3, FateKept
  <2> QED
    BY <2>1, <2>2, RowWrites
<1> QED
  BY <1>1, <1>3, FatesStay

LEMMA PayoutIsPromised ==
  PayoutInv /\ PayoutInv' /\ [PayoutNext]_vars => [PaidPromise!Next]_<< Fate(Paid), ledger >>
<1> SUFFICES ASSUME PayoutInv, PayoutInv', [PayoutNext]_vars
             PROVE  PaidPromise!Next \/ (Fate(Paid)' = Fate(Paid) /\ ledger' = ledger)
  OBVIOUS
<1>1. ASSUME UNCHANGED << wd, ledger, chain >>
      PROVE  Fate(Paid)' = Fate(Paid) /\ ledger' = ledger
  <2>1. \A v \in Ids : SameFate(v)
    BY <1>1 DEF SameFate, Paid
  <2> QED
    BY <1>1, <2>1, FatesStay
<1>2. CASE UNCHANGED vars
  BY <1>1, <1>2 DEF vars, rowVars
<1>3. ASSUME NEW r \in Runs, Step(r) \/ Fail(r)
      PROVE  PaidPromise!Next \/ (Fate(Paid)' = Fate(Paid) /\ ledger' = ledger)
  <2>1. CASE Fail(r)
    BY <1>1, <2>1 DEF Fail, rowVars
  <2>2. CASE Settle(r)
    BY <2>2, SettlementIsPromised
  <2>3. CASE Step(r) /\ ~Settle(r)
    BY <2>3, RunMovesNoMoney
  <2> QED
    BY <1>3, <2>1, <2>2, <2>3
<1>4. ASSUME NEW r \in Runs, NEW w \in Ids, StartRun(r, w)
      PROVE  Fate(Paid)' = Fate(Paid) /\ ledger' = ledger
  BY <1>1, <1>4 DEF StartRun, rowVars
<1>5. ASSUME NEW w \in Ids, OfficeStep(w) \/ Timeout(w)
      PROVE  PaidPromise!Next \/ (Fate(Paid)' = Fate(Paid) /\ ledger' = ledger)
  BY <1>1, <1>5, OfficeIsPromised DEF Timeout, rowVars
<1>6. ASSUME NEW w \in Ids, Recover(w)
      PROVE  Fate(Paid)' = Fate(Paid) /\ ledger' = ledger
  <2>1. /\ wd[w].state = "SIGNING" /\ wd' = [wd EXCEPT ![w].state = "FAILED_PRE_BROADCAST"]
        /\ ledger' = ledger /\ Paid' = Paid
    BY <1>6 DEF Recover, RecoverySnapshot, Recoverable, RecoverSigning, rowsButWd, Paid
  <2>2. wd \in [Ids -> Row] /\ wd' \in [Ids -> Row]
    BY DEF PayoutInv, IInv, TypeOK
  <2>3. ASSUME NEW v \in Ids PROVE SameFate(v)
    <3>1. wd[v] \in Row
          /\ wd'[v] = IF v = w THEN [wd[v] EXCEPT !.state = "FAILED_PRE_BROADCAST"] ELSE wd[v]
      BY <2>1, <2>2
    <3>2. /\ wd'[v].settled = wd[v].settled /\ wd'[v].released = wd[v].released
          /\ wd'[v].state # "NONE" <=> wd[v].state # "NONE"
      BY <2>1, <3>1 DEF Row
    <3> QED
      BY <2>1, <2>2, <3>2, FateKept
  <2> QED
    BY <2>1, <2>3, FatesStay
<1>7. CASE LeaseExpires
  BY <1>1, <1>7 DEF LeaseExpires, rowVars
<1>8. ASSUME NEW m \in chain.mempool, WalletExecutes(m) \/ MessageLost(m)
      PROVE  PaidPromise!Next \/ (Fate(Paid)' = Fate(Paid) /\ ledger' = ledger)
  BY <1>8, PaymentIsPromised
<1> QED
  BY <1>2, <1>3, <1>4, <1>5, <1>6, <1>7, <1>8 DEF PayoutNext

\* The whole payout implements the promise: the money of a withdrawal is paid or
\* given back, never both, and its reservation is spent once and only after the
\* chain has paid, through crashes, retries and overlapping runs.
THEOREM PayoutKeepsPromise == PayoutSpec => PayoutPromiseKept
<1>1. PayoutSpec => PaidPromise!Init /\ [][PaidPromise!Next]_<< Fate(Paid), ledger >>
  BY PromiseStarts, PayoutIsPromised, PayoutInvariant, PTL DEF PayoutSpec
<1> QED
  BY <1>1 DEF PayoutPromiseKept, PaidPromise!Spec

-----------------------------------------------------------------------------
(* Without overlapping runs nothing is sent twice.                         *)

\* Temporal waits for every run there is, so a withdrawal has one at most.
SoleRun == \A r \in Runs : runs[r].pc # "idle" => current[runs[r].w] = r

\* A run that is about to submit, or will decide to, holds an attempt of which
\* nothing was submitted; one that is about to send is the first to.
Once(x, as, calls) ==
  /\ x.pc \in { "submit", "resubmit" } => ~as[x.w][x.k].submitted
  /\ x.pc = "context" => (x.boc /\ ~x.sub => ~as[x.w][x.k].submitted)
  /\ x.pc = "send" => calls[x.w] = 0

SendInv ==
  \A w \in Ids :
    /\ sends[w] <= 1
    /\ sends[w] # 0 => \E k \in DOMAIN attempts[w] : attempts[w][k].submitted

ResendInv == SoleRun /\ (\A r \in Runs : Once(runs[r], attempts, sends)) /\ SendInv

\* Run r alone goes on, at pc.
Goes(r, pc) ==
  /\ \A t \in Runs \ { r } : runs'[t] = runs[t]
  /\ runs'[r].pc = pc /\ runs'[r].w = runs[r].w

\* The withdrawal of run r alone is written, and r itself goes on safely.
LEMMA OwnStep ==
  ASSUME PayoutInv, ResendInv, NEW r \in Runs, ~At(r, "idle"),
         current' = current, NEW pc, Goes(r, pc),
         \A v \in Ids \ { W(r) } : attempts'[v] = attempts[v] /\ sends'[v] = sends[v],
         Once(runs'[r], attempts', sends'),
         sends'[W(r)] <= 1,
         sends'[W(r)] # 0 => \E j \in DOMAIN attempts'[W(r)] : attempts'[W(r)][j].submitted
  PROVE  ResendInv'
<1>1. W(r) \in Ids /\ runs[r].w = W(r)
  BY AtWork DEF W
<1>2. SoleRun'
  BY DEF ResendInv, SoleRun, Goes, At
<1>3. ASSUME NEW t \in Runs PROVE Once(runs'[t], attempts', sends')
  <2>1. CASE t = r
    BY <2>1
  <2>2. CASE t # r /\ runs[t].pc = "idle"
    BY <2>2 DEF Goes, Once
  <2>3. CASE t # r /\ runs[t].pc # "idle"
    <3>1. runs'[t] = runs[t] /\ Once(runs[t], attempts, sends)
      BY <2>3 DEF Goes, ResendInv
    <3>2. runs[t].w # W(r)
      BY <1>1, <2>3 DEF ResendInv, SoleRun, At
    <3>3. runs[t].w \in Ids
      BY <2>3, AtWork DEF At, W
    <3> QED
      BY <3>1, <3>2, <3>3 DEF Once
  <2> QED
    BY <2>1, <2>2, <2>3
<1>4. SendInv'
  <2>1. ASSUME NEW v \in Ids
        PROVE  /\ sends'[v] <= 1
               /\ sends'[v] # 0 => \E j \in DOMAIN attempts'[v] : attempts'[v][j].submitted
    BY DEF ResendInv, SendInv
  <2> QED
    BY <2>1 DEF SendInv
<1> QED
  BY <1>2, <1>3, <1>4 DEF ResendInv

\* Where a run is not asked for anything.
Careless == ProgramCounters \ { "submit", "resubmit", "context", "send" }

\* A step that sends nothing and takes no submission back.
LEMMA QuietStep ==
  ASSUME PayoutInv, ResendInv, PayoutNext, NEW r \in Runs, ~At(r, "idle"),
         current' = current, NEW pc, Goes(r, pc), sends' = sends,
         \A v \in Ids \ { W(r) } : attempts'[v] = attempts[v],
         Once(runs'[r], attempts', sends)
  PROVE  ResendInv'
<1>1. W(r) \in Ids
  BY AtWork
<1>2. /\ sends'[W(r)] <= 1
      /\ sends'[W(r)] # 0 => \E j \in DOMAIN attempts'[W(r)] : attempts'[W(r)][j].submitted
  <2>1. Grow(attempts, attempts')
    BY AttemptsGrow
  <2> QED
    BY <1>1, <2>1 DEF Grow, ResendInv, SendInv
<1> QED
  BY <1>2, OwnStep

LEMMA RunGoes ==
  ASSUME runs \in [Runs -> Run], NEW r \in Runs, NEW pc, NEW k, NEW st, NEW n,
         \/ Goto(r, pc) \/ GotoWith(r, pc, k)
         \/ runs' = [runs EXCEPT ![r].pc = pc, ![r].st = st]
         \/ runs' = [runs EXCEPT ![r].pc = pc, ![r].token = n]
         \/ runs' = [runs EXCEPT ![r].pc = pc, ![r].seq = n]
  PROVE  Goes(r, pc)
<1>1. runs[r] \in Run
  OBVIOUS
<1>2. CASE Goto(r, pc)
  BY <1>1, <1>2 DEF Goto, Goes, Run
<1>3. CASE GotoWith(r, pc, k)
  BY <1>1, <1>3 DEF GotoWith, Goes, IdleRun, W
<1>4. CASE runs' = [runs EXCEPT ![r].pc = pc, ![r].st = st]
  BY <1>1, <1>4 DEF Goes, Run
<1>5. CASE runs' = [runs EXCEPT ![r].pc = pc, ![r].token = n]
  BY <1>1, <1>5 DEF Goes, Run
<1>6. CASE runs' = [runs EXCEPT ![r].pc = pc, ![r].seq = n]
  BY <1>1, <1>6 DEF Goes, Run
<1> QED
  BY <1>2, <1>3, <1>4, <1>5, <1>6

\* Where each step of a run goes, but for those that lead to a submission.
LEMMA CarelessSteps ==
  ASSUME PayoutInv, NEW r \in Runs,
         \/ ReadState(r) \/ ReadLease(r) \/ AdmitOrphan(r) \/ Admit(r) \/ Readmit(r)
         \/ CreateFails(r) \/ CreateAttempt(r) \/ Sign(r) \/ ReloadAttempt(r) \/ Observe(r)
         \/ LoadApproved(r) \/ EnterSigning(r) \/ EnterWithoutLease(r) \/ FailSigning(r)
         \/ PersistOnResume(r) \/ FailSign(r) \/ NoEvidence(r) \/ ReconcileOnResume(r)
         \/ Ambiguous(r) \/ BroadcastEvidence(r) \/ Unconfirmed(r) \/ Confirm(r) \/ Settle(r)
  PROVE  /\ ~At(r, "idle") /\ UNCHANGED << current, sends >>
         /\ \E pc \in Careless : Goes(r, pc)
<1>1. runs \in [Runs -> Run]
  BY DEF PayoutInv, PayoutTypeOK
<1>2. CASE ReadState(r) \/ ReadLease(r) \/ AdmitOrphan(r) \/ Admit(r) \/ Readmit(r)
           \/ CreateFails(r)
  <2>1. ~At(r, "idle") /\ UNCHANGED << current, sends >>
    BY <1>2 DEF ReadState, ReadLease, AdmitOrphan, Admit, Readmit, CreateFails, At, allButRuns
  <2>2. PICK pc \in { "attempt", "admitOrphan", "createOrphan", "enter", "failSigning",
                      "create", "return" } :
          \E k, st, n : \/ Goto(r, pc) \/ GotoWith(r, pc, k)
                        \/ runs' = [runs EXCEPT ![r].pc = pc, ![r].st = st]
                        \/ runs' = [runs EXCEPT ![r].pc = pc, ![r].token = n]
                        \/ runs' = [runs EXCEPT ![r].pc = pc, ![r].seq = n]
    BY <1>2 DEF ReadState, ReadLease, AdmitOrphan, Admit, Readmit, CreateFails, Returning
  <2>3. pc \in Careless
    BY DEF Careless, ProgramCounters
  <2> QED
    BY <1>1, <2>1, <2>2, <2>3, RunGoes
<1>3. CASE CreateAttempt(r) \/ Sign(r) \/ ReloadAttempt(r) \/ Observe(r)
  <2>1. ~At(r, "idle") /\ UNCHANGED << current, sends >>
    BY <1>3 DEF CreateAttempt, Sign, ReloadAttempt, Observe, At, allButRuns, outsideTxn
  <2>2. PICK pc \in { "sign", "created", "persist", "repersist", "failSign", "observe",
                      "confirm", "unconfirmed" } : Goto(r, pc) \/ \E k : GotoWith(r, pc, k)
    BY <1>3 DEF CreateAttempt, Sign, ReloadAttempt, Observe
  <2>3. pc \in Careless
    BY DEF Careless, ProgramCounters
  <2> QED
    BY <1>1, <2>1, <2>2, <2>3, RunGoes
<1>4. CASE LoadApproved(r) \/ EnterSigning(r) \/ EnterWithoutLease(r) \/ FailSigning(r)
  <2>1. ~At(r, "idle") /\ UNCHANGED << current, sends >>
    BY <1>4 DEF LoadApproved, EnterSigning, EnterWithoutLease, FailSigning, At, outsideTxn
  <2>2. PICK pc \in { "admit", "readmit", "return" } :
          \E k, n : \/ Goto(r, pc) \/ GotoWith(r, pc, k)
                    \/ runs' = [runs EXCEPT ![r].pc = pc, ![r].token = n]
    BY <1>4 DEF LoadApproved, EnterSigning, EnterWithoutLease, FailSigning, Returning
  <2>3. pc \in Careless
    BY DEF Careless, ProgramCounters
  <2> QED
    BY <1>1, <2>1, <2>2, <2>3, RunGoes
<1>5. CASE PersistOnResume(r) \/ FailSign(r) \/ NoEvidence(r) \/ ReconcileOnResume(r)
           \/ Ambiguous(r) \/ BroadcastEvidence(r) \/ Unconfirmed(r) \/ Confirm(r) \/ Settle(r)
  <2>1. ~At(r, "idle") /\ UNCHANGED << current, sends >>
    BY <1>5 DEF PersistOnResume, FailSign, NoEvidence, ReconcileOnResume, Ambiguous,
                BroadcastEvidence, Unconfirmed, Confirm, Settle, At, outsideTxn
  <2>2. PICK pc \in { "reread", "return", "observe", "reload", "settle" } :
          Goto(r, pc) \/ \E k : GotoWith(r, pc, k)
    BY <1>5 DEF PersistOnResume, FailSign, NoEvidence, ReconcileOnResume, Ambiguous,
                BroadcastEvidence, Unconfirmed, Confirm, Settle, Returning
  <2>3. pc \in Careless
    BY DEF Careless, ProgramCounters
  <2> QED
    BY <1>1, <2>1, <2>2, <2>3, RunGoes
<1> QED
  BY <1>2, <1>3, <1>4, <1>5

\* A run writes no attempts but those of its withdrawal.
LEMMA OthersAttemptsStay ==
  ASSUME PayoutInv, NEW r \in Runs, Step(r), NEW v \in Ids \ { W(r) }
  PROVE  attempts'[v] = attempts[v]
<1>1. attempts' = attempts \/ \E as : attempts' = [attempts EXCEPT ![W(r)] = as]
  <2>1. CASE \/ ReadState(r) \/ ReadAttempt(r) \/ ReadLease(r) \/ AdmitOrphan(r)
             \/ ReadCreated(r) \/ Admit(r) \/ Readmit(r) \/ CreateFails(r)
             \/ ReadContext(r) \/ Reread(r) \/ Sign(r) \/ ReloadAttempt(r) \/ Observe(r)
    BY <2>1 DEF ReadState, ReadAttempt, ReadLease, AdmitOrphan, ReadCreated, Admit,
                Readmit, CreateFails, ReadContext, Reread, Sign, ReloadAttempt,
                Observe, allButRuns
  <2>2. CASE \/ LoadApproved(r) \/ EnterSigning(r) \/ EnterWithoutLease(r) \/ FailSigning(r)
             \/ ReconcileOnResume(r) \/ SendBoc(r) \/ Confirm(r) \/ Settle(r) \/ Finish(r)
    BY <2>2 DEF LoadApproved, EnterSigning, EnterWithoutLease, FailSigning,
                ReconcileOnResume, SendBoc, Confirm, Settle, Finish
  <2>3. CASE \/ CreateAttempt(r) \/ Persist(r) \/ PersistOnResume(r) \/ FailSign(r)
             \/ NoEvidence(r) \/ Submit(r) \/ SubmitOnResume(r) \/ Ambiguous(r)
             \/ BroadcastEvidence(r) \/ Unconfirmed(r)
    BY <2>3 DEF CreateAttempt, Persist, PersistOnResume, FailSign, NoEvidence, Submit,
                SubmitOnResume, Ambiguous, BroadcastEvidence, Unconfirmed, WriteAttempt
  <2> QED
    BY <2>1, <2>2, <2>3 DEF Step, AttemptStep, SignStep, SendStep
<1>2. attempts \in [Ids -> Seq(Attempt)]
  BY DEF PayoutInv, PayoutTypeOK
<1> QED
  BY <1>1, <1>2

\* The steps that ask nothing of the run.
LEMMA CarelessKeeps ==
  ASSUME PayoutInv, ResendInv, NEW r \in Runs, Step(r),
         ~At(r, "idle"), UNCHANGED << current, sends >>, NEW pc \in Careless, Goes(r, pc)
  PROVE  ResendInv'
<1>1. PayoutNext
  BY DEF PayoutNext
<1>2. \A v \in Ids \ { W(r) } : attempts'[v] = attempts[v]
  BY OthersAttemptsStay
<1>3. Once(runs'[r], attempts', sends)
  BY DEF Once, Careless, Goes
<1> QED
  BY <1>1, <1>2, <1>3, QuietStep

\* A run that reads decides to submit only what was not submitted when it read,
\* and nobody else submits for its withdrawal.
LEMMA SnapshotResends ==
  ASSUME PayoutInv, ResendInv, NEW r \in Runs, Step(r), ~At(r, "idle"),
         UNCHANGED allButRuns, Tries(r) # << >>, runs' = [runs EXCEPT ![r] = Snapshot(r)]
  PROVE  ResendInv'
<1> DEFINE x == Snapshot(r)
<1>1. /\ x \in Run /\ x.w = W(r) /\ x.pc = "context"
      /\ x.sub = attempts[W(r)][x.k].submitted
  BY AtWork, SnapshotIsSound
<1> HIDE DEF x
<1>2. runs' = [runs EXCEPT ![r] = x] /\ UNCHANGED << attempts, current, sends >>
  BY DEF x, allButRuns
<1>3. Goes(r, "context") /\ runs'[r] = x
  BY <1>1, <1>2, AtWork DEF Goes, W
<1>4. Once(runs'[r], attempts', sends)
  BY <1>1, <1>2, <1>3 DEF Once
<1>5. PayoutNext
  BY DEF PayoutNext
<1> QED
  BY <1>2, <1>3, <1>4, <1>5, QuietStep

LEMMA ResumeResends ==
  ASSUME PayoutInv, ResendInv, NEW r \in Runs, Step(r), ~At(r, "idle"),
         UNCHANGED allButRuns, NEW k, NEW st, NEW boc, NEW sub,
         boc /\ ~sub => ~attempts[W(r)][k].submitted,
         Resume(r, k, st, boc, sub)
  PROVE  ResendInv'
<1> DEFINE pc == ResumeAt(st, boc, sub)
           seen == IF pc \in { "noEvidence", "reconcile" } THEN st ELSE "NONE"
           x == [ IdleRun EXCEPT !.pc = pc, !.w = W(r), !.k = k, !.st = seen ]
<1>1. /\ pc \in { "settleOnly", "reconcile", "resubmit", "resign", "noEvidence" }
      /\ pc = "resubmit" => boc /\ ~sub
  BY DEF ResumeAt
<1>2. runs' = [runs EXCEPT ![r] = x] /\ UNCHANGED << attempts, current, sends >>
  BY DEF Resume, allButRuns
<1> HIDE DEF pc, seen
<1>3. x.pc = pc /\ x.w = W(r) /\ x.k = k
  BY DEF IdleRun
<1> HIDE DEF x
<1>4. Goes(r, pc) /\ runs'[r] = x
  BY <1>2, <1>3, AtWork DEF Goes, W
<1>5. Once(runs'[r], attempts', sends)
  BY <1>1, <1>2, <1>3, <1>4 DEF Once
<1>6. PayoutNext
  BY DEF PayoutNext
<1> QED
  BY <1>2, <1>4, <1>5, <1>6, QuietStep

LEMMA LookingResends ==
  ASSUME PayoutInv, ResendInv, NEW r \in Runs, Step(r),
         ReadAttempt(r) \/ ReadCreated(r) \/ ReadContext(r) \/ Reread(r)
  PROVE  ResendInv'
<1>1. ~At(r, "idle") /\ UNCHANGED allButRuns
  BY DEF ReadAttempt, ReadCreated, ReadContext, Reread, At
<1>2. CASE ReadAttempt(r)
  <2>1. \/ \E pc \in { "settleOnly", "orphan", "load" } : GotoWith(r, pc, 0)
        \/ Tries(r) # << >> /\ runs' = [runs EXCEPT ![r] = Snapshot(r)]
    BY <1>2 DEF ReadAttempt
  <2>2. ASSUME NEW pc \in { "settleOnly", "orphan", "load" }, GotoWith(r, pc, 0)
        PROVE  ResendInv'
    <3>1. pc \in Careless /\ UNCHANGED << current, sends >>
      BY <1>1 DEF Careless, ProgramCounters, allButRuns
    <3>2. Goes(r, pc)
      BY <1>1, <2>2, AtWork, RunGoes
    <3> QED
      BY <1>1, <3>1, <3>2, CarelessKeeps
  <2> QED
    BY <1>1, <2>1, <2>2, SnapshotResends
<1>3. CASE ReadCreated(r)
  <2>1. runs' = [runs EXCEPT ![r] = Snapshot(r)] /\ runs[r].pc = "created"
    BY <1>3 DEF ReadCreated, At
  <2>2. Tries(r) # << >>
    BY <1>1, <2>1, AtWork DEF SoundAt
  <2> QED
    BY <1>1, <2>1, <2>2, SnapshotResends
<1>4. CASE ReadContext(r)
  <2>1. /\ Resume(r, runs[r].k, State(r), runs[r].boc, runs[r].sub)
        /\ runs[r].pc = "context"
    BY <1>4 DEF ReadContext, At
  <2>2. runs[r].boc /\ ~runs[r].sub => ~attempts[W(r)][runs[r].k].submitted
    BY <2>1 DEF ResendInv, Once, W
  <2> QED
    BY <1>1, <2>1, <2>2, ResumeResends
<1>5. CASE Reread(r)
  <2>1. /\ Resume(r, Snapshot(r).k, "BROADCASTING", Snapshot(r).boc, Snapshot(r).sub)
        /\ runs[r].pc = "reread"
    BY <1>5 DEF Reread, At
  <2>2. Tries(r) # << >>
    <3>1. "reread" \in Working
      BY DEF Working
    <3> QED
      BY <1>1, <2>1, <3>1, AtWork, NotEmpty
  <2>3. Snapshot(r).sub = attempts[W(r)][Snapshot(r).k].submitted
    BY <1>1, <2>2, AtWork, SnapshotIsSound
  <2> QED
    BY <1>1, <2>1, <2>3, ResumeResends
<1> QED
  BY <1>2, <1>3, <1>4, <1>5

\* A run at submit holds an attempt of which nothing was submitted ...
LEMMA PersistResends ==
  ASSUME PayoutInv, ResendInv, NEW r \in Runs, Step(r), Persist(r) PROVE ResendInv'
<1> DEFINE a == WithBoc(Try(r))
<1>1. /\ runs[r].pc \in Working /\ ~At(r, "idle") /\ WriteAttempt(r, a)
      /\ ~Try(r).submitted /\ Goto(r, "submit") /\ UNCHANGED << current, sends >>
  BY DEF Persist, At, Working, Unsent, outsideTxn
<1>2. /\ W(r) \in Ids /\ runs[r].k \in DOMAIN attempts[W(r)] /\ Try(r) \in Attempt
      /\ runs \in [Runs -> Run] /\ attempts \in [Ids -> Seq(Attempt)]
      /\ Tries(r) = attempts[W(r)]
  BY <1>1, AtWork
<1>3. a \in Attempt /\ ~a.submitted
  <2>1. a \in Attempt /\ a.submitted = Try(r).submitted
    BY <1>2, AttemptWrites DEF Results
  <2> QED
    BY <1>1, <2>1
<1>4. Rewritten(W(r), runs[r].k, a)
  BY <1>1, <1>2, <1>3, Rewrites
<1> HIDE DEF a
<1>5. Moved(r, "submit", runs[r].k)
  BY <1>1, <1>2, Going DEF ProgramCounters
<1>6. Goes(r, "submit") /\ Once(runs'[r], attempts', sends)
  BY <1>2, <1>3, <1>4, <1>5 DEF Goes, Moved, Once, Rewritten, W
<1>7. \A v \in Ids \ { W(r) } : attempts'[v] = attempts[v]
  BY <1>4 DEF Rewritten
<1>8. PayoutNext
  BY DEF PayoutNext
<1> QED
  BY <1>1, <1>6, <1>7, <1>8, QuietStep

\* ... so it is the first to submit, and nothing was sent before.
LEMMA SubmitResends ==
  ASSUME PayoutInv, ResendInv, NEW r \in Runs, Step(r), Submit(r) \/ SubmitOnResume(r)
  PROVE  ResendInv'
<1>1. /\ runs[r].pc \in { "submit", "resubmit" } /\ Goto(r, "send")
      /\ UNCHANGED << current, sends >>
  BY DEF Submit, SubmitOnResume, At, outsideTxn
<1>2. runs[r].pc \in Working
  BY <1>1 DEF Working
<1>3. /\ W(r) \in Ids /\ runs[r].k \in DOMAIN attempts[W(r)] /\ ~At(r, "idle")
      /\ Try(r) = attempts[W(r)][runs[r].k] /\ runs \in [Runs -> Run]
  BY <1>2, OfTry, AtWork
<1>4. Try(r).boc /\ ~Try(r).submitted
  BY <1>1, <1>2, <1>3, OfTry DEF ResendInv, Once, W
<1>5. \A j \in DOMAIN attempts[W(r)] : ~attempts[W(r)][j].submitted
  <2>1. Message(wd[W(r)].state, attempts[W(r)])
    BY <1>3 DEF PayoutInv, MessageInv
  <2> QED
    BY <1>3, <1>4, <2>1 DEF Message
<1>6. sends[W(r)] = 0
  BY <1>3, <1>5 DEF ResendInv, SendInv
<1>7. Goes(r, "send") /\ runs'[r].w = W(r)
  BY <1>1, <1>3, RunGoes DEF Goes, W
<1>8. Once(runs'[r], attempts', sends)
  BY <1>6, <1>7 DEF Once, Goes
<1>9. PayoutNext /\ \A v \in Ids \ { W(r) } : attempts'[v] = attempts[v]
  BY OthersAttemptsStay DEF PayoutNext
<1> QED
  BY <1>1, <1>3, <1>7, <1>8, <1>9, QuietStep

LEMMA SendResends ==
  ASSUME PayoutInv, ResendInv, NEW r \in Runs, SendBoc(r) PROVE ResendInv'
<1>1. /\ runs[r].pc = "send" /\ sends' = [sends EXCEPT ![W(r)] = @ + 1]
      /\ UNCHANGED << attempts, current >>
      /\ \E pc \in { "evidence", "ambiguous" } : Goto(r, pc)
  BY DEF SendBoc, At
<1>2. runs[r].pc \in Working
  BY <1>1 DEF Working
<1>3. /\ W(r) \in Ids /\ runs[r].k \in DOMAIN attempts[W(r)] /\ ~At(r, "idle")
      /\ Try(r) = attempts[W(r)][runs[r].k] /\ runs \in [Runs -> Run]
  BY <1>2, OfTry, AtWork
<1>4. attempts[W(r)][runs[r].k].submitted
  BY <1>1, <1>2, <1>3, OfTry
<1>5. sends \in [Ids -> Nat] /\ sends[W(r)] = 0
  BY <1>1 DEF PayoutInv, PayoutTypeOK, ResendInv, Once, W
<1>6. sends'[W(r)] = 1 /\ \A v \in Ids \ { W(r) } : sends'[v] = sends[v]
  BY <1>1, <1>3, <1>5
<1>7. PICK pc \in { "evidence", "ambiguous" } : Goto(r, pc)
  BY <1>1
<1>8. Goes(r, pc) /\ Once(runs'[r], attempts', sends')
  <2>1. Goes(r, pc)
    BY <1>3, <1>7, RunGoes
  <2> QED
    BY <2>1 DEF Once, Goes
<1>9. /\ sends'[W(r)] <= 1
      /\ \E j \in DOMAIN attempts'[W(r)] : attempts'[W(r)][j].submitted
      /\ \A v \in Ids \ { W(r) } : attempts'[v] = attempts[v] /\ sends'[v] = sends[v]
  BY <1>1, <1>3, <1>4, <1>6
<1> QED
  BY <1>1, <1>3, <1>8, <1>9, OwnStep

\* Nothing of the attempts, the sends and the runs at work changes but by a run
\* that starts when there is none, or one that ends.
LEMMA EndResends ==
  ASSUME PayoutInv, ResendInv, NEW r \in Runs, Finish(r) \/ Fail(r) PROVE ResendInv'
<1>1. /\ ~At(r, "idle") /\ RunEnds(r) /\ UNCHANGED << attempts, sends >>
  BY DEF Finish, Fail, At
<1>2. /\ W(r) \in Ids /\ runs \in [Runs -> Run] /\ current \in [Ids -> Runs \cup { NoRun }]
  BY <1>1, AtWork DEF PayoutInv, PayoutTypeOK
<1>3. /\ runs'[r] = IdleRun /\ \A t \in Runs \ { r } : runs'[t] = runs[t]
      /\ \A v \in Ids \ { W(r) } : current'[v] = current[v]
  BY <1>1, <1>2 DEF RunEnds
<1>4. IdleRun.pc = "idle"
  BY DEF IdleRun
<1>5. ASSUME NEW t \in Runs, runs'[t].pc # "idle"
      PROVE  /\ t # r /\ runs'[t] = runs[t]
             /\ current'[runs'[t].w] = t
  <2>1. t # r /\ runs'[t] = runs[t]
    BY <1>3, <1>4, <1>5
  <2>2. current[runs[t].w] = t /\ current[W(r)] = r
    BY <1>1, <1>5, <2>1 DEF ResendInv, SoleRun, At, W
  <2>3. runs[t].w \in Ids \ { W(r) }
    BY <1>5, <2>1, <2>2, AtWork DEF At, W
  <2> QED
    BY <1>3, <2>1, <2>2, <2>3
<1>6. SoleRun'
  BY <1>5 DEF SoleRun
<1>7. \A t \in Runs : Once(runs'[t], attempts', sends')
  <2>1. Once(IdleRun, attempts', sends')
    BY <1>4 DEF Once
  <2> QED
    BY <1>1, <1>3, <2>1 DEF ResendInv
<1>8. SendInv'
  BY <1>1 DEF ResendInv, SendInv
<1> QED
  BY <1>6, <1>7, <1>8 DEF ResendInv

LEMMA StartResends ==
  ASSUME PayoutInv, ResendInv, NEW r \in Runs, NEW w \in Ids, StartRun(r, w) PROVE ResendInv'
<1> DEFINE x == [IdleRun EXCEPT !.pc = "start", !.w = w]
<1>1. /\ runs' = [runs EXCEPT ![r] = x] /\ current' = [current EXCEPT ![w] = r]
      /\ current[w] = NoRun /\ UNCHANGED << attempts, sends >>
  BY DEF StartRun
<1>2. x.pc = "start" /\ x.w = w
  BY DEF IdleRun
<1> HIDE DEF x
<1>3. runs \in [Runs -> Run] /\ current \in [Ids -> Runs \cup { NoRun }]
  BY DEF PayoutInv, PayoutTypeOK
<1>4. /\ runs'[r] = x /\ \A t \in Runs \ { r } : runs'[t] = runs[t]
      /\ current'[w] = r /\ \A v \in Ids \ { w } : current'[v] = current[v]
  BY <1>1, <1>3
<1>5. ASSUME NEW t \in Runs, runs'[t].pc # "idle" PROVE current'[runs'[t].w] = t
  <2>1. CASE t = r
    BY <1>2, <1>4, <2>1
  <2>2. CASE t # r
    <3>1. runs'[t] = runs[t] /\ current[runs[t].w] = t
      BY <1>4, <1>5, <2>2 DEF ResendInv, SoleRun
    <3>2. runs[t].w \in Ids
      BY <1>5, <3>1, AtWork DEF At, W
    <3>3. runs[t].w # w
      BY <1>1, <3>1, RunsAssumption
    <3> QED
      BY <1>4, <3>1, <3>2, <3>3
  <2> QED
    BY <2>1, <2>2
<1>6. SoleRun'
  BY <1>5 DEF SoleRun
<1>7. \A t \in Runs : Once(runs'[t], attempts', sends')
  <2>1. Once(x, attempts', sends')
    BY <1>2 DEF Once
  <2> QED
    BY <1>1, <1>4, <2>1 DEF ResendInv
<1>8. SendInv'
  BY <1>1 DEF ResendInv, SendInv
<1> QED
  BY <1>6, <1>7, <1>8 DEF ResendInv

LEMMA ResendKeeps ==
  ASSUME ~Zombies, PayoutInv, ResendInv, [PayoutNext]_vars PROVE ResendInv'
<1>1. CASE UNCHANGED << attempts, runs, current, sends >>
  BY <1>1 DEF ResendInv, SoleRun, SendInv
<1>2. ASSUME NEW r \in Runs, Step(r) PROVE ResendInv'
  <2>1. CASE \/ ReadState(r) \/ ReadLease(r) \/ AdmitOrphan(r) \/ Admit(r) \/ Readmit(r)
             \/ CreateFails(r) \/ CreateAttempt(r) \/ Sign(r) \/ ReloadAttempt(r) \/ Observe(r)
             \/ LoadApproved(r) \/ EnterSigning(r) \/ EnterWithoutLease(r) \/ FailSigning(r)
             \/ PersistOnResume(r) \/ FailSign(r) \/ NoEvidence(r) \/ ReconcileOnResume(r)
             \/ Ambiguous(r) \/ BroadcastEvidence(r) \/ Unconfirmed(r) \/ Confirm(r)
             \/ Settle(r)
    BY <1>2, <2>1, CarelessSteps, CarelessKeeps
  <2>2. CASE ReadAttempt(r) \/ ReadCreated(r) \/ ReadContext(r) \/ Reread(r)
    BY <1>2, <2>2, LookingResends
  <2>3. CASE Persist(r)
    BY <1>2, <2>3, PersistResends
  <2>4. CASE Submit(r) \/ SubmitOnResume(r)
    BY <1>2, <2>4, SubmitResends
  <2>5. CASE SendBoc(r)
    BY <2>5, SendResends
  <2>6. CASE Finish(r)
    BY <2>6, EndResends
  <2> QED
    BY <1>2, <2>1, <2>2, <2>3, <2>4, <2>5, <2>6 DEF Step, AttemptStep, SignStep, SendStep
<1>3. ASSUME NEW r \in Runs, Fail(r) PROVE ResendInv'
  BY <1>3, EndResends
<1>4. ASSUME NEW r \in Runs, NEW w \in Ids, StartRun(r, w) PROVE ResendInv'
  BY <1>4, StartResends
<1>5. ASSUME \/ \E w \in Ids : OfficeStep(w) \/ Recover(w)
             \/ LeaseExpires
             \/ \E m \in chain.mempool : WalletExecutes(m) \/ MessageLost(m)
             \/ UNCHANGED vars
      PROVE  UNCHANGED << attempts, runs, current, sends >>
  BY <1>5 DEF OfficeStep, Recover, RecoverSigning, LeaseExpires, WalletExecutes, MessageLost,
              vars
<1>6. \A w \in Ids : ~Timeout(w)
  BY DEF Timeout
<1> QED
  BY <1>1, <1>2, <1>3, <1>4, <1>5, <1>6 DEF PayoutNext

LEMMA ResendStarts == PayoutInit => ResendInv
<1> SUFFICES ASSUME PayoutInit PROVE ResendInv
  OBVIOUS
<1>1. runs = [r \in Runs |-> IdleRun] /\ sends = [w \in Ids |-> 0] /\ IdleRun.pc = "idle"
  BY DEF PayoutInit, IdleRun
<1> QED
  BY <1>1 DEF ResendInv, SoleRun, Once, SendInv

\* NO BLIND RESEND: when no run outlives the timeout of its activity, sendBoc is
\* called at most once for a withdrawal, over all crashes and retries.
THEOREM NothingIsResent == ASSUME ~Zombies PROVE PayoutSpec => []NoBlindResend
<1>1. ResendInv => NoBlindResend
  BY DEF ResendInv, SendInv, NoBlindResend
<1>2. PayoutInv /\ ResendInv /\ [PayoutNext]_vars => ResendInv'
  BY ResendKeeps
<1> QED
  BY <1>1, <1>2, ResendStarts, PayoutInvariant, PTL DEF PayoutSpec

-----------------------------------------------------------------------------
(* The pipeline uses the lease as LeaseProtocol says.                      *)

\* The attempts of a withdrawal: the message is persisted on the latest, which
\* has not failed, and only what has a message has an ambiguous result.
Kept(as) ==
  \A k \in DOMAIN as :
    /\ as[k].boc => k = Len(as) /\ as[k].result # "FAILED_PRE_BROADCAST"
    /\ as[k].result \in UnresolvedResults => as[k].boc
    /\ as[k].fence \in 1 .. MaxToken

\* What a run without company knows of its attempt: it signs and closes one that
\* has no message, persists the latest while it is PENDING, and observes one that
\* has its message.
Unsigned == { "sign", "persist", "resign", "repersist", "failSign", "noEvidence" }
OnLatest == { "sign", "persist", "resign", "repersist", "context" }

Careful(x, as) ==
  /\ x.pc \in Unsigned => ~as[x.w][x.k].boc
  /\ x.pc \in OnLatest => x.k = Len(as[x.w])
  /\ x.pc \in { "persist", "repersist" } => as[x.w][x.k].result = "PENDING"
  /\ x.pc = "context" => (as[x.w][x.k].boc => x.boc)
  /\ x.pc \in { "observe", "unconfirmed" } => as[x.w][x.k].boc
  /\ x.pc = "reload" => as[x.w][Len(as[x.w])].boc

LeaseCounts(l) == l.token <= MaxToken /\ (l.owner # NoOwner => l.token >= 1)

LeaseInv ==
  /\ nonpayment = [w \in Ids |-> {}]
  /\ LeaseCounts(lease)
  /\ \A w \in Ids : Kept(attempts[w])
  /\ \A r \in Runs : Careful(runs[r], attempts)

LEMMA LeaseStarts == PayoutInit => LeaseInv
<1> SUFFICES ASSUME PayoutInit PROVE LeaseInv
  OBVIOUS
<1>1. /\ runs = [r \in Runs |-> IdleRun] /\ attempts = [w \in Ids |-> << >>]
      /\ lease = NoLease /\ nonpayment = [w \in Ids |-> {}]
  BY DEF PayoutInit, ReviewInit
<1>2. \A r \in Runs : Careful(runs[r], attempts)
  BY <1>1 DEF IdleRun, Careful, Unsigned, OnLatest
<1>3. LeaseCounts(lease)
  BY <1>1, RunsAssumption DEF NoLease, LeaseCounts
<1>4. \A w \in Ids : Kept(attempts[w])
  BY <1>1 DEF Kept
<1> QED
  BY <1>1, <1>2, <1>3, <1>4 DEF LeaseInv

-----------------------------------------------------------------------------
(* The steps of a run keep this.                                           *)

\* Only the withdrawal of run r is written, and r goes on carefully.
LEMMA CarefulStep ==
  ASSUME PayoutInv, ResendInv, LeaseInv, NEW r \in Runs, ~At(r, "idle"),
         NEW pc, Goes(r, pc), \A v \in Ids \ { W(r) } : attempts'[v] = attempts[v],
         nonpayment' = nonpayment, LeaseCounts(lease'),
         Kept(attempts'[W(r)]), Careful(runs'[r], attempts')
  PROVE  LeaseInv'
<1>1. W(r) \in Ids /\ runs[r].w = W(r)
  BY AtWork DEF W
<1>2. ASSUME NEW t \in Runs PROVE Careful(runs'[t], attempts')
  <2>1. CASE t = r
    BY <2>1
  <2>2. CASE t # r /\ runs[t].pc = "idle"
    BY <2>2 DEF Goes, Careful, Unsigned, OnLatest
  <2>3. CASE t # r /\ runs[t].pc # "idle"
    <3>1. runs'[t] = runs[t] /\ Careful(runs[t], attempts)
      BY <2>3 DEF Goes, LeaseInv
    <3>2. runs[t].w # W(r)
      BY <1>1, <2>3 DEF ResendInv, SoleRun, At
    <3>3. runs[t].w \in Ids
      BY <2>3, AtWork DEF At, W
    <3>4. attempts'[runs[t].w] = attempts[runs[t].w]
      BY <3>2, <3>3
    <3> QED
      BY <3>1, <3>4 DEF Careful
  <2> QED
    BY <2>1, <2>2, <2>3
<1>3. \A w \in Ids : Kept(attempts'[w])
  BY DEF LeaseInv
<1> QED
  BY <1>2, <1>3 DEF LeaseInv

\* Where a run need not be careful.
Easy == ProgramCounters \ (Unsigned \cup OnLatest \cup { "observe", "unconfirmed", "reload" })

LEMMA EasyIsCareful ==
  ASSUME NEW x, x.pc \in Easy, NEW as PROVE Careful(x, as)
  BY DEF Easy, Careful, Unsigned, OnLatest

\* A run that writes no attempt.
LEMMA ReadingCarefully ==
  ASSUME PayoutInv, ResendInv, LeaseInv, NEW r \in Runs, ~At(r, "idle"),
         NEW pc, Goes(r, pc), UNCHANGED << attempts, nonpayment >>, LeaseCounts(lease'),
         Careful(runs'[r], attempts)
  PROVE  LeaseInv'
<1>1. Kept(attempts'[W(r)])
  BY AtWork DEF LeaseInv
<1>2. Careful(runs'[r], attempts')
  OBVIOUS
<1> QED
  BY <1>1, <1>2, CarefulStep

\* A lease that is released, or has expired, or was acquired within the bound.
LEMMA LeaseMoves ==
  ASSUME NEW l \in Lease, LeaseCounts(l), NEW o \in Ids, NEW token
  PROVE  /\ LeaseCounts(ReleasedBy(l, o, token)) /\ LeaseCounts(Expired(l))
         /\ LeaseCounts([l EXCEPT !.released = TRUE])
         /\ Acquired(l, o).token <= MaxToken => LeaseCounts(Acquired(l, o))
<1>1. /\ LeaseCounts([l EXCEPT !.released = TRUE]) /\ LeaseCounts(Expired(l))
      /\ LeaseCounts(Renewed(l))
  BY DEF Lease, LeaseCounts, Expired, Renewed
<1>2. Taken(l, o).token <= MaxToken => LeaseCounts(Taken(l, o))
  BY DEF Lease, LeaseCounts, Taken
<1> QED
  BY <1>1, <1>2 DEF ReleasedBy, Acquired

\* The steps that write no attempt and ask nothing of the attempts.
LEMMA EasySteps ==
  ASSUME PayoutInv, LeaseInv, NEW r \in Runs,
         \/ ReadState(r) \/ ReadLease(r) \/ AdmitOrphan(r) \/ Admit(r) \/ Readmit(r)
         \/ CreateFails(r) \/ LoadApproved(r) \/ EnterSigning(r) \/ EnterWithoutLease(r)
         \/ FailSigning(r) \/ Confirm(r) \/ Settle(r) \/ SendBoc(r)
  PROVE  /\ ~At(r, "idle") /\ UNCHANGED << attempts, nonpayment >> /\ LeaseCounts(lease')
         /\ \E pc \in Easy : Goes(r, pc)
<1>1. runs \in [Runs -> Run] /\ lease \in Lease /\ LeaseCounts(lease)
  BY DEF PayoutInv, PayoutTypeOK, LeaseInv
<1>2. CASE ReadState(r) \/ ReadLease(r) \/ AdmitOrphan(r) \/ Admit(r) \/ Readmit(r)
           \/ CreateFails(r)
  <2>1. ~At(r, "idle") /\ UNCHANGED << attempts, nonpayment, lease >>
    BY <1>2 DEF ReadState, ReadLease, AdmitOrphan, Admit, Readmit, CreateFails, At, allButRuns,
                rowVars
  <2>2. PICK pc \in { "attempt", "admitOrphan", "createOrphan", "enter", "failSigning",
                      "create", "return" } :
          \E k, st, n : \/ Goto(r, pc) \/ GotoWith(r, pc, k)
                        \/ runs' = [runs EXCEPT ![r].pc = pc, ![r].st = st]
                        \/ runs' = [runs EXCEPT ![r].pc = pc, ![r].token = n]
                        \/ runs' = [runs EXCEPT ![r].pc = pc, ![r].seq = n]
    BY <1>2 DEF ReadState, ReadLease, AdmitOrphan, Admit, Readmit, CreateFails, Returning
  <2>3. pc \in Easy
    BY DEF Easy, ProgramCounters, Unsigned, OnLatest
  <2> QED
    BY <1>1, <2>1, <2>2, <2>3, RunGoes
<1>3. CASE LoadApproved(r) \/ EnterSigning(r) \/ EnterWithoutLease(r) \/ FailSigning(r)
  <2>1. ~At(r, "idle") /\ UNCHANGED << attempts, nonpayment >>
    BY <1>3 DEF LoadApproved, EnterSigning, EnterWithoutLease, FailSigning, At, outsideTxn, rowsButWd
  <2>2. PICK pc \in { "admit", "readmit", "return" } :
          \E k, n : \/ Goto(r, pc) \/ GotoWith(r, pc, k)
                    \/ runs' = [runs EXCEPT ![r].pc = pc, ![r].token = n]
    BY <1>3 DEF LoadApproved, EnterSigning, EnterWithoutLease, FailSigning, Returning
  <2>3. pc \in Easy
    BY DEF Easy, ProgramCounters, Unsigned, OnLatest
  <2>4. \/ lease' = lease \/ lease' = ReleasedBy(lease, W(r), runs[r].token)
        \/ lease' = Acquired(lease, W(r)) /\ Acquired(lease, W(r)).token <= MaxToken
    BY <1>3 DEF LoadApproved, EnterSigning, EnterWithoutLease, FailSigning
  <2>5. LeaseCounts(lease')
    <3>1. W(r) \in Ids
      BY <2>1, AtWork
    <3>2. /\ LeaseCounts(ReleasedBy(lease, W(r), runs[r].token))
          /\ Acquired(lease, W(r)).token <= MaxToken => LeaseCounts(Acquired(lease, W(r)))
      BY <1>1, <3>1, LeaseMoves
    <3> QED
      BY <1>1, <2>4, <3>2
  <2> QED
    BY <1>1, <2>1, <2>2, <2>3, <2>5, RunGoes
<1>4. CASE Confirm(r) \/ Settle(r) \/ SendBoc(r)
  <2>1. ~At(r, "idle") /\ UNCHANGED << attempts, nonpayment >>
    BY <1>4 DEF Confirm, Settle, SendBoc, At, outsideTxn, rowsButWd, rowVars
  <2>2. PICK pc \in { "settle", "return", "evidence", "ambiguous" } :
          Goto(r, pc) \/ \E k : GotoWith(r, pc, k)
    BY <1>4 DEF Confirm, Settle, SendBoc, Returning
  <2>3. pc \in Easy
    BY DEF Easy, ProgramCounters, Unsigned, OnLatest
  <2>4. lease' = lease \/ lease' = [lease EXCEPT !.released = TRUE]
    BY <1>4 DEF Confirm, Settle, SendBoc
  <2>5. LeaseCounts(lease')
    BY <1>1, <2>1, <2>4, AtWork, LeaseMoves
  <2> QED
    BY <1>1, <2>1, <2>2, <2>3, <2>5, RunGoes
<1> QED
  BY <1>2, <1>3, <1>4

LEMMA EasyKeeps ==
  ASSUME PayoutInv, ResendInv, LeaseInv, NEW r \in Runs, ~At(r, "idle"),
         UNCHANGED << attempts, nonpayment >>, LeaseCounts(lease'), NEW pc \in Easy, Goes(r, pc)
  PROVE  LeaseInv'
<1>1. Careful(runs'[r], attempts)
  BY EasyIsCareful DEF Goes
<1> QED
  BY <1>1, ReadingCarefully

\* A run that has read the latest attempt, or goes on with it.
LEMMA SnapshotIsCareful ==
  ASSUME PayoutInv, ResendInv, LeaseInv, NEW r \in Runs, ~At(r, "idle"),
         UNCHANGED allButRuns, Tries(r) # << >>, runs' = [runs EXCEPT ![r] = Snapshot(r)]
  PROVE  LeaseInv'
<1> DEFINE x == Snapshot(r)
<1>1. /\ x \in Run /\ x.w = W(r) /\ x.pc = "context" /\ x.k = Len(attempts[W(r)])
      /\ x.boc = attempts[W(r)][x.k].boc
  BY AtWork, SnapshotIsSound
<1> HIDE DEF x
<1>2. runs' = [runs EXCEPT ![r] = x] /\ UNCHANGED << attempts, nonpayment, lease >>
  BY DEF x, allButRuns, rowVars
<1>3. Goes(r, "context") /\ runs'[r] = x
  BY <1>1, <1>2, AtWork DEF Goes, W
<1>4. Careful(runs'[r], attempts)
  BY <1>1, <1>3 DEF Careful, Unsigned
<1>5. LeaseCounts(lease')
  BY <1>2 DEF LeaseInv
<1> QED
  BY <1>2, <1>3, <1>4, <1>5, ReadingCarefully

LEMMA ResumeIsCareful ==
  ASSUME PayoutInv, ResendInv, LeaseInv, NEW r \in Runs, ~At(r, "idle"),
         UNCHANGED allButRuns, NEW k, k = Len(attempts[W(r)]), NEW st, NEW boc, NEW sub,
         attempts[W(r)][k].boc => boc,
         Resume(r, k, st, boc, sub)
  PROVE  LeaseInv'
<1> DEFINE pc == ResumeAt(st, boc, sub)
           seen == IF pc \in { "noEvidence", "reconcile" } THEN st ELSE "NONE"
           x == [ IdleRun EXCEPT !.pc = pc, !.w = W(r), !.k = k, !.st = seen ]
<1>1. /\ pc \in { "settleOnly", "reconcile", "resubmit", "resign", "noEvidence" }
      /\ pc \in { "resign", "noEvidence" } => ~boc
  BY DEF ResumeAt
<1>2. runs' = [runs EXCEPT ![r] = x] /\ UNCHANGED << attempts, nonpayment, lease >>
  BY DEF Resume, allButRuns, rowVars
<1> HIDE DEF pc, seen
<1>3. x.pc = pc /\ x.w = W(r) /\ x.k = k
  BY DEF IdleRun
<1> HIDE DEF x
<1>4. Goes(r, pc) /\ runs'[r] = x
  BY <1>2, <1>3, AtWork DEF Goes, W
<1>5. Careful(runs'[r], attempts)
  BY <1>1, <1>3, <1>4 DEF Careful, Unsigned, OnLatest
<1>6. LeaseCounts(lease')
  BY <1>2 DEF LeaseInv
<1> QED
  BY <1>2, <1>4, <1>5, <1>6, ReadingCarefully

LEMMA LookingCarefully ==
  ASSUME PayoutInv, ResendInv, LeaseInv, NEW r \in Runs,
         ReadAttempt(r) \/ ReadCreated(r) \/ ReadContext(r) \/ Reread(r)
  PROVE  LeaseInv'
<1>1. ~At(r, "idle") /\ UNCHANGED allButRuns
  BY DEF ReadAttempt, ReadCreated, ReadContext, Reread, At
<1>2. CASE ReadAttempt(r)
  <2>1. \/ \E pc \in { "settleOnly", "orphan", "load" } : GotoWith(r, pc, 0)
        \/ Tries(r) # << >> /\ runs' = [runs EXCEPT ![r] = Snapshot(r)]
    BY <1>2 DEF ReadAttempt
  <2>2. ASSUME NEW pc \in { "settleOnly", "orphan", "load" }, GotoWith(r, pc, 0)
        PROVE  LeaseInv'
    <3>1. pc \in Easy /\ UNCHANGED << attempts, nonpayment >> /\ LeaseCounts(lease')
      BY <1>1 DEF Easy, ProgramCounters, Unsigned, OnLatest, allButRuns, rowVars, LeaseInv
    <3>2. Goes(r, pc)
      BY <1>1, <2>2, AtWork, RunGoes
    <3> QED
      BY <1>1, <3>1, <3>2, EasyKeeps
  <2> QED
    BY <1>1, <2>1, <2>2, SnapshotIsCareful
<1>3. CASE ReadCreated(r)
  <2>1. runs' = [runs EXCEPT ![r] = Snapshot(r)] /\ runs[r].pc = "created"
    BY <1>3 DEF ReadCreated, At
  <2>2. Tries(r) # << >>
    BY <1>1, <2>1, AtWork DEF SoundAt
  <2> QED
    BY <1>1, <2>1, <2>2, SnapshotIsCareful
<1>4. CASE ReadContext(r)
  <2>1. /\ Resume(r, runs[r].k, State(r), runs[r].boc, runs[r].sub)
        /\ runs[r].pc = "context"
    BY <1>4 DEF ReadContext, At
  <2>2. /\ runs[r].k = Len(attempts[W(r)])
        /\ attempts[W(r)][runs[r].k].boc => runs[r].boc
    BY <2>1 DEF LeaseInv, Careful, OnLatest, W
  <2> QED
    BY <1>1, <2>1, <2>2, ResumeIsCareful
<1>5. CASE Reread(r)
  <2>1. /\ Resume(r, Snapshot(r).k, "BROADCASTING", Snapshot(r).boc, Snapshot(r).sub)
        /\ runs[r].pc = "reread"
    BY <1>5 DEF Reread, At
  <2>2. Tries(r) # << >>
    <3>1. "reread" \in Working
      BY DEF Working
    <3> QED
      BY <1>1, <2>1, <3>1, AtWork, NotEmpty
  <2>3. /\ Snapshot(r).k = Len(attempts[W(r)])
        /\ Snapshot(r).boc = attempts[W(r)][Snapshot(r).k].boc
    BY <1>1, <2>2, AtWork, SnapshotIsSound
  <2> QED
    BY <1>1, <2>1, <2>3, ResumeIsCareful
<1> QED
  BY <1>2, <1>3, <1>4, <1>5

\* What a run looks at before it goes on.
LEMMA GoingCarefully ==
  ASSUME PayoutInv, ResendInv, LeaseInv, NEW r \in Runs,
         Sign(r) \/ ReloadAttempt(r) \/ Observe(r) \/ ReconcileOnResume(r)
  PROVE  LeaseInv'
<1>1. /\ ~At(r, "idle") /\ UNCHANGED << attempts, nonpayment, lease >>
      /\ runs \in [Runs -> Run] /\ LeaseCounts(lease')
  BY DEF Sign, ReloadAttempt, Observe, ReconcileOnResume, At, allButRuns, rowVars, outsideTxn,
         rowsButWd, LeaseInv, PayoutInv, PayoutTypeOK
<1>2. W(r) \in Ids /\ runs[r].w = W(r) /\ Careful(runs[r], attempts) /\ Tries(r) = attempts[W(r)]
  BY <1>1, AtWork DEF LeaseInv, W
<1>3. CASE Sign(r)
  <2>1. runs[r].pc \in { "sign", "resign" } /\ Try(r) = attempts[W(r)][runs[r].k]
    BY <1>2, <1>3 DEF Sign, At, Try
  <2>2. /\ ~attempts[W(r)][runs[r].k].boc /\ runs[r].k = Len(attempts[W(r)])
    BY <1>2, <2>1 DEF Careful, Unsigned, OnLatest
  <2>3. PICK pc \in { "persist", "repersist", "failSign" } :
          Goto(r, pc) /\ (pc # "failSign" => Try(r).result = "PENDING")
    BY <1>3 DEF Sign, SignerAccepts
  <2>4. Moved(r, pc, runs[r].k)
    <3>1. pc \in ProgramCounters
      BY DEF ProgramCounters
    <3> QED
      BY <1>1, <2>3, <3>1, Going
  <2>5. Goes(r, pc)
    BY <2>4 DEF Moved, Goes
  <2>6. Careful(runs'[r], attempts)
    BY <1>2, <2>1, <2>2, <2>3, <2>4 DEF Careful, Unsigned, OnLatest, Moved
  <2> QED
    BY <1>1, <2>5, <2>6, ReadingCarefully
<1>4. CASE ReloadAttempt(r)
  <2>1. runs[r].pc = "reload" /\ GotoWith(r, "observe", Len(attempts[W(r)]))
    BY <1>2, <1>4 DEF ReloadAttempt, At
  <2>2. attempts[W(r)][Len(attempts[W(r)])].boc
    BY <1>2, <2>1 DEF Careful
  <2>3. Len(attempts[W(r)]) \in Nat
    BY <1>1, AtWork
  <2>4. Moved(r, "observe", Len(attempts[W(r)]))
    BY <1>1, <2>1, <2>3, GoingWith DEF ProgramCounters
  <2>5. Goes(r, "observe") /\ Careful(runs'[r], attempts)
    BY <1>2, <2>2, <2>4 DEF Moved, Goes, Careful, Unsigned, OnLatest
  <2> QED
    BY <1>1, <2>5, ReadingCarefully
<1>5. CASE Observe(r)
  <2>1. runs[r].pc = "observe"
    BY <1>5 DEF Observe, At
  <2>2. PICK pc \in { "confirm", "unconfirmed" } : Goto(r, pc)
    BY <1>5 DEF Observe
  <2>3. Moved(r, pc, runs[r].k)
    <3>1. pc \in ProgramCounters
      BY DEF ProgramCounters
    <3> QED
      BY <1>1, <2>2, <3>1, Going
  <2>4. attempts[W(r)][runs[r].k].boc
    BY <1>2, <2>1 DEF Careful
  <2>5. Goes(r, pc) /\ Careful(runs'[r], attempts)
    BY <1>2, <2>3, <2>4 DEF Moved, Goes, Careful, Unsigned, OnLatest
  <2> QED
    BY <1>1, <2>5, ReadingCarefully
<1>6. CASE ReconcileOnResume(r)
  <2>1. runs[r].pc = "reconcile" /\ runs[r].pc \in Working /\ GotoWith(r, "observe", runs[r].k)
    BY <1>6 DEF ReconcileOnResume, At, Working
  <2>2. Try(r).boc /\ Try(r) = attempts[W(r)][runs[r].k] /\ runs[r].k \in Nat
    BY <1>1, <2>1, OfTry, AtWork
  <2>3. Moved(r, "observe", runs[r].k)
    BY <1>1, <2>1, <2>2, GoingWith DEF ProgramCounters
  <2>4. Goes(r, "observe") /\ Careful(runs'[r], attempts)
    BY <1>2, <2>2, <2>3 DEF Moved, Goes, Careful, Unsigned, OnLatest
  <2> QED
    BY <1>1, <2>4, ReadingCarefully
<1> QED
  BY <1>3, <1>4, <1>5, <1>6

\* Rewriting an attempt.
LEMMA KeptRewritten ==
  ASSUME NEW w \in Ids, Kept(attempts[w]), NEW k \in DOMAIN attempts[w], NEW a,
         Rewritten(w, k, a), a.fence = attempts[w][k].fence,
         a.boc => (attempts[w][k].boc \/ k = Len(attempts[w])),
         a.boc => a.result # "FAILED_PRE_BROADCAST",
         a.result \in UnresolvedResults => a.boc
  PROVE  Kept(attempts'[w])
<1> SUFFICES ASSUME NEW j \in DOMAIN attempts'[w]
             PROVE  /\ attempts'[w][j].boc => /\ j = Len(attempts'[w])
                                             /\ attempts'[w][j].result # "FAILED_PRE_BROADCAST"
                    /\ attempts'[w][j].result \in UnresolvedResults => attempts'[w][j].boc
                    /\ attempts'[w][j].fence \in 1 .. MaxToken
  BY DEF Kept
<1>1. /\ j \in DOMAIN attempts[w] /\ Len(attempts'[w]) = Len(attempts[w])
      /\ attempts'[w][j] = IF j = k THEN a ELSE attempts[w][j]
  BY DEF Rewritten
<1>2. CASE j = k
  BY <1>1, <1>2 DEF Kept
<1>3. CASE j # k
  BY <1>1, <1>3 DEF Kept
<1> QED
  BY <1>2, <1>3

\* A run writes its attempt and goes on at pc.
LEMMA RewritingCarefully ==
  ASSUME PayoutInv, ResendInv, LeaseInv, NEW r \in Runs, runs[r].pc \in Working,
         NEW a \in Attempt, WriteAttempt(r, a), a.fence = Try(r).fence,
         a.boc => (Try(r).boc \/ runs[r].k = Len(attempts[W(r)])),
         a.boc => a.result # "FAILED_PRE_BROADCAST",
         a.result \in UnresolvedResults => a.boc,
         nonpayment' = nonpayment, LeaseCounts(lease'),
         NEW pc \in Easy \cup { "reload" }, pc = "reload" => a.boc, Goes(r, pc)
  PROVE  LeaseInv'
<1>1. /\ ~At(r, "idle") /\ W(r) \in Ids /\ runs[r].k \in DOMAIN attempts[W(r)]
      /\ Try(r) = attempts[W(r)][runs[r].k] /\ Tries(r) = attempts[W(r)]
      /\ attempts \in [Ids -> Seq(Attempt)] /\ runs[r].w = W(r)
  BY AtWork DEF At, Working, W
<1>2. Rewritten(W(r), runs[r].k, a)
  BY <1>1, Rewrites
<1>3. Kept(attempts'[W(r)])
  BY <1>1, <1>2, KeptRewritten DEF LeaseInv
<1>4. \A v \in Ids \ { W(r) } : attempts'[v] = attempts[v]
  BY <1>2 DEF Rewritten
<1>5. Careful(runs'[r], attempts')
  <2>1. CASE pc \in Easy
    BY <2>1, EasyIsCareful DEF Goes
  <2>2. CASE pc = "reload"
    <3>1. attempts'[W(r)][runs[r].k] = a /\ runs[r].k \in DOMAIN attempts'[W(r)]
      BY <1>1, <1>2 DEF Rewritten
    <3>2. runs[r].k = Len(attempts'[W(r)])
      BY <1>3, <2>2, <3>1 DEF Kept
    <3> QED
      BY <1>1, <2>2, <3>1, <3>2 DEF Careful, Unsigned, OnLatest, Goes
  <2> QED
    BY <2>1, <2>2
<1> QED
  BY <1>1, <1>3, <1>4, <1>5, CarefulStep

\* An attempt that has no message is closed.
LEMMA ClosingCarefully ==
  ASSUME PayoutInv, ResendInv, LeaseInv, NEW r \in Runs, FailSign(r) \/ NoEvidence(r)
  PROVE  LeaseInv'
<1> DEFINE a == [Try(r) EXCEPT !.result = "FAILED_PRE_BROADCAST"]
<1>1. /\ runs[r].pc \in Working /\ runs[r].pc \in Unsigned /\ WriteAttempt(r, a) /\ Returning(r)
      /\ nonpayment' = nonpayment
      /\ lease' = lease \/ lease' = ReleasedBy(lease, W(r), Try(r).fence)
  BY DEF FailSign, NoEvidence, At, Working, Unsigned, outsideTxn, rowsButWd
<1>2. /\ ~At(r, "idle") /\ W(r) \in Ids /\ Try(r) \in Attempt /\ runs[r].w = W(r)
      /\ Try(r) = attempts[W(r)][runs[r].k] /\ runs \in [Runs -> Run]
      /\ lease \in Lease /\ LeaseCounts(lease)
  BY <1>1, OfTry, AtWork DEF W, PayoutInv, PayoutTypeOK, LeaseInv
<1>3. ~Try(r).boc
  BY <1>1, <1>2 DEF LeaseInv, Careful
<1>4. /\ a \in Attempt /\ a.boc = Try(r).boc /\ a.fence = Try(r).fence
      /\ a.result = "FAILED_PRE_BROADCAST"
  <2>1. "FAILED_PRE_BROADCAST" \in Results /\ Try(r) \in Attempt
    BY <1>2 DEF Results
  <2> QED
    BY <2>1, AttemptWrites
<1> HIDE DEF a
<1>5. LeaseCounts(lease')
  BY <1>1, <1>2, LeaseMoves
<1>6. Goes(r, "return") /\ "return" \in Easy
  BY <1>1, <1>2, RunGoes DEF Returning, Easy, ProgramCounters, Unsigned, OnLatest
<1>7. ~(a.result \in UnresolvedResults) /\ ~a.boc
  BY <1>3, <1>4 DEF UnresolvedResults
<1> QED
  BY <1>1, <1>4, <1>5, <1>6, <1>7, RewritingCarefully

\* The message is persisted on the latest attempt, which is PENDING.
LEMMA PersistCarefully ==
  ASSUME PayoutInv, ResendInv, LeaseInv, NEW r \in Runs, Persist(r) \/ PersistOnResume(r)
  PROVE  LeaseInv'
<1> DEFINE a == WithBoc(Try(r))
<1>1. /\ runs[r].pc \in { "persist", "repersist" } /\ WriteAttempt(r, a)
      /\ UNCHANGED << nonpayment, lease >>
      /\ Goto(r, "submit") \/ Goto(r, "reread")
  BY DEF Persist, PersistOnResume, At, outsideTxn, rowsButWd
<1>2. runs[r].pc \in Working
  BY <1>1 DEF Working
<1>3. /\ ~At(r, "idle") /\ W(r) \in Ids /\ Try(r) \in Attempt /\ runs[r].w = W(r)
      /\ Try(r) = attempts[W(r)][runs[r].k] /\ runs \in [Runs -> Run] /\ LeaseCounts(lease')
  BY <1>1, <1>2, OfTry, AtWork DEF W, LeaseInv
<1>4. Try(r).result = "PENDING" /\ runs[r].k = Len(attempts[W(r)])
  BY <1>1, <1>3 DEF LeaseInv, Careful, OnLatest
<1>5. a \in Attempt /\ a.boc /\ a.fence = Try(r).fence /\ a.result = "PENDING"
  BY <1>3, <1>4, AttemptWrites DEF Results
<1> HIDE DEF a
<1>6. PICK pc \in { "submit", "reread" } : Goto(r, pc)
  BY <1>1
<1>7. Goes(r, pc) /\ pc \in Easy
  BY <1>3, <1>6, RunGoes DEF Easy, ProgramCounters, Unsigned, OnLatest
<1>8. pc # "reload"
  OBVIOUS
<1> QED
  BY <1>1, <1>2, <1>3, <1>4, <1>5, <1>7, <1>8, RewritingCarefully

\* A submission, its outcome, and what was observed are written on an attempt that
\* has its message.
LEMMA SubmittingCarefully ==
  ASSUME PayoutInv, ResendInv, LeaseInv, NEW r \in Runs,
         \/ Submit(r) \/ SubmitOnResume(r) \/ Ambiguous(r) \/ BroadcastEvidence(r)
         \/ Unconfirmed(r)
  PROVE  LeaseInv'
<1>1. /\ runs[r].pc \in { "submit", "resubmit", "ambiguous", "evidence", "unconfirmed" }
      /\ nonpayment' = nonpayment
      /\ \/ lease' = lease
         \/ /\ lease' = Acquired(lease, W(r))
            /\ Acquired(lease, W(r)).token = Try(r).fence
      /\ \E pc \in { "send", "return", "reload" } : Goto(r, pc) \/ GotoWith(r, pc, 0)
  BY DEF Submit, SubmitOnResume, Ambiguous, BroadcastEvidence, Unconfirmed, Returning, At,
         outsideTxn, rowsButWd
<1>2. PICK result \in { "UNKNOWN", "RECONCILE_REQUIRED", "BROADCASTED" } :
        \/ WriteAttempt(r, Submitted(Try(r), result))
        \/ WriteAttempt(r, [Try(r) EXCEPT !.result = result])
  BY DEF Submit, SubmitOnResume, Ambiguous, BroadcastEvidence, Unconfirmed
<1>3. runs[r].pc \in Working
  BY <1>1 DEF Working
<1>4. /\ ~At(r, "idle") /\ W(r) \in Ids /\ Try(r) \in Attempt /\ runs[r].w = W(r)
      /\ Try(r) = attempts[W(r)][runs[r].k] /\ runs \in [Runs -> Run]
      /\ runs[r].k \in DOMAIN attempts[W(r)]
      /\ lease \in Lease /\ LeaseCounts(lease)
  BY <1>3, OfTry, AtWork DEF W, PayoutInv, PayoutTypeOK, LeaseInv
<1>5. Try(r).boc
  BY <1>1, <1>3, <1>4, OfTry DEF LeaseInv, Careful
<1>6. PICK a \in Attempt : /\ WriteAttempt(r, a) /\ a.boc /\ a.fence = Try(r).fence
                          /\ a.result = result
  <2>1. result \in Results
    BY DEF Results
  <2>2. Try(r) \in Attempt
    BY <1>4
  <2>3. CASE WriteAttempt(r, Submitted(Try(r), result))
    <3> DEFINE b == Submitted(Try(r), result)
    <3>1. b \in Attempt /\ b.boc = Try(r).boc /\ b.fence = Try(r).fence /\ b.result = result
      BY <2>1, <2>2, AttemptWrites
    <3>2. WriteAttempt(r, b)
      BY <2>3
    <3> HIDE DEF b
    <3> QED
      BY <1>5, <3>1, <3>2
  <2>4. CASE WriteAttempt(r, [Try(r) EXCEPT !.result = result])
    <3> DEFINE b == [Try(r) EXCEPT !.result = result]
    <3>1. b \in Attempt /\ b.boc = Try(r).boc /\ b.fence = Try(r).fence /\ b.result = result
      BY <2>1, <2>2, AttemptWrites
    <3>2. WriteAttempt(r, b)
      BY <2>4
    <3> HIDE DEF b
    <3> QED
      BY <1>5, <3>1, <3>2
  <2> QED
    BY <1>2, <2>3, <2>4
<1>7. LeaseCounts(lease')
  <2>1. Try(r).fence \in 1 .. MaxToken
    BY <1>4 DEF LeaseInv, Kept
  <2>2. Try(r).fence <= MaxToken
    BY <2>1, RunsAssumption
  <2> QED
    BY <1>1, <1>4, <2>2, LeaseMoves
<1>8. PICK pc \in { "send", "return", "reload" } : Goto(r, pc) \/ GotoWith(r, pc, 0)
  BY <1>1
<1>9. Goes(r, pc) /\ pc \in Easy \cup { "reload" }
  BY <1>4, <1>8, RunGoes DEF Easy, ProgramCounters, Unsigned, OnLatest
<1>10. a.result # "FAILED_PRE_BROADCAST"
  BY <1>6
<1> QED
  BY <1>1, <1>3, <1>5, <1>6, <1>7, <1>9, <1>10, RewritingCarefully

\* A new attempt comes after attempts that have no message: the fence is held, and
\* a withdrawal whose message is persisted is not back in QUEUED.
LEMMA CreatingCarefully ==
  ASSUME PayoutInv, ResendInv, LeaseInv, NEW r \in Runs, CreateAttempt(r)
  PROVE  LeaseInv'
<1> DEFINE w == W(r)
           as == attempts[w]
           n == Len(attempts[w])
           new == NewAttempt(runs[r].token, runs[r].seq)
           pc == IF At(r, "create") THEN "sign" ELSE "created"
<1>1. /\ ~At(r, "idle") /\ attempts' = [attempts EXCEPT ![w] = Append(attempts[w], new)]
      /\ GotoWith(r, pc, Len(Tries(r)) + 1)
      /\ FenceHolds(lease, w, runs[r].token) /\ AttemptAllowed(State(r), Tries(r))
      /\ UNCHANGED << lease, nonpayment >>
  BY DEF CreateAttempt, At, outsideTxn, rowsButWd
<1>2. /\ w \in Ids /\ as \in Seq(Attempt) /\ Tries(r) = as /\ runs[r].w = w
      /\ attempts \in [Ids -> Seq(Attempt)] /\ runs \in [Runs -> Run] /\ runs[r] \in Run
      /\ State(r) = wd[w].state /\ lease \in Lease /\ LeaseCounts(lease)
      /\ Kept(as) /\ Message(wd[w].state, as)
  BY <1>1, AtWork DEF W, PayoutInv, PayoutTypeOK, MessageInv, LeaseInv
<1>3. n \in Nat /\ DOMAIN as = 1 .. n
  BY <1>2
<1>4. pc \in { "sign", "created" } /\ pc \in ProgramCounters
  BY DEF ProgramCounters
<1>5. \A k \in DOMAIN as : ~as[k].boc
  <2> SUFFICES ASSUME NEW k \in DOMAIN as, as[k].boc PROVE FALSE
    OBVIOUS
  <2>1. k = Len(as) /\ as[k].result # "FAILED_PRE_BROADCAST"
    BY <1>2 DEF Kept
  <2>2. as # << >>
    BY <1>2, NotEmpty
  <2>3. wd[w].state = "QUEUED"
    BY <1>1, <1>2, <2>1, <2>2 DEF AttemptAllowed
  <2>4. wd[w].state \in Late
    BY <1>2 DEF Message
  <2> QED
    BY <2>3, <2>4 DEF Late
<1>6. /\ new \in Attempt /\ ~new.boc /\ new.result = "PENDING"
      /\ new.fence \in 1 .. MaxToken
  <2>1. runs[r].token \in Nat /\ runs[r].seq \in Nat
    BY <1>2 DEF Run
  <2>2. new \in Attempt /\ ~new.boc /\ new.result = "PENDING" /\ new.fence = runs[r].token
    BY <2>1 DEF NewAttempt, Attempt, Results
  <2>3. runs[r].token = lease.token /\ lease.owner # NoOwner
    BY <1>1 DEF FenceHolds, Active
  <2>4. runs[r].token <= MaxToken /\ runs[r].token >= 1
    BY <1>2, <2>3 DEF LeaseCounts
  <2> QED
    BY <2>1, <2>2, <2>4, RunsAssumption
<1> HIDE DEF new, pc
<1>7. /\ Append(as, new) \in Seq(Attempt) /\ Len(Append(as, new)) = n + 1
      /\ DOMAIN Append(as, new) = 1 .. n + 1
      /\ \A k \in 1 .. n : Append(as, new)[k] = as[k]
      /\ Append(as, new)[n + 1] = new
  BY <1>2, <1>6
<1>8. attempts'[w] = Append(as, new) /\ \A v \in Ids \ { w } : attempts'[v] = attempts[v]
  BY <1>1, <1>2
<1> HIDE DEF n
<1>9. Kept(attempts'[w])
  <2> SUFFICES ASSUME NEW j \in 1 .. n + 1
               PROVE  LET a == Append(as, new)[j]
                      IN  /\ ~a.boc /\ ~(a.result \in UnresolvedResults)
                          /\ a.fence \in 1 .. MaxToken
    BY <1>7, <1>8 DEF Kept
  <2>1. CASE j = n + 1
    BY <1>6, <1>7, <2>1 DEF UnresolvedResults
  <2>2. CASE j # n + 1
    <3>1. j \in 1 .. n
      BY <1>3, <2>2
    <3>2. Append(as, new)[j] = as[j] /\ j \in DOMAIN as
      BY <1>3, <1>7, <3>1
    <3> QED
      BY <1>2, <1>5, <3>2 DEF Kept
  <2> QED
    BY <2>1, <2>2
<1>10. Moved(r, pc, n + 1)
  <2>1. GotoWith(r, pc, n + 1) /\ n + 1 \in Nat
    BY <1>1, <1>2, <1>3 DEF n
  <2> QED
    BY <1>1, <1>2, <1>4, <2>1, GoingWith
<1>11. Careful(runs'[r], attempts')
  <2>1. /\ runs'[r].pc = pc /\ runs'[r].w = w /\ runs'[r].k = n + 1
        /\ attempts'[w][n + 1] = new /\ Len(attempts'[w]) = n + 1
    BY <1>2, <1>7, <1>8, <1>10 DEF Moved
  <2> QED
    BY <1>4, <1>6, <2>1 DEF Careful, Unsigned, OnLatest
<1>12. Goes(r, pc) /\ LeaseCounts(lease')
  BY <1>1, <1>2, <1>10 DEF Moved, Goes
<1> QED
  BY <1>1, <1>8, <1>9, <1>11, <1>12, CarefulStep

\* A run ends, or starts.
LEMMA EndsCarefully ==
  ASSUME PayoutInv, LeaseInv, NEW r \in Runs,
         Finish(r) \/ Fail(r) \/ \E w \in Ids : StartRun(r, w)
  PROVE  LeaseInv'
<1>1. /\ UNCHANGED << attempts, nonpayment, lease >>
      /\ \E x : runs' = [runs EXCEPT ![r] = x] /\ x.pc \in { "idle", "start" }
  <2>1. \A w : [IdleRun EXCEPT !.pc = "start", !.w = w].pc = "start"
    BY DEF IdleRun
  <2>2. IdleRun.pc = "idle"
    BY DEF IdleRun
  <2> QED
    BY <2>1, <2>2 DEF Finish, Fail, StartRun, RunEnds, rowVars
<1>2. PICK x : runs' = [runs EXCEPT ![r] = x] /\ x.pc \in { "idle", "start" }
  BY <1>1
<1>3. runs \in [Runs -> Run]
  BY DEF PayoutInv, PayoutTypeOK
<1>4. x.pc \in Easy
  BY <1>2 DEF Easy, ProgramCounters, Unsigned, OnLatest
<1>5. ASSUME NEW t \in Runs PROVE Careful(runs'[t], attempts')
  <2>1. CASE t = r
    BY <1>2, <1>3, <1>4, <2>1, EasyIsCareful
  <2>2. CASE t # r
    BY <1>1, <1>2, <1>3, <2>2 DEF LeaseInv
  <2> QED
    BY <2>1, <2>2
<1> QED
  BY <1>1, <1>5 DEF LeaseInv

LEMMA LeaseKept ==
  ASSUME ~Zombies, PayoutInv, ResendInv, LeaseInv, [PayoutNext]_vars PROVE LeaseInv'
<1>1. ASSUME NEW r \in Runs, Step(r) PROVE LeaseInv'
  <2>1. CASE \/ ReadState(r) \/ ReadLease(r) \/ AdmitOrphan(r) \/ Admit(r) \/ Readmit(r)
             \/ CreateFails(r) \/ LoadApproved(r) \/ EnterSigning(r) \/ EnterWithoutLease(r)
             \/ FailSigning(r) \/ Confirm(r) \/ Settle(r) \/ SendBoc(r)
    BY <2>1, EasySteps, EasyKeeps
  <2>2. CASE ReadAttempt(r) \/ ReadCreated(r) \/ ReadContext(r) \/ Reread(r)
    BY <2>2, LookingCarefully
  <2>3. CASE Sign(r) \/ ReloadAttempt(r) \/ Observe(r) \/ ReconcileOnResume(r)
    BY <2>3, GoingCarefully
  <2>4. CASE FailSign(r) \/ NoEvidence(r)
    BY <2>4, ClosingCarefully
  <2>5. CASE Persist(r) \/ PersistOnResume(r)
    BY <2>5, PersistCarefully
  <2>6. CASE \/ Submit(r) \/ SubmitOnResume(r) \/ Ambiguous(r) \/ BroadcastEvidence(r)
             \/ Unconfirmed(r)
    BY <2>6, SubmittingCarefully
  <2>7. CASE CreateAttempt(r)
    BY <2>7, CreatingCarefully
  <2>8. CASE Finish(r)
    BY <2>8, EndsCarefully
  <2> QED
    BY <1>1, <2>1, <2>2, <2>3, <2>4, <2>5, <2>6, <2>7, <2>8
       DEF Step, AttemptStep, SignStep, SendStep
<1>2. ASSUME NEW r \in Runs, Fail(r) \/ \E w \in Ids : StartRun(r, w) PROVE LeaseInv'
  BY <1>2, EndsCarefully
<1>3. ASSUME UNCHANGED << attempts, runs, nonpayment >>, LeaseCounts(lease')
      PROVE  LeaseInv'
  BY <1>3 DEF LeaseInv
<1>4. ASSUME NEW w \in Ids, OfficeStep(w) PROVE LeaseInv'
  <2>1. UNCHANGED << attempts, runs, lease, nonpayment >>
    BY <1>4 DEF OfficeStep, DecideStep, Decide, RelayStep, RelayDispatch, RelayStartThenCrash
  <2> QED
    BY <1>3, <2>1 DEF LeaseInv
<1>5. ASSUME \/ \E w \in Ids : Recover(w)
             \/ LeaseExpires
      PROVE  LeaseInv'
  <2>1. /\ UNCHANGED << attempts, runs, nonpayment >>
        /\ lease' = Expired(lease) \/ \E w \in Ids : lease' = ReleasedBy(lease, w, lease.token)
    BY <1>5 DEF Recover, RecoverSigning, RecoverySnapshot, LeaseExpires, rowVars, rowsButWd
  <2>2. lease \in Lease /\ LeaseCounts(lease)
    BY DEF PayoutInv, PayoutTypeOK, LeaseInv
  <2>3. LeaseCounts(Expired(lease))
    BY <2>2 DEF LeaseCounts, Lease, Expired
  <2>4. LeaseCounts(lease')
    BY <2>1, <2>2, <2>3, LeaseMoves
  <2> QED
    BY <1>3, <2>1, <2>4
<1>6. ASSUME \/ \E m \in chain.mempool : WalletExecutes(m) \/ MessageLost(m)
             \/ UNCHANGED vars
      PROVE  LeaseInv'
  <2>1. UNCHANGED << attempts, runs, lease, nonpayment >>
    BY <1>6 DEF WalletExecutes, MessageLost, vars, rowVars
  <2> QED
    BY <1>3, <2>1 DEF LeaseInv
<1>7. \A w \in Ids : ~Timeout(w)
  BY DEF Timeout
<1> QED
  BY <1>1, <1>2, <1>4, <1>5, <1>6, <1>7 DEF PayoutNext

-----------------------------------------------------------------------------
(* What LeaseProtocol sees of the attempts.                                *)

FencesOf(as) == UNION { { << w, as[w][k].fence >> : k \in DOMAIN as[w] } : w \in Ids }
WithMessage(as) == { w \in Ids : \E k \in DOMAIN as[w] : as[w][k].boc }
WithSubmission(as) == { w \in Ids : \E k \in DOMAIN as[w] : as[w][k].submitted }

\* The query for possibly-broadcast work finds exactly the persisted messages.
Seen ==
  /\ \A w \in Ids : OpenWork(w) # {} <=> w \in WithMessage(attempts)
  /\ \A w \in Ids : (\E k \in OpenWork(w) : attempts[w][k].submitted)
                      <=> w \in WithSubmission(attempts)

LEMMA WorkIsSeen == PayoutInv /\ LeaseInv => Seen
<1> SUFFICES ASSUME PayoutInv, LeaseInv, NEW w \in Ids
             PROVE  /\ OpenWork(w) # {} <=> \E k \in DOMAIN attempts[w] : attempts[w][k].boc
                    /\ (\E k \in OpenWork(w) : attempts[w][k].submitted)
                         <=> \E k \in DOMAIN attempts[w] : attempts[w][k].submitted
  BY DEF Seen, WithMessage, WithSubmission
<1>1. /\ nonpayment[w] = {} /\ Kept(attempts[w]) /\ Message(wd[w].state, attempts[w])
      /\ wd[w].state = "CONFIRMED" => \E m \in chain.paid : m[1] = w
      /\ ChainInv
  BY DEF PayoutInv, LeaseInv, MessageInv, ConfirmedIsPaid
<1>2. \A k \in DOMAIN attempts[w] :
        k \in OpenWork(w) <=> /\ attempts[w][k].result # "FAILED_PRE_BROADCAST"
                              /\ \/ attempts[w][k].submitted
                                 \/ attempts[w][k].result \in UnresolvedResults
                                 \/ wd[w].state \in UnresolvedStates
  BY <1>1 DEF OpenWork, Unresolved, SettledAt
<1>3. OpenWork(w) \subseteq DOMAIN attempts[w]
  BY DEF OpenWork
<1>4. \A k \in DOMAIN attempts[w] :
        attempts[w][k].submitted =>
          attempts[w][k].boc /\ attempts[w][k].result # "FAILED_PRE_BROADCAST"
  BY <1>1 DEF Message
<1>5. ASSUME NEW k \in OpenWork(w) PROVE \E j \in DOMAIN attempts[w] : attempts[w][j].boc
  <2>1. CASE attempts[w][k].submitted \/ attempts[w][k].result \in UnresolvedResults
    BY <1>1, <1>3, <1>4, <2>1 DEF Kept
  <2>2. CASE wd[w].state \in UnresolvedStates
    <3>1. wd[w].state \in Late
      BY <1>1, <2>2 DEF UnresolvedStates, Late, Message
    <3> QED
      BY <1>1, <3>1 DEF Message
  <2> QED
    BY <1>2, <1>3, <2>1, <2>2
<1>6. ASSUME NEW k \in DOMAIN attempts[w], attempts[w][k].boc PROVE k \in OpenWork(w)
  <2>1. attempts[w][k].result # "FAILED_PRE_BROADCAST" /\ wd[w].state \in Late
    BY <1>1, <1>6 DEF Kept, Message
  <2>2. CASE wd[w].state = "CONFIRMED"
    <3>1. PICK m \in chain.paid : m[1] = w
      BY <1>1, <2>2
    <3>2. m[2] \in DOMAIN attempts[w] /\ attempts[w][m[2]].submitted
      BY <1>1, <3>1 DEF ChainInv
    <3>3. m[2] = k
      BY <1>1, <1>4, <1>6, <3>2 DEF Message
    <3> QED
      BY <1>2, <2>1, <3>2, <3>3
  <2>3. CASE wd[w].state # "CONFIRMED"
    <3>1. wd[w].state \in UnresolvedStates
      BY <2>1, <2>3 DEF Late, UnresolvedStates
    <3> QED
      BY <1>2, <2>1, <3>1
  <2> QED
    BY <2>2, <2>3
<1> QED
  BY <1>3, <1>4, <1>5, <1>6

LEMMA WorkIsSeenNext == PayoutInv' /\ LeaseInv' => Seen'
BY WorkIsSeen, PTL

\* The state functions of LeaseProtocol, before and after a step.
LEMMA Mapped ==
  ASSUME PayoutInv, LeaseInv, PayoutInv', LeaseInv'
  PROVE  /\ { w \in Ids : OpenWork(w) # {} } = WithMessage(attempts)
         /\ { w \in Ids : \E k \in OpenWork(w) : attempts[w][k].submitted }
              = WithSubmission(attempts)
         /\ { w \in Ids : OpenWork(w) # {} }' = WithMessage(attempts')
         /\ { w \in Ids : \E k \in OpenWork(w) : attempts[w][k].submitted }'
              = WithSubmission(attempts')
<1>1. Seen /\ Seen'
  BY WorkIsSeen, WorkIsSeenNext
<1>2. /\ \A w \in WithMessage(attempts) : w \in Ids
      /\ \A w \in WithSubmission(attempts) : w \in Ids
      /\ \A w \in WithMessage(attempts') : w \in Ids
      /\ \A w \in WithSubmission(attempts') : w \in Ids
  BY DEF WithMessage, WithSubmission
<1> QED
  BY <1>1, <1>2 DEF Seen

LEMMA InFences ==
  ASSUME NEW as, NEW f
  PROVE  f \in FencesOf(as) <=> \E w \in Ids : \E k \in DOMAIN as[w] : f = << w, as[w][k].fence >>
<1> DEFINE T(w) == { << w, as[w][k].fence >> : k \in DOMAIN as[w] }
<1>1. FencesOf(as) = UNION { T(w) : w \in Ids }
  BY DEF FencesOf
<1>2. \A w : f \in T(w) <=> \E k \in DOMAIN as[w] : f = << w, as[w][k].fence >>
  OBVIOUS
<1> HIDE DEF T
<1>3. f \in UNION { T(w) : w \in Ids } <=> \E w \in Ids : f \in T(w)
  OBVIOUS
<1> QED
  BY <1>1, <1>2, <1>3

\* A step that writes no message, no submission and no fence.
SameWork(as, bs) ==
  \A w \in Ids :
    /\ DOMAIN bs[w] = DOMAIN as[w]
    /\ \A k \in DOMAIN as[w] : /\ bs[w][k].fence = as[w][k].fence
                               /\ bs[w][k].boc = as[w][k].boc
                               /\ bs[w][k].submitted = as[w][k].submitted

LEMMA SameWorkIsSeen ==
  ASSUME NEW as, NEW bs, SameWork(as, bs)
  PROVE  /\ FencesOf(bs) = FencesOf(as) /\ WithMessage(bs) = WithMessage(as)
         /\ WithSubmission(bs) = WithSubmission(as)
<1>1. WithMessage(bs) = WithMessage(as) /\ WithSubmission(bs) = WithSubmission(as)
  <2>1. ASSUME NEW w \in Ids
        PROVE  /\ (\E k \in DOMAIN bs[w] : bs[w][k].boc) <=> \E k \in DOMAIN as[w] : as[w][k].boc
               /\ (\E k \in DOMAIN bs[w] : bs[w][k].submitted)
                    <=> \E k \in DOMAIN as[w] : as[w][k].submitted
    <3>1. /\ DOMAIN bs[w] = DOMAIN as[w]
          /\ \A k \in DOMAIN as[w] :
               bs[w][k].boc = as[w][k].boc /\ bs[w][k].submitted = as[w][k].submitted
      BY DEF SameWork
    <3> QED
      BY <3>1
  <2>2. WithMessage(bs) = WithMessage(as)
    BY <2>1 DEF WithMessage
  <2>3. WithSubmission(bs) = WithSubmission(as)
    BY <2>1 DEF WithSubmission
  <2> QED
    BY <2>2, <2>3
<1>2. ASSUME NEW f PROVE f \in FencesOf(bs) <=> f \in FencesOf(as)
  <2>1. \A w \in Ids : (\E k \in DOMAIN as[w] : f = << w, as[w][k].fence >>)
                     <=> \E k \in DOMAIN bs[w] : f = << w, bs[w][k].fence >>
    BY DEF SameWork
  <2>2. f \in FencesOf(as) <=> \E w \in Ids : \E k \in DOMAIN as[w] : f = << w, as[w][k].fence >>
    BY InFences
  <2>3. f \in FencesOf(bs) <=> \E w \in Ids : \E k \in DOMAIN bs[w] : f = << w, bs[w][k].fence >>
    BY InFences
  <2> QED
    BY <2>1, <2>2, <2>3
<1> QED
  BY <1>1, <1>2

\* Another withdrawal has unresolved work: the same for both.
LEMMA SameBlock ==
  ASSUME NEW w \in Ids
  PROVE  UnresolvedByOthers(w) <=> { v \in Ids : OpenWork(v) # {} } \ { w } # {}
<1>1. UnresolvedByOthers(w) <=> \E v \in Ids \ { w } : OpenWork(v) # {}
  BY DEF UnresolvedByOthers, OpenWork
<1> QED
  BY <1>1

LEMMA LeaseWords ==
  ASSUME NEW l, NEW o, NEW t, NEW b \in BOOLEAN
  PROVE  /\ LeaseRules!CanAcquire(l, o, b) <=> CanAcquire(l, o, b)
         /\ LeaseRules!Acquired(l, o) = Acquired(l, o)
         /\ LeaseRules!FenceHolds(l, o, t) <=> FenceHolds(l, o, t)
         /\ LeaseRules!ReleasedBy(l, o, t) = ReleasedBy(l, o, t)
         /\ LeaseRules!Active(l) <=> Active(l)
         /\ LeaseRules!Expired(l) = Expired(l)
BY DEF LeaseRules!CanAcquire, CanAcquire, LeaseRules!Acquired, Acquired, LeaseRules!FenceHolds,
       FenceHolds, LeaseRules!ReleasedBy, ReleasedBy, LeaseRules!Active, Active,
       LeaseRules!Expired, Expired, LeaseRules!Renewable, Renewable, LeaseRules!Takeable, Takeable,
       LeaseRules!Renewed, Renewed, LeaseRules!Taken, Taken

-----------------------------------------------------------------------------
(* The steps of LeaseProtocol.                                             *)

Ruled == LeaseRules!Next \/ UNCHANGED LeaseRules!vars

LEMMA OwnersAreRuled ==
  ASSUME NEW w \in Ids,
         \/ LeaseRules!Acquire(w) \/ LeaseRules!CreateAttempt(w) \/ LeaseRules!PersistMessage(w)
         \/ \E t \in LeaseRules!Tokens :
              LeaseRules!Submit(w, t) \/ LeaseRules!SubmitOnResume(w, t) \/ LeaseRules!Release(w, t)
  PROVE  Ruled
BY DEF Ruled, LeaseRules!Next

\* What surrounds a step.
Around == PayoutInv /\ LeaseInv /\ PayoutInv' /\ LeaseInv'

LEMMA WorkRests ==
  ASSUME Around, SameWork(attempts, attempts')
  PROVE  /\ { v \in Ids : OpenWork(v) # {} }' = { v \in Ids : OpenWork(v) # {} }
         /\ { v \in Ids : \E k \in OpenWork(v) : attempts[v][k].submitted }'
              = { v \in Ids : \E k \in OpenWork(v) : attempts[v][k].submitted }
         /\ UNION { { << v, attempts[v][k].fence >> : k \in DOMAIN attempts[v] } : v \in Ids }'
              = UNION { { << v, attempts[v][k].fence >> : k \in DOMAIN attempts[v] } : v \in Ids }
<1>1. /\ FencesOf(attempts') = FencesOf(attempts) /\ WithMessage(attempts') = WithMessage(attempts)
      /\ WithSubmission(attempts') = WithSubmission(attempts)
  BY SameWorkIsSeen
<1> QED
  BY <1>1, Mapped DEF Around, FencesOf

LEMMA LeaseRests ==
  ASSUME Around, SameWork(attempts, attempts'), lease' = lease PROVE Ruled
BY WorkRests DEF Ruled, LeaseRules!vars

LEMMA LeaseChanges ==
  ASSUME Around, SameWork(attempts, attempts'), NEW w \in Ids, NEW t,
         \/ lease' = Expired(lease) /\ Active(lease)
         \/ lease' = ReleasedBy(lease, w, t)
         \/ /\ lease' = Acquired(lease, w) /\ Acquired(lease, w).token <= MaxToken
            /\ CanAcquire(lease, w, UnresolvedByOthers(w))
  PROVE  Ruled
<1>1. /\ { v \in Ids : OpenWork(v) # {} }' = { v \in Ids : OpenWork(v) # {} }
      /\ { v \in Ids : \E k \in OpenWork(v) : attempts[v][k].submitted }'
           = { v \in Ids : \E k \in OpenWork(v) : attempts[v][k].submitted }
      /\ UNION { { << v, attempts[v][k].fence >> : k \in DOMAIN attempts[v] } : v \in Ids }'
           = UNION { { << v, attempts[v][k].fence >> : k \in DOMAIN attempts[v] } : v \in Ids }
  BY WorkRests
<1>2. CASE lease' = lease
  BY <1>2, LeaseRests
<1>3. CASE lease' = Expired(lease) /\ Active(lease)
  <2>1. LeaseRules!LeaseExpires
    BY <1>1, <1>3, LeaseWords DEF LeaseRules!LeaseExpires
  <2> QED
    BY <2>1 DEF Ruled, LeaseRules!Next
<1>4. CASE lease' = ReleasedBy(lease, w, t) /\ lease' # lease
  <2>1. lease.owner = w /\ lease.token = t
    BY <1>4 DEF ReleasedBy
  <2>2. t \in LeaseRules!Tokens
    BY <2>1, RunsAssumption
       DEF LeaseRules!Tokens, Around, LeaseInv, LeaseCounts, PayoutInv, PayoutTypeOK, Lease
  <2>3. LeaseRules!Release(w, t)
    BY <1>1, <1>4, LeaseWords DEF LeaseRules!Release
  <2> QED
    BY <2>2, <2>3, OwnersAreRuled
<1>5. CASE /\ lease' = Acquired(lease, w) /\ Acquired(lease, w).token <= MaxToken
           /\ CanAcquire(lease, w, UnresolvedByOthers(w))
  <2>1. LeaseRules!BlockedFor(w) <=> UnresolvedByOthers(w)
    BY SameBlock DEF LeaseRules!BlockedFor
  <2>2. LeaseRules!CanAcquire(lease, w, LeaseRules!BlockedFor(w))
    BY <1>5, <2>1
       DEF LeaseRules!CanAcquire, CanAcquire, LeaseRules!Renewable, Renewable, LeaseRules!Takeable,
           Takeable, LeaseRules!Active, Active
  <2>3. LeaseRules!Acquire(w)
    BY <1>1, <1>5, <2>2, LeaseWords DEF LeaseRules!Acquire
  <2> QED
    BY <2>3, OwnersAreRuled
<1> QED
  BY <1>2, <1>3, <1>4, <1>5


\* A step that writes one attempt of w.
LEMMA OneAttemptSeen ==
  ASSUME NEW w \in Ids, NEW k \in DOMAIN attempts[w], NEW a, Rewritten(w, k, a),
         a.fence = attempts[w][k].fence
  PROVE  /\ (a.boc = attempts[w][k].boc /\ a.submitted = attempts[w][k].submitted) =>
              SameWork(attempts, attempts')
         /\ FencesOf(attempts') = FencesOf(attempts)
         /\ a.boc =>
              WithMessage(attempts') = WithMessage(attempts) \cup { w }
         /\ a.submitted =>
              WithSubmission(attempts') = WithSubmission(attempts) \cup { w }
         /\ a.submitted = attempts[w][k].submitted =>
              WithSubmission(attempts') = WithSubmission(attempts)
<1>1. \A v \in Ids : /\ DOMAIN attempts'[v] = DOMAIN attempts[v]
                     /\ \A j \in DOMAIN attempts[v] :
                          attempts'[v][j] = IF v = w /\ j = k THEN a ELSE attempts[v][j]
  BY DEF Rewritten
<1>2. (a.boc = attempts[w][k].boc /\ a.submitted = attempts[w][k].submitted) =>
        SameWork(attempts, attempts')
  BY <1>1 DEF SameWork
<1>3. FencesOf(attempts') = FencesOf(attempts)
  <2>1. ASSUME NEW f PROVE f \in FencesOf(attempts') <=> f \in FencesOf(attempts)
    <3>1. \A v \in Ids : (\E j \in DOMAIN attempts[v] : f = << v, attempts[v][j].fence >>)
                       <=> \E j \in DOMAIN attempts'[v] : f = << v, attempts'[v][j].fence >>
      BY <1>1
    <3>2. f \in FencesOf(attempts) <=>
            \E v \in Ids : \E j \in DOMAIN attempts[v] : f = << v, attempts[v][j].fence >>
      BY InFences
    <3>3. f \in FencesOf(attempts') <=>
            \E v \in Ids : \E j \in DOMAIN attempts'[v] : f = << v, attempts'[v][j].fence >>
      BY InFences
    <3> QED
      BY <3>1, <3>2, <3>3
  <2> QED
    BY <2>1
<1>4. ASSUME a.boc PROVE WithMessage(attempts') = WithMessage(attempts) \cup { w }
  <2>1. \A v \in Ids : (\E j \in DOMAIN attempts'[v] : attempts'[v][j].boc)
                      <=> v = w \/ \E j \in DOMAIN attempts[v] : attempts[v][j].boc
    BY <1>1, <1>4
  <2> QED
    BY <2>1 DEF WithMessage
<1>5. ASSUME a.submitted PROVE WithSubmission(attempts') = WithSubmission(attempts) \cup { w }
  <2>1. \A v \in Ids : (\E j \in DOMAIN attempts'[v] : attempts'[v][j].submitted)
                      <=> v = w \/ \E j \in DOMAIN attempts[v] : attempts[v][j].submitted
    BY <1>1, <1>5
  <2> QED
    BY <2>1 DEF WithSubmission
<1>6. ASSUME a.submitted = attempts[w][k].submitted
      PROVE  WithSubmission(attempts') = WithSubmission(attempts)
  <2>1. \A v \in Ids : (\E j \in DOMAIN attempts'[v] : attempts'[v][j].submitted)
                      <=> \E j \in DOMAIN attempts[v] : attempts[v][j].submitted
    BY <1>1, <1>6
  <2> QED
    BY <2>1 DEF WithSubmission
<1> QED
  BY <1>2, <1>3, <1>4, <1>5, <1>6

\* An attempt is created with the token of a lease that is held.
LEMMA CreationIsRuled ==
  ASSUME Around, NEW r \in Runs, CreateAttempt(r) PROVE Ruled
<1> DEFINE w == W(r)
           as == attempts[w]
           n == Len(attempts[w])
           new == NewAttempt(runs[r].token, runs[r].seq)
<1>1. /\ attempts' = [attempts EXCEPT ![w] = Append(attempts[w], new)] /\ lease' = lease
      /\ FenceHolds(lease, w, lease.token) /\ runs[r].token = lease.token /\ ~At(r, "idle")
  BY DEF CreateAttempt, At, FenceHolds
<1>2. w \in Ids /\ as \in Seq(Attempt) /\ attempts \in [Ids -> Seq(Attempt)]
  BY <1>1, AtWork DEF Around
<1>3. new.fence = lease.token /\ ~new.boc /\ ~new.submitted
  BY <1>1 DEF NewAttempt
<1> HIDE DEF new
<1>4. /\ n \in Nat /\ DOMAIN as = 1 .. n /\ DOMAIN Append(as, new) = 1 .. n + 1
      /\ \A j \in 1 .. n : Append(as, new)[j] = as[j]
      /\ Append(as, new)[n + 1] = new
  BY <1>2
<1>5. \A v \in Ids : attempts'[v] = IF v = w THEN Append(as, new) ELSE attempts[v]
  BY <1>1, <1>2
<1> HIDE DEF n
<1>6. \A j : j \in 1 .. n + 1 <=> j \in 1 .. n \/ j = n + 1
  BY <1>4
<1>7. WithMessage(attempts') = WithMessage(attempts)
  <2>1. (\E j \in DOMAIN attempts'[w] : attempts'[w][j].boc)
          <=> \E j \in DOMAIN attempts[w] : attempts[w][j].boc
    BY <1>2, <1>3, <1>4, <1>5, <1>6
  <2>2. \A v \in Ids : (\E j \in DOMAIN attempts'[v] : attempts'[v][j].boc)
                      <=> \E j \in DOMAIN attempts[v] : attempts[v][j].boc
    BY <1>5, <2>1
  <2> QED
    BY <2>2 DEF WithMessage
<1>8. WithSubmission(attempts') = WithSubmission(attempts)
  <2>1. (\E j \in DOMAIN attempts'[w] : attempts'[w][j].submitted)
          <=> \E j \in DOMAIN attempts[w] : attempts[w][j].submitted
    BY <1>2, <1>3, <1>4, <1>5, <1>6
  <2>2. \A v \in Ids : (\E j \in DOMAIN attempts'[v] : attempts'[v][j].submitted)
                      <=> \E j \in DOMAIN attempts[v] : attempts[v][j].submitted
    BY <1>5, <2>1
  <2> QED
    BY <2>2 DEF WithSubmission
<1>9. FencesOf(attempts') = FencesOf(attempts) \cup { << w, lease.token >> }
  <2>1. ASSUME NEW f
        PROVE  f \in FencesOf(attempts') <=> f \in FencesOf(attempts) \/ f = << w, lease.token >>
    <3>1. (\E j \in DOMAIN attempts'[w] : f = << w, attempts'[w][j].fence >>)
            <=> \/ \E j \in DOMAIN attempts[w] : f = << w, attempts[w][j].fence >>
                \/ f = << w, lease.token >>
      BY <1>2, <1>3, <1>4, <1>5, <1>6
    <3>2. \A v \in Ids \ { w } : attempts'[v] = attempts[v]
      BY <1>5
    <3>3. f \in FencesOf(attempts) <=>
            \E v \in Ids : \E j \in DOMAIN attempts[v] : f = << v, attempts[v][j].fence >>
      BY InFences
    <3>4. f \in FencesOf(attempts') <=>
            \E v \in Ids : \E j \in DOMAIN attempts'[v] : f = << v, attempts'[v][j].fence >>
      BY InFences
    <3> QED
      BY <1>2, <3>1, <3>2, <3>3, <3>4
  <2> QED
    BY <2>1
<1>10. PICK v \in Ids : v = w
  BY <1>2
<1>11. LeaseRules!CreateAttempt(v)
  BY <1>1, <1>10, <1>7, <1>8, <1>9, Mapped, LeaseWords
     DEF LeaseRules!CreateAttempt, Around, FencesOf
<1> QED
  BY <1>11, OwnersAreRuled

\* The message of the latest attempt is persisted.
LEMMA PersistIsRuled ==
  ASSUME Around, NEW r \in Runs, Persist(r) \/ PersistOnResume(r) PROVE Ruled
<1> DEFINE a == WithBoc(Try(r))
           w == W(r)
<1>1. runs[r].pc \in Working /\ WriteAttempt(r, a) /\ lease' = lease
  BY DEF Persist, PersistOnResume, At, Working
<1>2. /\ w \in Ids /\ Try(r) \in Attempt /\ Try(r) = attempts[w][runs[r].k]
      /\ attempts \in [Ids -> Seq(Attempt)] /\ runs[r].k \in DOMAIN attempts[w]
      /\ Tries(r) = attempts[w]
  BY <1>1, OfTry, AtWork DEF Around, Working, At
<1>3. a \in Attempt /\ a.boc /\ a.fence = Try(r).fence /\ a.submitted = Try(r).submitted
  <2>1. "PENDING" \in Results
    BY DEF Results
  <2> QED
    BY <1>2, <2>1, AttemptWrites
<1> HIDE DEF a
<1>4. Rewritten(w, runs[r].k, a)
  BY <1>1, <1>2, <1>3, Rewrites
<1>5. /\ FencesOf(attempts') = FencesOf(attempts)
      /\ WithMessage(attempts') = WithMessage(attempts) \cup { w }
      /\ WithSubmission(attempts') = WithSubmission(attempts)
  BY <1>2, <1>3, <1>4, OneAttemptSeen
<1>6. \E f \in FencesOf(attempts) : f[1] = w
  <2> DEFINE f == << w, Try(r).fence >>
  <2>1. f \in FencesOf(attempts)
    BY <1>2, InFences
  <2> QED
    BY <2>1
<1>7. PICK v \in Ids : v = w
  BY <1>2
<1>8. LeaseRules!PersistMessage(v)
  BY <1>1, <1>5, <1>6, <1>7, Mapped DEF LeaseRules!PersistMessage, Around, FencesOf
<1> QED
  BY <1>8, OwnersAreRuled

\* The intent to submit is recorded under the fence of the attempt, or under a
\* lease that is acquired again with it.
LEMMA SubmissionIsRuled ==
  ASSUME Around, NEW r \in Runs, Submit(r) \/ SubmitOnResume(r) PROVE Ruled
<1> DEFINE a == Submitted(Try(r), "UNKNOWN")
           w == W(r)
           t == Try(r).fence
<1>1. /\ runs[r].pc \in { "submit", "resubmit" } /\ runs[r].pc \in Working /\ WriteAttempt(r, a)
      /\ \/ FenceHolds(lease, w, t) /\ lease' = lease
         \/ /\ CanAcquire(lease, w, UnresolvedByOthers(w))
            /\ Acquired(lease, w).token = t /\ lease' = Acquired(lease, w)
  BY DEF Submit, SubmitOnResume, At, Working
<1>2. /\ w \in Ids /\ Try(r) \in Attempt /\ Try(r) = attempts[w][runs[r].k]
      /\ attempts \in [Ids -> Seq(Attempt)] /\ runs[r].k \in DOMAIN attempts[w]
      /\ Tries(r) = attempts[w]
  BY <1>1, OfTry, AtWork DEF Around, Working, At
<1>3. Try(r).boc
  BY <1>1, <1>2, OfTry DEF Around
<1>4. a \in Attempt /\ a.boc /\ a.fence = Try(r).fence /\ a.submitted
  <2>1. "UNKNOWN" \in Results
    BY DEF Results
  <2> QED
    BY <1>2, <1>3, <2>1, AttemptWrites
<1> HIDE DEF a
<1>5. Rewritten(w, runs[r].k, a)
  BY <1>1, <1>2, <1>4, Rewrites
<1>6. /\ FencesOf(attempts') = FencesOf(attempts)
      /\ WithMessage(attempts') = WithMessage(attempts) \cup { w }
      /\ WithSubmission(attempts') = WithSubmission(attempts) \cup { w }
  BY <1>2, <1>4, <1>5, OneAttemptSeen
<1>7. t \in LeaseRules!Tokens /\ << w, t >> \in FencesOf(attempts)
  <2>1. t \in 1 .. MaxToken
    BY <1>2 DEF Around, LeaseInv, Kept
  <2>2. << w, t >> \in FencesOf(attempts)
    BY <1>2, InFences
  <2> QED
    BY <2>1, <2>2 DEF LeaseRules!Tokens
<1>8. PICK v \in Ids, fence \in LeaseRules!Tokens : v = w /\ fence = t
  BY <1>2, <1>7
<1>9. CASE FenceHolds(lease, w, t) /\ lease' = lease
  <2>1. LeaseRules!Submit(v, fence)
    BY <1>6, <1>7, <1>8, <1>9, Mapped, LeaseWords DEF LeaseRules!Submit, Around, FencesOf
  <2> QED
    BY <2>1, OwnersAreRuled
<1>10. CASE /\ CanAcquire(lease, w, UnresolvedByOthers(w))
            /\ Acquired(lease, w).token = t /\ lease' = Acquired(lease, w)
  <2>1. LeaseRules!BlockedFor(v) <=> UnresolvedByOthers(v)
    BY SameBlock DEF LeaseRules!BlockedFor
  <2>2. UnresolvedByOthers(v) <=> UnresolvedByOthers(w)
    BY <1>8
  <2>3. LeaseRules!CanAcquire(lease, v, LeaseRules!BlockedFor(v))
    BY <1>8, <1>10, <2>1, <2>2
       DEF LeaseRules!CanAcquire, CanAcquire, LeaseRules!Renewable, Renewable, LeaseRules!Takeable,
           Takeable, LeaseRules!Active, Active
  <2>4. LeaseRules!SubmitOnResume(v, fence)
    BY <1>6, <1>7, <1>8, <1>10, <2>3, Mapped, LeaseWords
       DEF LeaseRules!SubmitOnResume, Around, FencesOf
  <2> QED
    BY <2>4, OwnersAreRuled
<1> QED
  BY <1>1, <1>9, <1>10

-----------------------------------------------------------------------------
(* Every step of the pipeline is one of LeaseProtocol or leaves it alone.  *)

LEMMA UntouchedWork == ASSUME attempts' = attempts PROVE SameWork(attempts, attempts')
BY DEF SameWork

\* The steps of a run that write no attempt.
LEMMA ReadingIsRuled ==
  ASSUME Around, NEW r \in Runs, Step(r), attempts' = attempts PROVE Ruled
<1>1. \/ lease' = lease
      \/ \E t : lease' = ReleasedBy(lease, W(r), t)
      \/ /\ lease' = Acquired(lease, W(r)) /\ Acquired(lease, W(r)).token <= MaxToken
         /\ CanAcquire(lease, W(r), UnresolvedByOthers(W(r)))
      \/ SubmitOnResume(r)
  <2>1. CASE \/ ReadState(r) \/ ReadAttempt(r) \/ ReadLease(r) \/ AdmitOrphan(r)
             \/ ReadCreated(r) \/ Admit(r) \/ Readmit(r) \/ CreateFails(r)
             \/ ReadContext(r) \/ Reread(r) \/ Sign(r) \/ ReloadAttempt(r) \/ Observe(r)
    BY <2>1 DEF ReadState, ReadAttempt, ReadLease, AdmitOrphan, ReadCreated, Admit,
                Readmit, CreateFails, ReadContext, Reread, Sign, ReloadAttempt,
                Observe, allButRuns
  <2>2. CASE \/ LoadApproved(r) \/ EnterWithoutLease(r) \/ ReconcileOnResume(r) \/ SendBoc(r)
             \/ Confirm(r) \/ Finish(r)
    BY <2>2 DEF LoadApproved, EnterWithoutLease, ReconcileOnResume, SendBoc, Confirm, Finish
  <2>3. CASE EnterSigning(r) \/ FailSigning(r)
    BY <2>3 DEF EnterSigning, FailSigning
  <2>4. CASE Settle(r)
    <3>1. lease' = lease \/ (lease.owner = W(r) /\ lease' = [lease EXCEPT !.released = TRUE])
      BY <2>4 DEF Settle
    <3>2. lease' = lease \/ lease' = ReleasedBy(lease, W(r), lease.token)
      BY <3>1 DEF ReleasedBy
    <3> QED
      BY <3>2
  <2>5. CASE FailSign(r) \/ NoEvidence(r)
    BY <2>5 DEF FailSign, NoEvidence
  <2>6. CASE \/ CreateAttempt(r) \/ Persist(r) \/ PersistOnResume(r) \/ Submit(r)
             \/ Ambiguous(r) \/ BroadcastEvidence(r) \/ Unconfirmed(r)
    BY <2>6 DEF CreateAttempt, Persist, PersistOnResume, Submit, Ambiguous, BroadcastEvidence,
                Unconfirmed
  <2> QED
    BY <2>1, <2>2, <2>3, <2>4, <2>5, <2>6 DEF Step, AttemptStep, SignStep, SendStep
<1>2. CASE lease' = lease
  BY <1>2, UntouchedWork, LeaseRests
<1>3. CASE SubmitOnResume(r)
  BY <1>3, SubmissionIsRuled
<1>4. CASE lease' # lease /\ ~SubmitOnResume(r)
  <2>1. ~At(r, "idle")
    BY <1>4 DEF Step, AttemptStep, SignStep, SendStep, At, ReadState, ReadAttempt, ReadLease,
                AdmitOrphan, ReadCreated, LoadApproved, Admit, EnterSigning, EnterWithoutLease,
                Readmit, CreateAttempt, CreateFails, FailSigning, ReadContext, Reread, Sign,
                FailSign, Persist, PersistOnResume, NoEvidence, ReconcileOnResume, Submit,
                SendBoc, Ambiguous, BroadcastEvidence, ReloadAttempt, Observe, Unconfirmed,
                Confirm, Settle, Finish
  <2>2. PICK w \in Ids : w = W(r)
    BY <2>1, AtWork DEF Around
  <2>3. PICK t : \/ lease' = ReleasedBy(lease, w, t)
                 \/ /\ lease' = Acquired(lease, w) /\ Acquired(lease, w).token <= MaxToken
                    /\ CanAcquire(lease, w, UnresolvedByOthers(w))
    BY <1>1, <1>4, <2>2
  <2> QED
    BY <2>3, UntouchedWork, LeaseChanges
<1> QED
  BY <1>1, <1>2, <1>3, <1>4

\* The steps of a run that write the outcome of an attempt.
LEMMA OutcomeIsRuled ==
  ASSUME Around, NEW r \in Runs,
         FailSign(r) \/ NoEvidence(r) \/ Ambiguous(r) \/ BroadcastEvidence(r) \/ Unconfirmed(r)
  PROVE  Ruled
<1> DEFINE w == W(r)
           old == Try(r)
<1>1. /\ runs[r].pc \in { "failSign", "noEvidence", "ambiguous", "evidence", "unconfirmed" }
      /\ lease' = lease \/ lease' = ReleasedBy(lease, w, old.fence)
      /\ \E result \in { "FAILED_PRE_BROADCAST", "UNKNOWN", "RECONCILE_REQUIRED", "BROADCASTED" } :
           \/ WriteAttempt(r, [Try(r) EXCEPT !.result = result])
           \/ /\ runs[r].pc \in { "ambiguous", "evidence" }
              /\ WriteAttempt(r, Submitted(Try(r), result))
  BY DEF FailSign, NoEvidence, Ambiguous, BroadcastEvidence, Unconfirmed, At
<1>2. runs[r].pc \in Working
  BY <1>1 DEF Working
<1>3. /\ w \in Ids /\ old \in Attempt /\ old = attempts[w][runs[r].k]
      /\ attempts \in [Ids -> Seq(Attempt)] /\ runs[r].k \in DOMAIN attempts[w]
      /\ Tries(r) = attempts[w]
      /\ runs[r].pc \in { "ambiguous", "evidence" } => old.submitted
  BY <1>2, OfTry, AtWork DEF Around, Working, At
<1>4. PICK a \in Attempt : /\ WriteAttempt(r, a) /\ a.boc = old.boc /\ a.fence = old.fence
                          /\ a.submitted = old.submitted
  <2>1. PICK result \in { "FAILED_PRE_BROADCAST", "UNKNOWN", "RECONCILE_REQUIRED", "BROADCASTED" } :
           \/ WriteAttempt(r, [Try(r) EXCEPT !.result = result])
           \/ /\ runs[r].pc \in { "ambiguous", "evidence" }
              /\ WriteAttempt(r, Submitted(Try(r), result))
    BY <1>1
  <2>2. result \in Results /\ Try(r) \in Attempt
    BY <1>3 DEF Results
  <2>3. CASE WriteAttempt(r, [Try(r) EXCEPT !.result = result])
    <3> DEFINE b == [Try(r) EXCEPT !.result = result]
    <3>1. /\ b \in Attempt /\ b.boc = old.boc /\ b.fence = old.fence
          /\ b.submitted = old.submitted
      BY <2>2, AttemptWrites
    <3>2. WriteAttempt(r, b)
      BY <2>3
    <3> HIDE DEF b
    <3> QED
      BY <3>1, <3>2
  <2>4. CASE /\ runs[r].pc \in { "ambiguous", "evidence" }
             /\ WriteAttempt(r, Submitted(Try(r), result))
    <3> DEFINE b == Submitted(Try(r), result)
    <3>1. b \in Attempt /\ b.boc = old.boc /\ b.fence = old.fence /\ b.submitted
      BY <2>2, AttemptWrites
    <3>2. WriteAttempt(r, b) /\ old.submitted
      BY <1>3, <2>4
    <3>3. old.submitted \in BOOLEAN
      BY <1>3 DEF Attempt
    <3>4. b.submitted \in BOOLEAN
      BY <3>1 DEF Attempt
    <3>5. b.submitted = old.submitted
      BY <3>1, <3>2, <3>3, <3>4
    <3> HIDE DEF b
    <3> QED
      BY <3>1, <3>2, <3>5
  <2> QED
    BY <2>1, <2>3, <2>4
<1>5. Rewritten(w, runs[r].k, a)
  BY <1>3, <1>4, Rewrites
<1>6. SameWork(attempts, attempts')
  BY <1>3, <1>4, <1>5, OneAttemptSeen
<1>7. PICK v \in Ids : v = w
  BY <1>3
<1>8. PICK t : t = old.fence
  OBVIOUS
<1>9. lease' = lease \/ lease' = ReleasedBy(lease, v, t)
  BY <1>1, <1>7, <1>8
<1> QED
  BY <1>6, <1>9, LeaseRests, LeaseChanges

LEMMA PayoutIsRuled == ASSUME Around, [PayoutNext]_vars PROVE Ruled
<1>1. ASSUME NEW r \in Runs, Step(r) PROVE Ruled
  <2>1. CASE attempts' = attempts
    BY <1>1, <2>1, ReadingIsRuled
  <2>2. CASE CreateAttempt(r)
    BY <2>2, CreationIsRuled
  <2>3. CASE Persist(r) \/ PersistOnResume(r)
    BY <2>3, PersistIsRuled
  <2>4. CASE Submit(r) \/ SubmitOnResume(r)
    BY <2>4, SubmissionIsRuled
  <2>5. CASE \/ FailSign(r) \/ NoEvidence(r) \/ Ambiguous(r) \/ BroadcastEvidence(r)
             \/ Unconfirmed(r)
    BY <2>5, OutcomeIsRuled
  <2>6. CASE \/ ReadState(r) \/ ReadAttempt(r) \/ ReadLease(r) \/ AdmitOrphan(r)
             \/ ReadCreated(r) \/ Admit(r) \/ Readmit(r) \/ CreateFails(r)
             \/ ReadContext(r) \/ Reread(r) \/ Sign(r) \/ ReloadAttempt(r) \/ Observe(r)
    BY <2>1, <2>6 DEF ReadState, ReadAttempt, ReadLease, AdmitOrphan, ReadCreated, Admit,
                      Readmit, CreateFails, ReadContext, Reread, Sign, ReloadAttempt,
                      Observe, allButRuns
  <2>7. CASE \/ LoadApproved(r) \/ EnterSigning(r) \/ EnterWithoutLease(r) \/ FailSigning(r)
             \/ ReconcileOnResume(r) \/ SendBoc(r) \/ Confirm(r) \/ Settle(r) \/ Finish(r)
    BY <2>1, <2>7 DEF LoadApproved, EnterSigning, EnterWithoutLease, FailSigning,
                      ReconcileOnResume, SendBoc, Confirm, Settle, Finish
  <2> QED
    BY <1>1, <2>2, <2>3, <2>4, <2>5, <2>6, <2>7 DEF Step, AttemptStep, SignStep, SendStep
<1>2. ASSUME UNCHANGED << attempts, lease >> PROVE Ruled
  BY <1>2, UntouchedWork, LeaseRests
<1>3. ASSUME NEW r \in Runs, Fail(r) \/ \E w \in Ids : StartRun(r, w) PROVE Ruled
  BY <1>2, <1>3 DEF Fail, StartRun
<1>4. ASSUME NEW w \in Ids, OfficeStep(w) \/ Timeout(w) PROVE Ruled
  BY <1>2, <1>4 DEF OfficeStep, Timeout
<1>5. ASSUME NEW w \in Ids, Recover(w) PROVE Ruled
  <2>1. attempts' = attempts /\ lease' = ReleasedBy(lease, w, lease.token)
    BY <1>5 DEF Recover, RecoverSigning, RecoverySnapshot
  <2>2. PICK t : t = lease.token
    OBVIOUS
  <2> QED
    BY <2>1, <2>2, UntouchedWork, LeaseChanges
<1>6. ASSUME LeaseExpires PROVE Ruled
  <2>1. attempts' = attempts /\ lease' = Expired(lease) /\ Active(lease)
    BY <1>6 DEF LeaseExpires
  <2>2. PICK w \in Ids : w = lease.owner
    BY <2>1 DEF Active, Around, PayoutInv, PayoutTypeOK, Lease
  <2> QED
    BY <2>1, <2>2, UntouchedWork, LeaseChanges
<1>7. ASSUME \/ \E m \in chain.mempool : WalletExecutes(m) \/ MessageLost(m)
             \/ UNCHANGED vars
      PROVE  Ruled
  BY <1>2, <1>7 DEF WalletExecutes, MessageLost, vars
<1> QED
  BY <1>1, <1>3, <1>4, <1>5, <1>6, <1>7 DEF PayoutNext

LEMMA LeaseRulesStart == PayoutInit => LeaseRules!Init
<1> SUFFICES ASSUME PayoutInit PROVE LeaseRules!Init
  OBVIOUS
<1>1. lease = NoLease /\ attempts = [w \in Ids |-> << >>] /\ PayoutInv /\ LeaseInv
  BY PayoutStarts, LeaseStarts DEF PayoutInit
<1>2. WithMessage(attempts) = {} /\ WithSubmission(attempts) = {}
  BY <1>1 DEF WithMessage, WithSubmission
<1>3. FencesOf(attempts) = {}
  BY <1>1, InFences
<1>4. LeaseRules!NoLease = NoLease
  BY DEF LeaseRules!NoLease, NoLease
<1>5. { w \in Ids : OpenWork(w) # {} } = {}
      /\ { w \in Ids : \E k \in OpenWork(w) : attempts[w][k].submitted } = {}
  BY <1>1, <1>2, WorkIsSeen DEF Seen
<1> QED
  BY <1>1, <1>3, <1>4, <1>5 DEF LeaseRules!Init, FencesOf

\* The pipeline uses the dispatch lease as LeaseProtocol says, when no run outlives
\* the timeout of its activity: an attempt carries the fence it was granted, and
\* a message is submitted only under the latest fence, while no other withdrawal
\* has possibly-broadcast work that is not resolved.
THEOREM LeaseIsFollowed == ASSUME ~Zombies PROVE PayoutSpec => LeaseRulesKept
<1>1. PayoutInv /\ ResendInv /\ [PayoutNext]_vars => ResendInv'
  BY ResendKeeps
<1>2. PayoutInv /\ ResendInv /\ LeaseInv /\ [PayoutNext]_vars => LeaseInv'
  BY LeaseKept
<1>3. PayoutInv /\ LeaseInv /\ PayoutInv' /\ LeaseInv' /\ [PayoutNext]_vars
        => [LeaseRules!Next]_LeaseRules!vars
  BY PayoutIsRuled DEF Around, Ruled
<1>4. PayoutSpec => LeaseRules!Init /\ [][LeaseRules!Next]_LeaseRules!vars
  BY <1>1, <1>2, <1>3, LeaseRulesStart, LeaseStarts, ResendStarts, PayoutInvariant, PTL
     DEF PayoutSpec
<1> QED
  BY <1>4 DEF LeaseRulesKept, LeaseRules!Spec

\* Only the owner of the lease row has a submission that is not resolved.
LEMMA TurnsAreKept ==
  ASSUME LeaseRules!SubmittedOwnsLease, Ruled PROVE LeaseRules!SubmittedOwnsLease'
<1>1. ASSUME NEW o \in Ids,
             LeaseRules!CanAcquire(lease, o, LeaseRules!BlockedFor(o)),
             lease' = LeaseRules!Acquired(lease, o),
             NEW p \in { w \in Ids : \E k \in OpenWork(w) : attempts[w][k].submitted }
      PROVE  lease'.owner = p
  BY <1>1 DEF LeaseRules!SubmittedOwnsLease, LeaseRules!CanAcquire, LeaseRules!BlockedFor,
              LeaseRules!Acquired, LeaseRules!Renewable, LeaseRules!Takeable, LeaseRules!Taken,
              LeaseRules!Renewed
<1>2. ASSUME NEW o \in Ids, LeaseRules!Acquire(o) PROVE LeaseRules!SubmittedOwnsLease'
  BY <1>1, <1>2 DEF LeaseRules!SubmittedOwnsLease, LeaseRules!Acquire
<1>3. ASSUME NEW o \in Ids, LeaseRules!CreateAttempt(o) \/ LeaseRules!PersistMessage(o)
      PROVE  LeaseRules!SubmittedOwnsLease'
  BY <1>3 DEF LeaseRules!SubmittedOwnsLease, LeaseRules!CreateAttempt, LeaseRules!PersistMessage
<1>4. ASSUME NEW o \in Ids, LeaseRules!Resolve(o)
      PROVE  LeaseRules!SubmittedOwnsLease'
  BY <1>4 DEF LeaseRules!SubmittedOwnsLease, LeaseRules!Resolve
<1>5. ASSUME NEW o \in Ids, NEW t, LeaseRules!Submit(o, t)
      PROVE  LeaseRules!SubmittedOwnsLease'
  BY <1>5 DEF LeaseRules!SubmittedOwnsLease, LeaseRules!Submit, LeaseRules!FenceHolds
<1>6. ASSUME NEW o \in Ids, NEW t, LeaseRules!SubmitOnResume(o, t)
      PROVE  LeaseRules!SubmittedOwnsLease'
  <2>1. lease'.owner = o
    BY <1>6 DEF LeaseRules!SubmitOnResume, LeaseRules!Acquired, LeaseRules!Renewable,
                LeaseRules!Taken, LeaseRules!Renewed
  <2> QED
    BY <1>1, <1>6, <2>1 DEF LeaseRules!SubmittedOwnsLease, LeaseRules!SubmitOnResume
<1>7. ASSUME NEW o \in Ids, NEW t, LeaseRules!Release(o, t) PROVE LeaseRules!SubmittedOwnsLease'
  <2>1. lease'.owner = lease.owner
    BY <1>7 DEF LeaseRules!Release, LeaseRules!ReleasedBy
  <2> QED
    BY <1>7, <2>1 DEF LeaseRules!SubmittedOwnsLease, LeaseRules!Release
<1>8. ASSUME LeaseRules!LeaseExpires PROVE LeaseRules!SubmittedOwnsLease'
  <2>1. lease'.owner = lease.owner
    BY <1>8 DEF LeaseRules!LeaseExpires, LeaseRules!Expired
  <2> QED
    BY <1>8, <2>1 DEF LeaseRules!SubmittedOwnsLease, LeaseRules!LeaseExpires
<1>9. ASSUME UNCHANGED LeaseRules!vars PROVE LeaseRules!SubmittedOwnsLease'
  BY <1>9 DEF LeaseRules!SubmittedOwnsLease, LeaseRules!vars
<1> QED
  BY <1>2, <1>3, <1>4, <1>5, <1>6, <1>7, <1>8, <1>9 DEF Ruled, LeaseRules!Next

\* The hot wallet has one unresolved submission at a time: while a withdrawal has
\* submitted work that nothing resolves, no other withdrawal submits, over all
\* crashes, retries, recoveries and expiring leases.
THEOREM PayoutsTakeTurns == ASSUME ~Zombies PROVE PayoutSpec => []LeaseRules!OneSubmitted
<1>1. LeaseRules!Init => LeaseRules!SubmittedOwnsLease
  BY DEF LeaseRules!Init, LeaseRules!SubmittedOwnsLease
<1>2. LeaseRules!SubmittedOwnsLease /\ [LeaseRules!Next]_LeaseRules!vars
        => LeaseRules!SubmittedOwnsLease'
  BY TurnsAreKept DEF Ruled
<1>3. LeaseRules!SubmittedOwnsLease => LeaseRules!OneSubmitted
  BY DEF LeaseRules!SubmittedOwnsLease, LeaseRules!OneSubmitted
<1> QED
  BY <1>1, <1>2, <1>3, LeaseIsFollowed, PTL DEF LeaseRulesKept, LeaseRules!Spec

=============================================================================
