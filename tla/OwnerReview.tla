---------------------------- MODULE OwnerReview ----------------------------
(***************************************************************************)
(* The review of one withdrawal by the owner over Telegram: the delivery   *)
(* of the approvals card from the outbox event                             *)
(* withdrawal.owner_review_required, and the press of one of its buttons.  *)
(* A generation is the set of APPROVE, HOLD and REJECT tokens one delivery *)
(* issues; they are issued in one transaction, so they lapse together.     *)
(* Telegram and PostgreSQL share no transaction: a deliverer may outlive   *)
(* its lease while it sends, and the process may stop between two steps.   *)
(***************************************************************************)
EXTENDS Naturals, FiniteSets, Sequences

CONSTANTS
  Deliverers,        \* batches in flight: one of each bot process
  Presses,           \* callback handlers
  Decisions,         \* the buttons of a card: APPROVE, HOLD, REJECT
  None,
  MaxGenerations,    \* bound: cards issued
  MaxPresses,        \* bound: callbacks received
  MaxFailures        \* bound: crashes, failed sends, lapses and leases run out

ASSUME ReviewAssumption ==
  /\ {MaxGenerations, MaxPresses, MaxFailures} \subseteq Nat
  /\ None \notin Deliverers \cup Presses
  /\ None \notin [generation: 1..MaxGenerations, decision: Decisions]
  /\ Decisions \subseteq {"APPROVE", "HOLD", "REJECT"}

VARIABLES
  state,             \* withdrawals.state
  approvals,         \* withdrawal_approvals: [key, decision]
  event,             \* the outbox event: [status, available]
  publication,       \* telegram_publications: [status, card]
  holder,            \* who holds the publication's row
  generations,       \* admin_action_tokens: [open, consumed]
  shown,             \* generations whose card reached the chat
  cases,             \* review_cases of the withdrawal, in order of creation
  sender,            \* [Deliverers -> [pc, generation, closing]]
  press,             \* [Presses -> [pc, token, case]]
  failures, pressed  \* the bounded counters

deliveryVars == <<event, publication, holder, shown, sender>>
vars == <<state, approvals, event, publication, holder, generations, shown,
          cases, sender, press, failures, pressed>>

Target(d) == CASE d = "APPROVE" -> "APPROVED"
               [] d = "HOLD" -> "HELD"
               [] d = "REJECT" -> "REJECTED"

Issued == 1..Len(generations)
Token == [generation: 1..MaxGenerations, decision: Decisions]

Open(t) == /\ generations[t.generation].open
           /\ t.decision \notin generations[t.generation].consumed

\* A token row that a delivery has expired is locked until it commits.
RowsFree(g) == \A d \in Deliverers: g \notin sender[d].closing

\* OPEN, IN_REVIEW, WAITING_INPUT and ESCALATED are told apart by nothing
\* below: assigning or escalating a case needs a live one and leaves it live.
LiveCases == {c \in DOMAIN cases: cases[c] = "LIVE"}

\* The review case that ensureReviewCase returns, and the table after it.
CaseEnsured == IF LiveCases # {} THEN CHOOSE c \in LiveCases: TRUE
               ELSE Len(cases) + 1
CasesEnsured == IF LiveCases # {} THEN cases ELSE Append(cases, "LIVE")

Resting == [pc |-> "idle", generation |-> 0, closing |-> {}]
Unpressed == [pc |-> "idle", token |-> None, case |-> 0]

Init ==
  /\ state = "MANUAL_REVIEW"
  /\ approvals = {}
  /\ event = [status |-> "PENDING", available |-> TRUE]
  /\ publication = [status |-> "NONE", card |-> 0]
  /\ holder = None
  /\ generations = <<>>
  /\ shown = {}
  /\ cases = <<>>
  /\ sender = [d \in Deliverers |-> Resting]
  /\ press = [p \in Presses |-> Unpressed]
  /\ failures = 0 /\ pressed = 0

MayFail == failures < MaxFailures /\ failures' = failures + 1

\* Where a deliverer goes next; Unlocked also gives the publication's row back.
Goes(d, pc) == sender' = [sender EXCEPT ![d].pc = pc]
Released(d) == IF holder = d THEN None ELSE holder

-----------------------------------------------------------------------------
(* Delivery of the card                                                    *)

\* A poll claims the event and leases it: no other poll sees it for a while.
Claim(d) ==
  /\ sender[d].pc = "idle"
  /\ event.status = "PENDING" /\ event.available
  /\ event' = [event EXCEPT !.available = FALSE]
  /\ Goes(d, "load")
  /\ UNCHANGED <<state, approvals, publication, holder, generations, shown,
                 cases, press, failures, pressed>>

\* The lease, or the delay of a retry, runs out.
LeaseRunsOut ==
  /\ event.status = "PENDING" /\ ~event.available
  /\ \A d \in Deliverers: sender[d].pc # "idle" => failures < MaxFailures
  /\ failures' = IF \E d \in Deliverers: sender[d].pc # "idle"
                 THEN failures + 1 ELSE failures
  /\ event' = [event EXCEPT !.available = TRUE]
  /\ UNCHANGED <<state, approvals, publication, holder, generations, shown,
                 cases, sender, press, pressed>>

\* Read outside any transaction: is the withdrawal still to be reviewed?
Load(d) ==
  /\ sender[d].pc = "load"
  /\ Goes(d, IF state = "MANUAL_REVIEW" THEN "replace" ELSE "supersede")
  /\ UNCHANGED <<state, approvals, event, publication, holder, generations,
                 shown, cases, press, failures, pressed>>

\* Mutant: the publication's row is read without FOR UPDATE.
LockPublicationUnawaited(d) ==
  /\ sender[d].pc = "replace"
  /\ publication' = IF publication.status = "NONE"
                    THEN [publication EXCEPT !.status = "PENDING"]
                    ELSE publication
  /\ IF state = "MANUAL_REVIEW" /\ publication.status # "PUBLISHED"
     THEN Goes(d, "expire")
     ELSE Goes(d, "supersede")
  /\ UNCHANGED <<state, approvals, event, holder, generations, shown, cases,
                 press, failures, pressed>>

\* The publication's row exists and is locked; state and status are re-read.
LockPublication(d) ==
  /\ sender[d].pc = "replace"
  /\ holder = None
  /\ publication' = IF publication.status = "NONE"
                    THEN [publication EXCEPT !.status = "PENDING"]
                    ELSE publication
  /\ IF state = "MANUAL_REVIEW" /\ publication.status # "PUBLISHED"
     THEN Goes(d, "expire") /\ holder' = d
     ELSE Goes(d, "supersede") /\ UNCHANGED holder
  /\ UNCHANGED <<state, approvals, event, generations, shown, cases, press,
                 failures, pressed>>

\* The open tokens of earlier generations are expired, in the transaction.
ExpireEarlier(d) ==
  /\ sender[d].pc = "expire"
  /\ LET earlier == {g \in Issued: generations[g].open}
     IN /\ \A g \in earlier: RowsFree(g)
        /\ sender' = [sender EXCEPT ![d].pc = "issue", ![d].closing = earlier]
  /\ UNCHANGED <<state, approvals, event, publication, holder, generations,
                 shown, cases, press, failures, pressed>>

\* Three fresh tokens, the live review case, and the commit.
Issue(d) ==
  /\ sender[d].pc = "issue"
  /\ Len(generations) < MaxGenerations
  /\ generations' = Append(
       [g \in Issued |-> [generations[g] EXCEPT
          !.open = @ /\ g \notin sender[d].closing]],
       [open |-> TRUE, consumed |-> {}])
  /\ cases' = CasesEnsured
  /\ holder' = Released(d)
  /\ sender' = [sender EXCEPT ![d] =
       [pc |-> "send", generation |-> Len(generations) + 1, closing |-> {}]]
  /\ UNCHANGED <<state, approvals, event, publication, shown, press, failures,
                 pressed>>

\* The card is sent with no lock held; the answer may be lost or the call fail.
Send(d) ==
  /\ sender[d].pc = "send"
  /\ \/ /\ shown' = shown \cup {sender[d].generation}
        /\ Goes(d, "finalize")
        /\ UNCHANGED failures
     \/ /\ shown' \in {shown, shown \cup {sender[d].generation}}
        /\ Goes(d, "retry")
        /\ MayFail
  /\ UNCHANGED <<state, approvals, event, publication, holder, generations,
                 cases, press, pressed>>

\* Mutant: any generation that was sent may be published.
IsCurrentAlways(g) == TRUE

\* The generation still decides: whole and open, or decided by one of its own,
\* and no token of another generation is open.
IsCurrent(g) ==
  /\ Cardinality(generations[g].consumed) <= 1
  /\ generations[g].consumed = {} => generations[g].open
  /\ \A h \in Issued: generations[h].open => h = g

\* One transaction under the publication's lock.
Finalize(d) ==
  /\ sender[d].pc = "finalize"
  /\ holder = None
  /\ IF publication.status = "PUBLISHED"
     THEN /\ event' = [event EXCEPT !.status = "DISPATCHED"]
          /\ UNCHANGED publication
     ELSE IF IsCurrent(sender[d].generation)
          THEN /\ event' = [event EXCEPT !.status = "DISPATCHED"]
               /\ publication' = [status |-> "PUBLISHED",
                                  card |-> sender[d].generation]
          ELSE UNCHANGED <<event, publication>>
  /\ sender' = [sender EXCEPT ![d] = Resting]
  /\ UNCHANGED <<state, approvals, holder, generations, shown, cases, press,
                 failures, pressed>>

\* The event asks for nothing any more: its own transaction.
Supersede(d) ==
  /\ sender[d].pc = "supersede"
  /\ event' = [event EXCEPT !.status = "DISPATCHED"]
  /\ sender' = [sender EXCEPT ![d] = Resting]
  /\ UNCHANGED <<state, approvals, publication, holder, generations, shown,
                 cases, press, failures, pressed>>

\* The destination is disabled, no owner is authorized, or a statement fails.
DeliveryFails(d) ==
  /\ sender[d].pc \in {"load", "replace", "expire", "issue", "finalize"}
  /\ MayFail
  /\ sender' = [sender EXCEPT ![d] = [Resting EXCEPT !.pc = "retry"]]
  /\ holder' = Released(d)
  /\ UNCHANGED <<state, approvals, event, publication, generations, shown,
                 cases, press, pressed>>

\* Mutant: the event that failed is not pending any more.
MarkRetryFailed(d) ==
  /\ sender[d].pc = "retry"
  /\ event' = IF event.status = "PENDING"
              THEN [event EXCEPT !.status = "FAILED"] ELSE event
  /\ sender' = [sender EXCEPT ![d] = Resting]
  /\ UNCHANGED <<state, approvals, publication, holder, generations, shown,
                 cases, press, failures, pressed>>

\* Only a pending event is delayed: a late failure undoes no delivery.
MarkRetry(d) ==
  /\ sender[d].pc = "retry"
  /\ event' = IF event.status = "PENDING"
              THEN [event EXCEPT !.available = FALSE] ELSE event
  /\ sender' = [sender EXCEPT ![d] = Resting]
  /\ UNCHANGED <<state, approvals, publication, holder, generations, shown,
                 cases, press, failures, pressed>>

\* The process stops; an open transaction is rolled back.
DelivererStops(d) ==
  /\ sender[d].pc # "idle"
  /\ MayFail
  /\ sender' = [sender EXCEPT ![d] = Resting]
  /\ holder' = Released(d)
  /\ UNCHANGED <<state, approvals, event, publication, generations, shown,
                 cases, press, pressed>>

Deliver(d) ==
  \/ Load(d) \/ LockPublication(d) \/ ExpireEarlier(d) \/ Issue(d) \/ Send(d)
  \/ Finalize(d) \/ Supersede(d) \/ MarkRetry(d)

-----------------------------------------------------------------------------
(* A button is pressed                                                     *)

\* Authorization, then the token alone: consumed and expired ones end here.
PressButton(p, t) ==
  /\ press[p].pc = "idle"
  /\ pressed < MaxPresses
  /\ t.generation \in shown
  /\ RowsFree(t.generation)
  /\ Open(t)
  /\ pressed' = pressed + 1
  /\ press' = [press EXCEPT ![p] = [pc |-> "check", token |-> t, case |-> 0]]
  /\ UNCHANGED <<state, approvals, generations, cases, failures, deliveryVars>>

\* The withdrawal is read outside any transaction.
Check(p) ==
  /\ press[p].pc = "check"
  /\ press' = IF state = "MANUAL_REVIEW"
              THEN [press EXCEPT ![p].pc = "decide"]
              ELSE [press EXCEPT ![p] = Unpressed]
  /\ UNCHANGED <<state, approvals, generations, cases, failures, pressed,
                 deliveryVars>>

\* Mutant: the state read before the lock is believed.
DecideUnchecked(p) ==
  LET t == press[p].token
  IN /\ press[p].pc = "decide"
     /\ state' = Target(t.decision)
     /\ approvals' = approvals \cup {[key |-> t, decision |-> t.decision]}
     /\ press' = [press EXCEPT ![p].pc = "consume"]
     /\ UNCHANGED <<generations, cases, failures, pressed, deliveryVars>>

\* decideWithdrawal under the withdrawal's lock, keyed by the token.
Decide(p) ==
  LET t == press[p].token
      approval == [key |-> t, decision |-> t.decision]
  IN /\ press[p].pc = "decide"
     /\ \/ /\ approval \in approvals
           /\ press' = [press EXCEPT ![p].pc = "consume"]
           /\ UNCHANGED <<state, approvals>>
        \/ /\ approval \notin approvals /\ state = "MANUAL_REVIEW"
           /\ state' = Target(t.decision)
           /\ approvals' = approvals \cup {approval}
           /\ press' = [press EXCEPT ![p].pc = "consume"]
        \/ /\ approval \notin approvals /\ state # "MANUAL_REVIEW"
           /\ press' = [press EXCEPT ![p] = Unpressed]
           /\ UNCHANGED <<state, approvals>>
     /\ UNCHANGED <<generations, cases, failures, pressed, deliveryVars>>

Consume(p) ==
  LET t == press[p].token
  IN /\ press[p].pc = "consume"
     /\ RowsFree(t.generation)
     /\ generations' = [generations EXCEPT
          ![t.generation].consumed = @ \cup {t.decision}]
     /\ press' = [press EXCEPT ![p].pc = "expire"]
     /\ UNCHANGED <<state, approvals, cases, failures, pressed, deliveryVars>>

\* Every open sibling is expired, of whatever generation.
ExpireSiblings(p) ==
  /\ press[p].pc = "expire"
  /\ \A g \in Issued: generations[g].open => RowsFree(g)
  /\ generations' = [g \in Issued |-> [generations[g] EXCEPT !.open = FALSE]]
  /\ press' = [press EXCEPT ![p].pc = "ensure"]
  /\ UNCHANGED <<state, approvals, cases, failures, pressed, deliveryVars>>

EnsureCase(p) ==
  /\ press[p].pc = "ensure"
  /\ press' = [press EXCEPT ![p].pc = "resolve", ![p].case = CaseEnsured]
  /\ cases' = CasesEnsured
  /\ UNCHANGED <<state, approvals, generations, failures, pressed,
                 deliveryVars>>

ResolveCase(p) ==
  /\ press[p].pc = "resolve"
  /\ cases' = [cases EXCEPT ![press[p].case] = "RESOLVED"]
  /\ press' = [press EXCEPT ![p] = Unpressed]
  /\ UNCHANGED <<state, approvals, generations, failures, pressed,
                 deliveryVars>>

\* The handler stops, or a statement of it fails.
PressStops(p) ==
  /\ press[p].pc # "idle"
  /\ MayFail
  /\ press' = [press EXCEPT ![p] = Unpressed]
  /\ UNCHANGED <<state, approvals, generations, cases, pressed, deliveryVars>>

HandlePress(p) ==
  \/ Check(p) \/ Decide(p) \/ Consume(p) \/ ExpireSiblings(p)
  \/ EnsureCase(p) \/ ResolveCase(p)

-----------------------------------------------------------------------------
(* The other operations on the same rows                                   *)

\* The owner decides on another channel (the same decideWithdrawal).
DecideElsewhere ==
  /\ \A a \in approvals: a.key # None
  /\ \E d \in Decisions:
       /\ state = "MANUAL_REVIEW" \/ (state = "HELD" /\ d # "HOLD")
       /\ state' = Target(d)
       /\ approvals' = approvals \cup {[key |-> None, decision |-> d]}
  /\ UNCHANGED <<generations, cases, press, failures, pressed, deliveryVars>>

\* A generation's tokens reach their time to live.
TokensLapse ==
  /\ MayFail
  /\ \E g \in Issued: /\ generations[g].open /\ RowsFree(g)
                      /\ generations' = [generations EXCEPT ![g].open = FALSE]
  /\ UNCHANGED <<state, approvals, cases, press, pressed, deliveryVars>>

Next ==
  \/ \E d \in Deliverers:
       Claim(d) \/ Deliver(d) \/ DeliveryFails(d) \/ DelivererStops(d)
  \/ LeaseRunsOut
  \/ \E p \in Presses:
       \/ \E t \in Token: PressButton(p, t)
       \/ HandlePress(p) \/ PressStops(p)
  \/ DecideElsewhere \/ TokensLapse

\* The poll timer of a running bot claims and carries on; a lease runs out.
Fairness ==
  /\ \A d \in Deliverers: WF_vars(Deliver(d))
  /\ WF_vars(\E d \in Deliverers: Claim(d))
  /\ WF_vars(LeaseRunsOut)
  /\ \A p \in Presses: WF_vars(HandlePress(p))

Spec == Init /\ [][Next]_vars /\ Fairness

-----------------------------------------------------------------------------
(* Properties                                                              *)

ReviewTypeOK ==
  /\ state \in {"MANUAL_REVIEW", "APPROVED", "HELD", "REJECTED"}
  /\ event \in [status: {"PENDING", "DISPATCHED"}, available: BOOLEAN]
  /\ publication \in [status: {"NONE", "PENDING", "PUBLISHED"},
                      card: 0..MaxGenerations]
  /\ holder \in Deliverers \cup {None}
  /\ \A g \in Issued:
       generations[g] \in [open: BOOLEAN, consumed: SUBSET Decisions]
  /\ shown \subseteq Issued
  /\ \A c \in DOMAIN cases: cases[c] \in {"LIVE", "RESOLVED"}

\* However deliveries overlap, the buttons that work belong to one card
\* (replaceDecisionTokensUnderPublicationLock expires before it issues).
OneGenerationOpen ==
  Cardinality({g \in Issued: generations[g].open}) <= 1

\* A published card is the one whose buttons work: no button of another card
\* works, then or later (finalizeOwnerReviewDeliveryAfterSend).
PublishedCardIsLive ==
  publication.status = "PUBLISHED" =>
    \A g \in Issued: generations[g].open => g = publication.card

\* At most one button decides the withdrawal, and no other is ever recorded as
\* consumed (executeWithdrawalDecisionFromToken, with two presses in flight).
OneButtonDecides ==
  LET byButton == {a \in approvals: a.key # None}
  IN /\ Cardinality(byButton) <= 1
     /\ \A g \in Issued: \A d \in generations[g].consumed:
          \E a \in byButton: a.key = [generation |-> g, decision |-> d]

\* The event is dispatched only when the card is published or the withdrawal
\* has been decided (the stale delivery leaves it pending).
DispatchedIsHandled ==
  event.status = "DISPATCHED" =>
    publication.status = "PUBLISHED" \/ state # "MANUAL_REVIEW"

\* The review of a withdrawal stays in the queue until it is decided: once a
\* card was issued, a live case stands for it, and only a decision resolves it.
UndecidedIsQueued ==
  /\ state = "MANUAL_REVIEW" /\ generations # <<>> =>
       Cardinality(LiveCases) = 1
  /\ (\E c \in DOMAIN cases: cases[c] = "RESOLVED") => state # "MANUAL_REVIEW"

\* Whatever fails, finitely often, the owner is asked or the withdrawal decided.
EventuallyHandled == <>(event.status = "DISPATCHED")

Safety ==
  /\ ReviewTypeOK /\ OneGenerationOpen /\ PublishedCardIsLive
  /\ OneButtonDecides /\ DispatchedIsHandled /\ UndecidedIsQueued
=============================================================================
