----------------------- MODULE LedgerAndReview_proofs -----------------------
(***************************************************************************)
(* Theorems about three parts of the database that many transactions work  *)
(* on at once: the ledger, the owner's review of withdrawals, the sessions *)
(* of the mini-app.  None of them knows of the others.                     *)
(***************************************************************************)
EXTENDS LedgerPosting, OwnerReview, Sessions, FiniteLemmas

-----------------------------------------------------------------------------
(***************************************************************************)
(* Theorems about Sessions, for any number of users, sessions and requests: *)
(* one usable session for each login, and none that survives a revocation   *)
(* which saw it.                                                            *)
(***************************************************************************)

(* The inductive invariant.                                                *)

\* The session a login began with is never unused again, so the identity that a
\* new session gets is the login of no other.
LoginsAreUsed ==
  \A s \in Sids : ~Unused(s) => ~Unused(sess[s].login)

\* What a revocation saw exists, and a login that one has counted was begun and is
\* over: with OneLivePerLogin, the row that was counted was its last live one.
RevokedStay ==
  /\ \A w \in Workers : Doing(w, "revokeAll") => \A s \in work[w].seen : ~Unused(s)
  /\ \A l \in cut : ~Unused(l)
  /\ CountedLoginsEnd

SessionInv == SessionTypeOK /\ LoginsAreUsed /\ OneLivePerLogin /\ RevokedStay

\* A row of user_sessions that was inserted.
LEMMA UsedRow ==
  ASSUME SessionTypeOK, NEW s \in Sids, ~Unused(s)
  PROVE  /\ sess[s] \in [user : Users, login : Sids, st : {"live", "revoked"},
                         expired : BOOLEAN]
         /\ sess[s].login \in Sids
  BY DEF SessionTypeOK, Unused

\* An insertion gets a row of its own.
LEMMA NewRow ==
  ASSUME CanInsert
  PROVE  NewSid \in Sids /\ Unused(NewSid)
  BY DEF CanInsert, NewSid

LEMMA SessionStarts == SessionInit => SessionInv
  BY DEF SessionInit, SessionInv, SessionTypeOK, LoginsAreUsed, OneLivePerLogin,
         RevokedStay, CountedLoginsEnd, Unused, Live, Doing, Idle

\* A step that leaves the sessions alone, finishes no revocation, and gives w
\* something to do with sessions that exist.
LEMMA WorkKeeps ==
  ASSUME SessionInv, NEW w \in Workers, NEW x, UNCHANGED <<sess, cut>>,
         work' = [work EXCEPT ![w] = x],
         \/ x = Idle
         \/ x \in [op : {"rotate", "authed"}, on : {s \in Sids : ~Unused(s)}]
         \/ x \in [op : {"revokeAll"}, seen : SUBSET {s \in Sids : ~Unused(s)}]
  PROVE  SessionInv'
<1>1. SessionTypeOK'
  BY DEF SessionInv, SessionTypeOK, Idle, Unused
<1>2. LoginsAreUsed' /\ OneLivePerLogin'
  BY DEF SessionInv, LoginsAreUsed, OneLivePerLogin, Unused, Live
<1>3. RevokedStay'
  BY DEF SessionInv, SessionTypeOK, RevokedStay, CountedLoginsEnd, Doing, Idle, Unused, Live
<1> QED
  BY <1>1, <1>2, <1>3 DEF SessionInv

\* A step that revokes the sessions of R, lets some of the others expire, and counts
\* only logins of which it revokes a live one.
LEMMA RevokeKeeps ==
  ASSUME SessionInv, NEW R \in SUBSET {s \in Sids : ~Unused(s)},
         sess' \in [Sids -> {[st |-> "unused"]} \cup
           [user : Users, login : Sids, st : {"live", "revoked"}, expired : BOOLEAN]],
         \A s \in Sids : /\ Unused(s)' <=> Unused(s)
                         /\ sess'[s].login = sess[s].login
                         /\ Live(s)' => Live(s) /\ s \notin R,
         cut' \subseteq cut \cup {sess[t].login : t \in {x \in R : Live(x)}},
         work' = work \/ \E w \in Workers : work' = [work EXCEPT ![w] = Idle]
  PROVE  SessionInv'
<1>1. SessionTypeOK'
  BY DEF SessionInv, SessionTypeOK, Idle, Unused
<1>2. LoginsAreUsed'
  BY DEF SessionInv, LoginsAreUsed, SessionTypeOK, Unused
<1>3. OneLivePerLogin'
  BY DEF SessionInv, OneLivePerLogin
<1>4. \A w \in Workers : Doing(w, "revokeAll")' => \A s \in work'[w].seen : ~Unused(s)'
  BY DEF SessionInv, SessionTypeOK, RevokedStay, Doing, Idle
<1>5. \A l \in cut' : ~Unused(l)'
  <2> SUFFICES ASSUME NEW l \in cut' PROVE ~Unused(l)'
    OBVIOUS
  <2>1. CASE l \in cut
    BY <2>1 DEF SessionInv, SessionTypeOK, RevokedStay
  <2>2. ASSUME NEW t \in R, Live(t), l = sess[t].login PROVE ~Unused(l)'
    <3>1. t \in Sids /\ ~Unused(t) /\ l \in Sids
      BY <2>2, UsedRow DEF SessionInv
    <3> QED
      BY <2>2, <3>1 DEF SessionInv, LoginsAreUsed
  <2> QED
    BY <2>1, <2>2
<1>6. CountedLoginsEnd'
  <2> SUFFICES ASSUME NEW s \in Sids, Live(s)', sess[s].login \in cut' PROVE FALSE
    BY DEF CountedLoginsEnd
  <2>1. Live(s) /\ s \notin R /\ sess[s].login \notin cut
    BY DEF SessionInv, RevokedStay, CountedLoginsEnd
  <2>2. PICK t \in R : Live(t) /\ sess[t].login = sess[s].login
    BY <2>1
  <2> QED
    BY <2>1, <2>2 DEF SessionInv, OneLivePerLogin
<1>7. RevokedStay'
  BY <1>4, <1>5, <1>6 DEF RevokedStay
<1> QED
  BY <1>1, <1>2, <1>3, <1>7 DEF SessionInv

-----------------------------------------------------------------------------
(* The steps.                                                              *)

LEMMA LoginKeeps ==
  ASSUME SessionInv, NEW w \in Workers, NEW u \in Users, Login(w, u)
  PROVE  SessionInv'
<1> DEFINE n == NewSid
<1>1. n \in Sids /\ Unused(n)
  BY NewRow DEF Login
<1>2. sess' = [sess EXCEPT ![n] = Row(u, n)] /\ work' = work /\ cut' = cut
  BY DEF Login
<1> HIDE DEF n
<1>3. SessionTypeOK'
  BY <1>1, <1>2 DEF SessionInv, SessionTypeOK, Row, Unused
<1>4. LoginsAreUsed'
  BY <1>1, <1>2 DEF SessionInv, LoginsAreUsed, SessionTypeOK, Row, Unused
<1>5. OneLivePerLogin'
  BY <1>1, <1>2 DEF SessionInv, LoginsAreUsed, OneLivePerLogin, SessionTypeOK, Row, Unused, Live
<1>6. RevokedStay'
  BY <1>1, <1>2 DEF SessionInv, RevokedStay, CountedLoginsEnd, SessionTypeOK, Row, Unused, Live,
                    Doing
<1> QED
  BY <1>3, <1>4, <1>5, <1>6 DEF SessionInv

\* The session that is exchanged was the only live one of its login.
LEMMA CommitRefreshKeeps ==
  ASSUME SessionInv, NEW w \in Workers, CommitRefresh(w)
  PROVE  SessionInv'
<1> DEFINE n == NewSid
           o == work[w].on
<1>1. n \in Sids /\ Unused(n)
  BY NewRow DEF CommitRefresh
<1>2. o \in Sids /\ Live(o) /\ o # n
  BY <1>1 DEF CommitRefresh, SessionInv, SessionTypeOK, Doing, Idle, Live, Unused
<1>3. /\ sess' = [sess EXCEPT ![o].st = "revoked", ![n] = Row(sess[o].user, sess[o].login)]
      /\ work' = [work EXCEPT ![w] = Idle]
      /\ cut' = cut
  BY DEF CommitRefresh, Exchanged
<1> HIDE DEF n, o
<1>4. sess[o] \in [user : Users, login : Sids, st : {"live", "revoked"}, expired : BOOLEAN]
  BY <1>2, UsedRow DEF SessionInv, Live, Unused
<1>5. SessionTypeOK'
  BY <1>1, <1>2, <1>3, <1>4 DEF SessionInv, SessionTypeOK, Row, Unused, Idle
<1>6. LoginsAreUsed'
  BY <1>1, <1>2, <1>3, <1>4 DEF SessionInv, LoginsAreUsed, SessionTypeOK, Row, Unused, Live
<1>7. OneLivePerLogin'
  BY <1>1, <1>2, <1>3, <1>4
     DEF SessionInv, LoginsAreUsed, OneLivePerLogin, SessionTypeOK, Row, Unused, Live
<1>8. RevokedStay'
  BY <1>1, <1>2, <1>3, <1>4
     DEF SessionInv, RevokedStay, CountedLoginsEnd, SessionTypeOK, Row, Unused, Live, Doing, Idle
<1> QED
  BY <1>5, <1>6, <1>7, <1>8 DEF SessionInv

LEMMA RevokeOneKeeps ==
  ASSUME SessionInv, NEW w \in Workers, Revoke(w)
  PROVE  SessionInv'
<1>1. PICK t \in Sids : /\ ~Unused(t)
                       /\ sess' = [sess EXCEPT ![t].st = "revoked"]
  BY DEF Revoke
<1>2. sess[t] \in [user : Users, login : Sids, st : {"live", "revoked"}, expired : BOOLEAN]
  BY <1>1, UsedRow DEF SessionInv
<1>3. /\ sess' \in [Sids -> {[st |-> "unused"]} \cup
           [user : Users, login : Sids, st : {"live", "revoked"}, expired : BOOLEAN]]
      /\ \A s \in Sids : /\ Unused(s)' <=> Unused(s)
                         /\ sess'[s].login = sess[s].login
                         /\ Live(s)' => Live(s) /\ s \notin {t}
  BY <1>1, <1>2 DEF SessionInv, SessionTypeOK, Unused, Live
<1>4. cut' = cut /\ work' = [work EXCEPT ![w] = Idle]
  BY DEF Revoke
<1>5. {t} \in SUBSET {s \in Sids : ~Unused(s)}
  BY <1>1
<1> QED
  BY <1>3, <1>4, <1>5, RevokeKeeps

LEMMA EndRevokeAllKeeps ==
  ASSUME SessionInv, NEW w \in Workers, EndRevokeAll(w)
  PROVE  SessionInv'
<1> DEFINE R == work[w].seen
<1>1. R \in SUBSET {s \in Sids : ~Unused(s)}
  BY DEF EndRevokeAll, SessionInv, SessionTypeOK, RevokedStay, Doing, Idle
<1>2. \A s \in R : sess[s] \in
        [user : Users, login : Sids, st : {"live", "revoked"}, expired : BOOLEAN]
  BY <1>1, UsedRow DEF SessionInv
<1>3. /\ sess' = [t \in Sids |-> IF t \in R THEN [sess[t] EXCEPT !.st = "revoked"] ELSE sess[t]]
      /\ cut' = cut \cup {sess[t].login : t \in {x \in R : Live(x)}}
      /\ work' = [work EXCEPT ![w] = Idle]
  BY DEF EndRevokeAll
<1> HIDE DEF R
<1>4. /\ sess' \in [Sids -> {[st |-> "unused"]} \cup
           [user : Users, login : Sids, st : {"live", "revoked"}, expired : BOOLEAN]]
      /\ \A s \in Sids : /\ Unused(s)' <=> Unused(s)
                         /\ sess'[s].login = sess[s].login
                         /\ Live(s)' => Live(s) /\ s \notin R
  BY <1>1, <1>2, <1>3 DEF SessionInv, SessionTypeOK, Unused, Live
<1> QED
  BY <1>1, <1>3, <1>4, RevokeKeeps

LEMMA ExpiryKeeps ==
  ASSUME SessionInv, NEW t \in Sids, SessionExpires(t)
  PROVE  SessionInv'
<1>1. sess[t] \in [user : Users, login : Sids, st : {"live", "revoked"}, expired : BOOLEAN]
  BY UsedRow DEF SessionExpires, SessionInv, Live, Unused
<1>2. /\ sess' \in [Sids -> {[st |-> "unused"]} \cup
           [user : Users, login : Sids, st : {"live", "revoked"}, expired : BOOLEAN]]
      /\ \A s \in Sids : /\ Unused(s)' <=> Unused(s)
                         /\ sess'[s].login = sess[s].login
                         /\ Live(s)' => Live(s) /\ s \notin {}
  BY <1>1 DEF SessionExpires, SessionInv, SessionTypeOK, Unused, Live
<1>3. cut' = cut /\ work' = work
  BY DEF SessionExpires
<1>4. {} \in SUBSET {s \in Sids : ~Unused(s)}
  OBVIOUS
<1> QED
  BY <1>2, <1>3, <1>4, RevokeKeeps

LEMMA SessionStepKeeps == SessionInv /\ [SessionNext]_sessionVars => SessionInv'
<1> SUFFICES ASSUME SessionInv, [SessionNext]_sessionVars PROVE SessionInv'
  OBVIOUS
<1>1. CASE UNCHANGED sessionVars
  BY <1>1 DEF sessionVars, SessionInv, SessionTypeOK, LoginsAreUsed, OneLivePerLogin,
              RevokedStay, CountedLoginsEnd, Unused, Live, Doing
<1>2. ASSUME NEW w \in Workers, NEW u \in Users, Login(w, u) PROVE SessionInv'
  BY <1>2, LoginKeeps
<1>3. ASSUME NEW w \in Workers, NEW s \in Sids, Refresh(w, s) PROVE SessionInv'
  BY <1>3, WorkKeeps DEF Refresh
<1>4. ASSUME NEW w \in Workers, NEW s \in Sids, Guard(w, s) PROVE SessionInv'
  BY <1>4, WorkKeeps DEF Guard, Active, Live, Unused
<1>5. ASSUME NEW w \in Workers, CommitRefresh(w) PROVE SessionInv'
  BY <1>5, CommitRefreshKeeps
<1>6. ASSUME NEW w \in Workers, LoseRefresh(w) PROVE SessionInv'
  BY <1>6, WorkKeeps DEF LoseRefresh
<1>7. ASSUME NEW w \in Workers, Revoke(w) PROVE SessionInv'
  BY <1>7, RevokeOneKeeps
<1>8. ASSUME NEW w \in Workers, RevokeAll(w) PROVE SessionInv'
  <2> DEFINE S == {t \in Sids : Live(t) /\ sess[t].user = sess[work[w].on].user}
  <2>1. S \in SUBSET {s \in Sids : ~Unused(s)}
    BY DEF Live, Unused
  <2>2. work' = [work EXCEPT ![w] = [op |-> "revokeAll", seen |-> S]]
    BY <1>8 DEF RevokeAll
  <2> QED
    BY <1>8, <2>1, <2>2, WorkKeeps DEF RevokeAll
<1>9. ASSUME NEW w \in Workers, EndRevokeAll(w) PROVE SessionInv'
  BY <1>9, EndRevokeAllKeeps
<1>10. ASSUME NEW s \in Sids, SessionExpires(s) PROVE SessionInv'
  BY <1>10, ExpiryKeeps
<1> QED
  BY <1>1, <1>2, <1>3, <1>4, <1>5, <1>6, <1>7, <1>8, <1>9, <1>10 DEF SessionNext

LEMMA SessionInvariant == SessionSpec => []SessionInv
  BY SessionStarts, SessionStepKeeps, PTL DEF SessionSpec

-----------------------------------------------------------------------------
(* The theorems.                                                           *)

\* However many requests refresh, log out and revoke, and wherever they are lost,
\* a login has at most one session that is not revoked (rotateRefreshSession).
THEOREM OneSessionOfALogin == SessionSpec => []OneLivePerLogin
<1>1. SessionInv => OneLivePerLogin
  BY DEF SessionInv
<1> QED
  BY SessionInvariant, <1>1, PTL

\* A login of which "revoke all" has counted a session never has a live one again,
\* however many refreshes of it waited for the row, inserted meanwhile or come
\* later (revokeAllUserSessions, rotateRefreshSession).
THEOREM CountedLoginsStayOver == SessionSpec => []CountedLoginsEnd
<1>1. SessionInv => CountedLoginsEnd
  BY DEF SessionInv, RevokedStay
<1> QED
  BY SessionInvariant, <1>1, PTL

-----------------------------------------------------------------------------
(***************************************************************************)
(* Theorems about the owner's review, for any number of bots, callbacks,   *)
(* generations and failures.                                               *)
(***************************************************************************)

(* The inductive invariant of the review.                                  *)

Generation == [open: BOOLEAN, consumed: SUBSET Decisions]
Sender == [pc: {"idle", "load", "replace", "expire", "issue", "send", "finalize",
                "supersede", "retry"},
           generation: Nat, closing: SUBSET Nat]
Press == [pc: {"idle", "check", "decide", "consume", "expire", "ensure", "resolve"},
          token: Token \cup {None}, case: Nat]

ReviewTypes ==
  /\ ReviewTypeOK
  /\ generations \in Seq(Generation) /\ Len(generations) <= MaxGenerations
  /\ cases \in Seq({"LIVE", "RESOLVED"})
  /\ sender \in [Deliverers -> Sender]
  /\ press \in [Presses -> Press]

\* Between locking the publication's row and the commit nobody else issues or
\* publishes, so that what was open when the tokens were expired is all there
\* is to close.
LockInv ==
  \A d \in Deliverers:
    /\ sender[d].pc \in {"expire", "issue"} => holder = d /\ publication.status # "PUBLISHED"
    /\ sender[d].pc = "issue" =>
         \A g \in Issued: generations[g].open => g \in sender[d].closing
    /\ sender[d].pc \in {"send", "finalize"} => sender[d].generation \in Issued
    /\ sender[d].pc = "supersede" =>
         state # "MANUAL_REVIEW" \/ publication.status = "PUBLISHED"

CardInv ==
  /\ \A g, h \in Issued: generations[g].open /\ generations[h].open => g = h
  /\ PublishedCardIsLive
  /\ DispatchedIsHandled

\* A button decides once, since the state it finds is never found again; what a
\* press still has to do, it does for that decision.
PressInv ==
  /\ \A a, b \in approvals: a.key # None /\ b.key # None => a = b
  /\ \A a \in approvals: a.key # None => state # "MANUAL_REVIEW"
  /\ \A g \in Issued: \A d \in generations[g].consumed:
       \E a \in approvals: a.key # None /\ a.key = [generation |-> g, decision |-> d]
  /\ \A p \in Presses:
       /\ press[p].pc \in {"check", "decide", "consume"} => press[p].token \in Token
       /\ press[p].pc = "consume" =>
            [key |-> press[p].token, decision |-> press[p].token.decision] \in approvals
       /\ press[p].pc \in {"consume", "expire", "ensure", "resolve"} => state # "MANUAL_REVIEW"

CaseInv ==
  /\ \A b, c \in LiveCases: b = c
  /\ state = "MANUAL_REVIEW" /\ generations # <<>> => LiveCases # {}
  /\ \A c \in DOMAIN cases: cases[c] = "RESOLVED" => state # "MANUAL_REVIEW"

ReviewInv == ReviewTypes /\ LockInv /\ CardInv /\ PressInv /\ CaseInv

-----------------------------------------------------------------------------
(* Delivery.                                                               *)

\* A deliverer that touches neither the withdrawal, nor the tokens, nor the
\* cases leaves the presses and the cases as they were.
LEMMA DeliveryAside ==
  ASSUME ReviewInv, UNCHANGED <<state, approvals, generations, cases, press>>
  PROVE  PressInv' /\ CaseInv'
  BY DEF ReviewInv, PressInv, CaseInv, Issued, LiveCases

\* Where a deliverer stands after a step.
LEMMA SenderMoves ==
  ASSUME ReviewInv, NEW d \in Deliverers, NEW s \in Sender, sender' = [sender EXCEPT ![d] = s]
  PROVE  /\ sender' \in [Deliverers -> Sender] /\ sender'[d] = s
         /\ \A e \in Deliverers: e # d => sender'[e] = sender[e]
  BY DEF ReviewInv, ReviewTypes

\* A step of a deliverer that keeps the publication from everyone else.
LEMMA DeliveryStep ==
  ASSUME ReviewInv, NEW d \in Deliverers, NEW s \in Sender, sender' = [sender EXCEPT ![d] = s],
         UNCHANGED <<state, approvals, generations, cases, press>>,
         event' \in [status: {"PENDING", "DISPATCHED"}, available: BOOLEAN],
         publication' \in [status: {"NONE", "PENDING", "PUBLISHED"}, card: 0..MaxGenerations],
         holder' \in Deliverers \cup {None}, shown' \subseteq Issued,
         s.pc \in {"send", "finalize"} => s.generation \in Issued,
         s.pc \in {"expire", "issue"} => holder' = d /\ publication'.status # "PUBLISHED",
         s.pc = "issue" => \A g \in Issued: generations[g].open => g \in s.closing,
         s.pc = "supersede" => state # "MANUAL_REVIEW" \/ publication'.status = "PUBLISHED",
         \A e \in Deliverers: e # d /\ sender[e].pc \in {"expire", "issue"} =>
           holder' = holder /\ (publication'.status = "PUBLISHED" => publication.status = "PUBLISHED"),
         publication.status = "PUBLISHED" => publication' = publication,
         publication'.status = "PUBLISHED" /\ publication.status # "PUBLISHED" =>
           \A g \in Issued: generations[g].open => g = publication'.card,
         event'.status = "DISPATCHED" =>
           event.status = "DISPATCHED" \/ publication'.status = "PUBLISHED" \/ state # "MANUAL_REVIEW"
  PROVE  ReviewInv'
<1>1. PressInv' /\ CaseInv'
  BY DeliveryAside
<1>2. /\ sender' \in [Deliverers -> Sender] /\ sender'[d] = s
      /\ \A e \in Deliverers: e # d => sender'[e] = sender[e]
  BY SenderMoves
<1>3. Issued' = Issued
  BY DEF Issued
<1>4. ReviewTypes'
  BY <1>2, <1>3 DEF ReviewInv, ReviewTypes, ReviewTypeOK
<1>5. LockInv'
  <2> SUFFICES ASSUME NEW e \in Deliverers
               PROVE  /\ sender'[e].pc \in {"expire", "issue"} =>
                           holder' = e /\ publication'.status # "PUBLISHED"
                      /\ sender'[e].pc = "issue" =>
                           \A g \in Issued: generations[g].open => g \in sender'[e].closing
                      /\ sender'[e].pc \in {"send", "finalize"} => sender'[e].generation \in Issued
                      /\ sender'[e].pc = "supersede" =>
                           state # "MANUAL_REVIEW" \/ publication'.status = "PUBLISHED"
    BY <1>3 DEF LockInv
  <2>1. CASE e = d
    BY <1>2, <2>1
  <2>2. CASE e # d
    BY <1>2, <2>2 DEF ReviewInv, LockInv
  <2> QED
    BY <2>1, <2>2
<1>6. CardInv'
  BY <1>3 DEF ReviewInv, CardInv, PublishedCardIsLive, DispatchedIsHandled
<1> QED
  BY <1>1, <1>4, <1>5, <1>6 DEF ReviewInv

\* What every deliverer's step may rely on.
LEMMA Standing ==
  ASSUME ReviewInv, NEW d \in Deliverers
  PROVE  /\ sender[d] \in Sender /\ sender \in [Deliverers -> Sender]
         /\ event \in [status: {"PENDING", "DISPATCHED"}, available: BOOLEAN]
         /\ publication \in [status: {"NONE", "PENDING", "PUBLISHED"}, card: 0..MaxGenerations]
         /\ holder \in Deliverers \cup {None} /\ shown \subseteq Issued
         /\ Resting \in Sender /\ [Resting EXCEPT !.pc = "retry"] \in Sender
         /\ Resting.pc = "idle" /\ [Resting EXCEPT !.pc = "retry"].pc = "retry"
         /\ holder = None => \A e \in Deliverers: sender[e].pc \notin {"expire", "issue"}
         /\ \A e \in Deliverers: e # d /\ sender[e].pc \in {"expire", "issue"} => holder # d
         /\ Released(d) \in Deliverers \cup {None}
<1>1. None \notin Deliverers
  BY ReviewAssumption
<1>2. Resting \in Sender /\ [Resting EXCEPT !.pc = "retry"] \in Sender
        /\ Resting.pc = "idle" /\ [Resting EXCEPT !.pc = "retry"].pc = "retry"
  BY DEF Resting, Sender
<1> QED
  BY <1>1, <1>2 DEF ReviewInv, ReviewTypes, ReviewTypeOK, LockInv, Released


LEMMA PollKeeps ==
  ASSUME ReviewInv, NEW d \in Deliverers, Claim(d) \/ Load(d) \/ MarkRetry(d) \/ Supersede(d)
  PROVE  ReviewInv'
<1>1. CASE Claim(d)
  <2> DEFINE r == [sender[d] EXCEPT !.pc = "load"]
  <2>1. sender' = [sender EXCEPT ![d] = r] /\ r \in Sender /\ r.pc = "load"
    BY <1>1, Standing DEF Claim, Goes, Sender
  <2> HIDE DEF r
  <2>2. /\ event' \in [status: {"PENDING", "DISPATCHED"}, available: BOOLEAN]
        /\ event'.status = event.status
        /\ UNCHANGED <<state, approvals, publication, holder, generations, shown, cases, press>>
    BY <1>1, Standing DEF Claim
  <2> QED
    BY <2>1, <2>2, Standing, DeliveryStep
<1>2. CASE Load(d)
  <2> DEFINE pc == IF state = "MANUAL_REVIEW" THEN "replace" ELSE "supersede"
             r == [sender[d] EXCEPT !.pc = pc]
  <2>1. /\ sender' = [sender EXCEPT ![d] = r] /\ r \in Sender /\ r.pc \in {"replace", "supersede"}
        /\ r.pc = "supersede" => state # "MANUAL_REVIEW"
    BY <1>2, Standing DEF Load, Goes, Sender
  <2> HIDE DEF r, pc
  <2>2. UNCHANGED <<state, approvals, event, publication, holder, generations, shown, cases, press>>
    BY <1>2 DEF Load
  <2> QED
    BY <2>1, <2>2, Standing, DeliveryStep
<1>3. CASE MarkRetry(d)
  <2>1. sender' = [sender EXCEPT ![d] = Resting]
    BY <1>3 DEF MarkRetry
  <2>2. /\ event' \in [status: {"PENDING", "DISPATCHED"}, available: BOOLEAN]
        /\ event'.status = event.status
        /\ UNCHANGED <<state, approvals, publication, holder, generations, shown, cases, press>>
    BY <1>3, Standing DEF MarkRetry
  <2> QED
    BY <2>1, <2>2, Standing, DeliveryStep
<1>4. CASE Supersede(d)
  <2>1. sender' = [sender EXCEPT ![d] = Resting]
        /\ (state # "MANUAL_REVIEW" \/ publication.status = "PUBLISHED")
    BY <1>4 DEF Supersede, ReviewInv, LockInv
  <2>2. /\ event' \in [status: {"PENDING", "DISPATCHED"}, available: BOOLEAN]
        /\ UNCHANGED <<state, approvals, publication, holder, generations, shown, cases, press>>
    BY <1>4, Standing DEF Supersede
  <2> QED
    BY <2>1, <2>2, Standing, DeliveryStep
<1> QED
  BY <1>1, <1>2, <1>3, <1>4

LEMMA LockKeeps == ASSUME ReviewInv, NEW d \in Deliverers, LockPublication(d) PROVE ReviewInv'
<1> DEFINE locks == state = "MANUAL_REVIEW" /\ publication.status # "PUBLISHED"
           pc == IF locks THEN "expire" ELSE "supersede"
           r == [sender[d] EXCEPT !.pc = pc]
<1>1. sender' = [sender EXCEPT ![d] = r] /\ r \in Sender /\ r.pc = pc
  BY Standing DEF LockPublication, Goes, Sender
<1>2. /\ holder = None /\ holder' = (IF locks THEN d ELSE None)
      /\ \A e \in Deliverers: sender[e].pc \notin {"expire", "issue"}
      /\ UNCHANGED <<state, approvals, event, generations, shown, cases, press>>
  BY Standing DEF LockPublication
<1>3. /\ publication' \in [status: {"NONE", "PENDING", "PUBLISHED"}, card: 0..MaxGenerations]
      /\ publication'.status = "PUBLISHED" <=> publication.status = "PUBLISHED"
      /\ publication.status = "PUBLISHED" => publication' = publication
  BY Standing DEF LockPublication
<1> HIDE DEF r
<1> QED
  BY <1>1, <1>2, <1>3, Standing, DeliveryStep

LEMMA ExpireKeeps == ASSUME ReviewInv, NEW d \in Deliverers, ExpireEarlier(d) PROVE ReviewInv'
<1> DEFINE earlier == {g \in Issued: generations[g].open}
           r == [sender[d] EXCEPT !.pc = "issue", !.closing = earlier]
<1>1. /\ sender' = [sender EXCEPT ![d] = r] /\ r \in Sender /\ r.pc = "issue"
      /\ r.closing = earlier
  <2>1. sender' = [sender EXCEPT ![d].pc = "issue", ![d].closing = earlier]
    BY DEF ExpireEarlier
  <2>2. earlier \in SUBSET Nat
    BY DEF Issued, ReviewInv, ReviewTypes
  <2> HIDE DEF earlier
  <2> QED
    BY <2>1, <2>2, Standing DEF Sender
<1>2. /\ holder = d /\ publication.status # "PUBLISHED"
      /\ UNCHANGED <<state, approvals, event, publication, holder, generations, shown, cases, press>>
  BY DEF ExpireEarlier, ReviewInv, LockInv
<1>3. \A g \in Issued: generations[g].open => g \in r.closing
  BY <1>1
<1> HIDE DEF r
<1> QED
  BY <1>1, <1>2, <1>3, Standing, DeliveryStep

LEMMA SendKeeps == ASSUME ReviewInv, NEW d \in Deliverers, Send(d) PROVE ReviewInv'
<1> DEFINE to(pc) == [sender[d] EXCEPT !.pc = pc]
<1>1. sender[d].generation \in Issued /\ sender[d].pc = "send"
  BY DEF Send, ReviewInv, LockInv
<1>2. PICK pc \in {"finalize", "retry"} : sender' = [sender EXCEPT ![d] = to(pc)]
  BY DEF Send, Goes
<1>3. to(pc) \in Sender /\ to(pc).pc = pc /\ to(pc).generation = sender[d].generation
  BY Standing DEF Sender
<1> HIDE DEF to
<1>4. /\ shown' \subseteq Issued
      /\ UNCHANGED <<state, approvals, event, publication, holder, generations, cases, press>>
  BY <1>1, Standing DEF Send
<1> QED
  BY <1>1, <1>2, <1>3, <1>4, Standing, DeliveryStep

LEMMA FinalizeKeeps == ASSUME ReviewInv, NEW d \in Deliverers, Finalize(d) PROVE ReviewInv'
<1>1. /\ holder = None /\ sender' = [sender EXCEPT ![d] = Resting]
      /\ \A e \in Deliverers: sender[e].pc \notin {"expire", "issue"}
      /\ UNCHANGED <<state, approvals, holder, generations, shown, cases, press>>
  BY Standing DEF Finalize
<1>2. sender[d].generation \in 0..MaxGenerations
  <2>1. sender[d].generation \in 1..Len(generations)
    BY DEF Finalize, ReviewInv, LockInv, Issued
  <2>2. Len(generations) \in Nat /\ Len(generations) <= MaxGenerations /\ MaxGenerations \in Nat
    BY ReviewAssumption DEF ReviewInv, ReviewTypes
  <2> QED
    BY <2>1, <2>2
<1>3. event' \in [status: {"PENDING", "DISPATCHED"}, available: BOOLEAN]
  BY Standing DEF Finalize
<1>4. CASE publication.status = "PUBLISHED"
  <2>1. publication' = publication
    BY <1>4 DEF Finalize
  <2> QED
    BY <1>1, <1>3, <1>4, <2>1, Standing, DeliveryStep
<1>5. CASE publication.status # "PUBLISHED" /\ IsCurrent(sender[d].generation)
  <2>1. publication' = [status |-> "PUBLISHED", card |-> sender[d].generation]
    BY <1>5 DEF Finalize
  <2>2. \A g \in Issued: generations[g].open => g = publication'.card
    BY <1>5, <2>1 DEF IsCurrent
  <2>3. /\ publication' \in [status: {"NONE", "PENDING", "PUBLISHED"}, card: 0..MaxGenerations]
        /\ publication'.status = "PUBLISHED"
    BY <1>2, <2>1
  <2> QED
    BY <1>1, <1>3, <1>5, <2>2, <2>3, Standing, DeliveryStep
<1>6. CASE publication.status # "PUBLISHED" /\ ~IsCurrent(sender[d].generation)
  <2>1. UNCHANGED <<event, publication>>
    BY <1>6 DEF Finalize
  <2> QED
    BY <1>1, <2>1, Standing, DeliveryStep
<1> QED
  BY <1>4, <1>5, <1>6

\* A delivery that fails or stops rolls its transaction back.
LEMMA FailureKeeps ==
  ASSUME ReviewInv, NEW d \in Deliverers, DeliveryFails(d) \/ DelivererStops(d)
  PROVE  ReviewInv'
<1>1. PICK s \in {Resting, [Resting EXCEPT !.pc = "retry"]}: sender' = [sender EXCEPT ![d] = s]
  BY DEF DeliveryFails, DelivererStops
<1>2. /\ holder' = Released(d)
      /\ UNCHANGED <<state, approvals, event, publication, generations, shown, cases, press>>
  BY DEF DeliveryFails, DelivererStops
<1>3. s \in Sender /\ s.pc \in {"idle", "retry"} /\ holder' \in Deliverers \cup {None}
  BY <1>1, <1>2, Standing
<1>4. \A e \in Deliverers: e # d /\ sender[e].pc \in {"expire", "issue"} => holder' = holder
  BY <1>2, Standing DEF Released
<1> QED
  BY <1>1, <1>2, <1>3, <1>4, Standing, DeliveryStep

\* The case that stands for the review, and the table with it.
LEMMA CaseStands ==
  ASSUME ReviewInv
  PROVE  /\ CasesEnsured \in Seq({"LIVE", "RESOLVED"})
         /\ CaseEnsured \in DOMAIN CasesEnsured /\ CasesEnsured[CaseEnsured] = "LIVE"
         /\ \A b, c \in DOMAIN CasesEnsured:
              CasesEnsured[b] = "LIVE" /\ CasesEnsured[c] = "LIVE" => b = c
         /\ \A c \in DOMAIN CasesEnsured: CasesEnsured[c] = "RESOLVED" => state # "MANUAL_REVIEW"
<1>1. /\ cases \in Seq({"LIVE", "RESOLVED"})
      /\ \A b, c \in LiveCases: b = c
      /\ \A c \in DOMAIN cases: cases[c] = "RESOLVED" => state # "MANUAL_REVIEW"
  BY DEF ReviewInv, ReviewTypes, CaseInv
<1>2. CASE LiveCases # {}
  <2>1. CasesEnsured = cases /\ CaseEnsured \in LiveCases
    BY <1>2 DEF CasesEnsured, CaseEnsured
  <2> QED
    BY <1>1, <2>1 DEF LiveCases
<1>3. CASE LiveCases = {}
  <2> DEFINE n == Len(cases)
             after == Append(cases, "LIVE")
  <2>1. CasesEnsured = after /\ CaseEnsured = n + 1
    BY <1>3 DEF CasesEnsured, CaseEnsured
  <2>2. /\ after \in Seq({"LIVE", "RESOLVED"}) /\ n \in Nat
        /\ DOMAIN cases = 1..n /\ DOMAIN after = 1..(n + 1) /\ after[n + 1] = "LIVE"
        /\ \A c \in 1..n: after[c] = cases[c]
    BY <1>1
  <2>3. \A c \in 1..n: cases[c] # "LIVE"
    BY <1>3, <2>2 DEF LiveCases
  <2> HIDE DEF n, after
  <2>4. \A c \in 1..(n + 1): c \in 1..n \/ c = n + 1
    BY <2>2
  <2> QED
    BY <1>1, <2>1, <2>2, <2>3, <2>4
<1> QED
  BY <1>2, <1>3

\* The tokens of a generation more.
LEMMA IssueKeeps == ASSUME ReviewInv, NEW d \in Deliverers, Issue(d) PROVE ReviewInv'
<1> DEFINE n == Len(generations)
           closed == [g \in Issued |-> [generations[g] EXCEPT !.open = @ /\ g \notin sender[d].closing]]
           new == [open |-> TRUE, consumed |-> {}]
           after == Append(closed, new)
           r == [pc |-> "send", generation |-> n + 1, closing |-> {}]
<1>1. /\ generations \in Seq(Generation) /\ n \in Nat /\ n < MaxGenerations /\ MaxGenerations \in Nat
      /\ Issued = 1..n /\ DOMAIN generations = 1..n /\ \A g \in 1..n: generations[g] \in Generation
  BY ReviewAssumption DEF ReviewInv, ReviewTypes, Issue, Issued
<1>2. /\ generations' = after /\ sender' = [sender EXCEPT ![d] = r]
      /\ cases' = CasesEnsured /\ holder' = Released(d)
      /\ UNCHANGED <<state, approvals, event, publication, shown, press>>
  BY DEF Issue
<1>3. /\ sender[d].pc = "issue" /\ holder = d /\ publication.status # "PUBLISHED"
      /\ \A g \in Issued: generations[g].open => g \in sender[d].closing
  BY DEF Issue, ReviewInv, LockInv
<1>4. closed \in Seq(Generation) /\ Len(closed) = n /\ new \in Generation
        /\ \A g \in 1..n: closed[g].open = FALSE /\ closed[g].consumed = generations[g].consumed
  <2>1. \A g \in 1..n: /\ closed[g] \in Generation /\ closed[g].open = FALSE
                       /\ closed[g].consumed = generations[g].consumed
    BY <1>1, <1>3 DEF Generation
  <2>2. closed \in [1..n -> Generation]
    BY <1>1, <2>1
  <2>3. new \in Generation
    BY DEF Generation
  <2> HIDE DEF closed
  <2>4. closed \in Seq(Generation) /\ Len(closed) = n
    BY <1>1, <2>2
  <2> QED
    BY <2>1, <2>3, <2>4
<1> HIDE DEF closed, new
<1>5. /\ after \in Seq(Generation) /\ Len(after) = n + 1 /\ after[n + 1] = new
      /\ \A g \in 1..n: after[g] = closed[g]
  BY <1>1, <1>4
<1> HIDE DEF after, n
<1>6. Issued' = 1..(n + 1) /\ \A g \in Issued': g \in 1..n \/ g = n + 1
  BY <1>1, <1>2, <1>5 DEF Issued
<1>7. new.open = TRUE /\ new.consumed = {}
  BY DEF new
<1>8. r \in Sender /\ r.pc = "send" /\ r.generation = n + 1
  BY <1>1 DEF Sender
<1> HIDE DEF r
<1>9. /\ sender' \in [Deliverers -> Sender] /\ sender'[d] = r
      /\ \A e \in Deliverers: e # d => sender'[e] = sender[e]
  BY <1>2, <1>8, SenderMoves
<1>10. holder' \in Deliverers \cup {None}
  BY <1>2, Standing
<1>11. ReviewTypes'
  <2>1. Len(generations') <= MaxGenerations /\ generations' \in Seq(Generation)
    BY <1>1, <1>2, <1>5
  <2>2. cases' \in Seq({"LIVE", "RESOLVED"})
    BY <1>2, CaseStands
  <2>3. \A g \in Issued': generations'[g] \in Generation
    BY <2>1 DEF Issued
  <2>4. shown' \subseteq Issued'
    <3>1. shown \subseteq 1..n
      BY <1>1, Standing
    <3>2. 1..n \subseteq 1..(n + 1)
      BY <1>1
    <3> QED
      BY <1>2, <1>6, <3>1, <3>2
  <2>5. ReviewTypeOK'
    BY <1>2, <1>10, <2>2, <2>3, <2>4 DEF ReviewInv, ReviewTypes, ReviewTypeOK, Generation
  <2> QED
    BY <1>2, <1>9, <2>1, <2>2, <2>5 DEF ReviewInv, ReviewTypes
<1>12. LockInv'
  <2> SUFFICES ASSUME NEW e \in Deliverers
               PROVE  /\ sender'[e].pc \in {"expire", "issue"} =>
                           holder' = e /\ publication'.status # "PUBLISHED"
                      /\ sender'[e].pc = "issue" =>
                           \A g \in Issued': generations'[g].open => g \in sender'[e].closing
                      /\ sender'[e].pc \in {"send", "finalize"} => sender'[e].generation \in Issued'
                      /\ sender'[e].pc = "supersede" =>
                           state' # "MANUAL_REVIEW" \/ publication'.status = "PUBLISHED"
    BY DEF LockInv
  <2>1. CASE e = d
    BY <1>1, <1>6, <1>8, <1>9, <2>1
  <2>2. CASE e # d
    <3>1. sender[e].pc \notin {"expire", "issue"}
      BY <1>3, <2>2 DEF ReviewInv, LockInv
    <3>2. sender[e].generation \in 1..n => sender[e].generation \in Issued'
      BY <1>1, <1>6
    <3> QED
      BY <1>1, <1>2, <1>9, <2>2, <3>1, <3>2 DEF ReviewInv, LockInv
  <2> QED
    BY <2>1, <2>2
<1>13. CardInv'
  <2>1. \A g \in Issued': generations'[g].open => g = n + 1
    BY <1>2, <1>4, <1>5, <1>6
  <2> QED
    BY <1>2, <1>3, <2>1 DEF ReviewInv, CardInv, PublishedCardIsLive, DispatchedIsHandled
<1>14. PressInv'
  <2>1. \A g \in Issued': \A c \in generations'[g].consumed: g \in Issued /\ c \in generations[g].consumed
    BY <1>1, <1>2, <1>4, <1>5, <1>6, <1>7
  <2> QED
    BY <1>2, <2>1 DEF ReviewInv, PressInv
<1>15. CaseInv'
  <2>1. LiveCases' = {c \in DOMAIN CasesEnsured: CasesEnsured[c] = "LIVE"}
    BY <1>2 DEF LiveCases
  <2> QED
    BY <1>2, <2>1, CaseStands DEF CaseInv
<1> QED
  BY <1>11, <1>12, <1>13, <1>14, <1>15 DEF ReviewInv

-----------------------------------------------------------------------------
(* Presses and decisions.                                                  *)

LEMMA PressMoves ==
  ASSUME ReviewInv, NEW p \in Presses, NEW r \in Press, press' = [press EXCEPT ![p] = r]
  PROVE  /\ press' \in [Presses -> Press] /\ press'[p] = r
         /\ \A q \in Presses: q # p => press'[q] = press[q]
  BY DEF ReviewInv, ReviewTypes

\* Tokens that only close or are consumed, and a state that does not return to
\* MANUAL_REVIEW, disturb no delivery.
LEMMA DeliveryUndisturbed ==
  ASSUME ReviewInv, generations' \in Seq(Generation), Len(generations') = Len(generations),
         \A g \in Issued: generations'[g].open => generations[g].open,
         state' = state \/ state' \in {"APPROVED", "HELD", "REJECTED"},
         cases' \in Seq({"LIVE", "RESOLVED"}), press' \in [Presses -> Press],
         UNCHANGED deliveryVars
  PROVE  ReviewTypes' /\ LockInv' /\ CardInv' /\ Issued' = Issued
<1>1. Issued' = Issued
  BY DEF Issued
<1>2. ReviewTypes'
  <2>1. \A g \in Issued: generations'[g] \in Generation
    BY DEF Issued
  <2>2. \A c \in DOMAIN cases': cases'[c] \in {"LIVE", "RESOLVED"}
    OBVIOUS
  <2>3. ReviewTypeOK'
    BY <1>1, <2>1, <2>2 DEF ReviewInv, ReviewTypes, ReviewTypeOK, Generation, deliveryVars
  <2> QED
    BY <2>3 DEF ReviewInv, ReviewTypes, deliveryVars
<1>3. LockInv'
  BY <1>1 DEF ReviewInv, LockInv, deliveryVars
<1>4. CardInv'
  BY <1>1 DEF ReviewInv, CardInv, PublishedCardIsLive, DispatchedIsHandled, deliveryVars
<1> QED
  BY <1>1, <1>2, <1>3, <1>4

\* The cases stand while the table, the state and the tokens' number do.
LEMMA CasesStand ==
  ASSUME ReviewInv, generations' # <<>> => generations # <<>>, cases' = cases,
         state' = state \/ state' # "MANUAL_REVIEW"
  PROVE  CaseInv'
  BY DEF ReviewInv, CaseInv, LiveCases

\* A press goes on; the withdrawal, the tokens and the cases stay.
LEMMA PressStep ==
  ASSUME ReviewInv, NEW p \in Presses, NEW r \in Press, press' = [press EXCEPT ![p] = r],
         UNCHANGED <<state, approvals, generations, cases, deliveryVars>>,
         r.pc \in {"idle", "check", "decide"},
         r.pc # "idle" => r.token \in Token
  PROVE  ReviewInv'
<1>1. /\ press' \in [Presses -> Press] /\ press'[p] = r
      /\ \A q \in Presses: q # p => press'[q] = press[q]
  BY PressMoves
<1>2. generations \in Seq(Generation) /\ cases \in Seq({"LIVE", "RESOLVED"})
  BY DEF ReviewInv, ReviewTypes
<1>3. ReviewTypes' /\ LockInv' /\ CardInv' /\ Issued' = Issued
  BY <1>1, <1>2, DeliveryUndisturbed
<1>4. CaseInv'
  BY CasesStand
<1>5. PressInv'
  BY <1>1, <1>3 DEF ReviewInv, PressInv
<1> QED
  BY <1>3, <1>4, <1>5 DEF ReviewInv

LEMMA AskingKeeps ==
  ASSUME ReviewInv, NEW p \in Presses,
         (\E t \in Token: PressButton(p, t)) \/ Check(p) \/ PressStops(p)
  PROVE  ReviewInv'
<1>1. Unpressed \in Press /\ Unpressed.pc = "idle"
  BY DEF Unpressed, Press
<1>2. press[p] \in Press
  BY DEF ReviewInv, ReviewTypes
<1>3. ASSUME NEW t \in Token, PressButton(p, t) PROVE ReviewInv'
  <2> DEFINE r == [pc |-> "check", token |-> t, case |-> 0]
  <2>1. press' = [press EXCEPT ![p] = r] /\ r \in Press /\ r.pc = "check" /\ r.token = t
    BY <1>3 DEF PressButton, Press
  <2> HIDE DEF r
  <2>2. UNCHANGED <<state, approvals, generations, cases, deliveryVars>>
    BY <1>3 DEF PressButton
  <2> QED
    BY <2>1, <2>2, PressStep
<1>4. CASE Check(p)
  <2> DEFINE r == [press[p] EXCEPT !.pc = "decide"]
  <2>1. r \in Press /\ r.pc = "decide" /\ r.token = press[p].token
    BY <1>2 DEF Press
  <2>2. press[p].token \in Token
    BY <1>4 DEF Check, ReviewInv, PressInv
  <2>3. press' = [press EXCEPT ![p] = r] \/ press' = [press EXCEPT ![p] = Unpressed]
    BY <1>4 DEF Check
  <2> HIDE DEF r
  <2>4. UNCHANGED <<state, approvals, generations, cases, deliveryVars>>
    BY <1>4 DEF Check
  <2> QED
    BY <1>1, <2>1, <2>2, <2>3, <2>4, PressStep
<1>5. CASE PressStops(p)
  <2>1. /\ press' = [press EXCEPT ![p] = Unpressed]
        /\ UNCHANGED <<state, approvals, generations, cases, deliveryVars>>
    BY <1>5 DEF PressStops
  <2> QED
    BY <1>1, <2>1, PressStep
<1> QED
  BY <1>3, <1>4, <1>5

LEMMA TargetState ==
  ASSUME NEW d \in Decisions PROVE Target(d) \in {"APPROVED", "HELD", "REJECTED"}
  BY ReviewAssumption DEF Target

\* Under the withdrawal's lock a button finds its own decision, or a withdrawal
\* still under review, which no button has decided.
LEMMA DecideKeeps == ASSUME ReviewInv, NEW p \in Presses, Decide(p) PROVE ReviewInv'
<1> DEFINE t == press[p].token
           approval == [key |-> t, decision |-> t.decision]
           r == [press[p] EXCEPT !.pc = "consume"]
<1>1. press[p] \in Press /\ t \in Token /\ press[p].pc = "decide"
  BY DEF Decide, ReviewInv, ReviewTypes, PressInv
<1>2. r \in Press /\ r.pc = "consume" /\ r.token = t /\ Unpressed \in Press /\ Unpressed.pc = "idle"
  BY <1>1 DEF Press, Unpressed
<1>3. t # None /\ t.decision \in Decisions
  <2>1. t \in [generation: 1..MaxGenerations, decision: Decisions]
    BY <1>1 DEF Token
  <2> HIDE DEF t
  <2> QED
    BY <2>1, ReviewAssumption
<1>4. UNCHANGED <<generations, cases, deliveryVars>>
  BY DEF Decide
<1>5. \/ /\ approval \in approvals /\ press' = [press EXCEPT ![p] = r] /\ UNCHANGED <<state, approvals>>
      \/ /\ state = "MANUAL_REVIEW" /\ state' = Target(t.decision)
         /\ approvals' = approvals \cup {approval} /\ press' = [press EXCEPT ![p] = r]
      \/ press' = [press EXCEPT ![p] = Unpressed] /\ UNCHANGED <<state, approvals>>
  BY DEF Decide
<1>6. approval.key = t /\ approval.decision = t.decision
  OBVIOUS
<1> HIDE DEF r, approval
<1>7. generations \in Seq(Generation) /\ cases \in Seq({"LIVE", "RESOLVED"})
  BY DEF ReviewInv, ReviewTypes
<1>8. CASE press' = [press EXCEPT ![p] = Unpressed] /\ UNCHANGED <<state, approvals>>
  BY <1>2, <1>4, <1>8, PressStep
<1>9. CASE /\ press' = [press EXCEPT ![p] = r] /\ approval \in approvals'
           /\ approvals' = approvals /\ state' = state
  <2>1. /\ press' \in [Presses -> Press] /\ press'[p] = r
        /\ \A q \in Presses: q # p => press'[q] = press[q]
    BY <1>2, <1>9, PressMoves
  <2>2. ReviewTypes' /\ LockInv' /\ CardInv' /\ Issued' = Issued
    BY <1>4, <1>7, <1>9, <2>1, DeliveryUndisturbed
  <2>3. CaseInv'
    BY <1>4, <1>9, CasesStand
  <2>4. state # "MANUAL_REVIEW"
    BY <1>3, <1>6, <1>9 DEF ReviewInv, PressInv
  <2>5. [key |-> press'[p].token, decision |-> press'[p].token.decision] \in approvals'
    BY <1>2, <1>9, <2>1 DEF approval
  <2> HIDE DEF t
  <2>6. PressInv'
    BY <1>1, <1>2, <1>4, <1>9, <2>1, <2>2, <2>4, <2>5 DEF ReviewInv, PressInv
  <2> QED
    BY <2>2, <2>3, <2>6 DEF ReviewInv
<1>10. CASE /\ state = "MANUAL_REVIEW" /\ state' = Target(t.decision)
            /\ approvals' = approvals \cup {approval} /\ press' = [press EXCEPT ![p] = r]
  <2>1. /\ press' \in [Presses -> Press] /\ press'[p] = r
        /\ \A q \in Presses: q # p => press'[q] = press[q]
    BY <1>2, <1>10, PressMoves
  <2>2. state' \in {"APPROVED", "HELD", "REJECTED"} /\ state' # "MANUAL_REVIEW"
    BY <1>3, <1>10, TargetState
  <2>3. ReviewTypes' /\ LockInv' /\ CardInv' /\ Issued' = Issued
    BY <1>4, <1>7, <2>1, <2>2, DeliveryUndisturbed
  <2>4. CaseInv'
    BY <1>4, <2>2, CasesStand
  <2>5. [key |-> press'[p].token, decision |-> press'[p].token.decision] \in approvals'
    BY <1>2, <1>10, <2>1 DEF approval
  <2>6. \A a \in approvals: a.key = None
    BY <1>10 DEF ReviewInv, PressInv
  <2>7. \A a, b \in approvals': a.key # None /\ b.key # None => a = b
    BY <1>10, <2>6
  <2>8. \A g \in Issued: \A d \in generations[g].consumed:
          \E a \in approvals': a.key # None /\ a.key = [generation |-> g, decision |-> d]
    BY <1>10 DEF ReviewInv, PressInv
  <2>9. \A q \in Presses: /\ press[q].pc = "consume" =>
                               [key |-> press[q].token, decision |-> press[q].token.decision] \in approvals'
                          /\ press[q].pc \in {"check", "decide", "consume"} => press[q].token \in Token
    BY <1>10 DEF ReviewInv, PressInv
  <2> HIDE DEF t
  <2>10. PressInv'
    BY <1>1, <1>2, <1>4, <2>1, <2>2, <2>3, <2>5, <2>7, <2>8, <2>9 DEF PressInv
  <2> QED
    BY <2>3, <2>4, <2>10 DEF ReviewInv
<1> QED
  BY <1>5, <1>8, <1>9, <1>10

LEMMA ConsumeKeeps == ASSUME ReviewInv, NEW p \in Presses, Consume(p) PROVE ReviewInv'
<1> DEFINE t == press[p].token
           r == [press[p] EXCEPT !.pc = "expire"]
<1>1. /\ press[p] \in Press /\ t \in Token /\ press[p].pc = "consume"
      /\ [key |-> t, decision |-> t.decision] \in approvals /\ state # "MANUAL_REVIEW"
  BY DEF Consume, ReviewInv, ReviewTypes, PressInv
<1>2. /\ generations' = [generations EXCEPT ![t.generation].consumed = @ \cup {t.decision}]
      /\ press' = [press EXCEPT ![p] = r]
      /\ UNCHANGED <<state, approvals, cases, deliveryVars>>
  BY DEF Consume
<1>3. r \in Press /\ r.pc = "expire"
  BY <1>1 DEF Press
<1> HIDE DEF r
<1>4. t # None /\ t.decision \in Decisions /\ t = [generation |-> t.generation, decision |-> t.decision]
  <2>1. t \in [generation: 1..MaxGenerations, decision: Decisions]
    BY <1>1 DEF Token
  <2> HIDE DEF t
  <2> QED
    BY <2>1, ReviewAssumption
<1> HIDE DEF t
<1>5. generations \in Seq(Generation) /\ cases \in Seq({"LIVE", "RESOLVED"})
        /\ \A g \in Issued: generations[g] \in Generation
  BY DEF ReviewInv, ReviewTypes, Issued
<1>6. /\ generations' \in Seq(Generation) /\ Len(generations') = Len(generations)
      /\ \A g \in Issued: /\ generations'[g].open = generations[g].open
                          /\ generations'[g].consumed = generations[g].consumed
                               \cup {d \in {t.decision}: g = t.generation}
  <2>1. CASE t.generation \in Issued
    <3> DEFINE one == [generations[t.generation] EXCEPT !.consumed = @ \cup {t.decision}]
    <3>1. /\ one \in Generation /\ one.open = generations[t.generation].open
          /\ one.consumed = generations[t.generation].consumed \cup {t.decision}
      BY <1>4, <1>5, <2>1 DEF Generation
    <3>2. generations' = [generations EXCEPT ![t.generation] = one]
      BY <1>2
    <3> HIDE DEF one
    <3> QED
      BY <1>5, <2>1, <3>1, <3>2 DEF Issued
  <2>2. CASE t.generation \notin Issued
    <3>1. generations' = generations
      BY <1>2, <1>5, <2>2 DEF Issued
    <3> QED
      BY <1>5, <2>2, <3>1
  <2> QED
    BY <2>1, <2>2
<1>7. /\ press' \in [Presses -> Press] /\ press'[p] = r
      /\ \A q \in Presses: q # p => press'[q] = press[q]
  BY <1>2, <1>3, PressMoves
<1>8. ReviewTypes' /\ LockInv' /\ CardInv' /\ Issued' = Issued
  BY <1>2, <1>5, <1>6, <1>7, DeliveryUndisturbed
<1>9. CaseInv'
  <2>1. generations' # <<>> => generations # <<>>
    BY <1>5, <1>6
  <2> QED
    BY <1>2, <2>1, CasesStand
<1>10. \A g \in Issued: \A d \in generations'[g].consumed:
         \E a \in approvals: a.key # None /\ a.key = [generation |-> g, decision |-> d]
  <2> SUFFICES ASSUME NEW g \in Issued, NEW d \in generations'[g].consumed
               PROVE  \E a \in approvals: a.key # None /\ a.key = [generation |-> g, decision |-> d]
    OBVIOUS
  <2>1. CASE d \in generations[g].consumed
    BY <2>1 DEF ReviewInv, PressInv
  <2>2. CASE d = t.decision /\ g = t.generation
    <3> DEFINE a == [key |-> t, decision |-> t.decision]
    <3>1. a \in approvals /\ a.key = t
      BY <1>1
    <3> HIDE DEF a
    <3> QED
      BY <1>4, <2>2, <3>1
  <2> QED
    BY <1>6, <2>1, <2>2
<1>11. PressInv'
  BY <1>1, <1>2, <1>3, <1>7, <1>8, <1>10 DEF ReviewInv, PressInv
<1> QED
  BY <1>8, <1>9, <1>11 DEF ReviewInv

\* The tokens close; whose consumption was recorded stays.
LEMMA ClosingKeeps ==
  ASSUME ReviewInv, generations' \in Seq(Generation), Len(generations') = Len(generations),
         \A g \in Issued: /\ generations'[g].open => generations[g].open
                          /\ generations'[g].consumed = generations[g].consumed,
         UNCHANGED <<state, approvals, cases, deliveryVars>>,
         press' \in [Presses -> Press],
         \A p \in Presses: \/ press'[p] = press[p]
                           \/ press[p].pc = "expire" /\ press'[p].pc = "ensure"
  PROVE  ReviewInv'
<1>1. generations \in Seq(Generation) /\ cases \in Seq({"LIVE", "RESOLVED"})
  BY DEF ReviewInv, ReviewTypes
<1>2. ReviewTypes' /\ LockInv' /\ CardInv' /\ Issued' = Issued
  BY <1>1, DeliveryUndisturbed
<1>3. CaseInv'
  <2>1. generations' # <<>> => generations # <<>>
    BY <1>1
  <2> QED
    BY <2>1, CasesStand
<1>4. PressInv'
  BY <1>2 DEF ReviewInv, PressInv
<1> QED
  BY <1>2, <1>3, <1>4 DEF ReviewInv

LEMMA ExpirySteps ==
  ASSUME ReviewInv, TokensLapse \/ \E p \in Presses: ExpireSiblings(p)
  PROVE  ReviewInv'
<1>1. generations \in Seq(Generation) /\ DOMAIN generations = Issued /\ Issued = 1..Len(generations)
        /\ Len(generations) \in Nat
        /\ press \in [Presses -> Press] /\ \A g \in Issued: generations[g] \in Generation
  BY DEF ReviewInv, ReviewTypes, Issued
<1>2. CASE TokensLapse
  <2>1. PICK g \in Issued: generations' = [generations EXCEPT ![g].open = FALSE]
    BY <1>2 DEF TokensLapse
  <2> DEFINE one == [generations[g] EXCEPT !.open = FALSE]
  <2>2. one \in Generation /\ one.open = FALSE /\ one.consumed = generations[g].consumed
    BY <1>1 DEF Generation
  <2>3. generations' = [generations EXCEPT ![g] = one]
    BY <2>1
  <2> HIDE DEF one
  <2>4. /\ generations' \in Seq(Generation) /\ Len(generations') = Len(generations)
        /\ \A h \in Issued: /\ generations'[h].open => generations[h].open
                            /\ generations'[h].consumed = generations[h].consumed
    BY <1>1, <2>2, <2>3
  <2>5. UNCHANGED <<state, approvals, cases, press, deliveryVars>>
    BY <1>2 DEF TokensLapse
  <2> QED
    BY <1>1, <2>4, <2>5, ClosingKeeps
<1>3. ASSUME NEW p \in Presses, ExpireSiblings(p) PROVE ReviewInv'
  <2> DEFINE closed == [g \in Issued |-> [generations[g] EXCEPT !.open = FALSE]]
             r == [press[p] EXCEPT !.pc = "ensure"]
  <2>1. /\ generations' = closed /\ press' = [press EXCEPT ![p] = r] /\ press[p].pc = "expire"
        /\ UNCHANGED <<state, approvals, cases, deliveryVars>>
    BY <1>3 DEF ExpireSiblings
  <2>2. r \in Press /\ r.pc = "ensure"
    BY <1>1 DEF Press
  <2> HIDE DEF r
  <2>3. \A g \in Issued: /\ closed[g] \in Generation /\ closed[g].open = FALSE
                         /\ closed[g].consumed = generations[g].consumed
    BY <1>1 DEF Generation
  <2>4. closed \in [Issued -> Generation]
    BY <2>3
  <2> HIDE DEF closed
  <2>5. closed \in Seq(Generation) /\ Len(closed) = Len(generations)
    BY <1>1, <2>4
  <2>6. /\ press' \in [Presses -> Press]
        /\ \A q \in Presses: \/ press'[q] = press[q]
                             \/ press[q].pc = "expire" /\ press'[q].pc = "ensure"
    BY <2>1, <2>2, PressMoves
  <2> QED
    BY <2>1, <2>3, <2>5, <2>6, ClosingKeeps
<1> QED
  BY <1>2, <1>3

\* The case is ensured, and resolved, for a withdrawal that is decided.
LEMMA CaseKeeps ==
  ASSUME ReviewInv, NEW p \in Presses, EnsureCase(p) \/ ResolveCase(p)
  PROVE  ReviewInv'
<1>1. /\ press[p] \in Press /\ state # "MANUAL_REVIEW"
      /\ generations \in Seq(Generation) /\ cases \in Seq({"LIVE", "RESOLVED"})
      /\ UNCHANGED <<state, approvals, generations, deliveryVars>>
  BY DEF EnsureCase, ResolveCase, ReviewInv, ReviewTypes, PressInv
<1>2. CaseEnsured \in Nat
  BY CaseStands
<1>3. PICK r \in Press: /\ press' = [press EXCEPT ![p] = r]
                        /\ r.pc \in {"idle", "resolve"}
  <2>1. CASE EnsureCase(p)
    <3> DEFINE s == [press[p] EXCEPT !.pc = "resolve", !.case = CaseEnsured]
    <3>1. press' = [press EXCEPT ![p] = s]
      BY <2>1 DEF EnsureCase
    <3>2. s \in Press /\ s.pc = "resolve"
      BY <1>1, <1>2 DEF Press
    <3> HIDE DEF s
    <3> QED
      BY <3>1, <3>2
  <2>2. CASE ResolveCase(p)
    <3>1. press' = [press EXCEPT ![p] = Unpressed] /\ Unpressed \in Press /\ Unpressed.pc = "idle"
      BY <2>2 DEF ResolveCase, Unpressed, Press
    <3> QED
      BY <3>1
  <2> QED
    BY <2>1, <2>2
<1>4. /\ press' \in [Presses -> Press] /\ press'[p] = r
      /\ \A q \in Presses: q # p => press'[q] = press[q]
  BY <1>3, PressMoves
<1>5. /\ cases' \in Seq({"LIVE", "RESOLVED"})
      /\ \A b, c \in DOMAIN cases': cases'[b] = "LIVE" /\ cases'[c] = "LIVE" => b = c
  <2>1. CASE EnsureCase(p)
    BY <2>1, CaseStands DEF EnsureCase
  <2>2. CASE ResolveCase(p)
    <3>1. cases' = [cases EXCEPT ![press[p].case] = "RESOLVED"]
      BY <2>2 DEF ResolveCase
    <3>2. DOMAIN cases' = DOMAIN cases /\ \A c \in DOMAIN cases: cases'[c] \in {cases[c], "RESOLVED"}
      BY <1>1, <3>1
    <3>3. \A b, c \in DOMAIN cases: cases[b] = "LIVE" /\ cases[c] = "LIVE" => b = c
      BY DEF ReviewInv, CaseInv, LiveCases
    <3>4. cases' \in Seq({"LIVE", "RESOLVED"})
      <4> DEFINE i == press[p].case
      <4>1. cases' = [cases EXCEPT ![i] = "RESOLVED"]
        BY <3>1
      <4> HIDE DEF i
      <4>2. CASE i \in DOMAIN cases
        BY <1>1, <4>1, <4>2
      <4>3. CASE i \notin DOMAIN cases
        <5>1. cases' = cases
          BY <1>1, <4>1, <4>3
        <5> QED
          BY <1>1, <5>1
      <4> QED
        BY <4>2, <4>3
    <3> QED
      BY <3>2, <3>3, <3>4
  <2> QED
    BY <2>1, <2>2
<1>6. ReviewTypes' /\ LockInv' /\ CardInv' /\ Issued' = Issued
  BY <1>1, <1>4, <1>5, DeliveryUndisturbed
<1>7. CaseInv'
  BY <1>1, <1>5 DEF CaseInv, LiveCases
<1>8. PressInv'
  BY <1>1, <1>3, <1>4, <1>6 DEF ReviewInv, PressInv
<1> QED
  BY <1>6, <1>7, <1>8 DEF ReviewInv

\* A decision of another channel is recorded under no token.
LEMMA ElsewhereKeeps == ASSUME ReviewInv, DecideElsewhere PROVE ReviewInv'
<1>1. PICK d \in Decisions: /\ state' = Target(d)
                            /\ approvals' = approvals \cup {[key |-> None, decision |-> d]}
  BY DEF DecideElsewhere
<1>2. /\ UNCHANGED <<generations, cases, press, deliveryVars>>
      /\ state' \in {"APPROVED", "HELD", "REJECTED"} /\ state' # "MANUAL_REVIEW"
  BY <1>1, TargetState DEF DecideElsewhere
<1>3. /\ generations \in Seq(Generation) /\ cases \in Seq({"LIVE", "RESOLVED"})
      /\ press \in [Presses -> Press]
  BY DEF ReviewInv, ReviewTypes
<1>4. ReviewTypes' /\ LockInv' /\ CardInv' /\ Issued' = Issued
  BY <1>2, <1>3, DeliveryUndisturbed
<1>5. CaseInv'
  BY <1>2, CasesStand
<1>6. \A a \in approvals': a \in approvals \/ a.key = None
  BY <1>1
<1>7. approvals \subseteq approvals'
  BY <1>1
<1>8. PressInv'
  BY <1>2, <1>4, <1>6, <1>7 DEF ReviewInv, PressInv
<1> QED
  BY <1>4, <1>5, <1>8 DEF ReviewInv

\* The lease of the event runs out.
LEMMA LeaseKeeps == ASSUME ReviewInv, LeaseRunsOut PROVE ReviewInv'
<1>1. /\ event' = [event EXCEPT !.available = TRUE]
      /\ UNCHANGED <<state, approvals, publication, holder, generations, shown, cases, sender, press>>
  BY DEF LeaseRunsOut
<1>2. /\ event' \in [status: {"PENDING", "DISPATCHED"}, available: BOOLEAN]
      /\ event'.status = event.status /\ Issued' = Issued
  BY <1>1 DEF ReviewInv, ReviewTypes, ReviewTypeOK, Issued
<1>3. ReviewTypes'
  BY <1>1, <1>2 DEF ReviewInv, ReviewTypes, ReviewTypeOK
<1>4. LockInv' /\ CardInv'
  BY <1>1, <1>2 DEF ReviewInv, LockInv, CardInv, PublishedCardIsLive, DispatchedIsHandled
<1> QED
  BY <1>1, <1>3, <1>4, DeliveryAside DEF ReviewInv

-----------------------------------------------------------------------------
(* The theorems.                                                           *)

LEMMA ReviewStarts == Init => ReviewInv
<1> SUFFICES ASSUME Init PROVE ReviewInv
  OBVIOUS
<1>1. /\ generations = <<>> /\ cases = <<>> /\ Issued = {} /\ LiveCases = {} /\ DOMAIN cases = {}
      /\ generations \in Seq(Generation) /\ cases \in Seq({"LIVE", "RESOLVED"}) /\ Len(generations) = 0
  BY DEF Init, Issued, LiveCases
<1>2. Resting \in Sender /\ Resting.pc = "idle" /\ Unpressed \in Press /\ Unpressed.pc = "idle"
  BY DEF Resting, Sender, Unpressed, Press
<1>3. ReviewTypes
  BY <1>1, <1>2, ReviewAssumption DEF Init, ReviewTypes, ReviewTypeOK
<1>4. LockInv /\ PressInv
  BY <1>1, <1>2 DEF Init, LockInv, PressInv
<1>5. CardInv
  BY <1>1 DEF Init, CardInv, PublishedCardIsLive, DispatchedIsHandled
<1>6. CaseInv
  BY <1>1 DEF CaseInv
<1> QED
  BY <1>3, <1>4, <1>5, <1>6 DEF ReviewInv

LEMMA ReviewStep == ReviewInv /\ [Next]_vars => ReviewInv'
<1> SUFFICES ASSUME ReviewInv, [Next]_vars PROVE ReviewInv'
  OBVIOUS
<1>1. CASE UNCHANGED vars
  BY <1>1 DEF vars, ReviewInv, ReviewTypes, ReviewTypeOK, LockInv, CardInv, PublishedCardIsLive,
             DispatchedIsHandled, PressInv, CaseInv, LiveCases, Issued
<1>2. ASSUME NEW d \in Deliverers, Claim(d) \/ Deliver(d) \/ DeliveryFails(d) \/ DelivererStops(d)
      PROVE  ReviewInv'
  BY <1>2, PollKeeps, LockKeeps, ExpireKeeps, IssueKeeps, SendKeeps, FinalizeKeeps, FailureKeeps
     DEF Deliver
<1>3. ASSUME NEW p \in Presses,
             (\E t \in Token: PressButton(p, t)) \/ HandlePress(p) \/ PressStops(p)
      PROVE  ReviewInv'
  BY <1>3, AskingKeeps, DecideKeeps, ConsumeKeeps, ExpirySteps, CaseKeeps DEF HandlePress
<1>4. CASE LeaseRunsOut \/ DecideElsewhere \/ TokensLapse
  BY <1>4, LeaseKeeps, ElsewhereKeeps, ExpirySteps
<1> QED
  BY <1>1, <1>2, <1>3, <1>4 DEF Next

THEOREM ReviewInvariant == Spec => []ReviewInv
  BY ReviewStarts, ReviewStep, PTL DEF Spec

\* However many bots deliver the card, and whenever their sends fail or their
\* leases run out, the buttons that work are those of one card.
THEOREM OneCardWorks == Spec => []OneGenerationOpen
<1>1. ReviewInv => OneGenerationOpen
  <2> SUFFICES ASSUME ReviewInv PROVE OneGenerationOpen
    OBVIOUS
  <2> DEFINE opened == {g \in Issued: generations[g].open}
  <2>1. \A g, h \in opened: g = h
    BY DEF ReviewInv, CardInv
  <2> HIDE DEF opened
  <2>2. Cardinality(opened) <= 1
    BY <2>1, OneAtMost
  <2> QED
    BY <2>2 DEF OneGenerationOpen, opened
<1> QED
  BY <1>1, ReviewInvariant, PTL

\* Once a card is published, no button of another card works.
THEOREM PublishedWorks == Spec => []PublishedCardIsLive
<1>1. ReviewInv => PublishedCardIsLive
  BY DEF ReviewInv, CardInv
<1> QED
  BY <1>1, ReviewInvariant, PTL

\* However presses overlap, are retried or stop half-way, one button at most
\* decides, and the tokens consumed are its own.
THEOREM OneButton == Spec => []OneButtonDecides
<1>1. ReviewInv => OneButtonDecides
  <2> SUFFICES ASSUME ReviewInv PROVE OneButtonDecides
    OBVIOUS
  <2> DEFINE byButton == {a \in approvals: a.key # None}
  <2>1. \A a, b \in byButton: a = b
    BY DEF ReviewInv, PressInv
  <2>2. \A g \in Issued: \A d \in generations[g].consumed:
          \E a \in byButton: a.key = [generation |-> g, decision |-> d]
    BY DEF ReviewInv, PressInv
  <2> HIDE DEF byButton
  <2>3. Cardinality(byButton) <= 1
    BY <2>1, OneAtMost
  <2> QED
    BY <2>2, <2>3 DEF OneButtonDecides, byButton
<1> QED
  BY <1>1, ReviewInvariant, PTL

\* The event is not dispatched before the card is published or the withdrawal
\* decided, and an undecided withdrawal keeps one live case.
THEOREM ReviewIsSafe == Spec => []Safety
<1>1. ReviewInv => DispatchedIsHandled /\ UndecidedIsQueued /\ ReviewTypeOK
  <2> SUFFICES ASSUME ReviewInv PROVE DispatchedIsHandled /\ UndecidedIsQueued /\ ReviewTypeOK
    OBVIOUS
  <2>1. \A b, c \in LiveCases: b = c
    BY DEF ReviewInv, CaseInv
  <2>2. ASSUME LiveCases # {} PROVE Cardinality(LiveCases) = 1
    <3>1. PICK c: LiveCases = {c}
      BY <2>1, <2>2
    <3>2. Cardinality({c}) = 1
      BY FS_Singleton
    <3> QED
      BY <3>1, <3>2
  <2> QED
    BY <2>2 DEF ReviewInv, ReviewTypes, CardInv, CaseInv, UndecidedIsQueued
<1>2. ReviewTypeOK /\ OneGenerationOpen /\ PublishedCardIsLive /\ OneButtonDecides
        /\ DispatchedIsHandled /\ UndecidedIsQueued => Safety
  BY DEF Safety
<1> QED
  BY <1>1, <1>2, ReviewInvariant, OneCardWorks, PublishedWorks, OneButton, PTL

-----------------------------------------------------------------------------
(***************************************************************************)
(* Theorems about LedgerPosting, for any number of sessions, accounts and   *)
(* commands: what is posted is posted once, the projections are what the    *)
(* entries say, a user's bucket never falls below zero, the books balance,  *)
(* and no circle of postings waits for each other.                          *)
(***************************************************************************)

USE LedgerAssumption

-----------------------------------------------------------------------------
(* The inductive invariants.                                               *)

Transaction ==
  [ pc : Pcs, cmd : Commands \cup { NoCommand }, at : Int,
    held : SUBSET Accounts, seen : [Accounts -> Int], answer : Answers ]

TypeOK ==
  /\ history \in Seq([ cmd : Commands, at : Int ])
  /\ balance \in [Accounts -> Projection]
  /\ session \in [Sessions -> Transaction]
  /\ clock \in Int
  /\ \A s \in Sessions : ~At(s, "idle") => Cmd(s) \in Commands

\* Nothing committed clashes with a header that is inserted, nor do two of these.
InsertedAlone ==
  \A s \in Sessions : At(s, "update") =>
    \A n \in Indexes :
      /\ \A i \in DOMAIN history : ~Clash(n, history[i].cmd, Cmd(s))
      /\ \A t \in Sessions : ~Inserted(t, n, s)

OnceInv == TypeOK /\ InsertedAlone /\ PostedOnce

\* A row has one holder, who knows its balance; from its check on, a posting holds
\* every row it touches and covers what it takes from the protected ones.
HeldIsKnown ==
  \A s \in Sessions :
    /\ \A t \in Sessions : t # s => session[s].held \cap session[t].held = {}
    /\ \A a \in session[s].held : session[s].seen[a] = balance[a].atomic
    /\ session[s].pc \in { "idle", "check" } => session[s].held = {}
    /\ session[s].pc = "lock" => session[s].held \subseteq Touches(Cmd(s))
    /\ session[s].pc \in { "insert", "update" } =>
         session[s].held = Touches(Cmd(s)) /\ ~Overdraws(s)

\* No projection of a protected bucket is negative.
BucketsAreCovered == \A a \in Protected : balance[a].atomic >= 0

CoverInv == TypeOK /\ HeldIsKnown /\ BucketsAreCovered

-----------------------------------------------------------------------------
(* Types.                                                                  *)

LEMMA ClashIsSymmetric ==
  ASSUME NEW n \in Indexes, NEW c, NEW d, Clash(n, c, d)
  PROVE  Clash(n, d, c)
  BY DEF Indexes, Clash

LEMMA NewAmount ==
  ASSUME TypeOK, NEW s \in Sessions, Cmd(s) \in Commands, NEW a \in Accounts
  PROVE  Delta(Cmd(s), a) \in Int /\ After(s, a) \in Int
<1>1. Normal[a] \in Int /\ Debit[Cmd(s)][a] \in Int /\ session[s].seen[a] \in Int
  BY DEF TypeOK, Transaction
<1>2. Normal[a] = 1 \/ Normal[a] = -1
  OBVIOUS
<1> QED
  BY <1>1, <1>2 DEF Delta, After

\* A step of a session that changes neither the ledger nor the clock.
LEMMA SessionTypes ==
  ASSUME TypeOK, UNCHANGED << clock, history, balance >>, NEW s \in Sessions,
         NEW x \in Transaction,
         x.pc # "idle" => x.cmd \in Commands,
         session' = [session EXCEPT ![s] = x]
  PROVE  TypeOK'
  BY DEF TypeOK, At, Cmd

\* The session after it ends.
Ended(s, answer) ==
  [ session[s] EXCEPT !.pc = "idle", !.held = {}, !.seen = Zero, !.at = 0,
                      !.answer = answer ]

LEMMA EndedType ==
  ASSUME TypeOK, NEW s \in Sessions, NEW answer \in Answers
  PROVE  /\ Ended(s, answer) \in Transaction
         /\ Ended(s, answer).pc = "idle" /\ Ended(s, answer).held = {}
<1> DEFINE x == [ session[s] EXCEPT !.pc = "idle", !.held = {} ]
           y == [ x EXCEPT !.seen = Zero ]
           z == [ y EXCEPT !.at = 0 ]
<1>1. x \in Transaction /\ x.pc = "idle" /\ x.held = {}
  <2>1. PICK w \in Transaction : w = session[s]
    BY DEF TypeOK
  <2>2. "idle" \in Pcs
    BY DEF Pcs
  <2>3. x = [ w EXCEPT !.pc = "idle", !.held = {} ]
    BY <2>1
  <2> HIDE DEF x
  <2> QED
    BY <2>2, <2>3 DEF Transaction
<1>2. Ended(s, answer) = [ z EXCEPT !.answer = answer ]
  BY DEF Ended
<1> HIDE DEF x
<1>3. y \in Transaction /\ y.pc = "idle" /\ y.held = {}
  <2>1. Zero \in [Accounts -> Int]
    BY DEF Zero
  <2> QED
    BY <1>1, <2>1 DEF Transaction
<1> HIDE DEF y
<1>4. z \in Transaction /\ z.pc = "idle" /\ z.held = {}
  BY <1>3 DEF Transaction
<1> HIDE DEF z
<1> QED
  BY <1>2, <1>4 DEF Transaction

\* A session that ends.
LEMMA EndsType ==
  ASSUME TypeOK, UNCHANGED << clock, history, balance >>, NEW s \in Sessions,
         NEW answer \in Answers, Ends(s, answer)
  PROVE  /\ TypeOK'
         /\ session' = [session EXCEPT ![s] = Ended(s, answer)]
<1>1. session' = [session EXCEPT ![s] = Ended(s, answer)]
  BY DEF Ends, Ended
<1> QED
  BY <1>1, EndedType, SessionTypes

\* A session that goes on.
LEMMA GotoType ==
  ASSUME TypeOK, UNCHANGED << clock, history, balance >>, NEW s \in Sessions,
         NEW pc \in Pcs, Goto(s, pc), ~At(s, "idle")
  PROVE  TypeOK'
<1> DEFINE x == [ session[s] EXCEPT !.pc = pc ]
<1>0. session[s] \in Transaction /\ Cmd(s) \in Commands
  BY DEF TypeOK
<1>1. x \in Transaction /\ x.cmd \in Commands
  BY <1>0 DEF Transaction, Cmd
<1>2. session' = [session EXCEPT ![s] = x]
  BY DEF Goto
<1> HIDE DEF x
<1> QED
  BY <1>1, <1>2, SessionTypes

\* The commit: the next transaction, and the rows it touches.
LEMMA CommitType ==
  ASSUME TypeOK, NEW s \in Sessions, Commit(s)
  PROVE  TypeOK'
<1> DEFINE h == [ cmd |-> Cmd(s), at |-> session[s].at ]
<1>1. Cmd(s) \in Commands /\ session[s].at \in Int
  BY DEF Commit, TypeOK, At, Transaction
<1>2. history' \in Seq([ cmd : Commands, at : Int ])
  <2>1. h \in [ cmd : Commands, at : Int ]
    BY <1>1
  <2>2. history' = Append(history, h)
    BY DEF Commit
  <2> HIDE DEF h
  <2> QED
    BY <2>1, <2>2 DEF TypeOK
<1>3. ASSUME NEW a \in Accounts PROVE Projected(a, s) \in Projection
  <2>1. balance[a] \in Projection /\ Len(history) \in Nat
    BY DEF TypeOK
  <2>2. After(s, a) \in Int
    BY <1>1, NewAmount
  <2> QED
    BY <2>1, <2>2 DEF Projected, Projection
<1>4. balance' \in [Accounts -> Projection]
  BY <1>3 DEF Commit, TypeOK
<1>5. session' = [session EXCEPT ![s] = Ended(s, "posted")] /\ clock' = clock
  BY DEF Commit, Ends, Ended
<1>6. Ended(s, "posted") \in Transaction /\ Ended(s, "posted").pc = "idle"
  BY EndedType DEF Answers
<1> QED
  BY <1>2, <1>4, <1>5, <1>6 DEF TypeOK, At, Cmd

LEMMA InitType == LedgerInit => TypeOK
<1> SUFFICES ASSUME LedgerInit PROVE TypeOK
  OBVIOUS
<1>1. [ pc |-> "idle", cmd |-> NoCommand, at |-> 0, held |-> {}, seen |-> Zero,
        answer |-> "none" ] \in Transaction
  BY DEF Transaction, Pcs, Answers, Zero
<1>2. balance \in [Accounts -> Projection]
  BY DEF LedgerInit, Projection
<1> QED
  BY <1>1, <1>2 DEF LedgerInit, TypeOK, At

\* The steps that move one session, and where to.
LEMMA BeginStep ==
  ASSUME TypeOK, NEW s \in Sessions, NEW c \in Commands, Begin(s, c)
  PROVE  /\ TypeOK'
         /\ \E x \in Transaction : /\ session' = [session EXCEPT ![s] = x]
                                  /\ x.pc = "check" /\ x.held = session[s].held
<1> DEFINE y == [ session[s] EXCEPT !.pc = "check", !.cmd = c ]
           z == [ y EXCEPT !.at = clock ]
           x == [ z EXCEPT !.answer = "none" ]
<1>0. session[s] \in Transaction
  BY DEF TypeOK
<1>1. y \in Transaction /\ y.pc = "check" /\ y.cmd = c /\ y.held = session[s].held
  BY <1>0 DEF Transaction, Pcs
<1>2. session' = [session EXCEPT ![s] = x]
  BY DEF Begin
<1> HIDE DEF y
<1>3. z \in Transaction /\ z.pc = "check" /\ z.cmd = c /\ z.held = session[s].held
  BY <1>1 DEF TypeOK, Transaction
<1> HIDE DEF z
<1>4. x \in Transaction /\ x.pc = "check" /\ x.cmd = c /\ x.held = session[s].held
  BY <1>3 DEF Transaction, Answers
<1> HIDE DEF x
<1>5. TypeOK'
  BY <1>2, <1>4, SessionTypes DEF Begin
<1> QED
  BY <1>2, <1>4, <1>5

LEMMA GoesOn ==
  ASSUME TypeOK, NEW s \in Sessions, StartLocking(s) \/ AllLocked(s)
  PROVE  /\ TypeOK'
         /\ \E x \in Transaction : /\ session' = [session EXCEPT ![s] = x]
                                  /\ x.pc \in { "lock", "insert" }
<1>1. TypeOK'
  BY GotoType DEF StartLocking, AllLocked, Pcs, At
<1>2. PICK pc \in { "lock", "insert" } : session' = [session EXCEPT ![s].pc = pc]
  BY DEF StartLocking, AllLocked, Goto
<1> DEFINE x == [ session[s] EXCEPT !.pc = pc ]
<1>3. x \in Transaction /\ x.pc = pc
  <2>1. session[s] \in Transaction /\ pc \in Pcs
    BY DEF TypeOK, Pcs
  <2> QED
    BY <2>1 DEF Transaction
<1>4. session' = [session EXCEPT ![s] = x]
  BY <1>2
<1> HIDE DEF x
<1> QED
  BY <1>1, <1>3, <1>4

LEMMA LockStep ==
  ASSUME TypeOK, NEW s \in Sessions, NEW a \in Accounts, Lock(s, a)
  PROVE  /\ TypeOK'
         /\ \E x \in Transaction :
              /\ session' = [session EXCEPT ![s] = x]
              /\ x.pc = "lock" /\ x.cmd = Cmd(s) /\ x.held = session[s].held \cup { a }
              /\ x.seen = [session[s].seen EXCEPT ![a] = balance[a].atomic]
<1> DEFINE y == [ session[s] EXCEPT !.held = session[s].held \cup { a } ]
           seen == [session[s].seen EXCEPT ![a] = balance[a].atomic]
           x == [ y EXCEPT !.seen = seen ]
<1>1. session[s] \in Transaction /\ session[s].pc = "lock" /\ Cmd(s) \in Commands
  BY DEF Lock, TypeOK, At
<1>2. session' = [session EXCEPT ![s] = x]
  <2>1. session' = [session EXCEPT ![s].held = @ \cup { a },
                                   ![s].seen[a] = balance[a].atomic]
    BY DEF Lock
  <2> QED
    BY <1>1, <2>1 DEF TypeOK, Transaction
<1>3. balance[a].atomic \in Int
  BY DEF TypeOK, Projection
<1>4. seen \in [Accounts -> Int]
  BY <1>1, <1>3 DEF Transaction
<1>5. /\ y \in Transaction /\ y.pc = "lock" /\ y.cmd = Cmd(s)
      /\ y.held = session[s].held \cup { a }
  BY <1>1 DEF Transaction, Cmd
<1> HIDE DEF y, seen
<1>6. /\ x \in Transaction /\ x.pc = "lock" /\ x.cmd = Cmd(s)
      /\ x.held = session[s].held \cup { a } /\ x.seen = seen
  BY <1>4, <1>5 DEF Transaction
<1> HIDE DEF x
<1>7. TypeOK'
  BY <1>1, <1>2, <1>6, SessionTypes DEF Lock
<1> QED
  BY <1>2, <1>6, <1>7 DEF seen

LEMMA RecoverEnds ==
  ASSUME NEW s \in Sessions, FindPrior(s) \/ InsertConflicts(s)
  PROVE  /\ \E answer \in { "recovered", "refused" } : Ends(s, answer)
         /\ UNCHANGED << clock, history, balance >>
  BY DEF FindPrior, InsertConflicts, Recover

-----------------------------------------------------------------------------
(* What is posted is posted once.                                          *)

LEMMA OnceInit == LedgerInit => OnceInv
<1> SUFFICES ASSUME LedgerInit PROVE OnceInv
  OBVIOUS
<1>1. InsertedAlone
  BY DEF LedgerInit, InsertedAlone, At
<1>2. PostedOnce
  BY DEF LedgerInit, PostedOnce
<1> QED
  BY <1>1, <1>2, InitType DEF OnceInv

\* A step of s that posts nothing and inserts no header.
LEMMA OnceKept ==
  ASSUME OnceInv, TypeOK', UNCHANGED history, NEW s \in Sessions, NEW x,
         session' = [session EXCEPT ![s] = x], x.pc # "update"
  PROVE  OnceInv'
<1>1. PostedOnce'
  BY DEF OnceInv, PostedOnce
<1>2. \A t \in Sessions : At(t, "update")' => t # s /\ At(t, "update") /\ Cmd(t)' = Cmd(t)
  BY DEF OnceInv, TypeOK, At, Cmd
<1>3. InsertedAlone'
  BY <1>2 DEF OnceInv, InsertedAlone, Inserted
<1> QED
  BY <1>1, <1>3 DEF OnceInv

\* The insert has passed all three indexes.
LEMMA OnceInserted ==
  ASSUME OnceInv, NEW s \in Sessions, InsertHeader(s)
  PROVE  OnceInv'
<1>1. TypeOK'
  BY GotoType DEF InsertHeader, OnceInv, At, Pcs
<1>2. PostedOnce'
  BY DEF InsertHeader, OnceInv, PostedOnce
<1>3. \A n \in Indexes : /\ \A i \in DOMAIN history : ~Clash(n, history[i].cmd, Cmd(s))
                         /\ \A t \in Sessions : ~Inserted(t, n, s)
  BY DEF InsertHeader, Passes, Clashing, Indexes
<1>4. \A t \in Sessions : /\ Cmd(t)' = Cmd(t)
                          /\ t # s => (At(t, "update")' <=> At(t, "update"))
  BY DEF InsertHeader, Goto, OnceInv, TypeOK, Transaction, At, Cmd
<1>5. history' = history
  BY DEF InsertHeader
<1>6. ASSUME NEW t \in Sessions, At(t, "update")', NEW n \in Indexes
      PROVE  /\ \A i \in DOMAIN history' : ~Clash(n, history'[i].cmd, Cmd(t)')
             /\ \A r \in Sessions : ~Inserted(r, n, t)'
  <2>1. CASE t = s
    BY <1>3, <1>4, <1>5, <2>1 DEF Inserted
  <2>2. CASE t # s
    <3>1. At(t, "update") /\ Cmd(t)' = Cmd(t) /\ Cmd(s)' = Cmd(s)
      BY <1>4, <1>6, <2>2
    <3>2. ~Clash(n, Cmd(t), Cmd(s))
      BY <1>3, <2>2, <3>1 DEF Inserted
    <3>3. ~Clash(n, Cmd(s), Cmd(t))
      BY <3>2, ClashIsSymmetric
    <3>4. \A r \in Sessions : ~Inserted(r, n, t)'
      BY <1>4, <3>1, <3>3 DEF Inserted, OnceInv, InsertedAlone
    <3> QED
      BY <1>5, <3>1, <3>4 DEF OnceInv, InsertedAlone
  <2> QED
    BY <2>1, <2>2
<1>7. InsertedAlone'
  BY <1>6 DEF InsertedAlone
<1> QED
  BY <1>1, <1>2, <1>7 DEF OnceInv

\* The header that is committed was alone, and so are the others that are inserted.
LEMMA OnceCommitted ==
  ASSUME OnceInv, NEW s \in Sessions, Commit(s)
  PROVE  OnceInv'
<1>1. TypeOK'
  BY CommitType DEF OnceInv
<1>2. At(s, "update") /\ Cmd(s) \in Commands
  BY DEF Commit, OnceInv, TypeOK, At
<1>3. /\ DOMAIN history = 1 .. Len(history) /\ Len(history) \in Nat
      /\ DOMAIN history' = 1 .. Len(history) + 1
      /\ \A i \in DOMAIN history : history'[i] = history[i]
      /\ history'[Len(history) + 1].cmd = Cmd(s)
  BY DEF Commit, OnceInv, TypeOK
<1>4. \A i \in DOMAIN history, n \in Indexes :
        /\ ~Clash(n, history[i].cmd, Cmd(s))
        /\ ~Clash(n, Cmd(s), history[i].cmd)
  BY <1>2, ClashIsSymmetric DEF OnceInv, InsertedAlone
<1>5. PostedOnce'
  <2> SUFFICES ASSUME NEW i \in DOMAIN history', NEW j \in DOMAIN history', NEW n \in Indexes,
                      Clash(n, history'[i].cmd, history'[j].cmd)
               PROVE  i = j
    BY DEF PostedOnce
  <2>1. CASE i \in DOMAIN history /\ j \in DOMAIN history
    BY <1>3, <2>1 DEF OnceInv, PostedOnce
  <2>2. CASE i = Len(history) + 1 /\ j = Len(history) + 1
    BY <2>2
  <2>3. CASE i \in DOMAIN history /\ j = Len(history) + 1
    BY <1>3, <1>4, <2>3
  <2>4. CASE i = Len(history) + 1 /\ j \in DOMAIN history
    BY <1>3, <1>4, <2>4
  <2>5. \A k \in DOMAIN history' : k \in DOMAIN history \/ k = Len(history) + 1
    BY <1>3
  <2> QED
    BY <2>1, <2>2, <2>3, <2>4, <2>5
<1>6. \A t \in Sessions : At(t, "update")' => t # s /\ At(t, "update") /\ Cmd(t)' = Cmd(t)
  <2>1. session' = [session EXCEPT ![s] = Ended(s, "posted")]
    BY DEF Commit, Ends, Ended
  <2>2. Ended(s, "posted").pc = "idle"
    BY EndedType DEF OnceInv, Answers
  <2> QED
    BY <2>1, <2>2 DEF OnceInv, TypeOK, At, Cmd
<1>7. ASSUME NEW t \in Sessions, At(t, "update")', NEW n \in Indexes
      PROVE  /\ \A i \in DOMAIN history' : ~Clash(n, history'[i].cmd, Cmd(t)')
             /\ \A r \in Sessions : ~Inserted(r, n, t)'
  <2>1. t # s /\ At(t, "update") /\ Cmd(t)' = Cmd(t)
    BY <1>6, <1>7
  <2>2. ~Clash(n, Cmd(s), Cmd(t))
    BY <1>2, <2>1 DEF OnceInv, InsertedAlone, Inserted
  <2>3. \A i \in DOMAIN history' : ~Clash(n, history'[i].cmd, Cmd(t)')
    <3>1. \A i \in DOMAIN history : ~Clash(n, history[i].cmd, Cmd(t))
      BY <2>1 DEF OnceInv, InsertedAlone
    <3>2. \A k \in DOMAIN history' : k \in DOMAIN history \/ k = Len(history) + 1
      BY <1>3
    <3> QED
      BY <1>3, <2>1, <2>2, <3>1, <3>2
  <2>4. \A r \in Sessions : ~Inserted(r, n, t)'
    BY <1>6, <2>1 DEF Inserted, OnceInv, InsertedAlone
  <2> QED
    BY <2>3, <2>4
<1>8. InsertedAlone'
  BY <1>7 DEF InsertedAlone
<1> QED
  BY <1>1, <1>5, <1>8 DEF OnceInv

LEMMA OnceStep == OnceInv /\ [LedgerNext]_ledgerVars => OnceInv'
<1> SUFFICES ASSUME OnceInv, [LedgerNext]_ledgerVars PROVE OnceInv'
  OBVIOUS
<1> USE DEF Answers
<1>1. CASE UNCHANGED ledgerVars
  BY <1>1 DEF ledgerVars, OnceInv, TypeOK, InsertedAlone, PostedOnce, At, Cmd, Inserted
<1>2. CASE Tick
  BY <1>2 DEF Tick, OnceInv, TypeOK, InsertedAlone, PostedOnce, At, Cmd, Inserted
<1>3. ASSUME NEW s \in Sessions, NEW c \in Commands, Begin(s, c) PROVE OnceInv'
  BY <1>3, BeginStep, OnceKept DEF OnceInv, Begin
<1>4. ASSUME NEW s \in Sessions, NEW answer \in Answers, Ends(s, answer),
             UNCHANGED << clock, history, balance >>
      PROVE  OnceInv'
  BY <1>4, EndsType, EndedType, OnceKept DEF OnceInv
<1>5. ASSUME NEW s \in Sessions, StartLocking(s) \/ AllLocked(s) PROVE OnceInv'
  BY <1>5, GoesOn, OnceKept DEF OnceInv, StartLocking, AllLocked
<1>6. ASSUME NEW s \in Sessions, NEW a \in Accounts, Lock(s, a) PROVE OnceInv'
  BY <1>6, LockStep, OnceKept DEF OnceInv, Lock
<1>7. ASSUME NEW s \in Sessions, InsertHeader(s) PROVE OnceInv'
  BY <1>7, OnceInserted
<1>8. ASSUME NEW s \in Sessions, Commit(s) PROVE OnceInv'
  BY <1>8, OnceCommitted
<1>9. ASSUME NEW s \in Sessions, RefuseReversal(s) \/ RefuseOverdraft(s) \/ Rollback(s)
      PROVE  OnceInv'
  BY <1>4, <1>9 DEF RefuseReversal, RefuseOverdraft, Rollback
<1>10. ASSUME NEW s \in Sessions, FindPrior(s) \/ InsertConflicts(s) PROVE OnceInv'
  BY <1>4, <1>10, RecoverEnds
<1> QED
  BY <1>1, <1>2, <1>3, <1>5, <1>6, <1>7, <1>8, <1>9, <1>10 DEF LedgerNext

-----------------------------------------------------------------------------
(* No bucket is overdrawn.                                                 *)

\* What HeldIsKnown asks of the row x of s.
Known(s, x) ==
  /\ \A t \in Sessions : t # s => x.held \cap session[t].held = {}
  /\ \A a \in x.held : x.seen[a] = balance[a].atomic
  /\ x.pc \in { "idle", "check" } => x.held = {}
  /\ x.pc = "lock" => x.held \subseteq Touches(x.cmd)
  /\ x.pc \in { "insert", "update" } =>
       /\ x.held = Touches(x.cmd)
       /\ \A a \in Touches(x.cmd) \cap Protected : ~(x.seen[a] + Delta(x.cmd, a) < 0)

LEMMA HeldKnown ==
  HeldIsKnown <=> \A s \in Sessions : Known(s, session[s])
  BY DEF HeldIsKnown, Known, Overdraws, After, Cmd

LEMMA CoverInit == LedgerInit => CoverInv
<1> SUFFICES ASSUME LedgerInit PROVE CoverInv
  OBVIOUS
<1>1. HeldIsKnown
  BY DEF LedgerInit, HeldIsKnown
<1>2. BucketsAreCovered
  BY DEF LedgerInit, BucketsAreCovered
<1> QED
  BY <1>1, <1>2, InitType DEF CoverInv

\* A step of s that posts nothing.
LEMMA CoverKept ==
  ASSUME CoverInv, TypeOK', UNCHANGED balance, NEW s \in Sessions, NEW x,
         session' = [session EXCEPT ![s] = x], Known(s, x)
  PROVE  CoverInv'
<1>1. \A t \in Sessions : session'[t] = IF t = s THEN x ELSE session[t]
  BY DEF CoverInv, TypeOK
<1>2. \A t \in Sessions : Known(t, session[t])
  BY HeldKnown DEF CoverInv
<1>3. ASSUME NEW t \in Sessions PROVE Known(t, session[t])'
  <2>1. CASE t = s
    BY <1>1, <2>1 DEF Known
  <2>2. CASE t # s
    <3>1. session'[t] = session[t]
      BY <1>1, <2>2
    <3>2. \A r \in Sessions : r # t => session[t].held \cap session'[r].held = {}
      BY <1>1, <1>2, <2>2 DEF Known
    <3> QED
      BY <1>2, <3>1, <3>2 DEF Known
  <2> QED
    BY <2>1, <2>2
<1>4. HeldIsKnown'
  BY <1>3 DEF HeldIsKnown, Known, Overdraws, After, Cmd
<1>5. BucketsAreCovered'
  BY DEF CoverInv, BucketsAreCovered
<1> QED
  BY <1>4, <1>5 DEF CoverInv

\* A session goes on with what it holds and knows.
LEMMA CoverGoes ==
  ASSUME CoverInv, TypeOK', UNCHANGED balance, NEW s \in Sessions, NEW pc \in Pcs,
         Goto(s, pc), (pc = "lock" /\ session[s].held = {}) \/ (pc \in { "insert", "update" } /\
                                     session[s].held = Touches(Cmd(s)) /\ ~Overdraws(s))
  PROVE  CoverInv'
<1> DEFINE x == [ session[s] EXCEPT !.pc = pc ]
<1>1. session[s] \in Transaction /\ Known(s, session[s])
  BY HeldKnown DEF CoverInv, TypeOK
<1>2. /\ x.pc = pc /\ x.held = session[s].held /\ x.cmd = session[s].cmd
      /\ x.seen = session[s].seen
  BY <1>1 DEF Transaction
<1>3. session' = [session EXCEPT ![s] = x]
  BY DEF Goto
<1> HIDE DEF x
<1>4. Known(s, x)
  BY <1>1, <1>2 DEF Known, Overdraws, After, Cmd
<1> QED
  BY <1>3, <1>4, CoverKept

LEMMA CoverLocked ==
  ASSUME CoverInv, NEW s \in Sessions, NEW a \in Accounts, Lock(s, a)
  PROVE  CoverInv'
<1>1. TypeOK' /\ UNCHANGED balance
  BY LockStep DEF CoverInv, Lock
<1>2. PICK x \in Transaction :
        /\ session' = [session EXCEPT ![s] = x]
        /\ x.pc = "lock" /\ x.cmd = Cmd(s) /\ x.held = session[s].held \cup { a }
        /\ x.seen = [session[s].seen EXCEPT ![a] = balance[a].atomic]
  BY LockStep DEF CoverInv
<1>3. Known(s, session[s]) /\ session[s] \in Transaction
  BY HeldKnown DEF CoverInv, TypeOK
<1>t. x.held \subseteq Touches(x.cmd)
  BY <1>2, <1>3 DEF Known, Lock, At, Cmd
<1>4. \A t \in Sessions : t # s => x.held \cap session[t].held = {}
  BY <1>2, <1>3 DEF Known, Lock, Unlocked
<1>5. \A b \in x.held : x.seen[b] = balance[b].atomic
  BY <1>2, <1>3 DEF Known, Transaction
<1>6. Known(s, x)
  BY <1>2, <1>4, <1>5, <1>t DEF Known
<1> QED
  BY <1>1, <1>2, <1>6, CoverKept

\* The rows of the command were locked and read, and covered what it takes.
LEMMA CoverCommitted ==
  ASSUME CoverInv, NEW s \in Sessions, Commit(s)
  PROVE  CoverInv'
<1>1. TypeOK' /\ Cmd(s) \in Commands
  BY CommitType DEF CoverInv, TypeOK, Commit, At
<1>2. \A t \in Sessions : Known(t, session[t])
  BY HeldKnown DEF CoverInv
<1>3. session[s].held = Touches(Cmd(s)) /\ ~Overdraws(s)
  BY DEF CoverInv, HeldIsKnown, Commit, At
<1>4. session' = [session EXCEPT ![s] = Ended(s, "posted")]
  BY DEF Commit, Ends, Ended
<1>5. /\ Ended(s, "posted").pc = "idle" /\ Ended(s, "posted").held = {}
  BY EndedType DEF CoverInv, Answers
<1>6. \A a \in Accounts : a \notin Touches(Cmd(s)) => balance'[a] = balance[a]
  BY DEF Commit
<1>7. ASSUME NEW t \in Sessions PROVE Known(t, session[t])'
  <2>1. CASE t = s
    BY <1>4, <1>5, <2>1 DEF Known, CoverInv, TypeOK
  <2>2. CASE t # s
    <3>1. session'[t] = session[t]
      BY <1>4, <2>2 DEF CoverInv, TypeOK
    <3>2. \A r \in Sessions : r # t => session[t].held \cap session'[r].held = {}
      <4>1. \A r \in Sessions : session'[r].held = IF r = s THEN {} ELSE session[r].held
        BY <1>4, <1>5 DEF CoverInv, TypeOK
      <4> QED
        BY <1>2, <4>1 DEF Known
    <3>3. session[t].held \subseteq Accounts
      BY DEF CoverInv, TypeOK, Transaction
    <3>4. \A a \in session[t].held : balance'[a] = balance[a]
      BY <1>2, <1>3, <1>6, <2>2, <3>3 DEF Known
    <3> QED
      BY <1>2, <3>1, <3>2, <3>4 DEF Known
  <2> QED
    BY <2>1, <2>2
<1>8. HeldIsKnown'
  BY <1>7 DEF HeldIsKnown, Known, Overdraws, After, Cmd
<1>9. ASSUME NEW a \in Protected PROVE balance'[a].atomic >= 0
  <2>1. CASE a \in Touches(Cmd(s))
    <3>1. balance'[a].atomic = After(s, a)
      BY <2>1 DEF Commit, Projected
    <3>2. After(s, a) \in Int
      BY <1>1, NewAmount DEF CoverInv
    <3> QED
      BY <1>3, <2>1, <3>1, <3>2 DEF Overdraws
  <2>2. CASE a \notin Touches(Cmd(s))
    BY <1>6, <2>2 DEF CoverInv, BucketsAreCovered
  <2> QED
    BY <2>1, <2>2
<1> QED
  BY <1>1, <1>8, <1>9 DEF CoverInv, BucketsAreCovered

LEMMA CoverStep == CoverInv /\ [LedgerNext]_ledgerVars => CoverInv'
<1> SUFFICES ASSUME CoverInv, [LedgerNext]_ledgerVars PROVE CoverInv'
  OBVIOUS
<1> USE DEF Answers
<1>1. CASE UNCHANGED << history, balance, session >> /\ clock' \in Int
  BY <1>1 DEF CoverInv, TypeOK, HeldIsKnown, BucketsAreCovered, At, Cmd, Overdraws, After
<1>2. CASE Tick
  BY <1>1, <1>2 DEF Tick, CoverInv, TypeOK
<1>3. ASSUME NEW s \in Sessions, NEW c \in Commands, Begin(s, c) PROVE CoverInv'
  <2>1. session[s].held = {}
    BY <1>3 DEF Begin, At, CoverInv, HeldIsKnown
  <2>2. PICK x \in Transaction : /\ session' = [session EXCEPT ![s] = x]
                                /\ x.pc = "check" /\ x.held = {}
    BY <1>3, <2>1, BeginStep DEF CoverInv
  <2>3. Known(s, x)
    BY <2>2 DEF Known
  <2> QED
    BY <1>3, <2>2, <2>3, BeginStep, CoverKept DEF CoverInv, Begin
<1>4. ASSUME NEW s \in Sessions, NEW answer \in Answers, Ends(s, answer),
             UNCHANGED << clock, history, balance >>
      PROVE  CoverInv'
  <2>1. Known(s, Ended(s, answer))
    BY EndedType DEF CoverInv, Known
  <2> QED
    BY <1>4, <2>1, EndsType, CoverKept DEF CoverInv
<1>5. ASSUME NEW s \in Sessions, StartLocking(s) PROVE CoverInv'
  <2>1. session[s].held = {}
    BY <1>5 DEF StartLocking, At, CoverInv, HeldIsKnown
  <2> QED
    BY <1>5, <2>1, GoesOn, CoverGoes DEF CoverInv, StartLocking, Pcs
<1>6. ASSUME NEW s \in Sessions, AllLocked(s) PROVE CoverInv'
  BY <1>6, GoesOn, CoverGoes DEF CoverInv, AllLocked, Pcs
<1>7. ASSUME NEW s \in Sessions, NEW a \in Accounts, Lock(s, a) PROVE CoverInv'
  BY <1>7, CoverLocked
<1>8. ASSUME NEW s \in Sessions, InsertHeader(s) PROVE CoverInv'
  <2>1. session[s].held = Touches(Cmd(s)) /\ ~Overdraws(s)
    BY <1>8 DEF InsertHeader, At, CoverInv, HeldIsKnown
  <2>2. TypeOK'
    BY <1>8, GotoType DEF InsertHeader, CoverInv, At, Pcs
  <2> QED
    BY <1>8, <2>1, <2>2, CoverGoes DEF InsertHeader, Pcs
<1>9. ASSUME NEW s \in Sessions, Commit(s) PROVE CoverInv'
  BY <1>9, CoverCommitted
<1>10. ASSUME NEW s \in Sessions, RefuseReversal(s) \/ RefuseOverdraft(s) \/ Rollback(s)
       PROVE  CoverInv'
  BY <1>4, <1>10 DEF RefuseReversal, RefuseOverdraft, Rollback
<1>11. ASSUME NEW s \in Sessions, FindPrior(s) \/ InsertConflicts(s) PROVE CoverInv'
  BY <1>4, <1>11, RecoverEnds
<1>12. CASE UNCHANGED ledgerVars
  BY <1>1, <1>12 DEF ledgerVars, CoverInv, TypeOK
<1> QED
  BY <1>2, <1>3, <1>5, <1>6, <1>7, <1>8, <1>9, <1>10, <1>11, <1>12 DEF LedgerNext

-----------------------------------------------------------------------------
(* The projections and the entries.                                        *)

\* What ProjectionIsHistory says of one account, and that an account nothing was
\* posted to has no last transaction.
Books(a) ==
  /\ balance[a].atomic = Rebuilt(a)
  /\ balance[a].version = Cardinality(Touching(a))
  /\ Touching(a) = {} => balance[a].last = 0
  /\ Touching(a) # {} =>
       /\ balance[a].last \in Touching(a)
       /\ \A i \in Touching(a) : history[i].at <= history[balance[a].last].at

\* Begin has checked the entries of every command a session works on.
PostsBalanced == \A s \in Sessions : ~At(s, "idle") => Balanced(Cmd(s))

Signed == [a \in Accounts |-> Normal[a] * Rebuilt(a)]

BooksBalance == SumFunctionOnSet(Signed, Accounts) = 0

BooksInv ==
  /\ CoverInv
  /\ PostsBalanced
  /\ \A a \in Accounts : Books(a)
  /\ BooksBalance

LEMMA HistoryType ==
  ASSUME TypeOK
  PROVE  /\ DOMAIN history = 1 .. Len(history) /\ Len(history) \in Nat
         /\ \A i \in DOMAIN history : history[i].cmd \in Commands /\ history[i].at \in Int
<1> DEFINE R == [ cmd : Commands, at : Int ]
<1>1. history \in Seq(R)
  BY DEF TypeOK
<1>2. \A r \in R : r.cmd \in Commands /\ r.at \in Int
  OBVIOUS
<1> HIDE DEF R
<1>3. /\ DOMAIN history = 1 .. Len(history) /\ Len(history) \in Nat
      /\ \A i \in DOMAIN history : history[i] \in R
  BY <1>1
<1> QED
  BY <1>2, <1>3

LEMMA TouchingFinite ==
  ASSUME TypeOK, NEW a \in Accounts
  PROVE  /\ IsFiniteSet(Touching(a))
         /\ Touching(a) \subseteq DOMAIN history
         /\ \A i \in DOMAIN history : Moves(a)[i] = Delta(history[i].cmd, a) /\ Moves(a)[i] \in Int
         /\ Rebuilt(a) \in Int
<1>1. /\ DOMAIN history = 1 .. Len(history) /\ Len(history) \in Nat
      /\ \A i \in DOMAIN history : history[i].cmd \in Commands
  BY HistoryType
<1>2. Touching(a) \subseteq DOMAIN history
  BY DEF Touching
<1>3. IsFiniteSet(1 .. Len(history))
  BY <1>1, FS_Interval
<1>4. IsFiniteSet(Touching(a))
  BY <1>1, <1>2, <1>3, FS_Subset
<1>5. \A c \in Commands : Delta(c, a) \in Int
  <2> TAKE c \in Commands
  <2>1. (Normal[a] = 1 \/ Normal[a] = -1) /\ Debit[c][a] \in Int
    OBVIOUS
  <2> QED
    BY <2>1 DEF Delta
<1>6. \A i \in DOMAIN history : Moves(a)[i] = Delta(history[i].cmd, a) /\ Moves(a)[i] \in Int
  BY <1>1, <1>5 DEF Moves
<1>7. Rebuilt(a) \in Int
  BY <1>2, <1>4, <1>6, SumType DEF Rebuilt, Sum
<1> QED
  BY <1>2, <1>4, <1>6, <1>7

LEMMA BooksInit == LedgerInit => BooksInv
<1> SUFFICES ASSUME LedgerInit PROVE BooksInv
  OBVIOUS
<1>1. PostsBalanced
  BY DEF LedgerInit, PostsBalanced, At
<1>2. ASSUME NEW a \in Accounts PROVE Books(a) /\ Rebuilt(a) = 0
  <2>1. Touching(a) = {}
    BY DEF LedgerInit, Touching
  <2>2. Rebuilt(a) = 0
    BY <2>1, SumEmpty DEF Rebuilt, Sum
  <2> QED
    BY <2>1, <2>2, FS_EmptySet DEF LedgerInit, Books
<1>3. BooksBalance
  <2>1. \A a \in Accounts : Signed[a] = 0
    <3> TAKE a \in Accounts
    <3>1. Signed[a] = Normal[a] * 0 /\ Normal[a] \in Int
      BY <1>2 DEF Signed
    <3> QED
      BY <3>1
  <2>2. IsFiniteSet(Accounts)
    OBVIOUS
  <2> QED
    BY <2>1, <2>2, SumZero DEF BooksBalance, Sum
<1> QED
  BY <1>1, <1>2, <1>3, CoverInit DEF BooksInv

\* A step that posts nothing.
LEMMA BooksKept ==
  ASSUME BooksInv, CoverInv', UNCHANGED << history, balance >>, PostsBalanced'
  PROVE  BooksInv'
<1>1. \A a \in Accounts : Touching(a)' = Touching(a) /\ Rebuilt(a)' = Rebuilt(a)
  BY DEF Touching, Rebuilt, Moves
<1>2. \A a \in Accounts : Books(a)'
  BY <1>1 DEF BooksInv, Books
<1>3. Signed' = Signed
  BY <1>1 DEF Signed
<1> QED
  BY <1>2, <1>3 DEF BooksInv, BooksBalance

\* A step of s that posts nothing, and begins no other command.
LEMMA BalancedKept ==
  ASSUME BooksInv, NEW s \in Sessions, NEW x,
         session' = [session EXCEPT ![s] = x],
         x.pc # "idle" => Balanced(x.cmd)
  PROVE  PostsBalanced'
<1>1. \A t \in Sessions : session'[t] = IF t = s THEN x ELSE session[t]
  BY DEF BooksInv, CoverInv, TypeOK
<1> QED
  BY <1>1 DEF BooksInv, PostsBalanced, At, Cmd, Balanced, Touches

\* What a commit makes of the entries of one account.
LEMMA CommittedEntries ==
  ASSUME BooksInv, NEW s \in Sessions, Commit(s), NEW a \in Accounts
  PROVE  /\ Rebuilt(a)' = Rebuilt(a) + Delta(Cmd(s), a)
         /\ Delta(Cmd(s), a) \in Int
         /\ Touching(a)' = IF a \in Touches(Cmd(s)) THEN Touching(a) \cup { Len(history) + 1 }
                                                   ELSE Touching(a)
<1> DEFINE n == Len(history) + 1
           c == Cmd(s)
<1>1. TypeOK /\ TypeOK' /\ c \in Commands
  BY CommitType DEF BooksInv, CoverInv, TypeOK, Commit, At
<1>2. /\ DOMAIN history = 1 .. Len(history) /\ Len(history) \in Nat
      /\ DOMAIN history' = 1 .. n
      /\ \A i \in DOMAIN history : history'[i] = history[i]
      /\ history'[n].cmd = c
  BY <1>1 DEF Commit, TypeOK
<1>3. Delta(c, a) \in Int
  BY <1>1, NewAmount
<1> HIDE DEF c
<1>4. n \notin DOMAIN history /\ DOMAIN history' = DOMAIN history \cup { n }
  BY <1>2
<1>5. Touching(a)' = IF a \in Touches(c) THEN Touching(a) \cup { n } ELSE Touching(a)
  <2>1. \A i \in DOMAIN history : a \in Touches(history'[i].cmd) <=> a \in Touches(history[i].cmd)
    BY <1>2
  <2>2. Touching(a)' = { i \in DOMAIN history' : a \in Touches(history'[i].cmd) }
    BY DEF Touching, Touches
  <2> HIDE DEF n
  <2> QED
    BY <1>2, <1>4, <2>1, <2>2 DEF Touching
<1>6. \A i \in Touching(a) : Moves(a)'[i] = Moves(a)[i]
  <2>1. \A i \in Touching(a) : i \in DOMAIN history /\ i \in DOMAIN history'
    BY <1>4 DEF Touching
  <2> QED
    BY <1>2, <2>1 DEF Moves, Delta
<1>7. Moves(a)'[n] = Delta(c, a)
  <2>1. n \in DOMAIN history'
    BY <1>4
  <2> QED
    BY <1>2, <2>1 DEF Moves, Delta
<1>8. /\ IsFiniteSet(Touching(a)) /\ n \notin Touching(a)
      /\ \A i \in Touching(a) : Moves(a)[i] \in Int
      /\ Rebuilt(a) \in Int
  BY <1>1, <1>4, TouchingFinite
<1> DEFINE f == Moves(a)
           g == Moves(a)'
           T == Touching(a)
<1>9. Rebuilt(a) = Sum(f, T) /\ Rebuilt(a)' = Sum(g, Touching(a)')
  BY DEF Rebuilt, Sum
<1> HIDE DEF f, g, T, n
<1>10. Sum(f, T) = Sum(g, T)
  BY <1>6, <1>8, SumAgree DEF f, g, T
<1>11. CASE a \in Touches(c)
  <2>1. \A y \in T \cup { n } : g[y] \in Int
    BY <1>3, <1>6, <1>7, <1>8 DEF f, g, T
  <2>2. IsFiniteSet(T) /\ n \notin T
    BY <1>8 DEF T
  <2>3. Sum(g, T \cup { n }) = g[n] + Sum(g, T)
    BY <2>1, <2>2, SumAdd
  <2>4. Rebuilt(a)' = Delta(c, a) + Rebuilt(a)
    BY <1>5, <1>7, <1>9, <1>10, <1>11, <2>3 DEF g, T
  <2> QED
    BY <1>3, <1>5, <1>8, <2>4 DEF c, n
<1>12. CASE a \notin Touches(c)
  <2>1. Debit[c][a] = 0
    BY <1>12 DEF Touches
  <2>2. Delta(c, a) = 0
    <3>1. Normal[a] \in Int
      OBVIOUS
    <3> QED
      BY <2>1, <3>1 DEF Delta
  <2>3. Rebuilt(a)' = Rebuilt(a)
    BY <1>5, <1>9, <1>10, <1>12 DEF T
  <2> QED
    BY <1>5, <1>8, <1>12, <2>2, <2>3 DEF c
<1> QED
  BY <1>11, <1>12

LEMMA CommittedBooks ==
  ASSUME BooksInv, NEW s \in Sessions, Commit(s), NEW a \in Accounts
  PROVE  Books(a)'
<1> DEFINE n == Len(history) + 1
<1>1. TypeOK /\ Books(a) /\ Len(history) \in Nat
  BY DEF BooksInv, CoverInv, TypeOK
<1>2. /\ Rebuilt(a)' = Rebuilt(a) + Delta(Cmd(s), a)
      /\ Touching(a)' = IF a \in Touches(Cmd(s)) THEN Touching(a) \cup { n } ELSE Touching(a)
  BY CommittedEntries
<1>3. /\ \A i \in Touching(a) : i \in DOMAIN history /\ i <= Len(history)
      /\ IsFiniteSet(Touching(a))
  BY <1>1, TouchingFinite DEF TypeOK
<1>4. /\ \A i \in DOMAIN history : history'[i] = history[i]
      /\ history'[n] = [ cmd |-> Cmd(s), at |-> session[s].at ]
      /\ \A i \in DOMAIN history : history[i].at \in Int
      /\ session[s].at \in Int
  <2>1. history' = Append(history, [ cmd |-> Cmd(s), at |-> session[s].at ])
    BY DEF Commit
  <2>2. history \in Seq([ cmd : Commands, at : Int ])
    BY <1>1 DEF TypeOK
  <2>3. session[s].at \in Int
    BY <1>1 DEF TypeOK, Transaction
  <2> QED
    BY <1>1, <2>1, <2>2, <2>3, HistoryType
<1>5. balance'[a] = IF a \in Touches(Cmd(s)) THEN Projected(a, s) ELSE balance[a]
  BY DEF Commit
<1>6. CASE a \notin Touches(Cmd(s))
  <2>1. Delta(Cmd(s), a) = 0 /\ Rebuilt(a) \in Int
    <3>1. Debit[Cmd(s)][a] = 0 /\ Normal[a] \in Int
      BY <1>6 DEF Touches
    <3> QED
      BY <1>1, <3>1, TouchingFinite DEF Delta
  <2>2. Rebuilt(a)' = Rebuilt(a)
    BY <1>2, <2>1
  <2>3. Touching(a)' = Touching(a) /\ balance'[a] = balance[a]
    BY <1>2, <1>5, <1>6
  <2>4. \A i \in Touching(a) : history'[i] = history[i]
    BY <1>3, <1>4
  <2> QED
    BY <1>1, <2>2, <2>3, <2>4 DEF Books
<1>7. CASE a \in Touches(Cmd(s))
  <2>1. After(s, a) = balance[a].atomic + Delta(Cmd(s), a)
    <3>1. a \in session[s].held
      BY <1>7 DEF BooksInv, CoverInv, HeldIsKnown, Commit, At
    <3>2. session[s].seen[a] = balance[a].atomic
      BY <3>1 DEF BooksInv, CoverInv, HeldIsKnown
    <3> QED
      BY <3>2 DEF After
  <2>2. /\ balance'[a].atomic = After(s, a)
        /\ balance'[a].version = balance[a].version + 1
        /\ balance'[a].last = IF balance[a].last = 0 \/ session[s].at >= history[balance[a].last].at
                                THEN n ELSE balance[a].last
    BY <1>5, <1>7 DEF Projected
  <2>3. Touching(a)' = Touching(a) \cup { n } /\ n \notin Touching(a)
    BY <1>1, <1>2, <1>3, <1>7
  <2>4. balance'[a].atomic = Rebuilt(a)'
    BY <1>1, <1>2, <2>1, <2>2 DEF Books
  <2>5. balance'[a].version = Cardinality(Touching(a)')
    <3>1. Cardinality(Touching(a) \cup { n }) = Cardinality(Touching(a)) + 1
      BY <1>3, <2>3, FS_AddElement
    <3> QED
      BY <1>1, <2>2, <2>3, <3>1 DEF Books
  <2>6. CASE Touching(a) = {}
    <3>1. balance[a].last = 0
      BY <1>1, <2>6 DEF Books
    <3>2. balance'[a].last = n /\ Touching(a)' = { n }
      BY <2>2, <2>3, <2>6, <3>1
    <3> QED
      BY <1>4, <2>4, <2>5, <3>2 DEF Books
  <2>7. CASE Touching(a) # {}
    <3> DEFINE l == balance[a].last
    <3>1. l \in Touching(a) /\ \A i \in Touching(a) : history[i].at <= history[l].at
      BY <1>1, <2>7 DEF Books
    <3>2. /\ l \in DOMAIN history /\ l # 0 /\ l # n
      BY <1>1, <1>3, <3>1 DEF TypeOK
    <3>3. \A i \in Touching(a) : history'[i].at = history[i].at /\ history[i].at \in Int
      BY <1>3, <1>4
    <3>4. history'[n].at = session[s].at
      BY <1>4
    <3>5. CASE session[s].at >= history[l].at
      <4>1. balance'[a].last = n
        BY <2>2, <3>5
      <4>2. \A i \in Touching(a)' : history'[i].at <= history'[n].at
        <5>1. \A i \in Touching(a) : history[i].at <= session[s].at
          BY <1>4, <3>1, <3>2, <3>3, <3>5
        <5> QED
          BY <1>4, <2>3, <3>3, <3>4, <5>1
      <4> QED
        BY <2>3, <2>4, <2>5, <4>1, <4>2 DEF Books
    <3>6. CASE ~(session[s].at >= history[l].at)
      <4>1. balance'[a].last = l
        BY <2>2, <3>2, <3>6
      <4>2. \A i \in Touching(a)' : history'[i].at <= history'[l].at
        <5>1. session[s].at <= history[l].at
          BY <1>4, <3>2, <3>6
        <5> QED
          BY <2>3, <3>1, <3>3, <3>4, <5>1
      <4> QED
        BY <2>3, <2>4, <2>5, <3>1, <4>1, <4>2 DEF Books
    <3> QED
      BY <3>5, <3>6
  <2> QED
    BY <2>6, <2>7
<1> QED
  BY <1>6, <1>7

\* The entries of one transaction cancel out over the accounts.
LEMMA CommittedBalance ==
  ASSUME BooksInv, NEW s \in Sessions, Commit(s)
  PROVE  BooksBalance'
<1> DEFINE f == Signed
           g == Debit[Cmd(s)]
           h == Signed'
<1>1. Cmd(s) \in Commands /\ TypeOK
  BY DEF BooksInv, CoverInv, TypeOK, Commit, At
<1>2. Sum(f, Accounts) = 0 /\ Sum(g, Accounts) = 0
  BY DEF BooksInv, BooksBalance, PostsBalanced, Commit, At, Balanced, Sum
<1>3. ASSUME NEW a \in Accounts
      PROVE  f[a] \in Int /\ g[a] \in Int /\ h[a] = f[a] + g[a]
  <2>1. /\ Rebuilt(a)' = Rebuilt(a) + Delta(Cmd(s), a)
        /\ Rebuilt(a) \in Int
    BY <1>1, CommittedEntries, TouchingFinite
  <2>2. f[a] = Normal[a] * Rebuilt(a) /\ h[a] = Normal[a] * (Rebuilt(a)')
    BY DEF Signed
  <2>3. (Normal[a] = 1 \/ Normal[a] = -1) /\ g[a] \in Int
    BY <1>1
  <2>4. Delta(Cmd(s), a) = Normal[a] * g[a]
    BY DEF Delta
  <2> HIDE DEF f, g, h
  <2>5. CASE Normal[a] = 1
    BY <2>1, <2>2, <2>3, <2>4, <2>5
  <2>6. CASE Normal[a] = -1
    BY <2>1, <2>2, <2>3, <2>4, <2>6
  <2> QED
    BY <2>3, <2>5, <2>6
<1> HIDE DEF f, g, h
<1>fin. IsFiniteSet(Accounts)
  OBVIOUS
<1>4. Sum(h, Accounts) = Sum(f, Accounts) + Sum(g, Accounts)
  BY <1>3, <1>fin, SumPlus, ZenonT(30)
<1>5. Sum(h, Accounts) = 0
  BY <1>2, <1>4
<1> QED
  BY <1>5 DEF h, Sum, BooksBalance

LEMMA BooksStep == BooksInv /\ [LedgerNext]_ledgerVars => BooksInv'
<1> SUFFICES ASSUME BooksInv, [LedgerNext]_ledgerVars PROVE BooksInv'
  OBVIOUS
<1>cover. CoverInv' /\ TypeOK
  BY CoverStep DEF BooksInv, CoverInv
<1>1. CASE UNCHANGED << history, balance, session >>
  <2>1. PostsBalanced'
    BY <1>1 DEF BooksInv, PostsBalanced, At, Cmd, Balanced, Touches
  <2> QED
    BY <1>1, <1>cover, <2>1, BooksKept
<1>2. ASSUME NEW s \in Sessions, NEW x, session' = [session EXCEPT ![s] = x],
             UNCHANGED << history, balance >>,
             x.pc # "idle" => Balanced(x.cmd)
      PROVE  BooksInv'
  BY <1>2, <1>cover, BalancedKept, BooksKept
<1>3. ASSUME NEW s \in Sessions, NEW answer \in Answers, Ends(s, answer),
             UNCHANGED << clock, history, balance >>
      PROVE  BooksInv'
  BY <1>2, <1>3, <1>cover, EndsType, EndedType
<1>4. ASSUME NEW s \in Sessions, NEW pc \in Pcs, Goto(s, pc), ~At(s, "idle"),
             UNCHANGED << history, balance >>
      PROVE  BooksInv'
  <2> DEFINE x == [ session[s] EXCEPT !.pc = pc ]
  <2>1. session[s] \in Transaction
    BY <1>cover DEF TypeOK
  <2>2. x.cmd = Cmd(s) /\ session' = [session EXCEPT ![s] = x]
    BY <1>4, <2>1 DEF Goto, Transaction, Cmd
  <2>3. Balanced(x.cmd)
    BY <1>4, <2>2 DEF BooksInv, PostsBalanced
  <2> HIDE DEF x
  <2> QED
    BY <1>2, <1>4, <2>2, <2>3
<1>5. ASSUME NEW s \in Sessions, NEW c \in Commands, Begin(s, c) PROVE BooksInv'
  <2> DEFINE x == [ session[s] EXCEPT !.pc = "check", !.cmd = c, !.at = clock,
                                      !.answer = "none" ]
  <2>1. session[s] \in Transaction
    BY <1>cover DEF TypeOK
  <2>2. x.cmd = c /\ session' = [session EXCEPT ![s] = x] /\ Balanced(c)
    BY <1>5, <2>1 DEF Begin, Transaction
  <2> HIDE DEF x
  <2> QED
    BY <1>2, <1>5, <2>2 DEF Begin
<1>6. ASSUME NEW s \in Sessions, NEW a \in Accounts, Lock(s, a) PROVE BooksInv'
  <2>1. PICK x \in Transaction : session' = [session EXCEPT ![s] = x] /\ x.cmd = Cmd(s)
    BY <1>6, <1>cover, LockStep
  <2>2. Balanced(x.cmd)
    BY <1>6, <2>1 DEF Lock, BooksInv, PostsBalanced, At
  <2> QED
    BY <1>2, <1>6, <2>1, <2>2 DEF Lock
<1>7. ASSUME NEW s \in Sessions, StartLocking(s) \/ AllLocked(s) \/ InsertHeader(s)
      PROVE  BooksInv'
  BY <1>4, <1>7 DEF StartLocking, AllLocked, InsertHeader, At, Pcs
<1>8. ASSUME NEW s \in Sessions, Commit(s) PROVE BooksInv'
  <2>1. session' = [session EXCEPT ![s] = Ended(s, "posted")]
    BY <1>8 DEF Commit, Ends, Ended
  <2>2. Ended(s, "posted").pc = "idle"
    BY <1>cover, EndedType DEF Answers
  <2>3. PostsBalanced'
    BY <2>1, <2>2, BalancedKept
  <2> QED
    BY <1>8, <1>cover, <2>3, CommittedBooks, CommittedBalance DEF BooksInv
<1>9. ASSUME NEW s \in Sessions, RefuseReversal(s) \/ RefuseOverdraft(s) \/ Rollback(s)
      PROVE  BooksInv'
  BY <1>3, <1>9 DEF RefuseReversal, RefuseOverdraft, Rollback, Answers
<1>10. ASSUME NEW s \in Sessions, FindPrior(s) \/ InsertConflicts(s) PROVE BooksInv'
  BY <1>3, <1>10, RecoverEnds DEF Answers
<1>11. CASE UNCHANGED ledgerVars \/ Tick
  BY <1>1, <1>11 DEF ledgerVars, Tick
<1> QED
  BY <1>5, <1>6, <1>7, <1>8, <1>9, <1>10, <1>11 DEF LedgerNext

-----------------------------------------------------------------------------
(* Nobody waits in a circle.                                               *)

\* A session locks its rows in the order of the accounts.
LocksInOrder ==
  \A s \in Sessions : At(s, "lock") =>
    \A a \in session[s].held, b \in Touches(Cmd(s)) \ session[s].held : a <= b

OrderInv == CoverInv /\ LocksInOrder

LEMMA OrderKept ==
  ASSUME OrderInv, NEW s \in Sessions, NEW x, session' = [session EXCEPT ![s] = x],
         x.pc = "lock" => \A a \in x.held, b \in Touches(x.cmd) \ x.held : a <= b
  PROVE  LocksInOrder'
<1>1. \A t \in Sessions : session'[t] = IF t = s THEN x ELSE session[t]
  BY DEF OrderInv, CoverInv, TypeOK
<1> QED
  BY <1>1 DEF OrderInv, LocksInOrder, At, Cmd, Touches

LEMMA OrderStep == OrderInv /\ [LedgerNext]_ledgerVars => OrderInv'
<1> SUFFICES ASSUME OrderInv, [LedgerNext]_ledgerVars PROVE OrderInv'
  OBVIOUS
<1>cover. CoverInv' /\ TypeOK
  BY CoverStep DEF OrderInv, CoverInv
<1> SUFFICES LocksInOrder'
  BY <1>cover DEF OrderInv
<1>1. CASE UNCHANGED session
  BY <1>1 DEF OrderInv, LocksInOrder, At, Cmd, Touches
<1>2. ASSUME NEW s \in Sessions, NEW answer \in Answers, Ends(s, answer)
      PROVE  LocksInOrder'
  <2>1. session' = [session EXCEPT ![s] = Ended(s, answer)]
    BY <1>2 DEF Ends, Ended
  <2>2. Ended(s, answer).pc = "idle"
    BY <1>cover, EndedType
  <2> QED
    BY <2>1, <2>2, OrderKept
<1>3. ASSUME NEW s \in Sessions, NEW c \in Commands, Begin(s, c) PROVE LocksInOrder'
  BY <1>3, <1>cover, BeginStep, OrderKept
<1>4. ASSUME NEW s \in Sessions, StartLocking(s) PROVE LocksInOrder'
  <2> DEFINE x == [ session[s] EXCEPT !.pc = "lock" ]
  <2>1. session[s] \in Transaction
    BY <1>cover DEF TypeOK
  <2>2. session[s].held = {}
    BY <1>4 DEF StartLocking, At, OrderInv, CoverInv, HeldIsKnown
  <2>3. x.held = {} /\ session' = [session EXCEPT ![s] = x]
    BY <1>4, <2>1, <2>2 DEF StartLocking, Goto, Transaction
  <2> HIDE DEF x
  <2> QED
    BY <2>3, OrderKept
<1>5. ASSUME NEW s \in Sessions, NEW pc \in { "insert", "update" }, Goto(s, pc)
      PROVE  LocksInOrder'
  <2> DEFINE x == [ session[s] EXCEPT !.pc = pc ]
  <2>1. session[s] \in Transaction
    BY <1>cover DEF TypeOK
  <2>2. x.pc # "lock" /\ session' = [session EXCEPT ![s] = x]
    BY <1>5, <2>1 DEF Goto, Transaction
  <2> HIDE DEF x
  <2> QED
    BY <2>2, OrderKept
<1>6. ASSUME NEW s \in Sessions, NEW a \in Accounts, Lock(s, a) PROVE LocksInOrder'
  <2>1. PICK x \in Transaction :
          /\ session' = [session EXCEPT ![s] = x]
          /\ x.cmd = Cmd(s) /\ x.held = session[s].held \cup { a }
    BY <1>6, <1>cover, LockStep
  <2>2. /\ \A b \in Touches(Cmd(s)) \ session[s].held : a <= b
        /\ \A b \in session[s].held, c \in Touches(Cmd(s)) \ session[s].held : b <= c
    BY <1>6 DEF Lock, OrderInv, LocksInOrder
  <2>3. \A b \in x.held, c \in Touches(x.cmd) \ x.held : b <= c
    BY <2>1, <2>2
  <2> QED
    BY <2>1, <2>3, OrderKept
<1>7. ASSUME NEW s \in Sessions,
             RefuseReversal(s) \/ RefuseOverdraft(s) \/ Rollback(s) \/ Commit(s)
      PROVE  LocksInOrder'
  BY <1>2, <1>7 DEF RefuseReversal, RefuseOverdraft, Rollback, Commit, Answers
<1>8. ASSUME NEW s \in Sessions, FindPrior(s) \/ InsertConflicts(s) PROVE LocksInOrder'
  BY <1>2, <1>8, RecoverEnds DEF Answers
<1>9. ASSUME NEW s \in Sessions, AllLocked(s) \/ InsertHeader(s) PROVE LocksInOrder'
  BY <1>5, <1>9 DEF AllLocked, InsertHeader
<1>10. CASE UNCHANGED ledgerVars \/ Tick
  BY <1>1, <1>10 DEF ledgerVars, Tick
<1> QED
  BY <1>3, <1>4, <1>6, <1>7, <1>8, <1>9, <1>10 DEF LedgerNext

\* Of sessions that all wait for a row, the one whose next row comes last waits for
\* none of the others: who holds that row would wait for a later one.
LEMMA NoCircle == OrderInv => NoDeadlock
<1> SUFFICES ASSUME OrderInv, NEW S \in SUBSET Sessions, S # {}
             PROVE  \E s \in S : \A t \in S : ~WaitsFor(s, t)
  BY DEF NoDeadlock
<1>1. CASE \E s \in S : ~At(s, "lock") /\ ~At(s, "insert")
  BY <1>1 DEF WaitsFor
<1>2. CASE \E s \in S : At(s, "lock") /\ session[s].held = Touches(Cmd(s))
  BY <1>2 DEF WaitsFor, At
<1>3. CASE /\ \A s \in S : At(s, "lock") \/ At(s, "insert")
           /\ \E s \in S : At(s, "insert")
  BY <1>3 DEF WaitsFor, Inserted, At
<1>4. CASE \A s \in S : At(s, "lock") /\ session[s].held # Touches(Cmd(s))
  <2> DEFINE Rest(s) == Touches(Cmd(s)) \ session[s].held
             W == { Min(Rest(s)) : s \in S }
  <2>1. ASSUME NEW s \in S
        PROVE  Min(Rest(s)) \in Rest(s) /\ Min(Rest(s)) \in Accounts
    <3>1. session[s].held \subseteq Touches(Cmd(s))
      BY <1>4 DEF OrderInv, CoverInv, HeldIsKnown, At
    <3>2. Rest(s) # {} /\ Rest(s) \subseteq Accounts
      BY <1>4, <3>1 DEF Touches
    <3> HIDE DEF Rest
    <3>f. IsFiniteSet(Rest(s))
      BY <3>2, FS_Subset
    <3>3. Rest(s) \subseteq Int
      <4>1. Accounts \subseteq Int
        OBVIOUS
      <4> QED
        BY <3>2, <4>1, Zenon
    <3>4. \E x \in Rest(s) : \A y \in Rest(s) : x <= y
      BY <3>2, <3>3, <3>f, Extremes
    <3>5. Min(Rest(s)) \in Rest(s)
      BY <3>4 DEF Min
    <3> QED
      BY <3>2, <3>5
  <2> HIDE DEF Rest
  <2>2. W \subseteq Accounts /\ W # {}
    BY <2>1
  <2> HIDE DEF W
  <2>f. IsFiniteSet(W)
    BY <2>2, FS_Subset
  <2>3. W \subseteq Int
    BY <2>2
  <2>4. PICK x \in W : \A y \in W : y <= x
    BY <2>2, <2>3, <2>f, Extremes
  <2>5. PICK s \in S : x = Min(Rest(s))
    BY DEF W
  <2>6. ASSUME NEW t \in S, x \in session[t].held PROVE FALSE
    <3> DEFINE y == Min(Rest(t))
    <3>1. y \in Rest(t) /\ y \in Accounts /\ y \in W
      BY <2>1 DEF W
    <3>2. y \in Touches(Cmd(t)) \ session[t].held
      BY <3>1 DEF Rest
    <3> HIDE DEF y
    <3>3. x <= y
      BY <1>4, <2>6, <3>2 DEF OrderInv, LocksInOrder
    <3>4. y <= x
      BY <2>4, <3>1
    <3>5. x = y
      BY <2>2, <2>4, <3>1, <3>3, <3>4
    <3> QED
      BY <2>6, <3>2, <3>5
  <2>7. \A t \in S : ~WaitsFor(s, t)
    BY <1>4, <2>5, <2>6 DEF WaitsFor, Rest, At
  <2> QED
    BY <2>7
<1> QED
  BY <1>1, <1>2, <1>3, <1>4

-----------------------------------------------------------------------------
(* The theorems.                                                           *)

\* However callers race and retry, one transaction is posted for a key, for a
\* business reference, and as the reversal of an original (the three unique
\* indexes, and the recovery after a conflict, of postInsideClient).
THEOREM PostingIsIdempotent == LedgerSpec => []PostedOnce
<1>1. OnceInv => PostedOnce
  BY DEF OnceInv
<1> QED
  BY OnceInit, OnceStep, <1>1, PTL DEF LedgerSpec

\* Two postings that share a bucket cannot both spend what covers one of them: the
\* projection of a protected bucket is never negative (NEGATIVE_PROTECTED_BALANCE, after the
\* locks of postInsideClient).
THEOREM BucketsStayCovered == LedgerSpec => []BucketsAreCovered
<1>1. CoverInv => BucketsAreCovered
  BY DEF CoverInv
<1> QED
  BY CoverInit, CoverStep, <1>1, PTL DEF LedgerSpec

\* What is projected under locks is what projection.ts rebuilds from the entries,
\* however postings interleave and in whatever order they started and commit.
THEOREM ProjectionsAreRebuilt == LedgerSpec => []ProjectionIsHistory
<1>1. BooksInv => ProjectionIsHistory
  BY DEF BooksInv, Books, ProjectionIsHistory
<1> QED
  BY BooksInit, BooksStep, <1>1, PTL DEF LedgerSpec

\* No sequence of postings and reversals leaves a protected bucket negative by its
\* entries, or the books out of balance.
THEOREM EntriesNeverOverdraw == LedgerSpec => []NeverOverdrawn
<1>1. BooksInv => NeverOverdrawn
  BY DEF BooksInv, CoverInv, BucketsAreCovered, BooksBalance, Signed, Books, NeverOverdrawn
<1> QED
  BY BooksInit, BooksStep, <1>1, PTL DEF LedgerSpec

\* Postings lock balance rows in account order and an insert waits only for a
\* session that waits for nothing: no set of sessions waits in a circle, however
\* many there are.
THEOREM PostingsNeverDeadlock == LedgerSpec => []NoDeadlock
<1>1. LedgerInit => OrderInv
  BY CoverInit DEF LedgerInit, OrderInv, LocksInOrder, At
<1> QED
  BY <1>1, OrderStep, NoCircle, PTL DEF LedgerSpec

=============================================================================
