------------------------------ MODULE Sessions ------------------------------
(***************************************************************************)
(* The login sessions of packages/auth/src/sessions.ts, statement by        *)
(* statement: a refresh token is exchanged once for a session that replaces *)
(* its own, a request passes the guard before it acts, and "revoke all" is  *)
(* one UPDATE that waits for the rows other transactions hold.              *)
(*                                                                         *)
(* A session stands for its refresh token and for the access tokens issued  *)
(* with it.  Workers are requests being served by the API.                  *)
(***************************************************************************)
EXTENDS Naturals, FiniteSets

CONSTANTS
  Users,        \* the users of the program
  Sids,         \* identities of rows of user_sessions (bounds their number)
  Workers       \* requests served at the same time

VARIABLES
  sess,         \* user_sessions: [Sids -> row]
  work,         \* what each worker is doing
  cut           \* history: the logins of the rows that "revoke all" has counted

sessionVars == <<sess, work, cut>>

\* login is the session that Telegram's init data created; a refresh hands it on.
Row(u, s) == [user |-> u, login |-> s, st |-> "live", expired |-> FALSE]

Unused(s) == sess[s].st = "unused"
Live(s) == sess[s].st = "live"

Idle == [op |-> "idle"]
Doing(w, op) == work[w].op = op

\* An insertion makes a row that was not there; which of the unused identities it
\* gets does not matter.
CanInsert == \E s \in Sids : Unused(s)
NewSid == CHOOSE s \in Sids : Unused(s)

\* The row lock of a rotation: SELECT ... FOR UPDATE until it commits.
Locked(s) == \E w \in Workers : Doing(w, "rotate") /\ work[w].on = s

SessionInit ==
  /\ sess \in [Sids -> {[st |-> "unused"]}]
  /\ work = [w \in Workers |-> Idle]
  /\ cut = {}

\* A login inserts a session for the user.
Login(w, u) ==
  /\ Doing(w, "idle")
  /\ CanInsert
  /\ sess' = [sess EXCEPT ![NewSid] = Row(u, NewSid)]
  /\ UNCHANGED <<work, cut>>

\* Only a row that is neither revoked nor expired is exchanged.
Exchangeable(s) == Live(s) /\ ~sess[s].expired

\* A client presents the refresh token of s.  The row is locked; a revoked one
\* is answered REFRESH_REPLAY, and of an expired one the rollback undoes even
\* the note that it has expired.
Refresh(w, s) ==
  /\ Doing(w, "idle") /\ ~Unused(s) /\ ~Locked(s)
  /\ Exchangeable(s)
  /\ work' = [work EXCEPT ![w] = [op |-> "rotate", on |-> s]]
  /\ UNCHANGED <<sess, cut>>

\* Mutant: the session of the presented token is left as it is.
ExchangedOnly(s, n) == [sess EXCEPT ![n] = Row(sess[s].user, sess[s].login)]

\* The presented session gives way to the new one.
Exchanged(s, n) ==
  [sess EXCEPT ![s].st = "revoked", ![n] = Row(sess[s].user, sess[s].login)]

\* The rotation revokes, inserts and commits, unless the row was revoked.
CommitRefresh(w) ==
  /\ Doing(w, "rotate")
  /\ Live(work[w].on)
  /\ CanInsert
  /\ sess' = Exchanged(work[w].on, NewSid)
  /\ work' = [work EXCEPT ![w] = Idle]
  /\ UNCHANGED cut

\* The process dies or the connection is lost: the transaction is rolled back.
LoseRefresh(w) ==
  /\ Doing(w, "rotate")
  /\ work' = [work EXCEPT ![w] = Idle]
  /\ UNCHANGED <<sess, cut>>

\* A session is active while it is neither revoked nor expired.
Active(s) == Live(s) /\ ~sess[s].expired

\* The guard of an authenticated route: the session of the access token is
\* active now.  What the route does comes later.
Guard(w, s) ==
  /\ Doing(w, "idle")
  /\ Active(s)
  /\ work' = [work EXCEPT ![w] = [op |-> "authed", on |-> s]]
  /\ UNCHANGED <<sess, cut>>

\* Logout, or the removal of one of the user's other sessions: one UPDATE.
Revoke(w) ==
  /\ Doing(w, "authed")
  /\ \E t \in Sids :
       /\ ~Unused(t) /\ sess[t].user = sess[work[w].on].user /\ ~Locked(t)
       /\ sess' = [sess EXCEPT ![t].st = "revoked"]
  /\ work' = [work EXCEPT ![w] = Idle]
  /\ UNCHANGED cut

\* "Revoke all" takes its snapshot: the sessions not revoked by now.
RevokeAll(w) ==
  /\ Doing(w, "authed")
  /\ work' = [work EXCEPT ![w] =
       [op |-> "revokeAll",
        seen |-> {t \in Sids : Live(t) /\ sess[t].user = sess[work[w].on].user}]]
  /\ UNCHANGED <<sess, cut>>

\* It has waited for the locks of its rows; it revokes and counts those that still
\* are not, and its answer is their number.
EndRevokeAll(w) ==
  /\ Doing(w, "revokeAll")
  /\ \A t \in work[w].seen : ~Locked(t)
  /\ sess' = [t \in Sids |-> IF t \in work[w].seen
                             THEN [sess[t] EXCEPT !.st = "revoked"] ELSE sess[t]]
  /\ cut' = cut \cup {sess[t].login : t \in {x \in work[w].seen : Live(x)}}
  /\ work' = [work EXCEPT ![w] = Idle]

\* The clock passes expires_at.
SessionExpires(s) ==
  /\ Live(s) /\ ~sess[s].expired
  /\ sess' = [sess EXCEPT ![s].expired = TRUE]
  /\ UNCHANGED <<work, cut>>

SessionNext ==
  \/ \E w \in Workers :
       \/ \E u \in Users : Login(w, u)
       \/ \E s \in Sids : Refresh(w, s) \/ Guard(w, s)
       \/ CommitRefresh(w) \/ LoseRefresh(w)
       \/ Revoke(w) \/ RevokeAll(w) \/ EndRevokeAll(w)
  \/ \E s \in Sids : SessionExpires(s)

SessionSpec == SessionInit /\ [][SessionNext]_sessionVars

-----------------------------------------------------------------------------
\* Rows and workers have the shapes the actions give them.
SessionTypeOK ==
  /\ sess \in [Sids -> {[st |-> "unused"]} \cup
       [user : Users, login : Sids, st : {"live", "revoked"}, expired : BOOLEAN]]
  /\ work \in [Workers -> {Idle} \cup [op : {"rotate", "authed"}, on : Sids]
                                \cup [op : {"revokeAll"}, seen : SUBSET Sids]]
  /\ \A w \in Workers : work[w].op \in {"rotate", "authed"} => ~Unused(work[w].on)
  /\ cut \subseteq Sids

\* Two refreshes with one token, a logout and a revocation in between, or a
\* crash in the middle never leave two usable sessions of one login
\* (rotateRefreshSession, sessions.ts:106).
OneLivePerLogin ==
  \A s, t \in Sids :
    Live(s) /\ Live(t) /\ sess[s].login = sess[t].login => s = t

\* The login of a session that "revoke all" counted is over: no refresh that was
\* waiting for the row, was rolled back, or inserted its session while the UPDATE
\* was waiting, gives it a live session again.  A login whose row a refresh had
\* exchanged by then is not counted, and goes on (revokeAllUserSessions,
\* sessions.ts:199; rotateRefreshSession, sessions.ts:116 and 143).
CountedLoginsEnd == \A s \in Sids : Live(s) => sess[s].login \notin cut

=============================================================================
