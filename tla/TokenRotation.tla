---------------------------- MODULE TokenRotation ----------------------------
(***************************************************************************)
(* The refresh tokens of one user: login, the rotation of                  *)
(* AuthService.refresh, logout, logout_all and change_password.  The rows  *)
(* are in PostgreSQL; the blacklist, the rotation lock and the cached      *)
(* result of a rotation are in Redis, which can be away: every Redis call  *)
(* then falls back to an answer of its own.                                *)
(*                                                                         *)
(* A transaction is one step at its commit.  An UPDATE of many rows is two *)
(* steps, since it changes the rows that were there when it began and does *)
(* not see those committed while it waits for a row lock.  Tokens are far  *)
(* younger than their expiry.                                              *)
(***************************************************************************)
EXTENDS Naturals, FiniteSets

CONSTANTS
  Tokens,    \* ids of refresh tokens (jti)
  Families,  \* ids of token families, one for each login
  Requests,  \* calls of POST /auth/refresh
  Logouts,   \* calls of /auth/logout, /auth/logout-all and the password change
  Faults,    \* which of RotationFaults can happen
  None       \* NULL, an absent key

RotationFaults ==
  { "redis",     \* Redis goes away and comes back
    "database",  \* a rotation is rolled back, or its process stops
    "slow"       \* a rotation takes longer than the 5 seconds of its lock
  }

ASSUME RotationFaultsAssumption == Faults \subseteq RotationFaults
\* Ids are UUIDs.
ASSUME TokensAssumption == IsFiniteSet(Tokens)
ASSUME RotationNoneAssumption == None \notin Tokens \cup Families \cup Requests

VARIABLES
  row,       \* RefreshToken row: "none", "active" or "used" (is_used)
  revoked,   \* rows with revoked_at
  grace,     \* used rows whose rotated_at is under 30 seconds old
  family,    \* family_id of the tokens generated so far
  issuedAt,  \* issued_at, as a number
  redisUp,
  blacklist, \* Redis: auth:blacklist:refresh:<jti>
  lock,      \* Redis: auth:lock:refresh:<jti>
  pending,   \* Redis: auth:pending:refresh:<jti>, the new token of the pair
  held,      \* tokens that a client has received
  pc, tok, redisOk, child, answer, reuseSeen,  \* of a refresh request
  outPc, outTokens, outSeen,        \* of a logout or password change
  \* history, read by properties only:
  issuer,    \* the request that issued the token
  rolledBack,  \* tokens whose rotation was rolled back
  outlived,  \* rotations that took longer than their lock
  racers     \* rotations under way while the logout's UPDATE ran

rowVars == <<row, revoked, grace, family, issuedAt>>
redisVars == <<redisUp, blacklist, lock, pending>>
requestVars == <<pc, tok, redisOk, child, answer, reuseSeen>>
logoutVars == <<outPc, outTokens, outSeen>>
historyVars == <<issuer, rolledBack, outlived, racers>>
vars == <<rowVars, redisVars, held, requestVars, logoutVars, historyVars>>

Init ==
  /\ row = [t \in Tokens |-> "none"]
  /\ revoked = {}
  /\ grace = {}
  /\ family = [t \in Tokens |-> None]
  /\ issuedAt = [t \in Tokens |-> 0]
  /\ redisUp = TRUE
  /\ blacklist = {}
  /\ lock = {}
  /\ pending = [t \in Tokens |-> None]
  /\ held = {}
  /\ pc = [q \in Requests |-> "idle"]
  /\ tok = [q \in Requests |-> None]
  /\ redisOk = [q \in Requests |-> TRUE]
  /\ child = [q \in Requests |-> None]
  /\ answer = [q \in Requests |-> None]
  /\ reuseSeen = [q \in Requests |-> {}]
  /\ outPc = [o \in Logouts |-> "idle"]
  /\ outTokens = [o \in Logouts |-> {}]
  /\ outSeen = [o \in Logouts |-> {}]
  /\ issuer = [t \in Tokens |-> None]
  /\ rolledBack = {}
  /\ outlived = {}
  /\ racers = [o \in Logouts |-> {}]

\* Between the read that found the token unused and the commit.
Rotating == {"rotate", "marked", "issued"}
RequestPc ==
  Rotating \cup {"idle", "checked", "lock", "wait", "read", "reuse", "revoke",
                 "purge", "grace", "answered", "rejected"}
LogoutPc ==
  {"idle", "one", "update", "commit", "all", "pw update", "pw blacklist",
   "pw commit", "done"}

TypeOK ==
  /\ row \in [Tokens -> {"none", "active", "used"}]
  /\ revoked \subseteq Tokens
  /\ grace \subseteq Tokens
  /\ family \in [Tokens -> Families \cup {None}]
  /\ issuedAt \in [Tokens -> Nat]
  /\ redisUp \in BOOLEAN
  /\ blacklist \subseteq Tokens
  /\ lock \subseteq Tokens
  /\ pending \in [Tokens -> Tokens \cup {None}]
  /\ held \subseteq Tokens
  /\ pc \in [Requests -> RequestPc]
  /\ tok \in [Requests -> Tokens \cup {None}]
  /\ redisOk \in [Requests -> BOOLEAN]
  /\ child \in [Requests -> Tokens \cup {None}]
  /\ answer \in [Requests -> Tokens \cup {None}]
  /\ reuseSeen \in [Requests -> SUBSET Tokens]
  /\ outPc \in [Logouts -> LogoutPc]
  /\ outTokens \in [Logouts -> SUBSET Tokens]
  /\ outSeen \in [Logouts -> SUBSET Tokens]
  /\ issuer \in [Tokens -> Requests \cup {None}]
  /\ rolledBack \subseteq Tokens
  /\ outlived \subseteq Requests
  /\ racers \in [Logouts -> SUBSET Requests]
  /\ \A q \in Requests : pc[q] # "idle" => tok[q] \in Tokens
  /\ \A q \in Requests : pc[q] = "issued" => child[q] \in Tokens

Exists(t) == row[t] # "none"
Active(t) == row[t] = "active" /\ t \notin revoked
Generated == {t \in Tokens : family[t] # None}
\* create() of a row that is not committed yet
New(n, f) ==
  /\ n \notin Generated
  /\ family' = [family EXCEPT ![n] = f]
  /\ issuedAt' = [issuedAt EXCEPT ![n] = Cardinality(Generated) + 1]

Step(q, from, to) == pc[q] = from /\ pc' = [pc EXCEPT ![q] = to]
Reject(q, from) ==
  /\ Step(q, from, "rejected")
  /\ UNCHANGED <<rowVars, redisVars, held, tok, redisOk, child, answer,
                 reuseSeen, logoutVars, historyVars>>
Answer(q, t) ==
  /\ answer' = [answer EXCEPT ![q] = t]
  /\ held' = held \cup {t}

\* blacklist_token: a failure is logged, and the token is not blacklisted.
Blacklist(T) ==
  /\ blacklist' = IF redisUp THEN blacklist \cup T ELSE blacklist
  /\ UNCHANGED <<redisUp, lock>>

-----------------------------------------------------------------------------
(* Login, and the environment *)

Login(n, f) ==
  /\ \A t \in Tokens : family[t] # f
  /\ New(n, f)
  /\ row' = [row EXCEPT ![n] = "active"]
  /\ held' = held \cup {n}
  /\ UNCHANGED <<revoked, grace, redisVars, requestVars, logoutVars,
                 historyVars>>

GraceEnds(t) ==
  /\ t \in grace
  /\ grace' = grace \ {t}
  /\ UNCHANGED <<row, revoked, family, issuedAt, redisVars, held, requestVars,
                 logoutVars, historyVars>>

RedisChanges ==
  /\ "redis" \in Faults
  /\ redisUp' = ~redisUp
  /\ UNCHANGED <<rowVars, blacklist, lock, pending, held, requestVars,
                 logoutVars, historyVars>>

LockHolders(t) ==
  {q \in Requests :
     tok[q] = t /\ redisOk[q] /\ pc[q] \in Rotating \cup {"read"}}

\* The 5 seconds of the lock pass: nothing releases it earlier.
LockExpires(t) ==
  /\ t \in lock
  /\ LockHolders(t) = {} \/ "slow" \in Faults
  /\ lock' = lock \ {t}
  /\ outlived' = outlived \cup LockHolders(t)
  /\ UNCHANGED <<rowVars, redisUp, blacklist, pending, held, requestVars,
                 logoutVars, issuer, rolledBack, racers>>

PendingExpires(t) ==
  /\ pending[t] # None
  /\ pending' = [pending EXCEPT ![t] = None]
  /\ UNCHANGED <<rowVars, redisUp, blacklist, lock, held, requestVars,
                 logoutVars, historyVars>>

-----------------------------------------------------------------------------
(* AuthService.refresh *)

Blacklisted(t) == redisUp /\ t \in blacklist

Present(q, t) ==
  /\ Step(q, "idle", IF Blacklisted(t) THEN "rejected" ELSE "checked")
  /\ t \in held
  /\ tok' = [tok EXCEPT ![q] = t]
  /\ UNCHANGED <<rowVars, redisVars, held, redisOk, child, answer,
                 reuseSeen, logoutVars, historyVars>>

Ping(q) ==
  /\ Step(q, "checked", IF redisUp THEN "lock" ELSE "read")
  /\ redisOk' = [redisOk EXCEPT ![q] = redisUp]
  /\ UNCHANGED <<rowVars, redisVars, held, tok, child, answer,
                 reuseSeen, logoutVars, historyVars>>

\* Mutant of LockFree: SET without nx.
LockFree_always(t) == redisUp

LockFree(t) == redisUp /\ t \notin lock

AcquireLock(q) ==
  /\ Step(q, "lock", "read")
  /\ LockFree(tok[q])
  /\ lock' = lock \cup {tok[q]}
  /\ UNCHANGED <<rowVars, redisUp, blacklist, pending, held, tok, redisOk,
                 child, answer, reuseSeen, logoutVars, historyVars>>

\* The lock is taken, or Redis has failed since the ping.
LockDenied(q) ==
  /\ Step(q, "lock", "wait")
  /\ ~LockFree(tok[q])
  /\ UNCHANGED <<rowVars, redisVars, held, tok, redisOk, child, answer,
                 reuseSeen, logoutVars, historyVars>>

TakePending(q) ==
  /\ Step(q, "wait", "answered")
  /\ redisUp
  /\ pending[tok[q]] # None
  /\ Answer(q, pending[tok[q]])
  /\ UNCHANGED <<rowVars, redisVars, tok, redisOk, child, reuseSeen,
                 logoutVars, historyVars>>

\* Five looks 200 ms apart found nothing.
WaitTimesOut(q) ==
  /\ Reject(q, "wait")
  /\ ~redisUp \/ pending[tok[q]] = None

ReadInvalid(q) ==
  /\ Reject(q, "read")
  /\ ~Exists(tok[q]) \/ tok[q] \in revoked

\* Mutant of Unused: is_used is not looked at.
Unused_any(t) == row[t] \in {"active", "used"}

Unused(t) == row[t] = "active"

ReadValid(q) ==
  LET t == tok[q]
  IN  /\ Step(q, "read", IF Unused(t) THEN "rotate"
                         ELSE IF t \in grace THEN "grace" ELSE "reuse")
      /\ Exists(t)
      /\ t \notin revoked
      /\ racers' = [o \in Logouts |->
           IF Unused(t) /\ outPc[o] \in {"commit", "pw blacklist", "pw commit"}
           THEN racers[o] \cup {q} ELSE racers[o]]
      /\ UNCHANGED <<rowVars, redisVars, held, tok, redisOk, child, answer,
                     reuseSeen, logoutVars, issuer, rolledBack,
                     outlived>>

\* mark_used, which waits for a rotation of the same row, and blacklist_token.
RotateMark(q) ==
  /\ Step(q, "rotate", "marked")
  /\ \A p \in Requests : tok[p] = tok[q] => pc[p] \notin {"marked", "issued"}
  /\ Blacklist(IF redisOk[q] THEN {tok[q]} ELSE {})
  /\ UNCHANGED <<rowVars, pending, held, tok, redisOk, child, answer,
                 reuseSeen, logoutVars, historyVars>>

\* issue_token_pair, and set_pending_refresh before the commit.
RotateIssue(q, n) ==
  LET t == tok[q]
  IN  /\ Step(q, "marked", "issued")
      /\ New(n, family[t])
      /\ child' = [child EXCEPT ![q] = n]
      /\ pending' = IF redisOk[q] /\ redisUp
                    THEN [pending EXCEPT ![t] = n] ELSE pending
      /\ issuer' = [issuer EXCEPT ![n] = q]
      /\ UNCHANGED <<row, revoked, grace, redisUp, blacklist, lock, held, tok,
                     redisOk, answer, reuseSeen, logoutVars, rolledBack,
                     outlived, racers>>

RotateCommit(q) ==
  /\ Step(q, "issued", "answered")
  /\ row' = [row EXCEPT ![tok[q]] = "used", ![child[q]] = "active"]
  /\ grace' = grace \cup {tok[q]}
  /\ Answer(q, child[q])
  /\ UNCHANGED <<revoked, family, issuedAt, redisVars, tok, redisOk, child,
                 reuseSeen, logoutVars, historyVars>>

\* Nothing is committed; what is in Redis stays there.
RotateFails(q) ==
  /\ "database" \in Faults
  /\ \E from \in {"marked", "issued"} : Step(q, from, "rejected")
  /\ rolledBack' = rolledBack \cup {tok[q]}
  /\ UNCHANGED <<rowVars, redisVars, held, tok, redisOk, child, answer,
                 reuseSeen, logoutVars, issuer, outlived, racers>>

Kin(t) == {u \in Tokens : family[u] = family[t]}
Newest(T) == {t \in T : \A u \in T : issuedAt[u] <= issuedAt[t]}

\* The token was used a moment ago: the newest unused token of its family.
Children(q) == {u \in Kin(tok[q]) : Active(u)}

GraceAnswer(q) ==
  /\ Step(q, "grace", "answered")
  /\ \E u \in Newest(Children(q)) : Answer(q, u)
  /\ UNCHANGED <<rowVars, redisVars, tok, redisOk, child, reuseSeen,
                 logoutVars, historyVars>>

\* Mutant of GraceEmpty: a missing child is not noticed.
GraceEmpty_answered(q) ==
  /\ Step(q, "grace", "answered")
  /\ Children(q) = {}
  /\ Answer(q, None)
  /\ UNCHANGED <<rowVars, redisVars, tok, redisOk, child, reuseSeen,
                 logoutVars, historyVars>>

GraceEmpty(q) == Reject(q, "grace") /\ Children(q) = {}

\* revoke_family begins: the rows it will change.
ReuseUpdate(q) ==
  /\ Step(q, "reuse", "revoke")
  /\ reuseSeen' = [reuseSeen EXCEPT ![q] = {u \in Kin(tok[q]) : Exists(u)}]
  /\ UNCHANGED <<rowVars, redisVars, held, tok, redisOk, child, answer,
                 logoutVars, historyVars>>

\* Mutant of ReuseCommit: the revocation is not committed.
ReuseCommit_dropped(q) ==
  /\ Step(q, "revoke", "purge")
  /\ UNCHANGED <<rowVars, redisVars, held, tok, redisOk, child, answer,
                 reuseSeen, logoutVars, historyVars>>

ReuseCommit(q) ==
  /\ Step(q, "revoke", "purge")
  /\ revoked' = revoked \cup reuseSeen[q]
  /\ UNCHANGED <<row, grace, family, issuedAt, redisVars, held, tok, redisOk,
                 child, answer, reuseSeen, logoutVars, historyVars>>

ReusePurge(q) ==
  /\ Step(q, "purge", "rejected")
  /\ Blacklist(IF redisOk[q] THEN {u \in Kin(tok[q]) : Exists(u)} ELSE {})
  /\ UNCHANGED <<rowVars, pending, held, tok, redisOk, child, answer,
                 reuseSeen, logoutVars, historyVars>>

-----------------------------------------------------------------------------
(* logout, logout_all and change_password *)

OutStep(o, from, to) == outPc[o] = from /\ outPc' = [outPc EXCEPT ![o] = to]

\* logout: the one token of the cookie is revoked.
LogoutOne(o, t) ==
  /\ OutStep(o, "idle", "one")
  /\ t \in held
  /\ revoked' = IF Exists(t) THEN revoked \cup {t} ELSE revoked
  /\ outTokens' = [outTokens EXCEPT ![o] = {t}]
  /\ UNCHANGED <<row, grace, family, issuedAt, redisVars, held, requestVars,
                 outSeen, historyVars>>

\* get_active_by_user, by logout_all or by change_password.
LogoutRead(o, next) ==
  LET active == {t \in Tokens : Active(t)}
  IN  /\ next \in {"update", "pw update"}
      /\ OutStep(o, "idle", IF active = {} THEN "done" ELSE next)
      /\ outTokens' = [outTokens EXCEPT ![o] = active]
      /\ UNCHANGED <<rowVars, redisVars, held, requestVars, outSeen,
                     historyVars>>

\* Mutant of ToRevoke: only tokens that were used.
ToRevoke_used == {t \in Tokens : row[t] = "used" /\ t \notin revoked}

ToRevoke == {t \in Tokens : Exists(t) /\ t \notin revoked}

\* revoke_all_user begins: the rows it will change.
LogoutUpdate(o) ==
  /\ OutStep(o, outPc[o], IF outPc[o] = "update" THEN "commit"
                                                 ELSE "pw blacklist")
  /\ outPc[o] \in {"update", "pw update"}
  /\ outSeen' = [outSeen EXCEPT ![o] = ToRevoke]
  /\ racers' = [racers EXCEPT ![o] = {q \in Requests : pc[q] \in Rotating}]
  /\ UNCHANGED <<rowVars, redisVars, held, requestVars, outTokens, issuer,
                 rolledBack, outlived>>

LogoutCommit(o) ==
  /\ OutStep(o, outPc[o], IF outPc[o] = "commit" THEN "all" ELSE "done")
  /\ outPc[o] \in {"commit", "pw commit"}
  /\ revoked' = revoked \cup outSeen[o]
  /\ UNCHANGED <<row, grace, family, issuedAt, redisVars, held, requestVars,
                 outTokens, outSeen, historyVars>>

\* A logout blacklists after its commit, change_password before.
LogoutBlacklist(o) ==
  /\ outPc[o] \in {"one", "all", "pw blacklist"}
  /\ OutStep(o, outPc[o], IF outPc[o] = "pw blacklist" THEN "pw commit"
                                                       ELSE "done")
  /\ Blacklist(outTokens[o])
  /\ UNCHANGED <<rowVars, pending, held, requestVars, outTokens, outSeen,
                 historyVars>>

RequestStep(q) ==
  \/ Ping(q) \/ AcquireLock(q) \/ LockDenied(q) \/ TakePending(q)
  \/ WaitTimesOut(q) \/ ReadInvalid(q) \/ ReadValid(q) \/ RotateMark(q)
  \/ RotateCommit(q) \/ RotateFails(q) \/ GraceAnswer(q) \/ GraceEmpty(q)
  \/ ReuseUpdate(q) \/ ReuseCommit(q) \/ ReusePurge(q)
  \/ \E t \in Tokens : Present(q, t) \/ RotateIssue(q, t)

LogoutStep(o) ==
  \/ \E t \in Tokens : LogoutOne(o, t)
  \/ \E next \in {"update", "pw update"} : LogoutRead(o, next)
  \/ LogoutUpdate(o) \/ LogoutCommit(o) \/ LogoutBlacklist(o)

Next ==
  \/ \E n \in Tokens, f \in Families : Login(n, f)
  \/ \E q \in Requests : RequestStep(q)
  \/ \E o \in Logouts : LogoutStep(o)
  \/ \E t \in Tokens : GraceEnds(t) \/ LockExpires(t) \/ PendingExpires(t)
  \/ RedisChanges

Spec == Init /\ [][Next]_vars

-----------------------------------------------------------------------------
(* Safety *)

\* A session is forked only if some refresh of it ran without its lock, Redis
\* being away, or took longer than the lock, now or earlier: until then its
\* family has one unused token at most, and the client that holds it goes on
\* alone, however many refreshes are concurrent.
Unlocked(q) == ~redisOk[q] \/ q \in outlived

FamilyIsAChain ==
  \A t, u \in Tokens :
    row[t] = "active" /\ row[u] = "active" /\ family[t] = family[u] =>
      \/ t = u
      \/ \E q \in Requests :
           tok[q] # None /\ family[tok[q]] = family[t] /\ Unlocked(q)

\* The blacklist never runs ahead of the database for good: a blacklisted
\* token is used or revoked there, or the request that blacklisted it is still
\* to commit or was rolled back, or reuse was detected in its family and the
\* token is a child that a rotation committed during the revocation, or a
\* logout blacklisted it and it came of a rotation: a client has it before its
\* row is committed, and what a logout then blacklists it does not revoke.
BlacklistedIsSpent ==
  \A t \in blacklist :
    \/ row[t] = "used"
    \/ t \in revoked
    \/ t \in rolledBack
    \/ \E q \in Requests : tok[q] = t /\ pc[q] \in {"marked", "issued"}
    \/ \E q \in Requests :
         /\ pc[q] = "rejected"
         /\ t \in Kin(tok[q]) \ reuseSeen[q]
         /\ reuseSeen[q] # {}
         /\ issuer[t] # None
    \/ \E o \in Logouts :
         /\ t \in outTokens[o]
         /\ \/ outPc[o] = "pw commit"
            \/ outPc[o] = "done" /\ issuer[t] # None

\* The tokens of sessions that a logout_all or password change saw and has
\* revoked since.
Ended(o) == IF outPc[o] \in {"all", "done"} THEN outSeen[o] ELSE {}

\* A session outlives logout_all or a password change only through a rotation
\* that was between its read and its commit while the UPDATE ran, Redis or not.
LogoutLeavesOnlyRacers ==
  \A o \in Logouts, t \in Tokens :
    Active(t) /\ (\E u \in Ended(o) : family[u] = family[t]) =>
      \E n \in Tokens : family[n] = family[t] /\ issuer[n] \in racers[o]

-----------------------------------------------------------------------------
(* What a test says, and the code does not keep *)

\* "Second Refresh with SAME original token (within grace period) -> should
\* return Child Token".
GraceIsHonoured ==
  [][\A q \in Requests, t \in Tokens :
       Present(q, t) /\ t \in grace /\ t \notin revoked
       => pc'[q] # "rejected"]_vars
=============================================================================
