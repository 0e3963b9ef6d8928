------------------------- MODULE TokenRotationProofs -------------------------
(***************************************************************************)
(* Proofs about TokenRotation: typing, what a logout leaves behind, what   *)
(* the blacklist may hold, and that a family forks only through a rotation *)
(* without its lock, for any number of tokens, families, refreshes and     *)
(* logouts and any faults.                                                 *)
(***************************************************************************)
EXTENDS TokenRotation, FiniteSetTheorems, TLAPS

-----------------------------------------------------------------------------
(* The inductive invariants *)

\* Where tokens come from: a committed row, a token that a client or Redis
\* holds and a token that a request presented were all generated, and one that
\* is not committed yet was generated by a rotation, the child of which is a
\* row of its own.
OriginInv ==
  /\ \A t \in Tokens : Exists(t) => family[t] # None
  /\ \A t \in Tokens : issuer[t] # None => family[t] # None
  /\ \A t \in held : family[t] # None /\ (Exists(t) \/ issuer[t] # None)
  /\ \A t \in Tokens : pending[t] # None =>
       family[pending[t]] # None /\ issuer[pending[t]] # None
  /\ \A q \in Requests : pc[q] # "idle" => family[tok[q]] # None
  /\ \A q \in Requests :
       pc[q] \in Rotating \cup {"grace", "reuse", "revoke", "purge"} =>
         Exists(tok[q])
  /\ \A q \in Requests : pc[q] = "issued" =>
       /\ family[child[q]] = family[tok[q]]
       /\ issuer[child[q]] = q
       /\ ~Exists(child[q])

\* A rotation that a logout counts as a racer has put a token in the family.
Raced(o, f) == \E n \in Tokens : family[n] = f /\ issuer[n] \in racers[o]

\* Between the UPDATE of a logout_all or password change and its commit.
Revoking == {"commit", "pw blacklist", "pw commit"}

\* In a family that a logout's UPDATE saw, every row it will not revoke is due
\* to a racer, and a rotation under way is a racer or comes after one.
Kept(o) ==
  /\ outPc[o] \in {"idle", "one", "update", "pw update"} => outSeen[o] = {}
  /\ \A u \in outSeen[o] : family[u] # None
  /\ outPc[o] \in Revoking =>
       \A q \in Requests : pc[q] \in Rotating => q \in racers[o]
  /\ \A u \in outSeen[o], q \in Requests :
       pc[q] \in Rotating /\ family[tok[q]] = family[u] =>
         q \in racers[o] \/ Raced(o, family[u])
  /\ \A u \in outSeen[o], t \in Tokens :
       Exists(t) /\ t \notin revoked /\ family[t] = family[u] =>
         Raced(o, family[u]) \/ (outPc[o] \in Revoking /\ t \in outSeen[o])

LogoutInv == \A o \in Logouts : Kept(o)

\* What a detected reuse has seen is revoked from its commit on, and what it
\* has not seen of the family is the child of a rotation.
Reused(q) ==
  /\ pc[q] \in {"revoke", "purge"} => tok[q] \in reuseSeen[q]
  /\ pc[q] = "purge" => reuseSeen[q] \subseteq revoked
  /\ pc[q] \in {"revoke", "purge"} =>
       \A u \in Kin(tok[q]) \ reuseSeen[q] : Exists(u) => issuer[u] # None

ReuseInv == \A q \in Requests : Reused(q)

\* What a logout will blacklist is revoked when it is, or will be.
Doomed(o) ==
  /\ outPc[o] = "one" =>
       \A t \in outTokens[o] : t \in revoked \/ issuer[t] # None
  /\ outPc[o] \in {"update", "pw update"} => \A t \in outTokens[o] : Exists(t)
  /\ outPc[o] \in Revoking => outTokens[o] \subseteq outSeen[o] \cup revoked
  /\ outPc[o] = "all" => outTokens[o] \subseteq revoked

OutTokensInv == \A o \in Logouts : Doomed(o)

\* Why a token may be in the blacklist.
Spent(t) ==
  \/ row[t] = "used"
  \/ t \in revoked
  \/ t \in rolledBack
  \/ \E q \in Requests : tok[q] = t /\ pc[q] \in {"marked", "issued"}
  \/ \E q \in Requests :
       /\ pc[q] = "rejected"
       /\ t \in Kin(tok[q]) \ reuseSeen[q]
       /\ reuseSeen[q] # {}
       /\ issuer[t] # None
  \/ \E o \in Logouts :
       /\ t \in outTokens[o]
       /\ \/ outPc[o] = "pw commit"
          \/ outPc[o] = "done" /\ issuer[t] # None

SpentInv == \A t \in blacklist : Spent(t)

\* A request that relies on the lock it took.
Holding(q) == pc[q] \in Rotating \cup {"read"} /\ ~Unlocked(q)

\* The lock of a token is there while a request relies on it, and one request
\* at a time does.
LockInv ==
  /\ \A q \in Requests : pc[q] \in {"idle", "checked"} => redisOk[q]
  /\ \A q \in Requests : pc[q] = "idle" => tok[q] = None
  /\ \A q \in Requests : Holding(q) => tok[q] \in lock
  /\ \A p, q \in Requests :
       Holding(p) /\ Holding(q) /\ tok[p] = tok[q] => p = q

Forked(f) ==
  \E q \in Requests : tok[q] # None /\ family[tok[q]] = f /\ Unlocked(q)

\* Two unused tokens of one family.
Chained(t, u) ==
  row[t] = "active" /\ row[u] = "active" /\ family[t] = family[u] =>
    t = u \/ Forked(family[t])

\* The token that a rotation replaces is still unused.
ChainInv ==
  /\ \A t, u \in Tokens : Chained(t, u)
  /\ \A q \in Requests : pc[q] \in Rotating =>
       row[tok[q]] = "active" \/ Forked(family[tok[q]])

-----------------------------------------------------------------------------
(* The steps by group *)

LookupStep(q) ==
  \/ \E t \in Tokens : Present(q, t)
  \/ Ping(q) \/ AcquireLock(q) \/ LockDenied(q) \/ TakePending(q)
  \/ WaitTimesOut(q) \/ ReadInvalid(q) \/ ReadValid(q)

RotateStep(q) ==
  \/ RotateMark(q)
  \/ \E n \in Tokens : RotateIssue(q, n)
  \/ RotateCommit(q) \/ RotateFails(q)

ReuseStep(q) ==
  \/ GraceAnswer(q) \/ GraceEmpty(q)
  \/ ReuseUpdate(q) \/ ReuseCommit(q) \/ ReusePurge(q)

EnvironmentStep ==
  \/ \E n \in Tokens, f \in Families : Login(n, f)
  \/ \E t \in Tokens : GraceEnds(t) \/ LockExpires(t) \/ PendingExpires(t)
  \/ RedisChanges

LEMMA NextSteps ==
  ASSUME Next
  PROVE  \/ EnvironmentStep
         \/ \E q \in Requests : LookupStep(q) \/ RotateStep(q) \/ ReuseStep(q)
         \/ \E o \in Logouts : LogoutStep(o)
BY DEF Next, EnvironmentStep, RequestStep, LookupStep, RotateStep, ReuseStep

-----------------------------------------------------------------------------
(* Types *)

\* The count of the generated tokens, which numbers issued_at.
LEMMA CountIsNatural == Cardinality(Generated) + 1 \in Nat
<1>1. IsFiniteSet(Generated)
  BY TokensAssumption, FS_Subset DEF Generated
<1> QED BY <1>1, FS_CardinalityType

LEMMA InitTypes == Init => TypeOK
BY DEF Init, TypeOK, RequestPc, LogoutPc, Rotating

LEMMA EnvironmentTypes == ASSUME TypeOK, EnvironmentStep PROVE TypeOK'
<1> USE DEF TypeOK, rowVars, redisVars, requestVars, logoutVars, historyVars
<1>1. ASSUME NEW n \in Tokens, NEW f \in Families, Login(n, f) PROVE TypeOK'
  BY <1>1, CountIsNatural DEF Login, New
<1>2. ASSUME NEW t \in Tokens, GraceEnds(t) PROVE TypeOK'
  BY <1>2 DEF GraceEnds
<1>3. ASSUME NEW t \in Tokens, LockExpires(t) PROVE TypeOK'
  BY <1>3 DEF LockExpires, LockHolders
<1>4. ASSUME NEW t \in Tokens, PendingExpires(t) PROVE TypeOK'
  BY <1>4 DEF PendingExpires
<1>5. CASE RedisChanges BY <1>5 DEF RedisChanges
<1> QED BY <1>1, <1>2, <1>3, <1>4, <1>5 DEF EnvironmentStep

LEMMA LookupTypes ==
  ASSUME TypeOK, NEW q \in Requests, LookupStep(q) PROVE TypeOK'
<1> USE DEF TypeOK, RequestPc, Rotating, Step, Reject, Answer,
            rowVars, redisVars, requestVars, logoutVars, historyVars
<1>1. ASSUME NEW t \in Tokens, Present(q, t) PROVE TypeOK'
  BY <1>1 DEF Present
<1>2. CASE Ping(q) BY <1>2 DEF Ping
<1>3. CASE AcquireLock(q) BY <1>3 DEF AcquireLock
<1>4. CASE LockDenied(q) BY <1>4 DEF LockDenied
<1>5. CASE TakePending(q)
  <2>1. tok[q] \in Tokens /\ pending[tok[q]] \in Tokens
    BY <1>5 DEF TakePending
  <2> QED BY <1>5, <2>1 DEF TakePending
<1>6. CASE WaitTimesOut(q) BY <1>6 DEF WaitTimesOut
<1>7. CASE ReadInvalid(q) BY <1>7 DEF ReadInvalid
<1>8. CASE ReadValid(q)
  <2>1. racers' \in [Logouts -> SUBSET Requests]
    BY <1>8 DEF ReadValid
  <2> QED BY <1>8, <2>1 DEF ReadValid
<1> QED BY <1>1, <1>2, <1>3, <1>4, <1>5, <1>6, <1>7, <1>8 DEF LookupStep

LEMMA RotateTypes ==
  ASSUME TypeOK, NEW q \in Requests, RotateStep(q) PROVE TypeOK'
<1> USE DEF TypeOK, RequestPc, Rotating, Step, Answer, Blacklist,
            rowVars, redisVars, requestVars, logoutVars, historyVars
<1>1. CASE RotateMark(q) BY <1>1 DEF RotateMark
<1>2. ASSUME NEW n \in Tokens, RotateIssue(q, n) PROVE TypeOK'
  <2>1. tok[q] \in Tokens /\ family[tok[q]] \in Families \cup {None}
    BY <1>2 DEF RotateIssue
  <2> QED BY <1>2, <2>1, CountIsNatural DEF RotateIssue, New
<1>3. CASE RotateCommit(q)
  <2>1. tok[q] \in Tokens /\ child[q] \in Tokens
    BY <1>3 DEF RotateCommit
  <2> QED BY <1>3, <2>1 DEF RotateCommit
<1>4. CASE RotateFails(q) BY <1>4 DEF RotateFails
<1> QED BY <1>1, <1>2, <1>3, <1>4 DEF RotateStep

LEMMA ReuseTypes ==
  ASSUME TypeOK, NEW q \in Requests, ReuseStep(q) PROVE TypeOK'
<1> USE DEF TypeOK, RequestPc, Rotating, Step, Reject, Answer, Blacklist, Kin,
            rowVars, redisVars, requestVars, logoutVars, historyVars
<1>1. CASE GraceAnswer(q)
  <2>1. PICK u \in Tokens : Answer(q, u)
    BY <1>1 DEF GraceAnswer, Newest, Children
  <2> QED BY <1>1, <2>1 DEF GraceAnswer
<1>2. CASE GraceEmpty(q) BY <1>2 DEF GraceEmpty
<1>3. CASE ReuseUpdate(q) BY <1>3 DEF ReuseUpdate
<1>4. CASE ReuseCommit(q) BY <1>4 DEF ReuseCommit
<1>5. CASE ReusePurge(q) BY <1>5 DEF ReusePurge
<1> QED BY <1>1, <1>2, <1>3, <1>4, <1>5 DEF ReuseStep

LEMMA LogoutTypes ==
  ASSUME TypeOK, NEW o \in Logouts, LogoutStep(o) PROVE TypeOK'
<1> USE DEF TypeOK, LogoutPc, OutStep, Blacklist,
            rowVars, redisVars, requestVars, logoutVars, historyVars
<1>1. ASSUME NEW t \in Tokens, LogoutOne(o, t) PROVE TypeOK'
  BY <1>1 DEF LogoutOne
<1>2. ASSUME NEW next \in {"update", "pw update"}, LogoutRead(o, next)
      PROVE  TypeOK'
  BY <1>2 DEF LogoutRead
<1>3. CASE LogoutUpdate(o) BY <1>3 DEF LogoutUpdate, ToRevoke
<1>4. CASE LogoutCommit(o) BY <1>4 DEF LogoutCommit
<1>5. CASE LogoutBlacklist(o) BY <1>5 DEF LogoutBlacklist
<1> QED BY <1>1, <1>2, <1>3, <1>4, <1>5 DEF LogoutStep

LEMMA TypeStep == ASSUME TypeOK, [Next]_vars PROVE TypeOK'
<1>1. CASE Next
  BY <1>1, NextSteps, EnvironmentTypes, LookupTypes, RotateTypes, ReuseTypes,
     LogoutTypes
<1>2. CASE UNCHANGED vars
  BY <1>2 DEF TypeOK, vars, rowVars, redisVars, requestVars, logoutVars,
              historyVars
<1> QED BY <1>1, <1>2

\* Every variable keeps its type: a request that was presented has a token, and
\* one that issued a pair has its child.
THEOREM Types == Spec => []TypeOK
<1> QED BY InitTypes, TypeStep, PTL DEF Spec

-----------------------------------------------------------------------------
(* Where tokens come from *)

\* A step neither takes a token from its family nor forgets who issued it.
LEMMA FamiliesLast ==
  ASSUME TypeOK, [Next]_vars
  PROVE  \A t \in Tokens : family[t] # None =>
           family'[t] = family[t] /\ issuer'[t] = issuer[t]
<1> USE DEF TypeOK, rowVars, redisVars, requestVars, logoutVars, historyVars
<1>1. CASE EnvironmentStep
  <2>1. ASSUME NEW n \in Tokens, NEW f \in Families, Login(n, f)
        PROVE  /\ family[n] = None
               /\ family' = [family EXCEPT ![n] = f] /\ issuer' = issuer
    BY <2>1 DEF Login, New, Generated
  <2>2. ASSUME NEW t \in Tokens,
               GraceEnds(t) \/ LockExpires(t) \/ PendingExpires(t)
        PROVE  family' = family /\ issuer' = issuer
    BY <2>2 DEF GraceEnds, LockExpires, PendingExpires
  <2>3. RedisChanges => family' = family /\ issuer' = issuer
    BY DEF RedisChanges
  <2> QED BY <1>1, <2>1, <2>2, <2>3 DEF EnvironmentStep
<1>2. ASSUME NEW q \in Requests, LookupStep(q)
      PROVE  family' = family /\ issuer' = issuer
  BY <1>2 DEF LookupStep, Present, Ping, AcquireLock, LockDenied, TakePending,
              WaitTimesOut, ReadInvalid, ReadValid, Reject
<1>3. ASSUME NEW q \in Requests, RotateStep(q)
      PROVE  \A t \in Tokens : family[t] # None =>
               family'[t] = family[t] /\ issuer'[t] = issuer[t]
  <2>1. ASSUME NEW n \in Tokens, RotateIssue(q, n)
        PROVE  /\ family[n] = None
               /\ family' = [family EXCEPT ![n] = family[tok[q]]]
               /\ issuer' = [issuer EXCEPT ![n] = q]
    BY <2>1 DEF RotateIssue, New, Generated
  <2>2. ASSUME RotateMark(q) \/ RotateCommit(q) \/ RotateFails(q)
        PROVE  family' = family /\ issuer' = issuer
    BY <2>2 DEF RotateMark, RotateCommit, RotateFails
  <2> QED BY <1>3, <2>1, <2>2 DEF RotateStep
<1>4. ASSUME NEW q \in Requests, ReuseStep(q)
      PROVE  family' = family /\ issuer' = issuer
  BY <1>4 DEF ReuseStep, GraceAnswer, GraceEmpty, ReuseUpdate, ReuseCommit,
              ReusePurge, Reject
<1>5. ASSUME NEW o \in Logouts, LogoutStep(o)
      PROVE  family' = family /\ issuer' = issuer
  BY <1>5 DEF LogoutStep, LogoutOne, LogoutRead, LogoutUpdate, LogoutCommit,
              LogoutBlacklist
<1>6. CASE UNCHANGED vars
  BY <1>6 DEF vars
<1> QED BY <1>1, <1>2, <1>3, <1>4, <1>5, <1>6, NextSteps

LEMMA InitOrigin == Init => OriginInv
BY DEF Init, OriginInv, Exists, Rotating

LEMMA EnvironmentOrigin ==
  ASSUME TypeOK, OriginInv, EnvironmentStep PROVE OriginInv'
<1> USE RotationNoneAssumption
    DEF TypeOK, OriginInv, Exists, Rotating,
            rowVars, redisVars, requestVars, logoutVars, historyVars
<1>1. ASSUME NEW n \in Tokens, NEW f \in Families, Login(n, f)
      PROVE  OriginInv'
  <2>1. \A t \in Tokens : t # n => family'[t] = family[t] /\ row'[t] = row[t]
    BY <1>1 DEF Login, New
  <2>2. family[n] = None /\ family'[n] = f /\ f # None /\ row'[n] = "active"
    BY <1>1 DEF Login, New, Generated
  <2> QED BY <1>1, <2>1, <2>2 DEF Login
<1>2. ASSUME NEW t \in Tokens, GraceEnds(t) PROVE OriginInv'
  BY <1>2 DEF GraceEnds
<1>3. ASSUME NEW t \in Tokens, LockExpires(t) PROVE OriginInv'
  BY <1>3 DEF LockExpires
<1>4. ASSUME NEW t \in Tokens, PendingExpires(t) PROVE OriginInv'
  BY <1>4 DEF PendingExpires
<1>5. CASE RedisChanges BY <1>5 DEF RedisChanges
<1> QED BY <1>1, <1>2, <1>3, <1>4, <1>5 DEF EnvironmentStep

LEMMA LookupOrigin ==
  ASSUME TypeOK, OriginInv, NEW q \in Requests, LookupStep(q)
  PROVE  OriginInv'
<1> USE DEF TypeOK, OriginInv, Exists, Rotating, Step, Reject, Answer,
            rowVars, redisVars, requestVars, logoutVars, historyVars
<1>1. ASSUME NEW t \in Tokens, Present(q, t) PROVE OriginInv'
  BY <1>1 DEF Present
<1>2. CASE Ping(q) BY <1>2 DEF Ping
<1>3. CASE AcquireLock(q) BY <1>3 DEF AcquireLock
<1>4. CASE LockDenied(q) BY <1>4 DEF LockDenied
<1>5. CASE TakePending(q) BY <1>5 DEF TakePending
<1>6. CASE WaitTimesOut(q) BY <1>6 DEF WaitTimesOut
<1>7. CASE ReadInvalid(q) BY <1>7 DEF ReadInvalid
<1>8. CASE ReadValid(q) BY <1>8 DEF ReadValid
<1> QED BY <1>1, <1>2, <1>3, <1>4, <1>5, <1>6, <1>7, <1>8 DEF LookupStep

LEMMA RotateOrigin ==
  ASSUME TypeOK, OriginInv, NEW q \in Requests, RotateStep(q)
  PROVE  OriginInv'
<1> USE RotationNoneAssumption
    DEF TypeOK, OriginInv, Exists, Rotating, Step, Answer, Blacklist,
            rowVars, redisVars, requestVars, logoutVars, historyVars
<1>1. CASE RotateMark(q) BY <1>1 DEF RotateMark
<1>2. ASSUME NEW n \in Tokens, RotateIssue(q, n) PROVE OriginInv'
  <2>1. /\ tok[q] \in Tokens /\ family[tok[q]] # None
        /\ family[n] = None /\ row[n] = "none"
    BY <1>2 DEF RotateIssue, New, Generated
  <2>2. /\ family' = [family EXCEPT ![n] = family[tok[q]]]
        /\ issuer' = [issuer EXCEPT ![n] = q]
        /\ pc' = [pc EXCEPT ![q] = "issued"]
        /\ child' = [child EXCEPT ![q] = n]
        /\ pending' = [pending EXCEPT ![tok[q]] = n] \/ pending' = pending
        /\ row' = row /\ held' = held /\ tok' = tok /\ pc[q] = "marked"
    BY <1>2 DEF RotateIssue, New
  <2> QED BY <2>1, <2>2
<1>3. CASE RotateCommit(q)
  <2>1. /\ tok[q] \in Tokens /\ child[q] \in Tokens
        /\ ~Exists(child[q]) /\ issuer[child[q]] = q
        /\ family[child[q]] # None /\ row[tok[q]] # "none"
    BY <1>3 DEF RotateCommit
  <2>2. \A p \in Requests : p # q /\ pc[p] = "issued" => child[p] # child[q]
    BY <2>1
  <2> QED BY <1>3, <2>1, <2>2 DEF RotateCommit
<1>4. CASE RotateFails(q) BY <1>4 DEF RotateFails
<1> QED BY <1>1, <1>2, <1>3, <1>4 DEF RotateStep

LEMMA ReuseOrigin ==
  ASSUME TypeOK, OriginInv, NEW q \in Requests, ReuseStep(q)
  PROVE  OriginInv'
<1> USE DEF TypeOK, OriginInv, Exists, Rotating, Step, Reject, Answer,
            rowVars, redisVars, requestVars, logoutVars, historyVars
<1>1. CASE GraceAnswer(q)
  <2>1. PICK u \in Tokens : Active(u) /\ Answer(q, u)
    BY <1>1 DEF GraceAnswer, Newest, Children, Kin
  <2> QED BY <1>1, <2>1 DEF GraceAnswer, Active
<1>2. CASE GraceEmpty(q) BY <1>2 DEF GraceEmpty
<1>3. CASE ReuseUpdate(q) BY <1>3 DEF ReuseUpdate
<1>4. CASE ReuseCommit(q) BY <1>4 DEF ReuseCommit
<1>5. CASE ReusePurge(q) BY <1>5 DEF ReusePurge, Blacklist
<1> QED BY <1>1, <1>2, <1>3, <1>4, <1>5 DEF ReuseStep

LEMMA LogoutOrigin ==
  ASSUME TypeOK, OriginInv, NEW o \in Logouts, LogoutStep(o)
  PROVE  OriginInv'
<1> USE DEF OriginInv, Exists, OutStep, Blacklist,
            rowVars, redisVars, requestVars, historyVars
<1>1. /\ UNCHANGED <<row, family, pending, held, requestVars, issuer>>
  BY DEF LogoutStep, LogoutOne, LogoutRead, LogoutUpdate, LogoutCommit,
         LogoutBlacklist
<1> QED BY <1>1

LEMMA OriginStep ==
  ASSUME TypeOK, OriginInv, [Next]_vars PROVE OriginInv'
<1>1. CASE Next
  BY <1>1, NextSteps, EnvironmentOrigin, LookupOrigin, RotateOrigin,
     ReuseOrigin, LogoutOrigin
<1>2. CASE UNCHANGED vars
  BY <1>2 DEF OriginInv, Exists, vars, rowVars, redisVars, requestVars,
              historyVars
<1> QED BY <1>1, <1>2

LEMMA Origins == Spec => []OriginInv
<1> QED BY Types, InitOrigin, OriginStep, PTL DEF Spec

-----------------------------------------------------------------------------
(* What a logout leaves behind *)

LEMMA RacedLasts ==
  ASSUME TypeOK, [Next]_vars, NEW o \in Logouts, NEW f, f # None,
         racers[o] \subseteq racers'[o], Raced(o, f)
  PROVE  Raced(o, f)'
<1>1. PICK n \in Tokens : family[n] = f /\ issuer[n] \in racers[o]
  BY DEF Raced
<1>2. family'[n] = f /\ issuer'[n] \in racers'[o]
  BY <1>1, FamiliesLast
<1> QED BY <1>2 DEF Raced

LEMMA InitLogout == Init => LogoutInv
BY DEF Init, LogoutInv, Kept, Revoking, Exists

\* A family seen by the UPDATE of a logout stays what it was.
LEMMA SeenLast ==
  ASSUME TypeOK, NEW o \in Logouts, Kept(o), [Next]_vars, NEW u \in outSeen[o]
  PROVE  u \in Tokens /\ family[u] # None /\ family'[u] = family[u]
<1>1. u \in Tokens /\ family[u] # None
  BY DEF Kept, TypeOK
<1> QED BY <1>1, FamiliesLast

\* A step that starts no rotation, commits no row and changes nothing of the
\* logout's UPDATE.
LEMMA QuietKeeps ==
  ASSUME TypeOK, OriginInv, NEW o \in Logouts, Kept(o), [Next]_vars,
         row' = row, revoked \subseteq revoked',
         outSeen'[o] = outSeen[o], racers'[o] = racers[o],
         outPc'[o] \in Revoking <=> outPc[o] \in Revoking,
         outPc'[o] \in {"idle", "one", "update", "pw update"} =>
           outPc[o] \in {"idle", "one", "update", "pw update"},
         \A q \in Requests : pc'[q] \in Rotating =>
           pc[q] \in Rotating /\ tok'[q] = tok[q]
  PROVE  Kept(o)'
<1>1. \A t \in Tokens : family[t] # None => family'[t] = family[t]
  BY FamiliesLast
<1>2. ASSUME NEW u \in outSeen[o]
      PROVE  /\ family[u] # None /\ family'[u] = family[u]
             /\ Raced(o, family[u]) => Raced(o, family[u])'
  BY SeenLast, RacedLasts
<1>3. ASSUME NEW u \in outSeen[o], NEW q \in Requests,
             pc'[q] \in Rotating, family'[tok'[q]] = family'[u]
      PROVE  q \in racers'[o] \/ Raced(o, family[u])'
  <2>1. pc[q] \in Rotating /\ tok'[q] = tok[q] /\ tok[q] \in Tokens
    BY <1>3 DEF TypeOK, Rotating
  <2>2. family[tok[q]] = family[u]
    BY <2>1, <1>1, <1>2, <1>3 DEF OriginInv, Rotating
  <2>3. q \in racers[o] \/ Raced(o, family[u])
    BY <2>1, <2>2 DEF Kept
  <2> QED BY <1>2, <2>3
<1>4. ASSUME NEW u \in outSeen[o], NEW t \in Tokens,
             Exists(t)', t \notin revoked', family'[t] = family'[u]
      PROVE  \/ Raced(o, family[u])'
             \/ outPc'[o] \in Revoking /\ t \in outSeen'[o]
  <2>1. Exists(t) /\ t \notin revoked /\ family'[t] = family[t]
    BY <1>4, <1>1 DEF Exists, OriginInv
  <2>2. Raced(o, family[u]) \/ (outPc[o] \in Revoking /\ t \in outSeen[o])
    BY <2>1, <1>2, <1>4 DEF Kept
  <2> QED BY <1>2, <2>2
<1>5. /\ outPc'[o] \in {"idle", "one", "update", "pw update"}
           => outSeen'[o] = {}
      /\ outPc'[o] \in Revoking =>
           \A q \in Requests : pc'[q] \in Rotating => q \in racers'[o]
  BY DEF Kept
<1> QED BY <1>2, <1>3, <1>4, <1>5 DEF Kept

\* A login starts a family that no logout has seen.
LEMMA LoginKeeps ==
  ASSUME TypeOK, OriginInv, NEW o \in Logouts, Kept(o),
         NEW n \in Tokens, NEW f \in Families, Login(n, f)
  PROVE  Kept(o)'
<1>1. [Next]_vars
  BY DEF Next
<1>2. /\ \A t \in Tokens : family[t] # f
      /\ family[n] = None /\ f # None
      /\ family' = [family EXCEPT ![n] = f]
      /\ row' = [row EXCEPT ![n] = "active"]
      /\ UNCHANGED <<revoked, outPc, outSeen, racers, pc, tok>>
  BY RotationNoneAssumption
     DEF Login, New, Generated, requestVars, logoutVars, historyVars
<1>3. ASSUME NEW u \in outSeen[o]
      PROVE  /\ family[u] # None /\ family'[u] = family[u] /\ family[u] # f
             /\ Raced(o, family[u]) => Raced(o, family[u])'
  BY <1>1, <1>2, SeenLast, RacedLasts
<1>4. ASSUME NEW u \in outSeen[o], NEW q \in Requests,
             pc'[q] \in Rotating, family'[tok'[q]] = family'[u]
      PROVE  q \in racers'[o] \/ Raced(o, family[u])'
  <2>1. tok[q] \in Tokens /\ tok[q] # n
    BY <1>2, <1>4 DEF TypeOK, OriginInv, Rotating
  <2>2. pc[q] \in Rotating /\ family[tok[q]] = family[u]
    BY <1>2, <1>3, <1>4, <2>1 DEF TypeOK
  <2>3. q \in racers[o] \/ Raced(o, family[u])
    BY <2>2 DEF Kept
  <2> QED BY <1>2, <1>3, <2>3
<1>5. ASSUME NEW u \in outSeen[o], NEW t \in Tokens,
             Exists(t)', t \notin revoked', family'[t] = family'[u]
      PROVE  \/ Raced(o, family[u])'
             \/ outPc'[o] \in Revoking /\ t \in outSeen'[o]
  <2>1. t # n
    BY <1>2, <1>3, <1>5 DEF TypeOK
  <2>2. Exists(t) /\ t \notin revoked /\ family[t] = family[u]
    BY <2>1, <1>2, <1>3, <1>5 DEF Exists, TypeOK
  <2>3. Raced(o, family[u]) \/ (outPc[o] \in Revoking /\ t \in outSeen[o])
    BY <2>2 DEF Kept
  <2> QED BY <1>2, <1>3, <2>3
<1> QED BY <1>2, <1>3, <1>4, <1>5 DEF Kept

\* A rotation that read an unused token is a racer of every logout between
\* its UPDATE and its commit, and later has a racer before it.
LEMMA ReadKeeps ==
  ASSUME TypeOK, OriginInv, NEW o \in Logouts, Kept(o),
         NEW p \in Requests, ReadValid(p)
  PROVE  Kept(o)'
<1>1. [Next]_vars
  BY DEF Next, RequestStep
<1>2. /\ Exists(tok[p]) /\ tok[p] \notin revoked /\ tok[p] \in Tokens
      /\ UNCHANGED <<row, revoked, family, outPc, outSeen, tok, issuer>>
      /\ \A q \in Requests : q # p => pc'[q] = pc[q]
      /\ racers[o] \subseteq racers'[o]
      /\ pc'[p] \in Rotating /\ outPc[o] \in Revoking => p \in racers'[o]
  BY DEF ReadValid, Step, TypeOK, rowVars, logoutVars, Revoking, Rotating
<1>3. ASSUME NEW u \in outSeen[o]
      PROVE  /\ family[u] # None
             /\ Raced(o, family[u]) => Raced(o, family[u])'
  BY <1>1, <1>2, SeenLast, RacedLasts
<1>4. ASSUME NEW u \in outSeen[o], NEW q \in Requests,
             pc'[q] \in Rotating, family[tok[q]] = family[u]
      PROVE  q \in racers'[o] \/ Raced(o, family[u])'
  <2>1. CASE q # p
    BY <2>1, <1>2, <1>3, <1>4 DEF Kept
  <2>2. CASE q = p
    <3>1. Raced(o, family[u]) \/ outPc[o] \in Revoking
      BY <2>2, <1>2, <1>4 DEF Kept
    <3> QED BY <3>1, <2>2, <1>2, <1>3, <1>4
  <2> QED BY <2>1, <2>2
<1>5. ASSUME NEW u \in outSeen[o], NEW t \in Tokens,
             Exists(t), t \notin revoked, family[t] = family[u]
      PROVE  \/ Raced(o, family[u])'
             \/ outPc[o] \in Revoking /\ t \in outSeen[o]
  BY <1>3, <1>5 DEF Kept
<1>6. outPc[o] \in Revoking =>
        \A q \in Requests : pc'[q] \in Rotating => q \in racers'[o]
  BY <1>2 DEF Kept
<1> QED BY <1>2, <1>3, <1>4, <1>5, <1>6 DEF Kept, Exists

\* The child of a rotation is a racer's.
LEMMA CommitKeeps ==
  ASSUME TypeOK, OriginInv, NEW o \in Logouts, Kept(o),
         NEW p \in Requests, RotateCommit(p)
  PROVE  Kept(o)'
<1>1. [Next]_vars
  BY DEF Next, RequestStep
<1>2. /\ tok[p] \in Tokens /\ child[p] \in Tokens
      /\ pc[p] = "issued" /\ pc'[p] = "answered"
      /\ issuer[child[p]] = p /\ family[child[p]] = family[tok[p]]
      /\ row' = [row EXCEPT ![tok[p]] = "used", ![child[p]] = "active"]
      /\ UNCHANGED <<revoked, family, outPc, outSeen, tok, issuer, racers>>
      /\ \A q \in Requests : pc'[q] \in Rotating => pc[q] \in Rotating
  BY DEF RotateCommit, Step, TypeOK, OriginInv, rowVars, logoutVars,
         historyVars, Rotating
<1>3. ASSUME NEW u \in outSeen[o]
      PROVE  /\ family[u] # None
             /\ Raced(o, family[u]) => Raced(o, family[u])'
  BY <1>1, <1>2, SeenLast, RacedLasts
<1>4. ASSUME NEW u \in outSeen[o], NEW t \in Tokens,
             Exists(t)', t \notin revoked, family[t] = family[u]
      PROVE  \/ Raced(o, family[u])'
             \/ outPc[o] \in Revoking /\ t \in outSeen[o]
  <2>1. CASE t = child[p]
    <3>1. p \in racers[o] \/ Raced(o, family[u])
      BY <2>1, <1>2, <1>4 DEF Kept, Rotating
    <3>2. p \in racers[o] => Raced(o, family[u])
      BY <2>1, <1>2, <1>4 DEF Raced
    <3> QED BY <3>1, <3>2, <1>3
  <2>2. CASE t # child[p]
    <3>1. Exists(t)
      BY <2>2, <1>2, <1>4 DEF Exists, OriginInv, TypeOK, Rotating
    <3> QED BY <3>1, <1>3, <1>4 DEF Kept
  <2> QED BY <2>1, <2>2
<1> QED BY <1>2, <1>3, <1>4 DEF Kept

LEMMA UpdateKeeps ==
  ASSUME TypeOK, OriginInv, NEW o \in Logouts, LogoutUpdate(o)
  PROVE  Kept(o)'
<1>1. /\ outPc'[o] \in Revoking
      /\ outSeen'[o] = ToRevoke
      /\ racers'[o] = {q \in Requests : pc[q] \in Rotating}
      /\ UNCHANGED <<row, revoked, family, pc, tok>>
  BY DEF LogoutUpdate, OutStep, Revoking, TypeOK, rowVars, requestVars
<1>2. \A u \in ToRevoke : family[u] # None
  BY DEF ToRevoke, OriginInv
<1> QED BY <1>1, <1>2 DEF Kept, Revoking, ToRevoke, Exists

LEMMA LogoutCommitKeeps ==
  ASSUME TypeOK, NEW o \in Logouts, Kept(o), LogoutCommit(o)
  PROVE  Kept(o)'
<1>1. /\ outPc'[o] \in {"all", "done"}
      /\ outPc[o] \in Revoking
      /\ revoked' = revoked \cup outSeen[o]
      /\ UNCHANGED <<row, family, pc, tok, outSeen, racers, issuer>>
  BY DEF LogoutCommit, OutStep, Revoking, TypeOK, rowVars, requestVars,
         historyVars
<1> QED BY <1>1 DEF Kept, Revoking, Raced, Exists

LEMMA EnvironmentKeeps ==
  ASSUME TypeOK, OriginInv, LogoutInv, EnvironmentStep PROVE LogoutInv'
<1> SUFFICES ASSUME NEW o \in Logouts PROVE Kept(o)'
  BY DEF LogoutInv
<1>1. Kept(o) /\ [Next]_vars
  BY DEF LogoutInv, Next, EnvironmentStep
<1>2. ASSUME NEW n \in Tokens, NEW f \in Families, Login(n, f)
      PROVE  Kept(o)'
  BY <1>1, <1>2, LoginKeeps
<1>3. ASSUME \/ \E t \in Tokens :
                  GraceEnds(t) \/ LockExpires(t) \/ PendingExpires(t)
             \/ RedisChanges
      PROVE  Kept(o)'
  <2>1. UNCHANGED <<row, revoked, pc, tok, outPc, outSeen, racers>>
    BY <1>3 DEF GraceEnds, LockExpires, PendingExpires, RedisChanges, rowVars,
                requestVars, logoutVars, historyVars
  <2> QED BY <2>1, <1>1, QuietKeeps
<1> QED BY <1>2, <1>3 DEF EnvironmentStep

LEMMA RequestKeeps ==
  ASSUME TypeOK, OriginInv, LogoutInv, NEW q \in Requests,
         LookupStep(q) \/ RotateStep(q) \/ ReuseStep(q)
  PROVE  LogoutInv'
<1> SUFFICES ASSUME NEW o \in Logouts PROVE Kept(o)'
  BY DEF LogoutInv
<1>1. Kept(o) /\ [Next]_vars
  BY DEF LogoutInv, Next, RequestStep, LookupStep, RotateStep, ReuseStep
<1>2. CASE ReadValid(q)
  BY <1>1, <1>2, ReadKeeps
<1>3. CASE RotateCommit(q)
  BY <1>1, <1>3, CommitKeeps
<1>4. ASSUME \/ LookupStep(q) /\ ~ReadValid(q)
             \/ RotateStep(q) /\ ~RotateCommit(q)
             \/ ReuseStep(q)
      PROVE  Kept(o)'
  <2> USE DEF Step, Reject, TypeOK, Rotating, rowVars, requestVars,
              logoutVars, historyVars
  <2>1. CASE LookupStep(q) /\ ~ReadValid(q)
    <3>1. /\ UNCHANGED <<row, revoked, outPc, outSeen, racers>>
          /\ \A p \in Requests : pc'[p] \in Rotating =>
               pc[p] \in Rotating /\ tok'[p] = tok[p]
      BY <2>1 DEF LookupStep, Present, Ping, AcquireLock, LockDenied,
                  TakePending, WaitTimesOut, ReadInvalid
    <3> QED BY <3>1, <1>1, QuietKeeps
  <2>2. CASE RotateStep(q) /\ ~RotateCommit(q)
    <3>1. /\ UNCHANGED <<row, revoked, outPc, outSeen, racers>>
          /\ \A p \in Requests : pc'[p] \in Rotating =>
               pc[p] \in Rotating /\ tok'[p] = tok[p]
      BY <2>2 DEF RotateStep, RotateMark, RotateIssue, RotateFails
    <3> QED BY <3>1, <1>1, QuietKeeps
  <2>3. CASE ReuseStep(q)
    <3>1. /\ UNCHANGED <<row, outPc, outSeen, racers>>
          /\ revoked \subseteq revoked'
          /\ \A p \in Requests : pc'[p] \in Rotating =>
               pc[p] \in Rotating /\ tok'[p] = tok[p]
      BY <2>3 DEF ReuseStep, GraceAnswer, GraceEmpty, ReuseUpdate,
                  ReuseCommit, ReusePurge
    <3> QED BY <3>1, <1>1, QuietKeeps
  <2> QED BY <1>4, <2>1, <2>2, <2>3
<1> QED BY <1>2, <1>3, <1>4

LEMMA LogoutsKeep ==
  ASSUME TypeOK, OriginInv, LogoutInv, NEW p \in Logouts, LogoutStep(p)
  PROVE  LogoutInv'
<1> SUFFICES ASSUME NEW o \in Logouts PROVE Kept(o)'
  BY DEF LogoutInv
<1>1. Kept(o) /\ [Next]_vars
  BY DEF LogoutInv, Next
<1>2. /\ UNCHANGED <<row, pc, tok>>
      /\ revoked \subseteq revoked'
      /\ o # p => outPc'[o] = outPc[o] /\ outSeen'[o] = outSeen[o]
                  /\ racers'[o] = racers[o]
  BY DEF LogoutStep, LogoutOne, LogoutRead, LogoutUpdate, LogoutCommit,
         LogoutBlacklist, OutStep, TypeOK, rowVars, requestVars, historyVars
<1>3. CASE o # p
  BY <1>1, <1>2, <1>3, QuietKeeps
<1>4. CASE o = p
  <2>1. CASE LogoutUpdate(o)
    BY <2>1, UpdateKeeps
  <2>2. CASE LogoutCommit(o)
    BY <2>2, <1>1, LogoutCommitKeeps
  <2>3. ASSUME \/ \E t \in Tokens : LogoutOne(o, t)
               \/ \E next \in {"update", "pw update"} : LogoutRead(o, next)
               \/ LogoutBlacklist(o)
        PROVE  Kept(o)'
    <3>1. /\ outSeen'[o] = outSeen[o] /\ racers'[o] = racers[o]
          /\ outPc'[o] \in Revoking <=> outPc[o] \in Revoking
          /\ outPc'[o] \in {"idle", "one", "update", "pw update"}
               => outPc[o] \in {"idle", "one", "update", "pw update"}
      BY <2>3 DEF LogoutOne, LogoutRead, LogoutBlacklist, OutStep, TypeOK,
                  Revoking, historyVars
    <3> QED BY <3>1, <1>1, <1>2, QuietKeeps
  <2> QED BY <1>4, <2>1, <2>2, <2>3 DEF LogoutStep
<1> QED BY <1>3, <1>4

LEMMA LogoutInvStep ==
  ASSUME TypeOK, OriginInv, LogoutInv, [Next]_vars PROVE LogoutInv'
<1>1. CASE Next
  BY <1>1, NextSteps, EnvironmentKeeps, RequestKeeps, LogoutsKeep
<1>2. CASE UNCHANGED vars
  <2>1. ASSUME NEW o \in Logouts PROVE Kept(o)'
    BY <1>2, QuietKeeps DEF LogoutInv, vars, rowVars, requestVars, logoutVars,
                            historyVars
  <2> QED BY <2>1 DEF LogoutInv
<1> QED BY <1>1, <1>2

\* A session outlives logout_all or a password change only through a rotation
\* that was under way while its UPDATE ran.
THEOREM LogoutEndsSessions == Spec => []LogoutLeavesOnlyRacers
<1>1. LogoutInv /\ OriginInv => LogoutLeavesOnlyRacers
  <2> SUFFICES ASSUME LogoutInv, OriginInv, NEW o \in Logouts,
                      NEW t \in Tokens, Active(t),
                      NEW u \in Ended(o), family[u] = family[t]
               PROVE  \E n \in Tokens :
                        family[n] = family[t] /\ issuer[n] \in racers[o]
    BY DEF LogoutLeavesOnlyRacers
  <2>1. u \in outSeen[o] /\ outPc[o] \notin Revoking
    BY DEF Ended, Revoking
  <2>2. Raced(o, family[u])
    BY <2>1 DEF LogoutInv, Kept, Active, Exists
  <2> QED BY <2>2 DEF Raced
<1> QED BY <1>1, Types, Origins, InitLogout, LogoutInvStep, PTL DEF Spec

-----------------------------------------------------------------------------
(* What the blacklist may hold *)

\* What a step leaves of the rows, of a request and of a logout.
LEMMA RowsLast ==
  ASSUME TypeOK, OriginInv, [Next]_vars
  PROVE  /\ \A t \in Tokens : row[t] = "used" => row'[t] = "used"
         /\ \A t \in Tokens : Exists(t) => Exists(t)'
         /\ revoked \subseteq revoked'
         /\ rolledBack \subseteq rolledBack'
<1> USE DEF TypeOK, Exists, rowVars, historyVars
<1>1. CASE EnvironmentStep
  <2>1. ASSUME NEW n \in Tokens, NEW f \in Families, Login(n, f)
        PROVE  /\ row[n] = "none" /\ row' = [row EXCEPT ![n] = "active"]
               /\ UNCHANGED <<revoked, rolledBack>>
    BY <2>1 DEF Login, New, Generated, OriginInv
  <2>2. ASSUME NEW t \in Tokens,
               GraceEnds(t) \/ LockExpires(t) \/ PendingExpires(t)
        PROVE  UNCHANGED <<row, revoked, rolledBack>>
    BY <2>2 DEF GraceEnds, LockExpires, PendingExpires
  <2>3. RedisChanges => UNCHANGED <<row, revoked, rolledBack>>
    BY DEF RedisChanges
  <2> QED BY <1>1, <2>1, <2>2, <2>3 DEF EnvironmentStep
<1>2. ASSUME NEW q \in Requests, LookupStep(q)
      PROVE  UNCHANGED <<row, revoked, rolledBack>>
  BY <1>2 DEF LookupStep, Present, Ping, AcquireLock, LockDenied, TakePending,
              WaitTimesOut, ReadInvalid, ReadValid, Reject
<1>3. ASSUME NEW q \in Requests, RotateStep(q)
      PROVE  /\ \A t \in Tokens : row[t] = "used" => row'[t] = "used"
             /\ \A t \in Tokens : row[t] # "none" => row'[t] # "none"
             /\ revoked' = revoked /\ rolledBack \subseteq rolledBack'
  <2>1. CASE RotateCommit(q)
    <3>1. ~Exists(child[q])
      BY <2>1 DEF RotateCommit, Step, OriginInv
    <3> QED BY <2>1, <3>1 DEF RotateCommit
  <2>2. ASSUME \/ \E n \in Tokens : RotateIssue(q, n)
               \/ RotateMark(q) \/ RotateFails(q)
        PROVE  UNCHANGED <<row, revoked>> /\ rolledBack \subseteq rolledBack'
    BY <2>2 DEF RotateMark, RotateIssue, RotateFails
  <2> QED BY <1>3, <2>1, <2>2 DEF RotateStep
<1>4. ASSUME NEW q \in Requests, ReuseStep(q)
      PROVE  UNCHANGED <<row, rolledBack>> /\ revoked \subseteq revoked'
  BY <1>4 DEF ReuseStep, GraceAnswer, GraceEmpty, ReuseUpdate, ReuseCommit,
              ReusePurge, Reject
<1>5. ASSUME NEW o \in Logouts, LogoutStep(o)
      PROVE  UNCHANGED <<row, rolledBack>> /\ revoked \subseteq revoked'
  BY <1>5 DEF LogoutStep, LogoutOne, LogoutRead, LogoutUpdate, LogoutCommit,
              LogoutBlacklist
<1>6. CASE UNCHANGED vars
  BY <1>6 DEF vars
<1> QED BY <1>1, <1>2, <1>3, <1>4, <1>5, <1>6, NextSteps

LEMMA RequestsLast ==
  ASSUME TypeOK, OriginInv, [Next]_vars, NEW q \in Requests
  PROVE  /\ pc[q] # "idle" => tok'[q] = tok[q]
         /\ pc[q] = "rejected" => pc'[q] = "rejected"
         /\ pc[q] \in {"rejected", "revoke", "purge"} =>
              reuseSeen'[q] = reuseSeen[q]
         /\ pc[q] \in {"marked", "issued"} =>
              \/ pc'[q] \in {"marked", "issued"}
              \/ row'[tok[q]] = "used" \/ tok[q] \in rolledBack'
         /\ pc'[q] \in {"revoke", "purge"} =>
              pc'[q] = pc[q] \/ ReuseUpdate(q) \/ ReuseCommit(q)
         /\ pc[q] = "purge" => pc'[q] = pc[q] \/ ReusePurge(q)
<1> USE DEF TypeOK, Step, Reject, requestVars, historyVars
<1>1. CASE EnvironmentStep
  <2>1. UNCHANGED requestVars
    BY <1>1 DEF EnvironmentStep, Login, GraceEnds, LockExpires,
                PendingExpires, RedisChanges
  <2> QED BY <2>1
<1>2. ASSUME NEW p \in Requests, LookupStep(p)
      PROVE  /\ reuseSeen' = reuseSeen
             /\ pc[p] \in {"idle", "checked", "lock", "wait", "read"}
             /\ pc'[p] \notin {"revoke", "purge"}
             /\ \A r \in Requests : r # p => pc'[r] = pc[r] /\ tok'[r] = tok[r]
             /\ pc[p] # "idle" => tok'[p] = tok[p]
  BY <1>2 DEF LookupStep, Present, Ping, AcquireLock, LockDenied, TakePending,
              WaitTimesOut, ReadInvalid, ReadValid
<1>3. ASSUME NEW p \in Requests, RotateStep(p)
      PROVE  /\ reuseSeen' = reuseSeen /\ tok' = tok
             /\ pc[p] \in {"rotate", "marked", "issued"}
             /\ pc'[p] \notin {"revoke", "purge"}
             /\ \A r \in Requests : r # p => pc'[r] = pc[r]
             /\ pc[p] \in {"marked", "issued"} =>
                  \/ pc'[p] \in {"marked", "issued"}
                  \/ row'[tok[p]] = "used" \/ tok[p] \in rolledBack'
  <2>1. CASE RotateMark(p)
    BY <2>1 DEF RotateMark
  <2>2. ASSUME NEW n \in Tokens, RotateIssue(p, n)
        PROVE  /\ reuseSeen' = reuseSeen /\ tok' = tok /\ pc[p] = "marked"
               /\ pc' = [pc EXCEPT ![p] = "issued"]
    BY <2>2 DEF RotateIssue
  <2>3. CASE RotateCommit(p)
    <3>1. tok[p] # child[p]
      BY <2>3 DEF RotateCommit, OriginInv, Rotating
    <3>2. row'[tok[p]] = "used"
      BY <2>3, <3>1 DEF RotateCommit
    <3> QED BY <2>3, <3>2 DEF RotateCommit
  <2>4. CASE RotateFails(p)
    BY <2>4 DEF RotateFails
  <2> QED BY <1>3, <2>1, <2>2, <2>3, <2>4 DEF RotateStep
<1>4. ASSUME NEW p \in Requests, ReuseStep(p)
      PROVE  /\ \A r \in Requests : r # p =>
                  pc'[r] = pc[r] /\ reuseSeen'[r] = reuseSeen[r]
             /\ tok' = tok
             /\ pc[p] \in {"grace", "reuse", "revoke", "purge"}
             /\ pc[p] \in {"revoke", "purge"} => reuseSeen'[p] = reuseSeen[p]
             /\ pc'[p] \in {"revoke", "purge"} =>
                  ReuseUpdate(p) \/ ReuseCommit(p)
             /\ pc[p] = "purge" => ReusePurge(p)
  BY <1>4 DEF ReuseStep, GraceAnswer, GraceEmpty, ReuseUpdate, ReuseCommit,
              ReusePurge
<1>5. ASSUME NEW o \in Logouts, LogoutStep(o)
      PROVE  UNCHANGED requestVars
  BY <1>5 DEF LogoutStep, LogoutOne, LogoutRead, LogoutUpdate, LogoutCommit,
              LogoutBlacklist
<1>6. CASE UNCHANGED vars
  BY <1>6 DEF vars
<1>7. CASE \E p \in Requests : LookupStep(p)
  BY <1>2, <1>7
<1>8. CASE \E p \in Requests : RotateStep(p)
  BY <1>3, <1>8
<1>9. CASE \E p \in Requests : ReuseStep(p)
  BY <1>4, <1>9
<1>10. CASE \E o \in Logouts : LogoutStep(o)
  BY <1>5, <1>10
<1> QED BY <1>1, <1>6, <1>7, <1>8, <1>9, <1>10, NextSteps

LEMMA LogoutsLast ==
  ASSUME TypeOK, [Next]_vars, NEW o \in Logouts
  PROVE  \/ UNCHANGED <<outPc[o], outTokens[o], outSeen[o]>>
         \/ LogoutStep(o)
<1> USE DEF TypeOK, logoutVars
<1>1. ASSUME NEW q \in Requests,
             LookupStep(q) \/ RotateStep(q) \/ ReuseStep(q)
      PROVE  UNCHANGED logoutVars
  BY <1>1 DEF LookupStep, Present, Ping, AcquireLock, LockDenied, TakePending,
              WaitTimesOut, ReadInvalid, ReadValid, Reject, RotateStep,
              RotateMark, RotateIssue, RotateCommit, RotateFails, ReuseStep,
              GraceAnswer, GraceEmpty, ReuseUpdate, ReuseCommit, ReusePurge
<1>2. EnvironmentStep => UNCHANGED logoutVars
  BY DEF EnvironmentStep, Login, GraceEnds, LockExpires, PendingExpires,
         RedisChanges
<1>3. ASSUME NEW p \in Logouts, p # o, LogoutStep(p)
      PROVE  UNCHANGED <<outPc[o], outTokens[o], outSeen[o]>>
  BY <1>3 DEF LogoutStep, LogoutOne, LogoutRead, LogoutUpdate, LogoutCommit,
              LogoutBlacklist, OutStep
<1>4. UNCHANGED vars => UNCHANGED logoutVars
  BY DEF vars
<1> QED BY <1>1, <1>2, <1>3, <1>4, NextSteps

LEMMA LogoutSteps ==
  ASSUME TypeOK, NEW o \in Logouts, LogoutStep(o)
  PROVE  \/ /\ outPc[o] = "idle" /\ outPc'[o] = "one"
            /\ outSeen'[o] = outSeen[o] /\ outTokens'[o] \subseteq held
            /\ \A t \in outTokens'[o] : Exists(t) => t \in revoked'
            /\ UNCHANGED <<row, issuer>>
         \/ /\ outPc[o] = "idle"
            /\ outPc'[o] \in {"done", "update", "pw update"}
            /\ outTokens'[o] = {t \in Tokens : Active(t)}
            /\ outPc'[o] = "done" => outTokens'[o] = {}
            /\ outSeen'[o] = outSeen[o] /\ row' = row
         \/ /\ \/ outPc[o] = "update" /\ outPc'[o] = "commit"
               \/ outPc[o] = "pw update" /\ outPc'[o] = "pw blacklist"
            /\ outSeen'[o] = ToRevoke /\ outTokens'[o] = outTokens[o]
            /\ UNCHANGED <<row, revoked>>
         \/ /\ \/ outPc[o] = "commit" /\ outPc'[o] = "all"
               \/ outPc[o] = "pw commit" /\ outPc'[o] = "done"
            /\ revoked' = revoked \cup outSeen[o]
            /\ UNCHANGED <<outSeen[o], outTokens[o]>>
         \/ /\ \/ outPc[o] \in {"one", "all"} /\ outPc'[o] = "done"
               \/ outPc[o] = "pw blacklist" /\ outPc'[o] = "pw commit"
            /\ UNCHANGED <<outSeen[o], outTokens[o], revoked, row, issuer>>
<1> USE DEF TypeOK, OutStep, rowVars, historyVars
<1>1. CASE \E t \in Tokens : LogoutOne(o, t)
  BY <1>1 DEF LogoutOne
<1>2. CASE \E next \in {"update", "pw update"} : LogoutRead(o, next)
  BY <1>2 DEF LogoutRead
<1>3. CASE LogoutUpdate(o) BY <1>3 DEF LogoutUpdate
<1>4. CASE LogoutCommit(o) BY <1>4 DEF LogoutCommit
<1>5. CASE LogoutBlacklist(o) BY <1>5 DEF LogoutBlacklist
<1> QED BY <1>1, <1>2, <1>3, <1>4, <1>5 DEF LogoutStep

LEMMA IssuersLast ==
  ASSUME TypeOK, OriginInv, [Next]_vars, NEW t \in Tokens, issuer[t] # None
  PROVE  family[t] # None /\ issuer'[t] = issuer[t]
<1>1. family[t] # None
  BY DEF OriginInv
<1> QED BY <1>1, FamiliesLast

\* A row that a step commits is the child of a rotation or starts a family.
LEMMA NewRows ==
  ASSUME TypeOK, OriginInv, [Next]_vars, NEW t \in Tokens,
         ~Exists(t), Exists(t)'
  PROVE  issuer[t] # None \/ \A u \in Tokens : family[u] # family'[t]
<1> USE DEF TypeOK, Exists, rowVars
<1>1. CASE EnvironmentStep
  <2>1. ASSUME NEW n \in Tokens, NEW f \in Families, Login(n, f)
        PROVE  /\ \A u \in Tokens : family[u] # f
               /\ row' = [row EXCEPT ![n] = "active"] /\ family'[n] = f
    BY <2>1 DEF Login, New
  <2>2. ASSUME NEW u \in Tokens,
               GraceEnds(u) \/ LockExpires(u) \/ PendingExpires(u)
        PROVE  row' = row
    BY <2>2 DEF GraceEnds, LockExpires, PendingExpires
  <2>3. RedisChanges => row' = row
    BY DEF RedisChanges
  <2> QED BY <1>1, <2>1, <2>2, <2>3 DEF EnvironmentStep
<1>2. ASSUME NEW q \in Requests, RotateCommit(q)
      PROVE  issuer[t] # None
  <2>1. issuer[child[q]] = q /\ Exists(tok[q]) /\ q # None
    BY <1>2, RotationNoneAssumption DEF RotateCommit, Step, OriginInv, Rotating
  <2>2. t = child[q]
    BY <1>2, <2>1 DEF RotateCommit
  <2> QED BY <2>1, <2>2
<1>3. ASSUME NEW q \in Requests, ~RotateCommit(q),
             LookupStep(q) \/ RotateStep(q) \/ ReuseStep(q)
      PROVE  row' = row
  BY <1>3 DEF LookupStep, Present, Ping, AcquireLock, LockDenied, TakePending,
              WaitTimesOut, ReadInvalid, ReadValid, Reject, RotateStep,
              RotateMark, RotateIssue, RotateFails, ReuseStep, GraceAnswer,
              GraceEmpty, ReuseUpdate, ReuseCommit, ReusePurge
<1>4. ASSUME NEW o \in Logouts, LogoutStep(o)
      PROVE  row' = row
  BY <1>4 DEF LogoutStep, LogoutOne, LogoutRead, LogoutUpdate, LogoutCommit,
              LogoutBlacklist
<1>5. UNCHANGED vars => row' = row
  BY DEF vars
<1> QED BY <1>1, <1>2, <1>3, <1>4, <1>5, NextSteps

LEMMA ReusedStep ==
  ASSUME TypeOK, OriginInv, ReuseInv, [Next]_vars PROVE ReuseInv'
<1> SUFFICES ASSUME NEW q \in Requests, pc'[q] \in {"revoke", "purge"}
             PROVE  Reused(q)'
  BY DEF ReuseInv, Reused
<1>1. pc'[q] = pc[q] \/ ReuseUpdate(q) \/ ReuseCommit(q)
  BY RequestsLast
<1>2. /\ pc[q] # "idle" /\ tok'[q] = tok[q] /\ tok[q] \in Tokens
      /\ family[tok[q]] # None /\ family'[tok[q]] = family[tok[q]]
  <2>1. pc[q] # "idle"
    BY <1>1 DEF ReuseUpdate, ReuseCommit, Step
  <2>2. tok[q] \in Tokens /\ family[tok[q]] # None
    BY <2>1 DEF TypeOK, OriginInv
  <2> QED BY <2>1, <2>2, RequestsLast, FamiliesLast
<1>3. Reused(q)
  BY DEF ReuseInv
<1>4. CASE ReuseUpdate(q)
  <2>1. Exists(tok[q])
    BY <1>4 DEF ReuseUpdate, Step, OriginInv, Rotating
  <2>2. /\ reuseSeen'[q] = {u \in Kin(tok[q]) : Exists(u)}
        /\ pc'[q] = "revoke" /\ row' = row /\ family' = family
    BY <1>4 DEF ReuseUpdate, Step, TypeOK, rowVars
  <2>3. tok[q] \in reuseSeen'[q]
    BY <2>1, <2>2, <1>2 DEF Kin
  <2>4. \A u \in Kin(tok[q])' \ reuseSeen'[q] : ~Exists(u)'
    BY <2>2, <1>2 DEF Kin, Exists
  <2> QED BY <2>2, <2>3, <2>4, <1>2 DEF Reused, Kin
<1>5. ASSUME pc[q] \in {"revoke", "purge"}
      PROVE  /\ reuseSeen'[q] = reuseSeen[q]
             /\ tok[q] \in reuseSeen'[q]
             /\ \A u \in Tokens \ reuseSeen[q] :
                  family'[u] = family[tok[q]] /\ Exists(u)' =>
                    issuer'[u] # None
  <2>1. reuseSeen'[q] = reuseSeen[q] /\ tok[q] \in reuseSeen[q]
    BY <1>3, <1>5, RequestsLast DEF Reused
  <2>2. ASSUME NEW u \in Tokens, u \notin reuseSeen[q],
               family'[u] = family[tok[q]], Exists(u)'
        PROVE  issuer'[u] # None
    <3>1. issuer[u] # None
      <4>1. CASE Exists(u)
        <5>1. family[u] = family[tok[q]]
          BY <4>1, <2>2, FamiliesLast DEF OriginInv
        <5> QED BY <5>1, <4>1, <2>2, <1>3, <1>5 DEF Reused, Kin
      <4>2. CASE ~Exists(u)
        BY <4>2, <2>2, <1>2, NewRows
      <4> QED BY <4>1, <4>2
    <3> QED BY <3>1, IssuersLast
  <2> QED BY <2>1, <2>2
<1>6. ASSUME ReuseCommit(q) \/ pc'[q] = pc[q]
      PROVE  Reused(q)'
  <2>1. pc[q] \in {"revoke", "purge"}
    BY <1>6 DEF ReuseCommit, Step
  <2>2. pc'[q] = "purge" => reuseSeen[q] \subseteq revoked'
    BY <1>6, <1>3, RowsLast DEF ReuseCommit, Step, Reused
  <2> QED BY <2>1, <2>2, <1>2, <1>5 DEF Reused, Kin, Exists
<1> QED BY <1>1, <1>4, <1>6

LEMMA DoomedStep ==
  ASSUME TypeOK, OriginInv, OutTokensInv, [Next]_vars PROVE OutTokensInv'
<1> SUFFICES ASSUME NEW o \in Logouts PROVE Doomed(o)'
  BY DEF OutTokensInv
<1>1. Doomed(o)
  BY DEF OutTokensInv
<1>2. outTokens[o] \subseteq Tokens
  BY DEF TypeOK
<1>3. CASE UNCHANGED <<outPc[o], outTokens[o], outSeen[o]>>
  <2>1. outPc[o] = "one" =>
          \A t \in outTokens[o] : t \in revoked' \/ issuer'[t] # None
    BY <1>1, <1>2, RowsLast, IssuersLast DEF Doomed
  <2> QED BY <2>1, <1>1, <1>2, <1>3, RowsLast DEF Doomed
<1>4. CASE LogoutStep(o)
  <2>1. \A t \in outTokens'[o] : t \in Tokens
    BY TypeStep DEF TypeOK
  <2>2. \A t \in held : Exists(t) \/ issuer[t] # None
    BY DEF OriginInv
  <2> QED BY <1>1, <1>2, <1>4, <2>1, <2>2, LogoutSteps
          DEF Doomed, Revoking, ToRevoke, Exists, Active
<1> QED BY <1>3, <1>4, LogoutsLast

\* What excuses a token goes on excusing it, or is followed by a reason that
\* does.
LEMMA SpentLasts ==
  ASSUME TypeOK, OriginInv, OutTokensInv, [Next]_vars,
         NEW t \in Tokens, Spent(t)
  PROVE  Spent(t)'
<1>1. CASE row[t] = "used" \/ t \in revoked \/ t \in rolledBack
  BY <1>1, RowsLast DEF Spent
<1>2. ASSUME NEW q \in Requests, tok[q] = t, pc[q] \in {"marked", "issued"}
      PROVE  Spent(t)'
  <2>1. tok'[q] = t
    BY <1>2, RequestsLast
  <2> QED BY <2>1, <1>2, RequestsLast DEF Spent
<1>3. ASSUME NEW q \in Requests, pc[q] = "rejected",
             t \in Kin(tok[q]) \ reuseSeen[q], reuseSeen[q] # {},
             issuer[t] # None
      PROVE  Spent(t)'
  <2>1. pc'[q] = "rejected" /\ tok'[q] = tok[q] /\ reuseSeen'[q] = reuseSeen[q]
    BY <1>3, RequestsLast
  <2>2. tok[q] \in Tokens /\ family[tok[q]] # None
    BY <1>3 DEF TypeOK, OriginInv
  <2>3. t \in Kin(tok[q])' /\ issuer'[t] # None
    BY <1>3, <2>1, <2>2, FamiliesLast, IssuersLast DEF Kin
  <2> QED BY <1>3, <2>1, <2>3 DEF Spent
<1>4. ASSUME NEW o \in Logouts, t \in outTokens[o],
             \/ outPc[o] = "pw commit"
             \/ outPc[o] = "done" /\ issuer[t] # None
      PROVE  Spent(t)'
  <2>1. CASE UNCHANGED <<outPc[o], outTokens[o], outSeen[o]>>
    BY <2>1, <1>4, IssuersLast DEF Spent
  <2>2. CASE LogoutStep(o)
    <3>1. outPc[o] = "pw commit" /\ revoked' = revoked \cup outSeen[o]
      BY <2>2, <1>4, LogoutSteps
    <3>2. t \in revoked'
      BY <3>1, <1>4 DEF OutTokensInv, Doomed, Revoking
    <3> QED BY <3>2 DEF Spent
  <2> QED BY <2>1, <2>2, LogoutsLast
<1> QED BY <1>1, <1>2, <1>3, <1>4 DEF Spent

\* The steps that add to the blacklist.
LEMMA BlacklistGrows ==
  ASSUME TypeOK, [Next]_vars, NEW t \in blacklist', t \notin blacklist
  PROVE  \/ \E q \in Requests : RotateMark(q) /\ t = tok[q]
         \/ \E q \in Requests :
              ReusePurge(q) /\ t \in Kin(tok[q]) /\ Exists(t)
         \/ \E o \in Logouts : LogoutBlacklist(o) /\ t \in outTokens[o]
<1> USE DEF redisVars
<1>1. EnvironmentStep => blacklist' = blacklist
  BY DEF EnvironmentStep, Login, GraceEnds, LockExpires, PendingExpires,
         RedisChanges
<1>2. ASSUME NEW q \in Requests,
             LookupStep(q) \/ RotateStep(q) \/ ReuseStep(q),
             ~RotateMark(q), ~ReusePurge(q)
      PROVE  blacklist' = blacklist
  BY <1>2 DEF LookupStep, Present, Ping, AcquireLock, LockDenied, TakePending,
              WaitTimesOut, ReadInvalid, ReadValid, Reject, RotateStep,
              RotateIssue, RotateCommit, RotateFails, ReuseStep, GraceAnswer,
              GraceEmpty, ReuseUpdate, ReuseCommit
<1>3. ASSUME NEW o \in Logouts, LogoutStep(o), ~LogoutBlacklist(o)
      PROVE  blacklist' = blacklist
  BY <1>3 DEF LogoutStep, LogoutOne, LogoutRead, LogoutUpdate, LogoutCommit
<1>4. UNCHANGED vars => blacklist' = blacklist
  BY DEF vars
<1>5. ASSUME NEW q \in Requests, RotateMark(q) PROVE t = tok[q]
  BY <1>5 DEF RotateMark, Blacklist
<1>6. ASSUME NEW q \in Requests, ReusePurge(q)
      PROVE  t \in Kin(tok[q]) /\ Exists(t)
  BY <1>6 DEF ReusePurge, Blacklist
<1>7. ASSUME NEW o \in Logouts, LogoutBlacklist(o) PROVE t \in outTokens[o]
  BY <1>7 DEF LogoutBlacklist, Blacklist
<1> QED BY <1>1, <1>2, <1>3, <1>4, <1>5, <1>6, <1>7, NextSteps

LEMMA SpentStep ==
  ASSUME TypeOK, OriginInv, ReuseInv, OutTokensInv, SpentInv, [Next]_vars
  PROVE  SpentInv'
<1> SUFFICES ASSUME NEW t \in blacklist' PROVE Spent(t)'
  BY DEF SpentInv
<1>1. t \in Tokens
  BY TypeStep DEF TypeOK
<1>2. CASE t \in blacklist
  BY <1>1, <1>2, SpentLasts DEF SpentInv
<1>3. ASSUME NEW q \in Requests, RotateMark(q), t = tok[q]
      PROVE  Spent(t)'
  <2>1. pc'[q] = "marked" /\ tok'[q] = t
    BY <1>3 DEF RotateMark, Step, TypeOK
  <2> QED BY <2>1 DEF Spent
<1>4. ASSUME NEW q \in Requests, ReusePurge(q), t \in Kin(tok[q]), Exists(t)
      PROVE  Spent(t)'
  <2>1. pc[q] = "purge" /\ Reused(q)
    BY <1>4 DEF ReusePurge, Step, ReuseInv
  <2>2. CASE t \in reuseSeen[q]
    BY <2>1, <2>2, RowsLast DEF Reused, Spent
  <2>3. CASE t \notin reuseSeen[q]
    <3>1. issuer[t] # None /\ reuseSeen[q] # {}
      BY <1>4, <2>1, <2>3 DEF Reused
    <3>2. /\ pc'[q] = "rejected"
          /\ UNCHANGED <<tok, reuseSeen, family, issuer>>
      BY <1>4 DEF ReusePurge, Step, TypeOK, rowVars, historyVars
    <3> QED BY <1>4, <2>3, <3>1, <3>2 DEF Spent, Kin
  <2> QED BY <2>2, <2>3
<1>5. ASSUME NEW o \in Logouts, LogoutBlacklist(o), t \in outTokens[o]
      PROVE  Spent(t)'
  <2>1. Doomed(o)
    BY DEF OutTokensInv
  <2>2. /\ outTokens' = outTokens /\ revoked' = revoked /\ issuer' = issuer
        /\ \/ outPc[o] \in {"one", "all"} /\ outPc'[o] = "done"
           \/ outPc'[o] = "pw commit"
    BY <1>5 DEF LogoutBlacklist, OutStep, TypeOK, rowVars, historyVars
  <2> QED BY <1>5, <2>1, <2>2 DEF Doomed, Spent
<1> QED BY <1>2, <1>3, <1>4, <1>5, BlacklistGrows

\* The blacklist never runs ahead of the database for good: what it holds is
\* used or revoked, is about to be or was rolled back, or raced with the logout
\* or the revocation that blacklisted it.
THEOREM BlacklistHoldsSpentTokens == Spec => []BlacklistedIsSpent
<1>1. Init => ReuseInv /\ OutTokensInv /\ SpentInv
  BY DEF Init, ReuseInv, Reused, OutTokensInv, Doomed, SpentInv, Revoking
<1>2. SpentInv => BlacklistedIsSpent
  BY DEF SpentInv, Spent, BlacklistedIsSpent
<1> QED BY <1>1, <1>2, Types, Origins, ReusedStep, DoomedStep, SpentStep, PTL
        DEF Spec

-----------------------------------------------------------------------------
(* When a family forks *)

LEMMA UnlockedLasts ==
  ASSUME TypeOK, LockInv, [Next]_vars, NEW q \in Requests, Unlocked(q)
  PROVE  Unlocked(q)'
<1> USE DEF TypeOK, Unlocked, requestVars, historyVars
<1>1. outlived \subseteq outlived'
  <2>1. EnvironmentStep => outlived \subseteq outlived'
    BY DEF EnvironmentStep, Login, GraceEnds, LockExpires, PendingExpires,
           RedisChanges
  <2>2. ASSUME NEW p \in Requests,
               LookupStep(p) \/ RotateStep(p) \/ ReuseStep(p)
        PROVE  outlived' = outlived
    BY <2>2 DEF LookupStep, Present, Ping, AcquireLock, LockDenied,
                TakePending, WaitTimesOut, ReadInvalid, ReadValid, Reject,
                RotateStep, RotateMark, RotateIssue, RotateCommit, RotateFails,
                ReuseStep, GraceAnswer, GraceEmpty, ReuseUpdate, ReuseCommit,
                ReusePurge
  <2>3. ASSUME NEW o \in Logouts, LogoutStep(o) PROVE outlived' = outlived
    BY <2>3 DEF LogoutStep, LogoutOne, LogoutRead, LogoutUpdate, LogoutCommit,
                LogoutBlacklist
  <2>4. UNCHANGED vars => outlived' = outlived
    BY DEF vars
  <2> QED BY <2>1, <2>2, <2>3, <2>4, NextSteps
<1>2. ASSUME ~Ping(q)
      PROVE  redisOk'[q] = redisOk[q]
  <2>1. EnvironmentStep => redisOk' = redisOk
    BY DEF EnvironmentStep, Login, GraceEnds, LockExpires, PendingExpires,
           RedisChanges
  <2>2. ASSUME NEW p \in Requests, ~Ping(p),
               LookupStep(p) \/ RotateStep(p) \/ ReuseStep(p)
        PROVE  redisOk' = redisOk
    BY <2>2 DEF LookupStep, Present, AcquireLock, LockDenied,
                TakePending, WaitTimesOut, ReadInvalid, ReadValid, Reject,
                RotateStep, RotateMark, RotateIssue, RotateCommit, RotateFails,
                ReuseStep, GraceAnswer, GraceEmpty, ReuseUpdate, ReuseCommit,
                ReusePurge
  <2>3. ASSUME NEW p \in Requests, p # q, Ping(p)
        PROVE  redisOk'[q] = redisOk[q]
    BY <2>3 DEF Ping
  <2>4. ASSUME NEW o \in Logouts, LogoutStep(o) PROVE redisOk' = redisOk
    BY <2>4 DEF LogoutStep, LogoutOne, LogoutRead, LogoutUpdate, LogoutCommit,
                LogoutBlacklist
  <2>5. UNCHANGED vars => redisOk' = redisOk
    BY DEF vars
  <2> QED BY <1>2, <2>1, <2>2, <2>3, <2>4, <2>5, NextSteps
<1>3. CASE Ping(q)
  <2>1. redisOk[q]
    BY <1>3 DEF Ping, Step, LockInv
  <2> QED BY <2>1, <1>1
<1> QED BY <1>1, <1>2, <1>3

\* A request comes to rely on a lock by taking it.
LEMMA HoldingSteps ==
  ASSUME TypeOK, LockInv, [Next]_vars, NEW q \in Requests, Holding(q)'
  PROVE  tok'[q] = tok[q] /\ (Holding(q) \/ AcquireLock(q))
<1> USE DEF TypeOK, Step, Reject, Rotating, requestVars
<1>1. ~Unlocked(q)
  BY UnlockedLasts DEF Holding
<1>2. ASSUME NEW p \in Requests, LookupStep(p)
      PROVE  tok'[q] = tok[q] /\ (Holding(q) \/ AcquireLock(q))
  <2>1. CASE p # q
    <3>1. pc'[q] = pc[q] /\ tok'[q] = tok[q]
      BY <2>1, <1>2 DEF LookupStep, Present, Ping, AcquireLock, LockDenied,
                        TakePending, WaitTimesOut, ReadInvalid, ReadValid
    <3> QED BY <3>1, <1>1 DEF Holding
  <2>2. CASE p = q
    <3>1. CASE Ping(q)
      <4>1. pc'[q] = "lock" \/ ~redisOk'[q]
        BY <3>1 DEF Ping
      <4> QED BY <4>1 DEF Holding, Unlocked
    <3>2. CASE AcquireLock(q)
      BY <3>2 DEF AcquireLock
    <3>3. CASE ReadValid(q)
      BY <3>3, <1>1 DEF ReadValid, Holding
    <3>4. ASSUME \/ \E t \in Tokens : Present(q, t)
                 \/ LockDenied(q) \/ TakePending(q) \/ WaitTimesOut(q)
                 \/ ReadInvalid(q)
          PROVE  pc'[q] \notin Rotating \cup {"read"}
      BY <3>4 DEF Present, LockDenied, TakePending, WaitTimesOut, ReadInvalid
    <3> QED BY <2>2, <1>2, <3>1, <3>2, <3>3, <3>4 DEF LookupStep, Holding
  <2> QED BY <2>1, <2>2
<1>3. ASSUME NEW p \in Requests, RotateStep(p)
      PROVE  tok'[q] = tok[q] /\ Holding(q)
  <2>1. tok' = tok /\ (pc'[q] = pc[q] \/ pc[q] \in Rotating)
    BY <1>3 DEF RotateStep, RotateMark, RotateIssue, RotateCommit, RotateFails
  <2> QED BY <2>1, <1>1 DEF Holding
<1>4. ASSUME NEW p \in Requests, ReuseStep(p)
      PROVE  tok'[q] = tok[q] /\ Holding(q)
  <2>1. /\ tok' = tok
        /\ pc'[q] = pc[q] \/ pc'[q] \notin Rotating \cup {"read"}
    BY <1>4 DEF ReuseStep, GraceAnswer, GraceEmpty, ReuseUpdate, ReuseCommit,
                ReusePurge
  <2> QED BY <2>1, <1>1 DEF Holding
<1>5. ASSUME UNCHANGED requestVars
      PROVE  tok'[q] = tok[q] /\ Holding(q)
  BY <1>5, <1>1 DEF Holding
<1>6. EnvironmentStep => UNCHANGED requestVars
  BY DEF EnvironmentStep, Login, GraceEnds, LockExpires, PendingExpires,
         RedisChanges
<1>7. ASSUME NEW o \in Logouts, LogoutStep(o) PROVE UNCHANGED requestVars
  BY <1>7 DEF LogoutStep, LogoutOne, LogoutRead, LogoutUpdate, LogoutCommit,
              LogoutBlacklist
<1>8. UNCHANGED vars => UNCHANGED requestVars
  BY DEF vars
<1> QED BY <1>2, <1>3, <1>4, <1>5, <1>6, <1>7, <1>8, NextSteps

LEMMA LocksLast ==
  ASSUME TypeOK, [Next]_vars, NEW t \in lock, t \notin lock'
  PROVE  LockExpires(t)
<1> USE DEF redisVars
<1>1. CASE EnvironmentStep
  <2>1. ASSUME NEW u \in Tokens, LockExpires(u) PROVE t = u
    BY <2>1 DEF LockExpires
  <2> QED BY <1>1, <2>1 DEF EnvironmentStep, Login, GraceEnds, PendingExpires,
                            RedisChanges
<1>2. ASSUME NEW q \in Requests,
             LookupStep(q) \/ RotateStep(q) \/ ReuseStep(q)
      PROVE  lock \subseteq lock'
  BY <1>2 DEF LookupStep, Present, Ping, AcquireLock, LockDenied, TakePending,
              WaitTimesOut, ReadInvalid, ReadValid, Reject, RotateStep,
              RotateMark, RotateIssue, RotateCommit, RotateFails, ReuseStep,
              GraceAnswer, GraceEmpty, ReuseUpdate, ReuseCommit, ReusePurge,
              Blacklist
<1>3. ASSUME NEW o \in Logouts, LogoutStep(o) PROVE lock' = lock
  BY <1>3 DEF LogoutStep, LogoutOne, LogoutRead, LogoutUpdate, LogoutCommit,
              LogoutBlacklist, Blacklist
<1>4. UNCHANGED vars => lock' = lock
  BY DEF vars
<1> QED BY <1>1, <1>2, <1>3, <1>4, NextSteps

\* A request that has not pinged Redis yet has not missed it.
LEMMA EarlySteps ==
  ASSUME TypeOK, [Next]_vars, NEW q \in Requests,
         pc'[q] \in {"idle", "checked"}
  PROVE  /\ pc[q] \in {"idle", "checked"} /\ redisOk'[q] = redisOk[q]
         /\ pc'[q] = "idle" => pc[q] = "idle" /\ tok'[q] = tok[q]
<1> USE DEF TypeOK, Step, Reject, requestVars
<1>1. ASSUME NEW p \in Requests, LookupStep(p)
      PROVE  /\ pc[q] \in {"idle", "checked"} /\ redisOk'[q] = redisOk[q]
             /\ pc'[q] = "idle" => pc[q] = "idle" /\ tok'[q] = tok[q]
  BY <1>1 DEF LookupStep, Present, Ping, AcquireLock, LockDenied, TakePending,
              WaitTimesOut, ReadInvalid, ReadValid
<1>2. ASSUME NEW p \in Requests, RotateStep(p) \/ ReuseStep(p)
      PROVE  /\ pc'[q] = pc[q]
             /\ UNCHANGED <<tok, redisOk>>
  BY <1>2 DEF RotateStep, RotateMark, RotateIssue, RotateCommit, RotateFails,
              ReuseStep, GraceAnswer, GraceEmpty, ReuseUpdate, ReuseCommit,
              ReusePurge
<1>3. EnvironmentStep => UNCHANGED requestVars
  BY DEF EnvironmentStep, Login, GraceEnds, LockExpires, PendingExpires,
         RedisChanges
<1>4. ASSUME NEW o \in Logouts, LogoutStep(o) PROVE UNCHANGED requestVars
  BY <1>4 DEF LogoutStep, LogoutOne, LogoutRead, LogoutUpdate, LogoutCommit,
              LogoutBlacklist
<1>5. UNCHANGED vars => UNCHANGED requestVars
  BY DEF vars
<1> QED BY <1>1, <1>2, <1>3, <1>4, <1>5, NextSteps

LEMMA LockStep == ASSUME TypeOK, LockInv, [Next]_vars PROVE LockInv'
<1>1. \A q \in Requests : pc'[q] \in {"idle", "checked"} => redisOk'[q]
  BY EarlySteps DEF LockInv
<1>2. \A q \in Requests : pc'[q] = "idle" => tok'[q] = None
  BY EarlySteps DEF LockInv
<1>3. ASSUME NEW q \in Requests, Holding(q)'
      PROVE  tok'[q] \in lock'
  <2>1. CASE AcquireLock(q)
    BY <2>1 DEF AcquireLock
  <2>2. CASE Holding(q)
    <3>1. tok'[q] = tok[q] /\ tok[q] \in lock
      BY <1>3, <2>2, HoldingSteps DEF LockInv
    <3>2. ASSUME LockExpires(tok[q])
          PROVE  FALSE
      <4>1. q \in LockHolders(tok[q])
        BY <2>2 DEF LockHolders, Holding, Unlocked
      <4>2. q \in outlived'
        BY <3>2, <4>1 DEF LockExpires
      <4> QED BY <4>2, <1>3 DEF Holding, Unlocked
    <3> QED BY <3>1, <3>2, LocksLast
  <2> QED BY <1>3, <2>1, <2>2, HoldingSteps
<1>4. ASSUME NEW p \in Requests, NEW q \in Requests,
             Holding(p)', Holding(q)', tok'[p] = tok'[q]
      PROVE  p = q
  <2>1. /\ tok[p] = tok[q]
        /\ Holding(p) \/ AcquireLock(p)
        /\ Holding(q) \/ AcquireLock(q)
    BY <1>4, HoldingSteps
  <2>2. \A r \in Requests : AcquireLock(r) => tok[r] \notin lock
    BY DEF AcquireLock, LockFree
  <2>3. AcquireLock(p) /\ AcquireLock(q) => p = q
    BY DEF AcquireLock, Step, TypeOK
  <2> QED BY <2>1, <2>2, <2>3 DEF LockInv
<1> QED BY <1>1, <1>2, <1>3, <1>4 DEF LockInv

\* The rotations of one token exclude each other while they hold its lock.
THEOREM LockIsExclusive == Spec => []LockInv
<1>1. Init => LockInv
  BY DEF Init, LockInv, Holding, Rotating
<1> QED BY <1>1, Types, LockStep, PTL DEF Spec

LEMMA ForkedLasts ==
  ASSUME TypeOK, OriginInv, LockInv, [Next]_vars, NEW f, Forked(f)
  PROVE  Forked(f)'
<1>1. PICK q \in Requests :
        tok[q] # None /\ family[tok[q]] = f /\ Unlocked(q)
  BY DEF Forked
<1>2. pc[q] # "idle"
  BY <1>1 DEF LockInv
<1>3. tok[q] \in Tokens /\ family[tok[q]] # None
  BY <1>2 DEF TypeOK, OriginInv
<1>4. tok'[q] = tok[q] /\ family'[tok[q]] = f /\ Unlocked(q)'
  BY <1>1, <1>2, <1>3, RequestsLast, FamiliesLast, UnlockedLasts
<1> QED BY <1>1, <1>4 DEF Forked

\* A step that commits no row, and starts no rotation of a used token.
LEMMA QuietChain ==
  ASSUME TypeOK, OriginInv, LockInv, ChainInv, [Next]_vars, row' = row,
         \A q \in Requests : pc'[q] \in Rotating =>
           /\ pc[q] # "idle"
           /\ pc[q] \in Rotating \/ row[tok[q]] = "active"
  PROVE  ChainInv'
<1>1. ASSUME NEW t \in Tokens, NEW u \in Tokens PROVE Chained(t, u)'
  <2>1. Exists(t) => family[t] # None /\ family'[t] = family[t]
    BY FamiliesLast DEF OriginInv
  <2>2. Exists(u) => family'[u] = family[u]
    BY FamiliesLast DEF OriginInv
  <2> QED BY <2>1, <2>2, ForkedLasts DEF ChainInv, Chained, Exists
<1>2. ASSUME NEW q \in Requests, pc'[q] \in Rotating
      PROVE  row'[tok'[q]] = "active" \/ Forked(family[tok[q]])'
  <2>1. tok'[q] = tok[q]
    BY <1>2, RequestsLast
  <2>2. CASE pc[q] \in Rotating /\ row[tok[q]] # "active"
    <3>1. Forked(family[tok[q]])
      BY <2>2 DEF ChainInv
    <3>2. tok[q] \in Tokens /\ family'[tok[q]] = family[tok[q]]
      BY <1>2, FamiliesLast DEF TypeOK, OriginInv
    <3>3. \E p \in Requests :
            /\ tok'[p] # None /\ family'[tok'[p]] = family[tok[q]]
            /\ Unlocked(p)'
      BY <3>1, ForkedLasts DEF Forked
    <3> QED BY <3>2, <3>3, <2>1 DEF Forked
  <2> QED BY <1>2, <2>1, <2>2
<1> QED BY <1>1, <1>2 DEF ChainInv

LEMMA LoginChain ==
  ASSUME TypeOK, OriginInv, LockInv, ChainInv,
         NEW n \in Tokens, NEW f \in Families, Login(n, f)
  PROVE  ChainInv'
<1>1. [Next]_vars
  BY DEF Next
<1>2. /\ \A t \in Tokens : family[t] # f
      /\ family[n] = None /\ ~Exists(n) /\ f # None
      /\ family' = [family EXCEPT ![n] = f]
      /\ row' = [row EXCEPT ![n] = "active"]
      /\ UNCHANGED <<pc, tok>>
  BY RotationNoneAssumption
     DEF Login, New, Generated, OriginInv, requestVars
<1>3. ASSUME NEW t \in Tokens, NEW u \in Tokens PROVE Chained(t, u)'
  <2>1. CASE t # n /\ u # n
    <3>1. /\ row'[t] = row[t] /\ family'[t] = family[t]
          /\ row'[u] = row[u] /\ family'[u] = family[u]
      BY <2>1, <1>2 DEF TypeOK
    <3>2. Forked(family[t]) => Forked(family[t])'
      BY <3>1, <1>1, ForkedLasts
    <3> QED BY <3>1, <3>2 DEF ChainInv, Chained
  <2>2. CASE t = n \/ u = n
    BY <2>2, <1>2 DEF Chained, TypeOK
  <2> QED BY <2>1, <2>2
<1>4. ASSUME NEW q \in Requests, pc'[q] \in Rotating
      PROVE  row'[tok'[q]] = "active" \/ Forked(family[tok[q]])'
  <2>1. /\ tok[q] \in Tokens /\ tok[q] # n
        /\ row[tok[q]] = "active" \/ Forked(family[tok[q]])
    BY <1>2, <1>4 DEF TypeOK, OriginInv, Rotating, ChainInv
  <2>2. /\ row'[tok[q]] = row[tok[q]]
        /\ family'[tok[q]] = family[tok[q]]
    BY <2>1, <1>2 DEF TypeOK
  <2>3. Forked(family[tok[q]]) => Forked(family[tok[q]])'
    BY <2>2, <1>1, <1>2, ForkedLasts
  <2> QED BY <1>2, <2>1, <2>2, <2>3
<1> QED BY <1>3, <1>4 DEF ChainInv

\* In a family without an unlocked request, the rotation replaces the one
\* unused token, and no other rotation has read it.
LEMMA CommitChain ==
  ASSUME TypeOK, OriginInv, LockInv, ChainInv,
         NEW p \in Requests, RotateCommit(p)
  PROVE  ChainInv'
<1>1. [Next]_vars
  BY DEF Next, RequestStep
<1>2. /\ tok[p] \in Tokens /\ child[p] \in Tokens /\ tok[p] # None
      /\ pc[p] = "issued" /\ pc'[p] = "answered"
      /\ family[child[p]] = family[tok[p]]
      /\ Exists(tok[p]) /\ ~Exists(child[p])
      /\ row' = [row EXCEPT ![tok[p]] = "used", ![child[p]] = "active"]
      /\ UNCHANGED <<family, tok>>
      /\ \A q \in Requests : q # p => pc'[q] = pc[q]
  BY RotationNoneAssumption
     DEF RotateCommit, Step, TypeOK, OriginInv, rowVars, Rotating
<1>3. /\ row'[tok[p]] = "used" /\ row'[child[p]] = "active"
      /\ \A t \in Tokens : t \notin {tok[p], child[p]} => row'[t] = row[t]
  <2>1. tok[p] # child[p]
    BY <1>2
  <2> QED BY <1>2, <2>1 DEF TypeOK
<1>4. \A t \in Tokens : Forked(family[t]) => Forked(family[t])'
  <2> SUFFICES ASSUME NEW t \in Tokens, Forked(family[t])
               PROVE  Forked(family[t])'
    OBVIOUS
  <2> QED BY <1>1, <1>2, ForkedLasts
<1>5. row[tok[p]] = "active" \/ Forked(family[tok[p]])
  BY <1>2 DEF ChainInv, Rotating
<1>6. ASSUME NEW t \in Tokens, NEW u \in Tokens, t # u,
             row'[t] = "active", row'[u] = "active", family[t] = family[u]
      PROVE  Forked(family[t])
  <2>1. t # tok[p] /\ u # tok[p]
    BY <1>3, <1>6
  <2>2. CASE t # child[p] /\ u # child[p]
    BY <2>1, <2>2, <1>3, <1>6 DEF ChainInv, Chained
  <2>3. ASSUME NEW v \in Tokens, v # tok[p], v # child[p],
               row'[v] = "active", family[v] = family[child[p]]
        PROVE  Forked(family[v])
    <3>1. row[v] = "active" /\ family[v] = family[tok[p]]
      BY <2>3, <1>2, <1>3
    <3> QED BY <3>1, <2>3, <1>2, <1>5 DEF ChainInv, Chained
  <2> QED BY <2>1, <2>2, <2>3, <1>6
<1>7. \A t, u \in Tokens : Chained(t, u)'
  BY <1>2, <1>4, <1>6 DEF Chained
<1>8. ASSUME NEW q \in Requests, pc'[q] \in Rotating
      PROVE  row'[tok[q]] = "active" \/ Forked(family[tok[q]])'
  <2>1. /\ q # p /\ pc[q] \in Rotating /\ tok[q] \in Tokens
        /\ row[tok[q]] = "active" \/ Forked(family[tok[q]])
    BY <1>2, <1>8 DEF Rotating, TypeOK, ChainInv
  <2>2. CASE tok[q] = tok[p]
    <3>1. Unlocked(p) \/ Unlocked(q)
      BY <1>2, <2>1, <2>2 DEF LockInv, Holding, Rotating
    <3>2. Forked(family[tok[q]])
      BY <3>1, <1>2, <2>2 DEF Forked
    <3> QED BY <3>2, <2>1, <1>2, <1>4
  <2>3. CASE tok[q] # tok[p]
    BY <2>1, <2>3, <1>2, <1>3, <1>4
  <2> QED BY <2>2, <2>3
<1> QED BY <1>2, <1>7, <1>8 DEF ChainInv

LEMMA ChainStep ==
  ASSUME TypeOK, OriginInv, LockInv, ChainInv, [Next]_vars PROVE ChainInv'
<1> USE DEF rowVars, requestVars
<1>1. ASSUME EnvironmentStep
      PROVE  ChainInv'
  <2>1. ASSUME NEW n \in Tokens, NEW f \in Families, Login(n, f)
        PROVE  ChainInv'
    BY <2>1, LoginChain
  <2>2. ASSUME \/ \E t \in Tokens :
                    GraceEnds(t) \/ LockExpires(t) \/ PendingExpires(t)
               \/ RedisChanges
        PROVE  UNCHANGED <<row, pc>>
    BY <2>2 DEF GraceEnds, LockExpires, PendingExpires, RedisChanges
  <2> QED BY <1>1, <2>1, <2>2, QuietChain DEF EnvironmentStep, Rotating
<1>2. ASSUME NEW p \in Requests, ~RotateCommit(p),
             LookupStep(p) \/ RotateStep(p) \/ ReuseStep(p)
      PROVE  ChainInv'
  <2> USE DEF Step, Reject, Rotating, TypeOK
  <2>1. CASE LookupStep(p)
    <3>1. /\ row' = row
          /\ \A q \in Requests : pc'[q] \in Rotating =>
               /\ pc[q] # "idle"
               /\ pc[q] \in Rotating \/ row[tok[q]] = "active"
      BY <2>1 DEF LookupStep, Present, Ping, AcquireLock, LockDenied,
                  TakePending, WaitTimesOut, ReadInvalid, ReadValid, Unused
    <3> QED BY <3>1, QuietChain
  <2>2. CASE RotateStep(p)
    <3>1. /\ row' = row
          /\ \A q \in Requests : pc'[q] \in Rotating => pc[q] \in Rotating
      BY <1>2, <2>2 DEF RotateStep, RotateMark, RotateIssue, RotateFails
    <3> QED BY <3>1, QuietChain
  <2>3. CASE ReuseStep(p)
    <3>1. /\ row' = row
          /\ \A q \in Requests : pc'[q] \in Rotating => pc[q] \in Rotating
      BY <2>3 DEF ReuseStep, GraceAnswer, GraceEmpty, ReuseUpdate,
                  ReuseCommit, ReusePurge
    <3> QED BY <3>1, QuietChain
  <2> QED BY <1>2, <2>1, <2>2, <2>3
<1>3. ASSUME NEW p \in Requests, RotateCommit(p) PROVE ChainInv'
  BY <1>3, CommitChain
<1>4. ASSUME NEW o \in Logouts, LogoutStep(o) PROVE ChainInv'
  <2>1. UNCHANGED <<row, pc>>
    BY <1>4 DEF LogoutStep, LogoutOne, LogoutRead, LogoutUpdate, LogoutCommit,
                LogoutBlacklist
  <2> QED BY <2>1, QuietChain DEF Rotating
<1>5. CASE UNCHANGED vars
  BY <1>5, QuietChain DEF vars, Rotating
<1> QED BY <1>1, <1>2, <1>3, <1>4, <1>5, NextSteps

\* Concurrent refreshes fork a session only if one of them ran without its lock
\* or took longer than it: otherwise a family has one unused token at most.
THEOREM FamiliesAreChains == Spec => []FamilyIsAChain
<1>1. Init => ChainInv
  BY DEF Init, ChainInv, Chained, Rotating
<1>2. ChainInv => FamilyIsAChain
  BY DEF ChainInv, Chained, Forked, FamilyIsAChain
<1> QED BY <1>1, <1>2, Types, Origins, LockIsExclusive, ChainStep, PTL DEF Spec
=============================================================================
