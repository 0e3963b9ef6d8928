---------------------------- MODULE AccountsProofs ----------------------------
(***************************************************************************)
(* The types and the three promises of Accounts, for any number of         *)
(* accounts, addresses, passwords and requests and any limit of attempts.  *)
(***************************************************************************)
EXTENDS Accounts, FiniteSetTheorems, TLAPS

\* What a call that is about to write has been given.
FieldInv ==
  \A c \in Calls :
    /\ pc[c] \in {"insert", "seed", "rename"} => mail[c] \in Emails
    /\ pc[c] \in {"insert", "seed", "read", "revoke", "commit"}
         => pass[c] \in Passwords
    /\ pc[c] = "clear" => acc[c] \in Accounts
    /\ acc[c] # None => email[acc[c]] # None

Typed == TypeOK /\ FieldInv

LEMMA KeyIsTyped == \A e \in Emails : EmailKey[e] \in Keys
BY EmailKeyAssumption DEF Keys

LEMMA InitTypes == Init => TypeOK
<1> SUFFICES ASSUME Init PROVE TypeOK
  OBVIOUS
<1> USE DEF Init
<1>1. \A a \in Accounts : email[a] # None => hash[a] \in Passwords
  OBVIOUS
<1>2. /\ email \in [Accounts -> Emails \cup {None}]
      /\ hash \in [Accounts -> Passwords \cup {None}]
      /\ attempts \in [Keys -> Nat]
      /\ wrong \in [Keys -> Nat]
  OBVIOUS
<1>3. /\ session \in [Calls -> {"none", "active", "revoked"}]
      /\ pc \in [Calls -> CallPc]
      /\ mail \in [Calls -> Emails \cup {None}]
      /\ acc \in [Calls -> Accounts \cup {None}]
      /\ pass \in [Calls -> Passwords \cup {None}]
      /\ seen \in [Calls -> Passwords \cup {None}]
      /\ revoking \in [Calls -> SUBSET Calls]
  BY DEF CallPc
<1>4. \A c \in Calls : pc[c] = "idle"
  OBVIOUS
<1> QED BY <1>1, <1>2, <1>3, <1>4 DEF TypeOK, LoggingIn

\* Registrations and changes of address.
EmailStep(c) ==
  \/ \E e \in Emails, p \in Passwords, next \in {"insert", "seed"} :
       Register(c, e, p, next)
  \/ \E a \in Accounts : Insert(c, a)
  \/ InsertFails(c)
  \/ \E a \in Accounts, e \in Emails : ChangeEmail(c, a, e)
  \/ Rename(c) \/ RenameFails(c)

LoginStep(c) ==
  \/ \E e \in Emails, p \in Passwords : LoginCheck(c, e, p)
  \/ \E a \in Accounts : LoginLookup(c, a)
  \/ LoginUnknown(c) \/ LoginCount(c) \/ LoginClear(c) \/ LoginIssue(c)

PasswordStep(c) ==
  \/ \E a \in Accounts, old, new \in Passwords : ChangePassword(c, a, old, new)
  \/ PasswordRead(c) \/ PasswordRevoke(c) \/ PasswordCommit(c)

LEMMA CallSteps ==
  ASSUME NEW c \in Calls, CallStep(c)
  PROVE  EmailStep(c) \/ LoginStep(c) \/ PasswordStep(c)
BY DEF CallStep, EmailStep, LoginStep, PasswordStep

LEMMA EmailTypes ==
  ASSUME Typed, NEW c \in Calls, EmailStep(c) PROVE Typed'
<1> USE DEF Typed, FieldInv, TypeOK, Step, CallPc, LoggingIn, callVars,
            emailHistory, throttleHistory
<1>1. ASSUME NEW e \in Emails, NEW p \in Passwords,
             NEW next \in {"insert", "seed"}, Register(c, e, p, next)
      PROVE  Typed'
  BY <1>1 DEF Register
<1>2. ASSUME NEW a \in Accounts, Insert(c, a) PROVE Typed'
  <2>1. mail[c] \in Emails /\ pass[c] \in Passwords
    BY <1>2 DEF Insert
  <2>2. /\ email' \in [Accounts -> Emails \cup {None}]
        /\ hash' \in [Accounts -> Passwords \cup {None}]
        /\ \A b \in Accounts : email'[b] # None => hash'[b] \in Passwords
    BY <1>2, <2>1 DEF Insert
  <2>3. \A d \in Calls : acc'[d] # None => email'[acc'[d]] # None
    BY <1>2, <2>1, AccountNoneAssumption DEF Insert
  <2>4. pc' \in [Calls -> CallPc] /\ raced' \subseteq Calls
    BY <1>2 DEF Insert, Writers
  <2> QED BY <1>2, <2>1, <2>2, <2>3, <2>4 DEF Insert
<1>3. CASE InsertFails(c) BY <1>3 DEF InsertFails
<1>4. ASSUME NEW a \in Accounts, NEW e \in Emails, ChangeEmail(c, a, e)
      PROVE  Typed'
  BY <1>4 DEF ChangeEmail
<1>5. CASE Rename(c)
  <2>1. email[acc[c]] # None
    BY <1>5, AccountNoneAssumption DEF Rename
  <2>2. mail[c] \in Emails /\ acc[c] \in Accounts
    BY <1>5 DEF Rename
  <2>3. /\ email' \in [Accounts -> Emails \cup {None}]
        /\ \A b \in Accounts : email'[b] # None => hash[b] \in Passwords
    BY <1>5, <2>1, <2>2 DEF Rename
  <2>4. \A d \in Calls : acc[d] # None => email'[acc[d]] # None
    BY <1>5, <2>2, AccountNoneAssumption DEF Rename
  <2>5. pc' \in [Calls -> CallPc] /\ raced' \subseteq Calls
    BY <1>5 DEF Rename, Writers
  <2> QED BY <1>5, <2>3, <2>4, <2>5 DEF Rename
<1>6. CASE RenameFails(c) BY <1>6 DEF RenameFails
<1> QED BY <1>1, <1>2, <1>3, <1>4, <1>5, <1>6 DEF EmailStep

LEMMA LoginTypes ==
  ASSUME Typed, NEW c \in Calls, LoginStep(c) PROVE Typed'
<1> USE DEF Typed, FieldInv, TypeOK, Step, CallPc, LoggingIn, callVars,
            emailHistory, throttleHistory
<1>1. ASSUME NEW e \in Emails, NEW p \in Passwords, LoginCheck(c, e, p)
      PROVE  Typed'
  <2>1. \/ pc' = [pc EXCEPT ![c] = "lookup"]
        \/ pc' = [pc EXCEPT ![c] = "rejected"]
    BY <1>1 DEF LoginCheck
  <2> QED BY <1>1, <2>1 DEF LoginCheck
<1>2. ASSUME NEW a \in Accounts, LoginLookup(c, a) PROVE Typed'
  <2>1. /\ email[a] # None
        /\ hash[a] \in Passwords
    BY <1>2, AccountNoneAssumption DEF LoginLookup
  <2> QED BY <1>2, <2>1 DEF LoginLookup
<1>3. CASE LoginUnknown(c) BY <1>3 DEF LoginUnknown
<1>4. CASE LoginCount(c)
  <2>1. /\ attempts' \in [Keys -> Nat]
        /\ wrong' \in [Keys -> Nat]
    <3>1. Key(c) \in Keys
      BY <1>4, KeyIsTyped DEF LoginCount, Key
    <3> QED BY <1>4, <3>1 DEF LoginCount
  <2>2. overlapped' \subseteq Calls /\ blind' \subseteq Calls
    BY <1>4 DEF LoginCount
  <2> QED BY <1>4, <2>1, <2>2 DEF LoginCount
<1>5. CASE LoginClear(c)
  <2>1. /\ attempts' \in [Keys -> Nat]
        /\ wrong' \in [Keys -> Nat]
    BY <1>5 DEF LoginClear
  <2>2. pc' \in [Calls -> CallPc] /\ pc' = [pc EXCEPT ![c] = "issue"]
    BY <1>5 DEF LoginClear
  <2>3. acc[c] \in Accounts
    BY <1>5 DEF LoginClear
  <2>4. UNCHANGED <<email, hash, session, callVars, revoking, raced,
                    overlapped, blind, straddling>>
    BY <1>5 DEF LoginClear
  <2> QED BY <2>1, <2>2, <2>3, <2>4
<1>6. CASE LoginIssue(c) BY <1>6 DEF LoginIssue
<1> QED BY <1>1, <1>2, <1>3, <1>4, <1>5, <1>6 DEF LoginStep

LEMMA PasswordTypes ==
  ASSUME Typed, NEW c \in Calls, PasswordStep(c) PROVE Typed'
<1> USE DEF Typed, FieldInv, TypeOK, Step, CallPc, LoggingIn, callVars,
            emailHistory, throttleHistory
<1>1. ASSUME NEW a \in Accounts, NEW old \in Passwords, NEW new \in Passwords,
             ChangePassword(c, a, old, new)
      PROVE  Typed'
  BY <1>1 DEF ChangePassword
<1>2. CASE PasswordRead(c)
  BY <1>2 DEF PasswordRead
<1>3. CASE PasswordRevoke(c)
  BY <1>3 DEF PasswordRevoke, ToRevoke, Sessions
<1>4. CASE PasswordCommit(c)
  BY <1>4 DEF PasswordCommit
<1> QED BY <1>1, <1>2, <1>3, <1>4 DEF PasswordStep

LEMMA NextTypes == Typed /\ [Next]_vars => Typed'
<1> SUFFICES ASSUME Typed, [Next]_vars PROVE Typed'
  OBVIOUS
<1>1. ASSUME NEW k \in Keys, LockoutEnds(k) PROVE Typed'
  BY <1>1 DEF LockoutEnds, Typed, TypeOK, FieldInv, callVars, emailHistory
<1>2. CASE UNCHANGED vars
  BY <1>2 DEF vars, Typed, TypeOK, FieldInv, callVars, emailHistory,
              throttleHistory
<1> QED BY <1>1, <1>2, CallSteps, EmailTypes, LoginTypes, PasswordTypes
        DEF Next

LEMMA TypesHold == Spec => []Typed
<1>1. Init => Typed
  BY InitTypes DEF Init, Typed, FieldInv
<1> QED BY <1>1, NextTypes, PTL DEF Spec

-----------------------------------------------------------------------------
\* The types, with an account that has an address having a password too.
THEOREM AccountsTypeCorrect == Spec => []TypeOK
<1>1. Typed => TypeOK BY DEF Typed
<1> QED BY <1>1, TypesHold, PTL

-----------------------------------------------------------------------------
(* A conflict that nobody looked for comes from an overlap *)

\* Whoever found an address free and finds it taken now was overtaken.
WriterInv ==
  \A c \in Calls :
    /\ pc[c] \in {"insert", "seed"} /\ Taken(mail[c]) => c \in raced
    /\ pc[c] = "rename" /\ TakenByOther(c) => c \in raced
    /\ pc[c] = "error" => c \in raced

LEMMA WriterEmailStep ==
  ASSUME Typed, WriterInv, NEW c \in Calls, EmailStep(c) PROVE WriterInv'
<1> USE DEF Typed, FieldInv, TypeOK, WriterInv, Step, CallPc, LoggingIn,
            callVars, emailHistory, Taken, TakenByOther
<1>1. ASSUME NEW e \in Emails, NEW p \in Passwords,
             NEW next \in {"insert", "seed"}, Register(c, e, p, next)
      PROVE  WriterInv'
  <2>1. CASE Free(e) BY <1>1, <2>1 DEF Register, Free
  <2>2. CASE ~Free(e) BY <1>1, <2>2 DEF Register
  <2> QED BY <2>1, <2>2
<1>2. ASSUME NEW a \in Accounts, Insert(c, a) PROVE WriterInv'
  <2>1. ASSUME NEW d \in Calls \ {c},
               pc[d] \in {"insert", "seed", "rename"}, mail[d] = mail[c]
        PROVE  d \in raced'
    BY <1>2, <2>1 DEF Insert, Writers
  <2> QED BY <1>2, <2>1 DEF Insert
<1>3. CASE InsertFails(c) BY <1>3 DEF InsertFails
<1>4. ASSUME NEW a \in Accounts, NEW e \in Emails, ChangeEmail(c, a, e)
      PROVE  WriterInv'
  <2>1. CASE Free(e) BY <1>4, <2>1 DEF ChangeEmail, Free
  <2>2. CASE ~Free(e) BY <1>4, <2>2 DEF ChangeEmail
  <2> QED BY <2>1, <2>2
<1>5. CASE Rename(c)
  <2>1. ASSUME NEW d \in Calls \ {c},
               pc[d] \in {"insert", "seed", "rename"}, mail[d] = mail[c]
        PROVE  d \in raced'
    BY <1>5, <2>1 DEF Rename, Writers
  <2> QED BY <1>5, <2>1 DEF Rename
<1>6. CASE RenameFails(c) BY <1>6 DEF RenameFails
<1> QED BY <1>1, <1>2, <1>3, <1>4, <1>5, <1>6 DEF EmailStep

LEMMA WriterOtherStep ==
  ASSUME Typed, WriterInv, NEW c \in Calls, LoginStep(c) \/ PasswordStep(c)
  PROVE  WriterInv'
<1>1. UNCHANGED <<email, raced>>
  BY DEF LoginStep, PasswordStep, LoginCheck, LoginLookup, LoginUnknown,
         LoginCount, LoginClear, LoginIssue, ChangePassword, PasswordRead,
         PasswordRevoke, PasswordCommit, emailHistory, callVars
<1>2. /\ pc'[c] \notin {"insert", "seed", "rename", "error"}
      /\ \A d \in Calls \ {c} : /\ pc'[d] = pc[d]
                                /\ mail'[d] = mail[d]
                                /\ acc'[d] = acc[d]
  BY DEF Typed, TypeOK, LoginStep, PasswordStep, LoginCheck, LoginLookup,
         LoginUnknown, LoginCount, LoginClear, LoginIssue, ChangePassword,
         PasswordRead, PasswordRevoke, PasswordCommit, callVars, Step
<1> QED BY <1>1, <1>2 DEF WriterInv, Taken, TakenByOther

LEMMA WriterStep == Typed /\ WriterInv /\ [Next]_vars => WriterInv'
<1> SUFFICES ASSUME Typed, WriterInv, [Next]_vars PROVE WriterInv'
  OBVIOUS
<1>1. CASE UNCHANGED <<email, pc, callVars, raced>>
  BY <1>1 DEF WriterInv, Taken, TakenByOther, callVars
<1>2. ASSUME NEW k \in Keys, LockoutEnds(k) PROVE WriterInv'
  BY <1>1, <1>2 DEF LockoutEnds, emailHistory
<1>3. CASE UNCHANGED vars
  BY <1>1, <1>3 DEF vars, emailHistory
<1> QED BY <1>2, <1>3, CallSteps, WriterEmailStep, WriterOtherStep DEF Next

\* The unique index is an error for the caller only in the window between
\* the check for the address and the write.
THEOREM ConflictsOverlap == Spec => []ErrorOnlyByOverlap
<1>1. Init => WriterInv
  BY DEF Init, WriterInv
<1>2. WriterInv => ErrorOnlyByOverlap
  BY DEF WriterInv, ErrorOnlyByOverlap
<1> QED BY <1>1, <1>2, WriterStep, TypesHold, PTL DEF Spec

-----------------------------------------------------------------------------
(* A password change ends the sessions of the old password *)

\* A session is right, or it is on the list of a password change, or its
\* login overlapped one.
SessionInv ==
  \A c \in Calls :
    /\ session[c] # "none" => pc[c] = "done" /\ acc[c] \in Accounts
    /\ pc[c] \in {"clear", "issue"} \/ session[c] = "active"
         => seen[c] = hash[acc[c]] \/ c \in straddling
    /\ \A d \in revoking[c] : session[d] # "none"

RevokeInv ==
  \A d \in Calls : \A c \in Calls :
    acc[c] = acc[d] /\ pc[d] \in {"revoke", "commit"} =>
      /\ pc[c] \in {"clear", "issue"} => c \in straddling
      /\ session[c] = "active" /\ pc[d] = "commit"
           => c \in revoking[d] \cup straddling

LEMMA SessionEmailStep ==
  ASSUME Typed, SessionInv, RevokeInv, NEW c \in Calls, EmailStep(c)
  PROVE  SessionInv' /\ RevokeInv'
<1> USE DEF SessionInv, RevokeInv, Typed, FieldInv, TypeOK, Step, callVars
<1>1. ASSUME NEW a \in Accounts, Insert(c, a)
      PROVE  SessionInv' /\ RevokeInv'
  <2>1. \A d \in Calls : acc[d] # None => acc[d] # a
    BY <1>1 DEF Insert
  <2>2. \A d \in Calls : pc[d] \in {"clear", "issue"} \/ session[d] = "active"
                           => acc[d] # None /\ acc[d] \in Accounts
    BY AccountNoneAssumption
  <2>3. \A d \in Calls : acc[d] # None => hash'[acc[d]] = hash[acc[d]]
    BY <1>1, <2>1 DEF Insert
  <2>4. UNCHANGED <<session, acc, seen, revoking, straddling>>
    BY <1>1 DEF Insert
  <2>5. pc' = [pc EXCEPT ![c] = "done"]
    BY <1>1 DEF Insert
  <2> QED BY <2>2, <2>3, <2>4, <2>5
<1>2. ASSUME NEW a \in Accounts, NEW e \in Emails, ChangeEmail(c, a, e)
      PROVE  SessionInv' /\ RevokeInv'
  BY <1>2 DEF ChangeEmail
<1>3. ASSUME UNCHANGED <<hash, session, acc, seen, revoking, straddling>>,
             NEW to \in {"insert", "seed", "done", "rejected", "error"},
             pc' = [pc EXCEPT ![c] = to],
             session[c] = "none"
      PROVE  SessionInv' /\ RevokeInv'
  BY <1>3
<1>4. pc[c] # "done" => session[c] = "none"
  OBVIOUS
<1>5. ASSUME NEW e \in Emails, NEW p \in Passwords,
             NEW next \in {"insert", "seed"}, Register(c, e, p, next)
      PROVE  SessionInv' /\ RevokeInv'
  BY <1>3, <1>4, <1>5 DEF Register
<1>6. CASE InsertFails(c) BY <1>3, <1>4, <1>6 DEF InsertFails
<1>7. CASE Rename(c) BY <1>3, <1>4, <1>7 DEF Rename
<1>8. CASE RenameFails(c) BY <1>3, <1>4, <1>8 DEF RenameFails
<1> QED BY <1>1, <1>2, <1>5, <1>6, <1>7, <1>8 DEF EmailStep

LEMMA SessionLoginStep ==
  ASSUME Typed, SessionInv, RevokeInv, NEW c \in Calls, LoginStep(c)
  PROVE  SessionInv' /\ RevokeInv'
<1> USE DEF SessionInv, RevokeInv, Typed, FieldInv, TypeOK, Step, callVars
<1>1. pc[c] # "done" => session[c] = "none"
  OBVIOUS
<1>2. ASSUME NEW e \in Emails, NEW p \in Passwords, LoginCheck(c, e, p)
      PROVE  SessionInv' /\ RevokeInv'
  <2>1. UNCHANGED <<hash, session, acc, seen, revoking, straddling>>
    BY <1>2 DEF LoginCheck
  <2>2. PICK to \in {"lookup", "rejected"} : pc' = [pc EXCEPT ![c] = to]
    BY <1>2 DEF LoginCheck
  <2> QED BY <1>1, <1>2, <2>1, <2>2 DEF LoginCheck
<1>3. ASSUME NEW a \in Accounts, LoginLookup(c, a)
      PROVE  SessionInv' /\ RevokeInv'
  <2>1. /\ acc' = [acc EXCEPT ![c] = a]
        /\ seen' = [seen EXCEPT ![c] = hash[a]]
        /\ UNCHANGED <<hash, session, revoking>>
        /\ pc[c] = "lookup"
    BY <1>3 DEF LoginLookup
  <2>2. PICK to \in {"clear", "count"} : pc' = [pc EXCEPT ![c] = to]
    BY <1>3 DEF LoginLookup
  <2>3. straddling \subseteq straddling'
    BY <1>3 DEF LoginLookup
  <2>4. ASSUME NEW d \in Calls, acc'[d] = a, pc'[d] \in {"revoke", "commit"}
        PROVE  c \in straddling'
    <3>1. d \in Revoking(a)
      BY <2>1, <2>2, <2>4 DEF Revoking
    <3> QED BY <1>3, <3>1 DEF LoginLookup
  <2>5. SessionInv'
    BY <2>1, <2>2, <2>3
  <2>6. RevokeInv'
    BY <2>1, <2>2, <2>3, <2>4
  <2> QED BY <2>5, <2>6
<1>4. CASE LoginUnknown(c) BY <1>1, <1>4 DEF LoginUnknown
<1>5. CASE LoginCount(c) BY <1>1, <1>5 DEF LoginCount
<1>6. CASE LoginClear(c) BY <1>1, <1>6 DEF LoginClear
<1>7. CASE LoginIssue(c) BY <1>1, <1>7 DEF LoginIssue
<1> QED BY <1>2, <1>3, <1>4, <1>5, <1>6, <1>7 DEF LoginStep

LEMMA SessionPasswordStep ==
  ASSUME Typed, SessionInv, RevokeInv, NEW c \in Calls, PasswordStep(c)
  PROVE  SessionInv' /\ RevokeInv'
<1> USE DEF SessionInv, RevokeInv, Typed, FieldInv, TypeOK, Step, callVars
<1>1. pc[c] # "done" => session[c] = "none"
  OBVIOUS
<1>2. ASSUME NEW a \in Accounts, NEW old \in Passwords, NEW new \in Passwords,
             ChangePassword(c, a, old, new)
      PROVE  SessionInv' /\ RevokeInv'
  <2>1. /\ acc' = [acc EXCEPT ![c] = a]
        /\ UNCHANGED <<hash, session, seen, revoking, straddling>>
        /\ pc[c] = "idle"
    BY <1>2 DEF ChangePassword
  <2>2. PICK to \in {"read", "rejected"} : pc' = [pc EXCEPT ![c] = to]
    BY <1>2 DEF ChangePassword
  <2> QED BY <1>1, <2>1, <2>2
<1>3. CASE PasswordRead(c)
  <2>1. /\ UNCHANGED <<hash, session, acc, seen, revoking>>
        /\ straddling' = straddling \cup
             {d \in Calls : acc[d] = acc[c] /\ pc[d] \in {"clear", "issue"}}
        /\ pc[c] = "read"
    BY <1>3 DEF PasswordRead
  <2>2. PICK to \in {"revoke", "commit"} :
          /\ pc' = [pc EXCEPT ![c] = to]
          /\ to = "commit" => Sessions(acc[c]) = {}
    BY <1>3 DEF PasswordRead
  <2>3. to = "commit" =>
          \A d \in Calls : acc[d] = acc[c] => session[d] # "active"
    BY <2>2 DEF Sessions
  <2>4. SessionInv'
    BY <1>1, <2>1, <2>2
  <2>5. RevokeInv'
    BY <2>1, <2>2, <2>3
  <2> QED BY <2>4, <2>5
<1>4. CASE PasswordRevoke(c)
  BY <1>1, <1>4 DEF PasswordRevoke, ToRevoke, Sessions
<1>5. CASE PasswordCommit(c)
  <2>1. /\ pc[c] = "commit"
        /\ pc' = [pc EXCEPT ![c] = "done"]
        /\ hash' = [hash EXCEPT ![acc[c]] = pass[c]]
        /\ UNCHANGED <<acc, seen, revoking, straddling>>
        /\ \A d \in Calls :
             session'[d] = IF d \in revoking[c] THEN "revoked" ELSE session[d]
    BY <1>5 DEF PasswordCommit
  <2>2. ASSUME NEW d \in Calls, acc[d] = acc[c]
        PROVE  /\ pc[d] \in {"clear", "issue"} => d \in straddling
               /\ session'[d] = "active" => d \in straddling
    BY <2>1, <2>2
  <2>3. ASSUME NEW d \in Calls, acc[d] # acc[c], acc[d] \in Accounts
        PROVE  hash'[acc[d]] = hash[acc[d]]
    BY <2>1, <2>3
  <2>4. ASSUME NEW d \in Calls,
               pc'[d] \in {"clear", "issue"} \/ session'[d] = "active"
        PROVE  seen[d] = hash'[acc[d]] \/ d \in straddling
    <3>1. pc[d] \in {"clear", "issue"} \/ session[d] = "active"
      BY <2>1, <2>4
    <3>2. acc[d] \in Accounts
      BY <3>1
    <3> QED BY <2>1, <2>2, <2>3, <2>4, <3>1, <3>2
  <2>5. \A d \in Calls :
          session'[d] # "none" => pc'[d] = "done" /\ acc'[d] \in Accounts
    <3>1. ASSUME NEW d \in revoking[c] PROVE d \in Calls /\ session[d] # "none"
      OBVIOUS
    <3> QED BY <2>1, <3>1
  <2>6. \A b \in Calls : \A d \in revoking'[b] : session'[d] # "none"
    BY <2>1
  <2>7. SessionInv'
    BY <2>1, <2>4, <2>5, <2>6
  <2>8. RevokeInv'
    BY <2>1
  <2> QED BY <2>7, <2>8
<1> QED BY <1>2, <1>3, <1>4, <1>5 DEF PasswordStep

LEMMA SessionStep ==
  Typed /\ SessionInv /\ RevokeInv /\ [Next]_vars => SessionInv' /\ RevokeInv'
<1> SUFFICES ASSUME Typed, SessionInv, RevokeInv, [Next]_vars
             PROVE  SessionInv' /\ RevokeInv'
  OBVIOUS
<1>1. CASE UNCHANGED <<hash, session, pc, acc, seen, revoking, straddling>>
  BY <1>1 DEF SessionInv, RevokeInv
<1>2. ASSUME NEW k \in Keys, LockoutEnds(k) PROVE SessionInv' /\ RevokeInv'
  BY <1>1, <1>2 DEF LockoutEnds, callVars
<1>3. CASE UNCHANGED vars
  BY <1>1, <1>3 DEF vars, callVars
<1> QED BY <1>2, <1>3, CallSteps, SessionEmailStep, SessionLoginStep,
           SessionPasswordStep
        DEF Next

\* change_password leaves a session that was opened with another password
\* only to a login that was under way while it looked for sessions.
THEOREM FormerPasswordsAreOut == Spec => []OldPasswordSessionsEnd
<1>1. Init => SessionInv /\ RevokeInv
  BY DEF Init, SessionInv, RevokeInv
<1>2. SessionInv => OldPasswordSessionsEnd
  BY DEF SessionInv, OldPasswordSessionsEnd
<1> QED BY <1>1, <1>2, SessionStep, TypesHold, PTL DEF Spec

-----------------------------------------------------------------------------
(* The throttle *)

\* A login that nobody overtook since its check finds the counter as low as
\* it was.
PassInv ==
  \A c \in Calls :
    pc[c] \in {"lookup", "count"} /\ c \notin overlapped \cup blind
      => attempts[Key(c)] < MaxAttempts

\* Logins for key k that were overtaken, or met a Redis failure, and ended.
Excused(k) ==
  {c \in Calls : /\ c \in overlapped \cup blind
                 /\ pc[c] = "rejected"
                 /\ EmailKey[mail[c]] = k}

\* A wrong password was counted below the limit, or its login is excused.
CountInv ==
  \A k \in Keys :
    /\ wrong[k] <= attempts[k] + Cardinality(Excused(k))
    /\ wrong[k] <= MaxAttempts + Cardinality(Excused(k))

LEMMA CallsAreCounted ==
  ASSUME NEW S \in SUBSET Calls, NEW T \in SUBSET S
  PROVE  /\ IsFiniteSet(S) /\ IsFiniteSet(T)
         /\ Cardinality(S) \in Nat /\ Cardinality(T) \in Nat
         /\ Cardinality(T) <= Cardinality(S)
BY CallsAssumption, FS_Subset, FS_CardinalityType

\* Nobody loses the excuse, and the throttle sees nothing of the step.
LEMMA ThrottleUnchanged ==
  ASSUME Typed, PassInv, CountInv, NEW c \in Calls,
         pc[c] # "rejected",
         pc'[c] \in {"lookup", "count"} =>
           /\ pc[c] \in {"lookup", "count"}
           /\ mail'[c] = mail[c],
         \A d \in Calls \ {c} : pc'[d] = pc[d] /\ mail'[d] = mail[d],
         UNCHANGED <<attempts, overlapped, blind, wrong>>
  PROVE  PassInv' /\ CountInv'
<1>1. PassInv'
  BY DEF PassInv, Key
<1>2. ASSUME NEW k \in Keys
      PROVE  Cardinality(Excused(k)) <= Cardinality(Excused(k)')
  <2>1. Excused(k) \subseteq Excused(k)' /\ Excused(k)' \subseteq Calls
    BY DEF Excused
  <2> QED BY <2>1, CallsAreCounted
<1>3. ASSUME NEW k \in Keys
      PROVE  /\ Cardinality(Excused(k)) \in Nat
             /\ Cardinality(Excused(k)') \in Nat
  <2>1. Excused(k) \subseteq Calls /\ Excused(k)' \subseteq Calls
    BY DEF Excused
  <2> QED BY <2>1, CallsAreCounted
<1>4. CountInv'
  BY <1>2, <1>3, MaxAttemptsAssumption DEF CountInv, Typed, TypeOK
<1> QED BY <1>1, <1>4

LEMMA ThrottleCheckStep ==
  ASSUME Typed, PassInv, CountInv, NEW c \in Calls,
         NEW e \in Emails, NEW p \in Passwords, LoginCheck(c, e, p)
  PROVE  PassInv' /\ CountInv'
<1>1. /\ pc[c] = "idle"
      /\ mail' = [mail EXCEPT ![c] = e]
      /\ UNCHANGED <<attempts, overlapped, wrong>>
  BY DEF LoginCheck, Step, throttleHistory
<1>2. \/ blind' = blind /\ (pc' = [pc EXCEPT ![c] = "lookup"]
                              => attempts[EmailKey[e]] < MaxAttempts)
      \/ blind' = blind \cup {c}
  <2>1. attempts[EmailKey[e]] \in Nat
    BY KeyIsTyped DEF Typed, TypeOK
  <2>2. CASE LockedOut(EmailKey[e])
    BY <2>2 DEF LoginCheck, Step, Typed, TypeOK
  <2>3. CASE ~LockedOut(EmailKey[e])
    BY <2>1, <2>3, MaxAttemptsAssumption DEF LoginCheck, LockedOut
  <2> QED BY <2>2, <2>3
<1>3. PICK to \in {"lookup", "rejected"} : pc' = [pc EXCEPT ![c] = to]
  BY DEF LoginCheck, Step
<1>4. PassInv'
  BY <1>1, <1>2, <1>3 DEF PassInv, Key, Typed, TypeOK
<1>5. ASSUME NEW k \in Keys
      PROVE  /\ Cardinality(Excused(k)) \in Nat
             /\ Cardinality(Excused(k)') \in Nat
             /\ Cardinality(Excused(k)) <= Cardinality(Excused(k)')
  <2>1. Excused(k) \subseteq Excused(k)' /\ Excused(k)' \subseteq Calls
    BY <1>1, <1>2, <1>3 DEF Excused, Typed, TypeOK
  <2> QED BY <2>1, CallsAreCounted
<1>6. CountInv'
  BY <1>1, <1>5, MaxAttemptsAssumption DEF CountInv, Typed, TypeOK
<1> QED BY <1>4, <1>6

LEMMA ThrottleCountStep ==
  ASSUME Typed, PassInv, CountInv, NEW c \in Calls, LoginCount(c)
  PROVE  PassInv' /\ CountInv'
<1>1. /\ pc[c] = "count"
      /\ pc' = [pc EXCEPT ![c] = "rejected"]
      /\ UNCHANGED mail
      /\ Key(c) \in Keys
  BY KeyIsTyped DEF LoginCount, Step, callVars, Key, Typed, TypeOK, LoggingIn
<1>2. wrong' = [wrong EXCEPT ![Key(c)] = wrong[Key(c)] + 1]
  BY DEF LoginCount
<1>3. \/ /\ attempts' = [attempts EXCEPT ![Key(c)] = attempts[Key(c)] + 1]
         /\ overlapped' = overlapped \cup
              {d \in Calls \ {c} : pc[d] \in LoggingIn /\ Key(d) = Key(c)}
         /\ blind' = blind
      \/ /\ blind' = blind \cup {c}
         /\ UNCHANGED <<attempts, overlapped>>
  BY DEF LoginCount
<1>4. PassInv'
  <2> SUFFICES ASSUME NEW d \in Calls, pc'[d] \in {"lookup", "count"},
                      d \notin overlapped' \cup blind'
               PROVE  attempts'[Key(d)] < MaxAttempts
    BY <1>1 DEF PassInv, Key
  <2>1. d # c /\ pc[d] = pc'[d] /\ d \notin overlapped \cup blind
    BY <1>1, <1>3 DEF Typed, TypeOK
  <2>2. Key(d) \in Keys /\ attempts[Key(d)] < MaxAttempts
    BY <2>1, KeyIsTyped DEF PassInv, Key, Typed, TypeOK, LoggingIn
  <2>3. CASE UNCHANGED attempts
    BY <2>2, <2>3
  <2>4. CASE ~UNCHANGED attempts
    <3>1. Key(d) # Key(c)
      BY <1>3, <2>1, <2>4 DEF LoggingIn
    <3> QED BY <1>3, <2>2, <2>4, <3>1 DEF Typed, TypeOK
  <2> QED BY <2>3, <2>4
<1>5. ASSUME NEW k \in Keys
      PROVE  /\ Cardinality(Excused(k)) \in Nat
             /\ Cardinality(Excused(k)') \in Nat
             /\ Cardinality(Excused(k)) <= Cardinality(Excused(k)')
  <2>1. Excused(k) \subseteq Excused(k)' /\ Excused(k)' \subseteq Calls
    BY <1>1, <1>3 DEF Excused, Typed, TypeOK
  <2> QED BY <2>1, CallsAreCounted
<1>6. ASSUME c \in overlapped' \cup blind', NEW k \in Keys, k = Key(c)
      PROVE  Cardinality(Excused(k)) + 1 <= Cardinality(Excused(k)')
  <2> DEFINE D == Excused(k)
  <2>1. D \subseteq Calls /\ c \notin D
    BY <1>1 DEF Excused
  <2>2. IsFiniteSet(D) /\ Cardinality(D) \in Nat
    BY <2>1, CallsAreCounted
  <2>3. Cardinality(D \cup {c}) = Cardinality(D) + 1
    BY <2>1, <2>2, FS_AddElement
  <2>4. D \cup {c} \subseteq Excused(k)' /\ Excused(k)' \subseteq Calls
    BY <1>1, <1>3, <1>6 DEF Excused, Key, Typed, TypeOK
  <2> HIDE DEF D
  <2>5. Cardinality(D \cup {c}) <= Cardinality(Excused(k)')
    BY <2>4, CallsAreCounted
  <2> QED BY <2>3, <2>5 DEF D
<1>7. c \notin overlapped' \cup blind' =>
        /\ attempts[Key(c)] < MaxAttempts
        /\ attempts' = [attempts EXCEPT ![Key(c)] = attempts[Key(c)] + 1]
  BY <1>1, <1>3 DEF PassInv
<1>8. CountInv'
  <2> SUFFICES ASSUME NEW k \in Keys
               PROVE  /\ wrong'[k] <= attempts'[k] + Cardinality(Excused(k)')
                      /\ wrong'[k] <= MaxAttempts + Cardinality(Excused(k)')
    BY DEF CountInv
  <2>1. /\ wrong[k] \in Nat /\ attempts[k] \in Nat
        /\ wrong[k] <= attempts[k] + Cardinality(Excused(k))
        /\ wrong[k] <= MaxAttempts + Cardinality(Excused(k))
    BY DEF CountInv, Typed, TypeOK
  <2>2. attempts'[k] = attempts[k] \/ attempts'[k] = attempts[k] + 1
    BY <1>3, <2>1 DEF Typed, TypeOK
  <2>3. CASE k # Key(c)
    <3>1. wrong'[k] = wrong[k]
      BY <1>2, <2>3 DEF Typed, TypeOK
    <3> QED BY <1>5, <2>1, <2>2, <3>1, MaxAttemptsAssumption
  <2>4. CASE k = Key(c)
    <3>1. wrong'[k] = wrong[k] + 1
      BY <1>2, <2>4 DEF Typed, TypeOK
    <3>2. CASE c \in overlapped' \cup blind'
      BY <1>5, <1>6, <2>1, <2>2, <2>4, <3>1, <3>2, MaxAttemptsAssumption
    <3>3. CASE c \notin overlapped' \cup blind'
      <4>1. attempts[k] < MaxAttempts /\ attempts'[k] = attempts[k] + 1
        BY <1>7, <2>4, <3>3 DEF Typed, TypeOK
      <4> QED BY <1>5, <2>1, <3>1, <4>1, MaxAttemptsAssumption
    <3> QED BY <3>2, <3>3
  <2> QED BY <2>3, <2>4
<1> QED BY <1>4, <1>8

\* The counter is deleted, with the wrong passwords that it counted.
LEMMA ThrottleResetStep ==
  ASSUME Typed, PassInv, CountInv, NEW k \in Keys,
         attempts' = [attempts EXCEPT ![k] = 0],
         wrong' = [wrong EXCEPT ![k] = 0],
         \A d \in Calls : /\ pc[d] = "rejected" => pc'[d] = "rejected"
                          /\ pc'[d] \in {"lookup", "count"} => pc'[d] = pc[d],
         UNCHANGED <<mail, overlapped, blind>>
  PROVE  PassInv' /\ CountInv'
<1>1. \A j \in Keys : attempts'[j] <= attempts[j]
  BY DEF Typed, TypeOK
<1>2. ASSUME NEW c \in Calls, pc'[c] \in {"lookup", "count"},
             c \notin overlapped \cup blind
      PROVE  attempts'[Key(c)] < MaxAttempts
  <2>1. Key(c) \in Keys
    BY <1>2, KeyIsTyped DEF Key, Typed, TypeOK, LoggingIn
  <2>2. attempts[Key(c)] < MaxAttempts
    BY <1>2 DEF PassInv
  <2> QED BY <1>1, <2>1, <2>2, MaxAttemptsAssumption DEF Typed, TypeOK
<1>3. PassInv'
  BY <1>2 DEF PassInv, Key
<1>4. ASSUME NEW j \in Keys
      PROVE  /\ Cardinality(Excused(j)) \in Nat
             /\ Cardinality(Excused(j)') \in Nat
             /\ Cardinality(Excused(j)) <= Cardinality(Excused(j)')
  <2>1. Excused(j) \subseteq Excused(j)' /\ Excused(j)' \subseteq Calls
    BY DEF Excused
  <2> QED BY <2>1, CallsAreCounted
<1>5. ASSUME NEW j \in Keys
      PROVE  /\ wrong'[j] <= attempts'[j] + Cardinality(Excused(j)')
             /\ wrong'[j] <= MaxAttempts + Cardinality(Excused(j)')
  <2>1. CASE j = k
    BY <1>4, <2>1, MaxAttemptsAssumption DEF Typed, TypeOK
  <2>2. CASE j # k
    BY <1>4, <2>2, MaxAttemptsAssumption DEF CountInv, Typed, TypeOK
  <2> QED BY <2>1, <2>2
<1> QED BY <1>3, <1>5 DEF CountInv

LEMMA ThrottleStep ==
  Typed /\ PassInv /\ CountInv /\ [Next]_vars => PassInv' /\ CountInv'
<1> SUFFICES ASSUME Typed, PassInv, CountInv, [Next]_vars
             PROVE  PassInv' /\ CountInv'
  OBVIOUS
<1>1. ASSUME UNCHANGED <<attempts, overlapped, blind, wrong, pc, mail>>
      PROVE  PassInv' /\ CountInv'
  <2>1. \A k : Excused(k)' = Excused(k)
    BY <1>1 DEF Excused
  <2> QED BY <1>1, <2>1 DEF PassInv, CountInv, Key
<1>2. CASE UNCHANGED vars
  BY <1>1, <1>2 DEF vars, throttleHistory, callVars
<1>3. ASSUME NEW k \in Keys, LockoutEnds(k) PROVE PassInv' /\ CountInv'
  <2>1. UNCHANGED <<pc, mail, overlapped, blind>>
    BY <1>3 DEF LockoutEnds, callVars
  <2>2. /\ attempts' = [attempts EXCEPT ![k] = 0]
        /\ wrong' = [wrong EXCEPT ![k] = 0]
    BY <1>3 DEF LockoutEnds
  <2> QED BY <2>1, <2>2, ThrottleResetStep
<1>4. ASSUME NEW c \in Calls, LoginClear(c) PROVE PassInv' /\ CountInv'
  <2>1. /\ pc[c] = "clear"
        /\ pc' = [pc EXCEPT ![c] = "issue"]
        /\ UNCHANGED <<mail, overlapped, blind>>
    BY <1>4 DEF LoginClear, Step, callVars
  <2>2. /\ pc[c] # "rejected" /\ pc'[c] \notin {"lookup", "count"}
        /\ \A d \in Calls \ {c} : pc'[d] = pc[d] /\ mail'[d] = mail[d]
    BY <2>1 DEF Typed, TypeOK
  <2>3. CASE UNCHANGED <<attempts, wrong>>
    BY <2>1, <2>2, <2>3, ThrottleUnchanged
  <2>4. CASE /\ attempts' = [attempts EXCEPT ![Key(c)] = 0]
             /\ wrong' = [wrong EXCEPT ![Key(c)] = 0]
    <3>1. Key(c) \in Keys
      BY <2>1, KeyIsTyped DEF Key, Typed, TypeOK, LoggingIn
    <3>2. \A d \in Calls : /\ pc[d] = "rejected" => pc'[d] = "rejected"
                           /\ pc'[d] \in {"lookup", "count"} => pc'[d] = pc[d]
      BY <2>2
    <3> QED BY <2>1, <2>4, <3>1, <3>2, ThrottleResetStep
  <2> QED BY <1>4, <2>3, <2>4 DEF LoginClear
<1>5. ASSUME NEW c \in Calls, EmailStep(c) PROVE PassInv' /\ CountInv'
  <2>1. /\ pc[c] # "rejected" /\ pc'[c] \notin {"lookup", "count"}
        /\ \A d \in Calls \ {c} : pc'[d] = pc[d] /\ mail'[d] = mail[d]
    BY <1>5 DEF EmailStep, Register, Insert, InsertFails, ChangeEmail, Rename,
                RenameFails, Step, callVars, Typed, TypeOK
  <2>2. UNCHANGED <<attempts, overlapped, blind, wrong>>
    BY <1>5 DEF EmailStep, Register, Insert, InsertFails, ChangeEmail, Rename,
                RenameFails, throttleHistory
  <2> QED BY <2>1, <2>2, ThrottleUnchanged
<1>6. ASSUME NEW c \in Calls, PasswordStep(c) PROVE PassInv' /\ CountInv'
  <2>1. /\ pc[c] # "rejected" /\ pc'[c] \notin {"lookup", "count"}
        /\ \A d \in Calls \ {c} : pc'[d] = pc[d] /\ mail'[d] = mail[d]
    BY <1>6 DEF PasswordStep, ChangePassword, PasswordRead, PasswordRevoke,
                PasswordCommit, Step, callVars, Typed, TypeOK
  <2>2. UNCHANGED <<attempts, overlapped, blind, wrong>>
    BY <1>6 DEF PasswordStep, ChangePassword, PasswordRead, PasswordRevoke,
                PasswordCommit, throttleHistory
  <2> QED BY <2>1, <2>2, ThrottleUnchanged
<1>7. ASSUME NEW c \in Calls,
             \/ \E a \in Accounts : LoginLookup(c, a)
             \/ LoginUnknown(c) \/ LoginIssue(c)
      PROVE  PassInv' /\ CountInv'
  <2>1. /\ pc[c] # "rejected"
        /\ pc'[c] \in {"lookup", "count"} => pc[c] \in {"lookup", "count"}
        /\ UNCHANGED mail
        /\ \A d \in Calls \ {c} : pc'[d] = pc[d]
    BY <1>7 DEF LoginLookup, LoginUnknown, LoginIssue, Step, callVars, Typed,
                TypeOK
  <2>2. UNCHANGED <<attempts, overlapped, blind, wrong>>
    BY <1>7 DEF LoginLookup, LoginUnknown, LoginIssue, throttleHistory
  <2> QED BY <2>1, <2>2, ThrottleUnchanged
<1> QED BY <1>2, <1>3, <1>4, <1>5, <1>6, <1>7, CallSteps, ThrottleCheckStep,
           ThrottleCountStep
        DEF Next, LoginStep

\* However many logins guess at once, the counter lets no more wrong
\* passwords through than the limit and one for each login that was
\* overtaken or did not reach Redis.
THEOREM GuessesAreLimited == Spec => []ThrottleHolds
<1>1. Init => PassInv /\ CountInv
  <2> SUFFICES ASSUME Init PROVE PassInv /\ CountInv
    OBVIOUS
  <2>1. PassInv
    BY DEF Init, PassInv
  <2>2. ASSUME NEW k \in Keys
        PROVE  /\ wrong[k] = 0
               /\ attempts[k] = 0
               /\ Cardinality(Excused(k)) \in Nat
    <3>1. Excused(k) \subseteq Calls
      BY DEF Excused
    <3> QED BY <3>1, CallsAreCounted DEF Init
  <2> QED BY <2>1, <2>2, MaxAttemptsAssumption DEF CountInv
<1>2. Typed /\ CountInv => ThrottleHolds
  <2> SUFFICES ASSUME Typed, CountInv, NEW k \in Keys
               PROVE  wrong[k] <= MaxAttempts + Cardinality(
                        {c \in overlapped \cup blind : EmailKey[mail[c]] = k})
    BY DEF ThrottleHolds
  <2> DEFINE S == {c \in overlapped \cup blind : EmailKey[mail[c]] = k}
  <2>1. Excused(k) \subseteq S /\ S \subseteq Calls
    BY DEF Excused, Typed, TypeOK
  <2> HIDE DEF S
  <2>2. /\ Cardinality(Excused(k)) <= Cardinality(S)
        /\ Cardinality(Excused(k)) \in Nat /\ Cardinality(S) \in Nat
    BY <2>1, CallsAreCounted
  <2>3. wrong[k] <= MaxAttempts + Cardinality(Excused(k)) /\ wrong[k] \in Nat
    BY DEF CountInv, Typed, TypeOK
  <2>4. wrong[k] <= MaxAttempts + Cardinality(S)
    BY <2>2, <2>3, MaxAttemptsAssumption
  <2> QED BY <2>4 DEF S
<1> QED BY <1>1, <1>2, ThrottleStep, TypesHold, PTL DEF Spec
=============================================================================
