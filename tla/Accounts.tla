------------------------------- MODULE Accounts -------------------------------
(***************************************************************************)
(* Accounts and passwords: registration (by anybody, by a superuser, at    *)
(* startup), the change of an email address, login with its throttle, and  *)
(* the change of a password, which ends the sessions of the account.       *)
(*                                                                         *)
(* Every call is a request of its own.  A transaction is one step at its   *)
(* commit; what was read before is kept by the call.  Every account is     *)
(* local and active: nothing in the service makes another.  Which sessions *)
(* a rotation continues is the subject of TokenRotation.                   *)
(***************************************************************************)
EXTENDS Naturals, FiniteSets

CONSTANTS
  Accounts,     \* ids of users
  Emails,       \* as they are stored and looked up
  EmailKey,     \* what get_email_hash makes one key of, whatever the case
  Passwords,
  Calls,        \* requests
  MaxAttempts,  \* MAX_LOGIN_ATTEMPTS
  AccountFaults,  \* {} or {"redis"}: a command on the counter can fail
  None

ASSUME EmailKeyAssumption == EmailKey \in [Emails -> Emails]
ASSUME MaxAttemptsAssumption == MaxAttempts \in Nat \ {0}
ASSUME AccountFaultsAssumption == AccountFaults \subseteq {"redis"}
ASSUME CallsAssumption == IsFiniteSet(Calls)
ASSUME AccountNoneAssumption == None \notin Accounts \cup Emails \cup Passwords

VARIABLES
  email,     \* users.email, None if there is no such user
  hash,      \* users.password_hash, as the password that it verifies
  attempts,  \* Redis: auth:ratelimit:login:<hash>
  session,   \* refresh row of a login: "none", "active" or "revoked"
  pc, mail, acc, pass, seen,  \* of a call; seen is the password it loaded
  revoking,  \* the rows that the UPDATE of a password change found
  \* history, read by properties only:
  raced,      \* calls whose email was taken between their check and write
  overlapped, \* logins that let another one be counted before them
  blind,      \* logins that met a Redis failure
  wrong,      \* wrong passwords since the counter was last reset
  straddling  \* logins that overlap the revocation of a password change

callVars == <<mail, acc, pass, seen>>
emailHistory == raced
throttleHistory == <<overlapped, blind, wrong>>
vars == <<email, hash, attempts, session, pc, callVars, revoking,
          emailHistory, throttleHistory, straddling>>

Keys == {EmailKey[e] : e \in Emails}
Key(c) == EmailKey[mail[c]]

Init ==
  /\ email \in [Accounts -> Emails \cup {None}]
  /\ \A a, b \in Accounts : email[a] = email[b] => a = b \/ email[a] = None
  /\ hash \in [Accounts -> Passwords \cup {None}]
  /\ \A a \in Accounts : hash[a] = None <=> email[a] = None
  /\ attempts = [k \in Keys |-> 0]
  /\ session = [c \in Calls |-> "none"]
  /\ pc = [c \in Calls |-> "idle"]
  /\ mail = [c \in Calls |-> None]
  /\ acc = [c \in Calls |-> None]
  /\ pass = [c \in Calls |-> None]
  /\ seen = [c \in Calls |-> None]
  /\ revoking = [c \in Calls |-> {}]
  /\ raced = {}
  /\ overlapped = {}
  /\ blind = {}
  /\ wrong = [k \in Keys |-> 0]
  /\ straddling = {}

LoggingIn == {"lookup", "count", "clear"}
CallPc ==
  LoggingIn \cup {"idle", "insert", "seed", "rename", "issue", "read",
                  "revoke", "commit", "done", "rejected", "error"}

TypeOK ==
  /\ email \in [Accounts -> Emails \cup {None}]
  /\ hash \in [Accounts -> Passwords \cup {None}]
  /\ attempts \in [Keys -> Nat]
  /\ session \in [Calls -> {"none", "active", "revoked"}]
  /\ pc \in [Calls -> CallPc]
  /\ mail \in [Calls -> Emails \cup {None}]
  /\ acc \in [Calls -> Accounts \cup {None}]
  /\ pass \in [Calls -> Passwords \cup {None}]
  /\ seen \in [Calls -> Passwords \cup {None}]
  /\ revoking \in [Calls -> SUBSET Calls]
  /\ raced \subseteq Calls
  /\ overlapped \subseteq Calls
  /\ blind \subseteq Calls
  /\ wrong \in [Keys -> Nat]
  /\ straddling \subseteq Calls
  /\ \A a \in Accounts : email[a] # None => hash[a] \in Passwords
  /\ \A c \in Calls : pc[c] \in LoggingIn => mail[c] \in Emails
  /\ \A c \in Calls :
       pc[c] \in {"rename", "issue", "read", "revoke", "commit"}
         => acc[c] \in Accounts

Step(c, from, to) == pc[c] = from /\ pc' = [pc EXCEPT ![c] = to]

Taken(e) == \E a \in Accounts : email[a] = e

\* Calls that have found e free and not written it yet.
Writers(e) ==
  {c \in Calls : mail[c] = e /\ pc[c] \in {"insert", "seed", "rename"}}

-----------------------------------------------------------------------------
(* register, create_user, create_first_superuser and update_user *)

\* Mutant of Free: nobody looks for the email.
Free_always(e) == TRUE

Free(e) == ~Taken(e)

\* get_by_email, and a hash that is computed in a thread.  A superuser that
\* exists is not created again, anybody else gets a 409.
Register(c, e, p, next) ==
  /\ next \in {"insert", "seed"}
  /\ Step(c, "idle", IF Free(e) THEN next ELSE "rejected")
  /\ mail' = [mail EXCEPT ![c] = e]
  /\ pass' = [pass EXCEPT ![c] = p]
  /\ UNCHANGED <<email, hash, attempts, session, acc, seen, revoking,
                 emailHistory, throttleHistory, straddling>>

\* Mutant of Insert: the password is dropped.
Insert_unhashed(c, a) ==
  /\ pc[c] \in {"insert", "seed"}
  /\ pc' = [pc EXCEPT ![c] = "done"]
  /\ ~Taken(mail[c])
  /\ email[a] = None
  /\ email' = [email EXCEPT ![a] = mail[c]]
  /\ UNCHANGED <<hash, attempts, session, callVars, revoking, emailHistory,
                 throttleHistory, straddling>>

Insert(c, a) ==
  /\ pc[c] \in {"insert", "seed"}
  /\ pc' = [pc EXCEPT ![c] = "done"]
  /\ ~Taken(mail[c])
  /\ email[a] = None
  /\ email' = [email EXCEPT ![a] = mail[c]]
  /\ hash' = [hash EXCEPT ![a] = pass[c]]
  /\ raced' = raced \cup (Writers(mail[c]) \ {c})
  /\ UNCHANGED <<attempts, session, callVars, revoking, throttleHistory,
                 straddling>>

\* The unique index: an unhandled error, but for the first superuser.
InsertFails(c) ==
  /\ \/ Step(c, "insert", "error")
     \/ Step(c, "seed", "rejected")
  /\ Taken(mail[c])
  /\ UNCHANGED <<email, hash, attempts, session, callVars, revoking,
                 emailHistory, throttleHistory, straddling>>

\* update_user with an email that is not the user's.
ChangeEmail(c, a, e) ==
  /\ Step(c, "idle", IF Free(e) THEN "rename" ELSE "rejected")
  /\ email[a] \notin {None, e}
  /\ mail' = [mail EXCEPT ![c] = e]
  /\ acc' = [acc EXCEPT ![c] = a]
  /\ UNCHANGED <<email, hash, attempts, session, pass, seen, revoking,
                 emailHistory, throttleHistory, straddling>>

TakenByOther(c) == \E b \in Accounts \ {acc[c]} : email[b] = mail[c]

Rename(c) ==
  /\ Step(c, "rename", "done")
  /\ ~TakenByOther(c)
  /\ email' = [email EXCEPT ![acc[c]] = mail[c]]
  /\ raced' = raced \cup (Writers(mail[c]) \ {c})
  /\ UNCHANGED <<hash, attempts, session, callVars, revoking, throttleHistory,
                 straddling>>

RenameFails(c) ==
  /\ Step(c, "rename", "error")
  /\ TakenByOther(c)
  /\ UNCHANGED <<email, hash, attempts, session, callVars, revoking,
                 emailHistory, throttleHistory, straddling>>

-----------------------------------------------------------------------------
(* login *)

\* Mutant of LockedOut: one attempt more.
LockedOut_late(k) == attempts[k] > MaxAttempts

LockedOut(k) == attempts[k] >= MaxAttempts

\* get_login_attempts answers 0 when Redis fails.
LoginCheck(c, e, p) ==
  /\ \/ /\ Step(c, "idle", IF LockedOut(EmailKey[e]) THEN "rejected"
                                                     ELSE "lookup")
        /\ UNCHANGED blind
     \/ /\ "redis" \in AccountFaults
        /\ Step(c, "idle", "lookup")
        /\ blind' = blind \cup {c}
  /\ mail' = [mail EXCEPT ![c] = e]
  /\ pass' = [pass EXCEPT ![c] = p]
  /\ UNCHANGED <<email, hash, attempts, session, acc, seen, revoking,
                 emailHistory, overlapped, wrong, straddling>>

\* A failure that is not counted.
LoginUnknown(c) ==
  /\ Step(c, "lookup", "rejected")
  /\ ~Taken(mail[c])
  /\ UNCHANGED <<email, hash, attempts, session, callVars, revoking,
                 emailHistory, throttleHistory, straddling>>

\* Password changes of account a that have read the sessions they will end.
Revoking(a) == {d \in Calls : acc[d] = a /\ pc[d] \in {"revoke", "commit"}}

\* The row is loaded and its hash verified in a thread.
LoginLookup(c, a) ==
  /\ Step(c, "lookup", IF pass[c] = hash[a] THEN "clear" ELSE "count")
  /\ email[a] = mail[c]
  /\ acc' = [acc EXCEPT ![c] = a]
  /\ seen' = [seen EXCEPT ![c] = hash[a]]
  /\ straddling' = IF Revoking(a) # {} THEN straddling \cup {c} ELSE straddling
  /\ UNCHANGED <<email, hash, attempts, session, mail, pass, revoking,
                 emailHistory, throttleHistory>>

\* INCR and EXPIRE; when Redis fails, nothing is counted.
LoginCount(c) ==
  /\ Step(c, "count", "rejected")
  /\ wrong' = [wrong EXCEPT ![Key(c)] = @ + 1]
  /\ \/ /\ attempts' = [attempts EXCEPT ![Key(c)] = @ + 1]
        /\ overlapped' = overlapped \cup
             {d \in Calls \ {c} : pc[d] \in LoggingIn /\ Key(d) = Key(c)}
        /\ UNCHANGED blind
     \/ /\ "redis" \in AccountFaults
        /\ blind' = blind \cup {c}
        /\ UNCHANGED <<attempts, overlapped>>
  /\ UNCHANGED <<email, hash, session, callVars, revoking, emailHistory,
                 straddling>>

\* The counter is deleted, or stays when Redis fails.
LoginClear(c) ==
  /\ Step(c, "clear", "issue")
  /\ \/ /\ attempts' = [attempts EXCEPT ![Key(c)] = 0]
        /\ wrong' = [wrong EXCEPT ![Key(c)] = 0]
     \/ /\ "redis" \in AccountFaults
        /\ UNCHANGED <<attempts, wrong>>
  /\ UNCHANGED <<email, hash, session, callVars, revoking, emailHistory,
                 overlapped, blind, straddling>>

\* issue_token_pair and the commit
LoginIssue(c) ==
  /\ Step(c, "issue", "done")
  /\ session' = [session EXCEPT ![c] = "active"]
  /\ UNCHANGED <<email, hash, attempts, callVars, revoking, emailHistory,
                 throttleHistory, straddling>>

\* LOGIN_LOCKOUT_MINUTES have passed since the last failure.
LockoutEnds(k) ==
  /\ attempts[k] > 0
  /\ attempts' = [attempts EXCEPT ![k] = 0]
  /\ wrong' = [wrong EXCEPT ![k] = 0]
  /\ UNCHANGED <<email, hash, session, pc, callVars, revoking, emailHistory,
                 overlapped, blind, straddling>>

-----------------------------------------------------------------------------
(* change_password *)

\* The user is loaded and the old password verified.
ChangePassword(c, a, old, new) ==
  /\ Step(c, "idle", IF old = hash[a] THEN "read" ELSE "rejected")
  /\ email[a] # None
  /\ acc' = [acc EXCEPT ![c] = a]
  /\ pass' = [pass EXCEPT ![c] = new]
  /\ UNCHANGED <<email, hash, attempts, session, mail, seen, revoking,
                 emailHistory, throttleHistory, straddling>>

Sessions(a) == {d \in Calls : acc[d] = a /\ session[d] = "active"}

\* get_active_by_user: without a row there is no UPDATE.
PasswordRead(c) ==
  /\ Step(c, "read", IF Sessions(acc[c]) = {} THEN "commit" ELSE "revoke")
  /\ straddling' = straddling \cup
       {d \in Calls : acc[d] = acc[c] /\ pc[d] \in {"clear", "issue"}}
  /\ UNCHANGED <<email, hash, attempts, session, callVars, revoking,
                 emailHistory, throttleHistory>>

\* Mutant of ToRevoke: no row.
ToRevoke_none(a) == {}

ToRevoke(a) == Sessions(a)

\* revoke_all_user begins: the rows it will change.
PasswordRevoke(c) ==
  /\ Step(c, "revoke", "commit")
  /\ revoking' = [revoking EXCEPT ![c] = ToRevoke(acc[c])]
  /\ UNCHANGED <<email, hash, attempts, session, callVars, emailHistory,
                 throttleHistory, straddling>>

PasswordCommit(c) ==
  /\ Step(c, "commit", "done")
  /\ hash' = [hash EXCEPT ![acc[c]] = pass[c]]
  /\ session' = [d \in Calls |->
       IF d \in revoking[c] THEN "revoked" ELSE session[d]]
  /\ UNCHANGED <<email, attempts, callVars, revoking, emailHistory,
                 throttleHistory, straddling>>

-----------------------------------------------------------------------------
CallStep(c) ==
  \/ \E e \in Emails, p \in Passwords :
       \/ LoginCheck(c, e, p)
       \/ \E next \in {"insert", "seed"} : Register(c, e, p, next)
  \/ \E a \in Accounts :
       \/ Insert(c, a) \/ LoginLookup(c, a)
       \/ \E e \in Emails : ChangeEmail(c, a, e)
       \/ \E old, new \in Passwords : ChangePassword(c, a, old, new)
  \/ InsertFails(c) \/ Rename(c) \/ RenameFails(c)
  \/ LoginUnknown(c) \/ LoginCount(c) \/ LoginClear(c) \/ LoginIssue(c)
  \/ PasswordRead(c) \/ PasswordRevoke(c) \/ PasswordCommit(c)

Next ==
  \/ \E c \in Calls : CallStep(c)
  \/ \E k \in Keys : LockoutEnds(k)

Spec == Init /\ [][Next]_vars

-----------------------------------------------------------------------------
(* Safety *)

\* A registration or change of address ends in the error of the unique index,
\* which no handler turns into a 409, only if another call wrote the same
\* address between its check and its own write.
ErrorOnlyByOverlap == \A c \in Calls : pc[c] = "error" => c \in raced

\* The throttle lets MaxAttempts wrong passwords through, and beyond them one
\* at most for each login so far, right or wrong, that another overtook between
\* its check and its count, or that met a Redis failure.  Addresses that differ
\* in case share the counter; what it has let through in excess is not made up
\* for when it is reset.
ThrottleHolds ==
  \A k \in Keys :
    wrong[k] <= MaxAttempts +
      Cardinality({c \in overlapped \cup blind : EmailKey[mail[c]] = k})

\* After a password change, no session lives on that was opened with another
\* password, except by a login that overlapped the revocation.
OldPasswordSessionsEnd ==
  \A c \in Calls :
    session[c] = "active" => seen[c] = hash[acc[c]] \/ c \in straddling
=============================================================================
