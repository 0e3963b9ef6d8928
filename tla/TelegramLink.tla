---------------------------- MODULE TelegramLink ----------------------------
(***************************************************************************)
(* How users.telegram_chat_id comes to be set: the web application issues  *)
(* a one-time token (generate_telegram_link), and the bot's start_handler  *)
(* redeems the token that "/start <token>" carries.  Each element of       *)
(* Starts is one such message; their handlers run concurrently.            *)
(***************************************************************************)
EXTENDS Naturals, FiniteSets

CONSTANTS Users, Chats, Tokens, Starts,
          LinkFaults,  \* the handlers may fail, or stop, between two steps
          None         \* NULL, an absent key

ASSUME LinkFaultsAssumption == LinkFaults \in BOOLEAN
ASSUME LinkNoneAssumption == None \notin Users \cup Chats

VARIABLES
  chat,       \* users.telegram_chat_id, a unique column
  blocked,    \* chats that have blocked the bot
  issued,     \* tokens handed out so far
  tokenUser,  \* Redis: tg_link:<token>
  startPc,    \* "idle", "redeemed", "load", "linked" or "done"
  startUser, startChat,
  redeemed    \* history: the messages that found a value under the token

linkVars == <<chat, blocked, issued, tokenUser, startPc, startUser, startChat,
              redeemed>>

LinkInit ==
  /\ chat \in [Users -> Chats \cup {None}]
  /\ \A u, v \in Users : chat[u] = chat[v] => u = v \/ chat[u] = None
  /\ blocked = {}
  /\ issued = {}
  /\ tokenUser = [k \in Tokens |-> None]
  /\ startPc = [l \in Starts |-> "idle"]
  /\ startUser = [l \in Starts |-> None]
  /\ startChat = [l \in Starts |-> None]
  /\ redeemed = [k \in Tokens |-> {}]

LinkTypeOK ==
  /\ chat \in [Users -> Chats \cup {None}]
  /\ blocked \subseteq Chats
  /\ issued \subseteq Tokens
  /\ tokenUser \in [Tokens -> Users \cup {None}]
  /\ startPc \in [Starts -> {"idle", "redeemed", "load", "linked", "done"}]
  /\ startUser \in [Starts -> Users \cup {None}]
  /\ startChat \in [Starts -> Chats \cup {None}]
  /\ redeemed \in [Tokens -> SUBSET Starts]
  /\ \A l \in Starts : startPc[l] \in {"redeemed", "load"} =>
       startUser[l] \in Users /\ startChat[l] \in Chats

StartStep(l, from, to) ==
  /\ startPc[l] = from
  /\ startPc' = [startPc EXCEPT ![l] = to]

GenerateLink(u, k) ==
  /\ k \notin issued
  /\ issued' = issued \cup {k}
  /\ tokenUser' = [tokenUser EXCEPT ![k] = u]
  /\ UNCHANGED <<chat, blocked, startPc, startUser, startChat, redeemed>>

\* The 15 minutes of the token pass.
TokenExpires(k) ==
  /\ tokenUser[k] # None
  /\ tokenUser' = [tokenUser EXCEPT ![k] = None]
  /\ UNCHANGED <<chat, blocked, issued, startPc, startUser, startChat,
                 redeemed>>

\* Mutant of Getdel: GET.
Getdel_kept(k) == UNCHANGED tokenUser

Getdel(k) == tokenUser' = [tokenUser EXCEPT ![k] = None]

\* A chat sends /start with a token that is gone.
StartExpired(l, k) ==
  /\ StartStep(l, "idle", "done")
  /\ k \in issued
  /\ tokenUser[k] = None
  /\ UNCHANGED <<chat, blocked, issued, tokenUser, startUser, startChat,
                 redeemed>>

\* A chat sends /start with a live token, which also unblocks the bot.
StartRedeem(l, c, k) ==
  /\ StartStep(l, "idle", "redeemed")
  /\ tokenUser[k] # None
  /\ startUser' = [startUser EXCEPT ![l] = tokenUser[k]]
  /\ startChat' = [startChat EXCEPT ![l] = c]
  /\ Getdel(k)
  /\ redeemed' = [redeemed EXCEPT ![k] = @ \cup {l}]
  /\ blocked' = blocked \ {c}
  /\ UNCHANGED <<chat, issued>>

\* The user is loaded; one that is linked to this chat already needs no write.
StartLoad(l) ==
  /\ StartStep(l, "redeemed",
               IF chat[startUser[l]] = startChat[l] THEN "done" ELSE "load")
  /\ UNCHANGED <<chat, blocked, issued, tokenUser, startUser, startChat,
                 redeemed>>

\* Mutant of Taken: no unique constraint on the column.
Taken_never(u, c) == FALSE

Taken(u, c) == \E v \in Users \ {u} : chat[v] = c

\* db_transaction commits; the bot answers that the account is connected.
StartCommit(l) ==
  /\ StartStep(l, "load", "linked")
  /\ ~Taken(startUser[l], startChat[l])
  /\ chat' = [chat EXCEPT ![startUser[l]] = startChat[l]]
  /\ UNCHANGED <<blocked, issued, tokenUser, startUser, startChat, redeemed>>

\* IntegrityError: another user has this chat.
StartConflict(l) ==
  /\ StartStep(l, "load", "done")
  /\ Taken(startUser[l], startChat[l])
  /\ UNCHANGED <<chat, blocked, issued, tokenUser, startUser, startChat,
                 redeemed>>

StartFails(l) ==
  /\ LinkFaults
  /\ startPc[l] \in {"redeemed", "load"}
  /\ startPc' = [startPc EXCEPT ![l] = "done"]
  /\ UNCHANGED <<chat, blocked, issued, tokenUser, startUser, startChat,
                 redeemed>>

\* The owner of the chat blocks the bot.
Block(c) ==
  /\ c \notin blocked
  /\ blocked' = blocked \cup {c}
  /\ UNCHANGED <<chat, issued, tokenUser, startPc, startUser, startChat,
                 redeemed>>

LinkNext ==
  \/ \E u \in Users, k \in Tokens : GenerateLink(u, k)
  \/ \E k \in Tokens : TokenExpires(k)
  \/ \E l \in Starts, k \in Tokens :
       StartExpired(l, k) \/ \E c \in Chats : StartRedeem(l, c, k)
  \/ \E l \in Starts :
       StartLoad(l) \/ StartCommit(l) \/ StartConflict(l) \/ StartFails(l)
  \/ \E c \in Chats : Block(c)

\* A token links at most one chat: of the messages that carry it, one finds
\* the user id under it, however their handlers interleave.
TokenRedeemedOnce ==
  \A k \in Tokens : \A l, m \in redeemed[k] : l = m

\* A chat receives the alerts of one user only.
ChatIsUnique ==
  \A u, v \in Users : chat[u] = chat[v] /\ chat[u] # None => u = v
=============================================================================
