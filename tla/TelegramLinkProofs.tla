-------------------------- MODULE TelegramLinkProofs --------------------------
(***************************************************************************)
(* Lemmas about the steps of TelegramLink, for every value of the          *)
(* constants.  AlertDeliveryProofs concludes from them, since the delivery *)
(* writes telegram_chat_id as well.                                        *)
(***************************************************************************)
EXTENDS TelegramLink, TLAPS

LEMMA LinkTypes == LinkTypeOK /\ [LinkNext]_linkVars => LinkTypeOK'
<1> SUFFICES ASSUME LinkTypeOK, [LinkNext]_linkVars PROVE LinkTypeOK'
  OBVIOUS
<1> USE DEF LinkTypeOK
<1>1. CASE UNCHANGED linkVars BY <1>1 DEF linkVars
<1>2. ASSUME NEW u \in Users, NEW k \in Tokens, GenerateLink(u, k)
      PROVE  LinkTypeOK'
  BY <1>2 DEF GenerateLink
<1>3. ASSUME NEW k \in Tokens, TokenExpires(k) PROVE LinkTypeOK'
  BY <1>3 DEF TokenExpires
<1>4. ASSUME NEW l \in Starts, NEW k \in Tokens, StartExpired(l, k)
      PROVE  LinkTypeOK'
  BY <1>4 DEF StartExpired, StartStep
<1>5. ASSUME NEW l \in Starts, NEW k \in Tokens, NEW c \in Chats,
             StartRedeem(l, c, k)
      PROVE  LinkTypeOK'
  BY <1>5 DEF StartRedeem, StartStep, Getdel
<1>6. ASSUME NEW l \in Starts,
             \/ StartLoad(l) \/ StartCommit(l)
             \/ StartConflict(l) \/ StartFails(l)
      PROVE  LinkTypeOK'
  <2>1. CASE StartLoad(l) BY <2>1 DEF StartLoad, StartStep
  <2>2. CASE StartCommit(l) BY <2>2 DEF StartCommit, StartStep
  <2>3. CASE StartConflict(l) BY <2>3 DEF StartConflict, StartStep
  <2>4. CASE StartFails(l) BY <2>4 DEF StartFails
  <2> QED BY <1>6, <2>1, <2>2, <2>3, <2>4
<1>7. ASSUME NEW c \in Chats, Block(c) PROVE LinkTypeOK'
  BY <1>7 DEF Block
<1> QED BY <1>1, <1>2, <1>3, <1>4, <1>5, <1>6, <1>7 DEF LinkNext

-----------------------------------------------------------------------------
(* A token is spent by the first message that finds it *)

TokenInv ==
  \A k \in Tokens :
    /\ redeemed[k] # {} => k \in issued /\ tokenUser[k] = None
    /\ tokenUser[k] # None => k \in issued
    /\ \A l, m \in redeemed[k] : l = m

LEMMA TokenStep == LinkTypeOK /\ TokenInv /\ [LinkNext]_linkVars => TokenInv'
<1> SUFFICES ASSUME LinkTypeOK, TokenInv, [LinkNext]_linkVars PROVE TokenInv'
  OBVIOUS
<1> USE DEF LinkTypeOK, TokenInv
<1>1. CASE UNCHANGED linkVars BY <1>1 DEF linkVars
<1>2. ASSUME NEW u \in Users, NEW k \in Tokens, GenerateLink(u, k)
      PROVE  TokenInv'
  BY <1>2 DEF GenerateLink
<1>3. ASSUME NEW k \in Tokens, TokenExpires(k) PROVE TokenInv'
  BY <1>3 DEF TokenExpires
<1>4. ASSUME NEW l \in Starts, NEW k \in Tokens, NEW c \in Chats,
             StartRedeem(l, c, k)
      PROVE  TokenInv'
  <2>1. redeemed[k] = {}
    BY <1>4 DEF StartRedeem
  <2>2. redeemed' = [redeemed EXCEPT ![k] = {l}]
    BY <1>4, <2>1 DEF StartRedeem
  <2> QED BY <1>4, <2>2 DEF StartRedeem, Getdel
<1>5. CASE UNCHANGED <<issued, tokenUser, redeemed>>
  BY <1>5
<1>6. ASSUME NEW l \in Starts, NEW k \in Tokens, StartExpired(l, k)
      PROVE  TokenInv'
  BY <1>5, <1>6 DEF StartExpired
<1>7. ASSUME NEW l \in Starts,
             \/ StartLoad(l) \/ StartCommit(l)
             \/ StartConflict(l) \/ StartFails(l)
      PROVE  TokenInv'
  BY <1>5, <1>7 DEF StartLoad, StartCommit, StartConflict, StartFails
<1>8. ASSUME NEW c \in Chats, Block(c) PROVE TokenInv'
  BY <1>5, <1>8 DEF Block
<1> QED BY <1>1, <1>2, <1>3, <1>4, <1>6, <1>7, <1>8 DEF LinkNext

LEMMA TokenInit == LinkInit => TokenInv
BY DEF LinkInit, TokenInv

-----------------------------------------------------------------------------
(* A chat serves one user *)

LEMMA ChatStep ==
  LinkTypeOK /\ ChatIsUnique /\ [LinkNext]_linkVars => ChatIsUnique'
<1> SUFFICES ASSUME LinkTypeOK, ChatIsUnique, [LinkNext]_linkVars
             PROVE  ChatIsUnique'
  OBVIOUS
<1>1. ASSUME NEW l \in Starts, StartCommit(l) PROVE ChatIsUnique'
  BY <1>1 DEF StartCommit, StartStep, Taken, ChatIsUnique, LinkTypeOK
<1>2. CASE UNCHANGED chat
  BY <1>2 DEF ChatIsUnique
<1> QED BY <1>1, <1>2
        DEF LinkNext, linkVars, GenerateLink, TokenExpires, StartExpired,
            StartRedeem, StartLoad, StartConflict, StartFails, Block

LEMMA ChatInit == LinkInit => ChatIsUnique
BY DEF LinkInit, ChatIsUnique
=============================================================================
