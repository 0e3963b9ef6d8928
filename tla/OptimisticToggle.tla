--------------------------- MODULE OptimisticToggle ---------------------------
(***************************************************************************)
(* The list of subscriptions in a browser, with the optimistic toggle of   *)
(* useSubscriptions: the cached list is changed before the PATCH is sent,  *)
(* restored from a snapshot when it fails, and fetched again when it is    *)
(* settled.  Other devices and the API work on the same rows.              *)
(***************************************************************************)
EXTENDS Subscriptions

CONSTANT NetworkFaults  \* {} or {"network"}: an answer or a fetch is lost

VARIABLES
  ui,        \* a toggle: "idle", "sent" or "settled"
  cache,     \* is_active of the rows in the cached list, None if not there
  snapshot,  \* previousSubscriptions of a toggle
  fetch,     \* the query: "none", "asked" or "read" (by the server)
  fetched,
  \* history, read by properties only:
  behind,    \* the rows were changed by others since the last fetch read them
  askedBy,   \* toggles under way when the fetch was asked for
  earlier,   \* toggles under way when a toggle was made: its snapshot has them
  overridden \* toggles under way that a later fetch, rollback or toggle undid

uiHistory == <<behind, askedBy, earlier, overridden>>
uiVars == <<ui, cache, snapshot, fetch, fetched, uiHistory>>
vars == <<subsVars, uiVars>>

\* GET answers with the rows of the user; deals belong to the system user.
View == [s \in Subs |->
  IF Exists(s) /\ ~row[s].imported THEN row[s].active ELSE None]

\* No list: of a toggle or a fetch that is over.
Unknown == [s \in Subs |-> None]

Init ==
  /\ SubsInit
  /\ ui = [c \in Calls |-> "idle"]
  /\ cache = View
  /\ snapshot = [c \in Calls |-> Unknown]
  /\ fetch = "none"
  /\ fetched = Unknown
  /\ behind = FALSE
  /\ askedBy = {}
  /\ earlier = [c \in Calls |-> {}]
  /\ overridden = {}

TypeOK ==
  /\ SubsTypeOK
  /\ ui \in [Calls -> {"idle", "sent", "settled"}]
  /\ cache \in [Subs -> BOOLEAN \cup {None}]
  /\ snapshot \in [Calls -> [Subs -> BOOLEAN \cup {None}]]
  /\ fetch \in {"none", "asked", "read"}
  /\ fetched \in [Subs -> BOOLEAN \cup {None}]
  /\ behind \in BOOLEAN
  /\ askedBy \subseteq Calls
  /\ earlier \in [Calls -> SUBSET Calls]
  /\ overridden \subseteq Calls

Sent == {c \in Calls : ui[c] = "sent"}

-----------------------------------------------------------------------------
\* Mutant of CancelQueries: a fetch under way goes on.
CancelQueries_not == UNCHANGED <<fetch, fetched>>

CancelQueries ==
  /\ fetch' = "none"
  /\ fetched' = Unknown

\* onMutate, and the PATCH is on its way.
Mutate(c, s, value) ==
  /\ Step(c, "idle", "sent")
  /\ cache[s] # None
  /\ target' = [target EXCEPT ![c] = s]
  /\ change' = [change EXCEPT ![c] = [active |-> value]]
  /\ ui' = [ui EXCEPT ![c] = "sent"]
  /\ CancelQueries
  /\ snapshot' = [snapshot EXCEPT ![c] = cache]
  /\ cache' = [cache EXCEPT ![s] = value]
  /\ earlier' = [earlier EXCEPT ![c] = Sent]
  /\ overridden' = overridden \cup {d \in Sent : target[d] = s}
  /\ UNCHANGED <<row, seen, importVars, historyVars, behind, askedBy>>

\* The handler of PATCH gets the request.
Arrive(c) == Load(c, target[c], change[c], "sent")

\* onSettled: invalidateQueries fetches again, in place of a fetch under way.
Invalidate ==
  /\ fetch' = "asked"
  /\ fetched' = Unknown
  /\ askedBy' = Sent

Succeed(c) ==
  /\ c \in Sent
  /\ pc[c] = "done"
  /\ ui' = [ui EXCEPT ![c] = "settled"]
  /\ snapshot' = [snapshot EXCEPT ![c] = Unknown]
  /\ Invalidate
  /\ earlier' = [earlier EXCEPT ![c] = {}]
  /\ UNCHANGED <<subsVars, cache, behind, overridden>>

\* Mutant of Fail: onSettled is left to onSuccess.
Fail_settled(c) ==
  /\ c \in Sent
  /\ pc[c] \in {"rejected", "error"}
  /\ ui' = [ui EXCEPT ![c] = "settled"]
  /\ cache' = snapshot[c]
  /\ snapshot' = [snapshot EXCEPT ![c] = Unknown]
  /\ earlier' = [earlier EXCEPT ![c] = {}]
  /\ overridden' = overridden \cup (Sent \ ({c} \cup earlier[c]))
  /\ UNCHANGED <<subsVars, fetch, fetched, behind, askedBy>>

\* onError: the whole list is restored.  The server may have done its work, or
\* do it yet, when the answer is lost.
Fail(c) ==
  /\ c \in Sent
  /\ pc[c] \in {"rejected", "error"} \/ "network" \in NetworkFaults
  /\ ui' = [ui EXCEPT ![c] = "settled"]
  /\ cache' = snapshot[c]
  /\ snapshot' = [snapshot EXCEPT ![c] = Unknown]
  /\ Invalidate
  /\ earlier' = [earlier EXCEPT ![c] = {}]
  /\ overridden' = overridden \cup (Sent \ ({c} \cup earlier[c]))
  /\ UNCHANGED <<subsVars, behind>>

\* The window gets the focus and the list is stale.
Refocus ==
  /\ fetch = "none"
  /\ Invalidate
  /\ UNCHANGED <<subsVars, ui, cache, snapshot, behind, earlier, overridden>>

FetchRead ==
  /\ fetch = "asked"
  /\ fetch' = "read"
  /\ fetched' = View
  /\ behind' = FALSE
  /\ UNCHANGED <<subsVars, ui, cache, snapshot, askedBy, earlier, overridden>>

FetchArrives ==
  /\ fetch = "read"
  /\ fetch' = "none"
  /\ cache' = fetched
  /\ fetched' = Unknown
  /\ askedBy' = {}
  /\ overridden' = overridden \cup (askedBy \cap Sent)
  /\ UNCHANGED <<subsVars, ui, snapshot, behind, earlier>>

\* And its one retry: the cached list stays.
FetchFails ==
  /\ "network" \in NetworkFaults
  /\ fetch # "none"
  /\ fetch' = "none"
  /\ fetched' = Unknown
  /\ behind' = TRUE
  /\ UNCHANGED <<subsVars, ui, cache, snapshot, askedBy, earlier, overridden>>

\* A step of the server.  What a toggle that waits for its answer changes is
\* fetched when it is settled.
Server(c) ==
  /\ SubsStep(c) \/ Arrive(c)
  /\ behind' = (behind \/ (View' # View /\ c \notin Sent))
  /\ UNCHANGED <<ui, cache, snapshot, fetch, fetched, askedBy, earlier,
                 overridden>>

Browser ==
  \/ \E c \in Calls :
       \/ Succeed(c) \/ Fail(c)
       \/ \E s \in Subs, value \in BOOLEAN : Mutate(c, s, value)
  \/ Refocus \/ FetchRead \/ FetchArrives \/ FetchFails

Next == Browser \/ \E c \in Calls : Server(c)

Spec == Init /\ [][Next]_vars

-----------------------------------------------------------------------------
(* Safety *)

\* When no toggle and no fetch is under way, the list shows what the server
\* has, however toggles, rollbacks and fetches overlapped; unless the last
\* fetch failed, or others, a toggle whose answer was lost among them, have
\* changed the rows since it read them.
CacheConverges == Sent = {} /\ fetch = "none" /\ ~behind => cache = View

\* The user sees a toggle until it is settled, unless a fetch that was asked
\* for after the toggle, the rollback of an earlier toggle, which restores a
\* list that misses this one, or a second toggle of the row comes between.  A
\* fetch that was running when the user clicked cannot undo the click, and
\* neither can the rollback of a later toggle.
ToggleIsShown ==
  \A c \in Sent : cache[target[c]] = change[c]["active"] \/ c \in overridden
=============================================================================
