----------------------------- MODULE Subscriptions -----------------------------
(***************************************************************************)
(* The subscription rows under the API and the import task: creation,      *)
(* partial edits with their check of the date range, deletion, and the     *)
(* import of deals for the system user, which is retried and redelivered.  *)
(*                                                                         *)
(* A call is a request or the execution of an import.  A transaction is    *)
(* one step at its commit, READ COMMITTED; a session loads a row once and  *)
(* writes back the columns that the call has changed.                      *)
(***************************************************************************)
EXTENDS Naturals, FiniteSets

CONSTANTS
  Subs,      \* ids of rows
  Dates,
  Origins, Destinations,
  Deals,     \* what the source offers
  Calls,
  Edits,     \* bodies of PATCH: functions from the fields that are set
  MaxTries,  \* executions before SimpleRetryMiddleware gives up
  SubsFaults,  \* which of "source" and "crash" can happen to an import
  None       \* NULL

Ranges == Dates \cup {None}

\* The key of a deal; travel_type is a column like the destination.
Routes == [origin : Origins \cup {None}, destination : Destinations]

ASSUME RowsAssumption == IsFiniteSet(Subs)
ASSUME DatesAssumption == Dates \subseteq Nat
ASSUME DealsAssumption == Deals \subseteq Routes
ASSUME NullAssumption == None \notin Subs \cup BOOLEAN
ASSUME EditsAssumption ==
  \A ch \in Edits :
    /\ DOMAIN ch \subseteq {"start", "end", "active", "origin", "destination"}
    /\ "start" \in DOMAIN ch => ch["start"] \in Ranges
    /\ "end" \in DOMAIN ch => ch["end"] \in Ranges
    /\ "active" \in DOMAIN ch => ch["active"] \in BOOLEAN \cup {None}
    /\ "origin" \in DOMAIN ch => ch["origin"] \in Origins \cup {None}
    /\ "destination" \in DOMAIN ch =>
         ch["destination"] \in Destinations \cup {None}
ASSUME ImportTriesAssumption == MaxTries \in Nat \ {0}
ASSUME SubsFaultsAssumption == SubsFaults \subseteq {"source", "crash"}

VARIABLES
  row,        \* a record, with its state: "none", "row" or "gone"
  hasImporter,  \* the row of the system user
  pc,
  target, change, seen,    \* of an edit: its row, body, the row as loaded
  tries, creating, found,  \* of an import: the deals that it has found
  \* history, read by properties only:
  stale,      \* edits and imports that another one has overtaken
  mixed,      \* rows whose last edit was such an edit
  copies      \* deals inserted by such an import, and rows that an edit
              \* has made an active copy of a deal

editVars == <<target, change, seen>>
importVars == <<hasImporter, tries, creating, found>>
historyVars == <<stale, mixed, copies>>
subsVars == <<row, pc, editVars, importVars, historyVars>>

Row == [state : {"none", "row", "gone"}, imported : BOOLEAN,
        origin : Origins \cup {None}, destination : Destinations \cup {None},
        start : Ranges, end : Ranges, active : BOOLEAN]
NoRow == [state |-> "none", imported |-> FALSE,
          origin |-> None, destination |-> None,
          start |-> None, end |-> None, active |-> TRUE]

\* Both dates, or one of them, may be missing.
Ordered(from, to) == None \notin {from, to} => from <= to

\* An active row of the system user with the key of the deal.
CopyOf(r, d) ==
  /\ r.state = "row" /\ r.imported /\ r.active
  /\ r.origin = d.origin /\ r.destination = d.destination

Active(d) == {s \in Subs : CopyOf(row[s], d)}

\* Rows that users have created; their routes, which decide nothing, are left
\* out.  And rows that earlier imports inserted, edited or not.
OldRow == {r \in Row :
  /\ r.state = "row" /\ r.start = None /\ r.end = None
  /\ IF r.imported THEN r.destination # None
                   ELSE r.origin = None /\ r.destination = None}

SubsInit ==
  /\ row \in [Subs -> OldRow \cup {NoRow}]
  /\ \A d \in Deals : Cardinality(Active(d)) <= 1
  /\ hasImporter \in BOOLEAN
  /\ (\E s \in Subs : row[s].imported) => hasImporter
  /\ pc = [c \in Calls |-> "idle"]
  /\ target = [c \in Calls |-> None]
  /\ change = [c \in Calls |-> None]
  /\ seen = [c \in Calls |-> NoRow]
  /\ tries = [c \in Calls |-> 0]
  /\ creating = {}
  /\ found = [c \in Calls |-> {}]
  /\ stale = {}
  /\ mixed = {}
  /\ copies = {}

Importing == {"source", "user", "insert user", "deals", "save", "ack"}

SubsTypeOK ==
  /\ row \in [Subs -> Row]
  /\ hasImporter \in BOOLEAN
  /\ pc \in [Calls -> Importing \cup
       {"idle", "sent", "write", "done", "rejected", "error"}]
  /\ target \in [Calls -> Subs \cup {None}]
  /\ seen \in [Calls -> Row]
  /\ tries \in [Calls -> 0 .. (MaxTries - 1)]
  /\ creating \subseteq Calls
  /\ found \in [Calls -> SUBSET Deals]
  /\ stale \subseteq Calls
  /\ mixed \subseteq Subs
  /\ copies \subseteq Subs
  /\ \A c \in Calls : pc[c] \in {"sent", "write"} => target[c] \in Subs

Step(c, from, to) == pc[c] = from /\ pc' = [pc EXCEPT ![c] = to]
Exists(s) == row[s].state = "row"
Unborn == {s \in Subs : row[s].state = "none"}

-----------------------------------------------------------------------------
(* create, update and delete *)

Create(c, s, from, to) ==
  /\ Step(c, "idle", "done")
  /\ s \in Unborn
  /\ Ordered(from, to)
  /\ row' = [row EXCEPT ![s] =
       [NoRow EXCEPT !.state = "row", !.start = from, !.end = to]]
  /\ UNCHANGED <<editVars, importVars, historyVars>>

\* What the range check takes for the date: a NULL in the body counts as unset.
Final(f, ch, s) == IF f \in DOMAIN ch /\ ch[f] # None THEN ch[f] ELSE row[s][f]

\* Mutant of ValidEdit: the body is checked by itself.
ValidEdit_body(ch, s) ==
  "start" \in DOMAIN ch /\ "end" \in DOMAIN ch => Ordered(ch["start"], ch["end"])

ValidEdit(ch, s) == Ordered(Final("start", ch, s), Final("end", ch, s))

\* The row is loaded, by the check of ownership already, and the body
\* validated against it: 404, 400, or on to the write.
Load(c, s, ch, from) ==
  /\ Step(c, from, IF Exists(s) /\ ValidEdit(ch, s) THEN "write"
                                                     ELSE "rejected")
  /\ target' = [target EXCEPT ![c] = s]
  /\ change' = [change EXCEPT ![c] = ch]
  /\ seen' = [seen EXCEPT ![c] = row[s]]
  /\ UNCHANGED <<row, importVars, historyVars>>

EditLoad(c, s, ch) == s \notin Unborn /\ Load(c, s, ch, "idle")

\* Columns whose value the body changes, as the session sees it.
Changed(c) == {f \in DOMAIN change[c] : change[c][f] # seen[c][f]}

\* NULL may be in the body for columns that are NOT NULL.
Writable(c) ==
  /\ Exists(target[c])
  /\ \A f \in DOMAIN change[c] \cap {"active", "destination"} :
       change[c][f] # None

\* The flush writes those columns, and leaves the others as they are by now.
Written(c, f) ==
  IF f \in Changed(c) THEN change[c][f] ELSE row[target[c]][f]

\* The row after the flush.
NewRow(c) ==
  LET r == row[target[c]]
  IN  [r EXCEPT !.start = Written(c, "start"), !.end = Written(c, "end"),
                !.active = Written(c, "active"),
                !.origin = IF r.imported THEN Written(c, "origin") ELSE None,
                !.destination =
                  IF r.imported THEN Written(c, "destination") ELSE None]

EditWrite(c) ==
  LET s == target[c]
      new == NewRow(c)
  IN  /\ Step(c, "write", "done")
      /\ Writable(c)
      /\ row' = [row EXCEPT ![s] = new]
      /\ stale' = IF new.start = row[s].start /\ new.end = row[s].end
                  THEN stale
                  ELSE stale \cup
                    {d \in Calls \ {c} : pc[d] = "write" /\ target[d] = s}
      /\ mixed' = IF c \in stale THEN mixed \cup {s} ELSE mixed \ {s}
      /\ copies' =
           IF \E d \in Deals : CopyOf(new, d) /\ ~CopyOf(row[s], d)
           THEN copies \cup {s} ELSE copies
      /\ seen' = [seen EXCEPT ![c] = NoRow]
      /\ UNCHANGED <<target, change, importVars>>

\* Or the row was deleted since: the UPDATE or the refresh finds nothing.
EditFails(c) ==
  /\ Step(c, "write", "error")
  /\ ~Writable(c)
  /\ seen' = [seen EXCEPT ![c] = NoRow]
  /\ UNCHANGED <<row, target, change, importVars, historyVars>>

Delete(c, s) ==
  /\ Step(c, "idle", "done")
  /\ Exists(s)
  /\ row' = [row EXCEPT ![s].state = "gone"]
  /\ UNCHANGED <<editVars, importVars, historyVars>>

-----------------------------------------------------------------------------
(* import_external_subscriptions_task *)

ImportStart(c) ==
  /\ Step(c, "idle", "source")
  /\ UNCHANGED <<row, editVars, importVars, historyVars>>

ImportFetch(c) ==
  /\ Step(c, "source", "user")
  /\ UNCHANGED <<row, editVars, importVars, historyVars>>

ImportUser(c) ==
  /\ Step(c, "user", IF hasImporter THEN "deals" ELSE "insert user")
  /\ UNCHANGED <<row, editVars, importVars, historyVars>>

\* The flush waits for another transaction that inserts the same email.
ImportInsertUser(c) ==
  /\ Step(c, "insert user", "deals")
  /\ ~hasImporter
  /\ creating = {}
  /\ creating' = {c}
  /\ UNCHANGED <<row, editVars, hasImporter, tries, found, historyVars>>

\* Mutant of ImportFails: the retries are not counted against the limit.
ImportFails_forever(c) ==
  /\ \/ pc[c] = "source" /\ "source" \in SubsFaults
     \/ pc[c] = "insert user" /\ hasImporter
  /\ pc' = [pc EXCEPT ![c] = "source"]
  /\ tries' = [tries EXCEPT ![c] = @ + 1]
  /\ UNCHANGED <<row, editVars, hasImporter, creating, found, historyVars>>

\* The task raises: the flaky source, or the unique index on the email.
ImportFails(c) ==
  /\ \/ pc[c] = "source" /\ "source" \in SubsFaults
     \/ pc[c] = "insert user" /\ hasImporter
  /\ IF tries[c] + 1 < MaxTries
     THEN /\ pc' = [pc EXCEPT ![c] = "source"]
          /\ tries' = [tries EXCEPT ![c] = @ + 1]
     ELSE /\ pc' = [pc EXCEPT ![c] = "error"]
          /\ UNCHANGED tries
  /\ UNCHANGED <<row, editVars, hasImporter, creating, found, historyVars>>

\* Mutant of ActiveDeals: nothing is looked up.
ActiveDeals_none == {}

ActiveDeals == {d \in Deals : Active(d) # {}}

ImportDeals(c) ==
  /\ Step(c, "deals", "save")
  /\ found' = [found EXCEPT ![c] = ActiveDeals]
  /\ stale' = stale \ {c}
  /\ UNCHANGED <<row, editVars, hasImporter, tries, creating, mixed,
                 copies>>

Missing(c) == Deals \ found[c]

Deal(d) == [NoRow EXCEPT !.state = "row", !.imported = TRUE,
                         !.origin = d.origin, !.destination = d.destination]

\* The deals that were not found, the user if it is new, and the commit.
ImportSave(c, id) ==
  LET new == {id[d] : d \in Missing(c)}
  IN  /\ Step(c, "save", "ack")
      /\ Cardinality(new) = Cardinality(Missing(c))
      /\ row' = [s \in Subs |->
           IF s \in new
           THEN Deal(CHOOSE d \in Missing(c) : id[d] = s)
           ELSE row[s]]
      /\ hasImporter' = TRUE
      /\ creating' = creating \ {c}
      /\ stale' = IF new = {} THEN stale
                  ELSE stale \cup {d \in Calls \ {c} : pc[d] = "save"}
      /\ copies' = IF c \in stale THEN copies \cup new ELSE copies
      /\ found' = [found EXCEPT ![c] = {}]
      /\ UNCHANGED <<editVars, tries, mixed>>

ImportAck(c) ==
  /\ Step(c, "ack", "done")
  /\ UNCHANGED <<row, editVars, importVars, historyVars>>

\* The worker stops; Redis gives the message to another consumer.
ImportCrash(c) ==
  /\ "crash" \in SubsFaults
  /\ pc[c] \in Importing \ {"source"}
  /\ pc' = [pc EXCEPT ![c] = "source"]
  /\ creating' = creating \ {c}
  /\ UNCHANGED <<row, editVars, hasImporter, tries, found, historyVars>>

-----------------------------------------------------------------------------
SubsStep(c) ==
  \/ \E s \in Subs :
       \/ \E from, to \in Ranges : Create(c, s, from, to)
       \/ \E ch \in Edits : EditLoad(c, s, ch)
       \/ Delete(c, s)
  \/ EditWrite(c) \/ EditFails(c)
  \/ ImportStart(c) \/ ImportFetch(c) \/ ImportUser(c) \/ ImportInsertUser(c)
  \/ ImportFails(c) \/ ImportDeals(c) \/ ImportAck(c) \/ ImportCrash(c)
  \/ \E id \in [Missing(c) -> Unborn] : ImportSave(c, id)

SubsNext == \E c \in Calls : SubsStep(c)

SubsSpec == SubsInit /\ [][SubsNext]_subsVars

-----------------------------------------------------------------------------
(* Safety *)

\* Every edit checks the range against the row it has loaded, and a row still
\* has its dates in the wrong order only if its last edit wrote it after
\* another one had changed the dates behind its back.
RangeBrokenOnlyByOverlap ==
  \A s \in Subs :
    Exists(s) => Ordered(row[s].start, row[s].end) \/ s \in mixed

\* The import is idempotent: retried, redelivered or repeated, it leaves one
\* active row of the system user for a deal, unless another import inserted
\* rows after this one had looked, or a superuser's PATCH, of is_active or of
\* the route, made a row an active copy of the deal.
DealImportedOnce ==
  \A d \in Deals :
    Cardinality(Active(d)) > 1 => Active(d) \cap copies # {}
=============================================================================
