------------------------- MODULE SubscriptionsProofs -------------------------
(***************************************************************************)
(* The types and the promises of Subscriptions and OptimisticToggle, for   *)
(* any number of rows, deals, bodies of PATCH, requests, imports and       *)
(* toggles.                                                                *)
(***************************************************************************)
EXTENDS OptimisticToggle, FiniteSetTheorems, TLAPS

Bodies == Edits \cup {[active |-> b] : b \in BOOLEAN}

LEMMA BodiesAreTyped ==
  ASSUME NEW ch \in Bodies
  PROVE  /\ "start" \in DOMAIN ch => ch["start"] \in Ranges
         /\ "end" \in DOMAIN ch => ch["end"] \in Ranges
         /\ "active" \in DOMAIN ch => ch["active"] \in BOOLEAN \cup {None}
         /\ "origin" \in DOMAIN ch => ch["origin"] \in Origins \cup {None}
         /\ "destination" \in DOMAIN ch =>
              ch["destination"] \in Destinations \cup {None}
<1>1. CASE ch \in Edits
  BY <1>1, EditsAssumption
<1>2. ASSUME NEW b \in BOOLEAN, ch = [active |-> b]
      PROVE  /\ DOMAIN ch = {"active"}
             /\ ch["active"] = b
  BY <1>2
<1> QED BY <1>1, <1>2 DEF Bodies

\* What a call carries, and that rows are not there twice.
CallInv ==
  /\ change \in [Calls -> Bodies \cup {None}]
  /\ \A c \in Calls :
       /\ pc[c] \in {"sent", "write"} => change[c] \in Bodies
       /\ pc[c] = "write" => row[target[c]].state # "none"

RowsTyped == SubsTypeOK /\ CallInv

\* A step of a call on the rows: of Subscriptions, or of a PATCH that arrives.
RowsNext(c) == SubsStep(c) \/ Arrive(c)

\* A new toggle, and any other step that the rows and calls see nothing of.
ToggleStep ==
  \E c \in Calls, s \in Subs, value \in BOOLEAN :
    /\ Step(c, "idle", "sent")
    /\ target' = [target EXCEPT ![c] = s]
    /\ change' = [change EXCEPT ![c] = [active |-> value]]
    /\ UNCHANGED <<row, seen, importVars, historyVars>>

LEMMA RowsSteps ==
  [Next]_vars => \/ \E c \in Calls : RowsNext(c)
                 \/ ToggleStep
                 \/ UNCHANGED subsVars
BY DEF Next, Browser, Server, RowsNext, ToggleStep, Mutate, Succeed, Fail,
       Refocus, FetchRead, FetchArrives, FetchFails, vars

LEMMA LoadTypes ==
  ASSUME RowsTyped, NEW c \in Calls, NEW s \in Subs, NEW ch \in Bodies,
         NEW from, Load(c, s, ch, from)
  PROVE  RowsTyped'
BY DEF Load, RowsTyped, SubsTypeOK, CallInv, Step, importVars, historyVars,
       Exists

\* The row after a flush, column by column.
LEMMA NewRowFields ==
  ASSUME RowsTyped, NEW c \in Calls, EditWrite(c)
  PROVE  /\ NewRow(c) \in Row
         /\ NewRow(c).state = row[target[c]].state
         /\ NewRow(c).start = Written(c, "start")
         /\ NewRow(c).end = Written(c, "end")
<1> DEFINE s == target[c]
<1>1. s \in Subs /\ change[c] \in Bodies /\ row[s] \in Row
  BY DEF EditWrite, RowsTyped, CallInv, SubsTypeOK, Step
<1>2. /\ row[s].start \in Ranges /\ row[s].end \in Ranges
      /\ row[s].active \in BOOLEAN
      /\ row[s].origin \in Origins \cup {None}
      /\ row[s].destination \in Destinations \cup {None}
      /\ row[s].imported \in BOOLEAN
  BY <1>1 DEF Row
<1>3. /\ Written(c, "start") \in Ranges
      /\ Written(c, "end") \in Ranges
  BY <1>1, <1>2, BodiesAreTyped DEF Written, Changed
<1>4. Written(c, "active") \in BOOLEAN
  <2>1. "active" \in DOMAIN change[c] => change[c]["active"] # None
    BY DEF EditWrite, Writable
  <2> QED BY <1>1, <1>2, <2>1, BodiesAreTyped DEF Written, Changed
<1>5. Written(c, "origin") \in Origins \cup {None}
  BY <1>1, <1>2, BodiesAreTyped DEF Written, Changed
<1>6. Written(c, "destination") \in Destinations \cup {None}
  BY <1>1, <1>2, BodiesAreTyped DEF Written, Changed
<1> QED BY <1>1, <1>2, <1>3, <1>4, <1>5, <1>6 DEF NewRow, Row

LEMMA WriteTypes ==
  ASSUME RowsTyped, NEW c \in Calls, EditWrite(c) PROVE RowsTyped'
<1> DEFINE s == target[c]
<1>1. /\ s \in Subs /\ change[c] \in Bodies /\ row[s] \in Row
      /\ pc[c] = "write" /\ pc' = [pc EXCEPT ![c] = "done"]
  BY DEF EditWrite, RowsTyped, CallInv, SubsTypeOK, Step
<1>2. NewRow(c) \in Row /\ NewRow(c).state = row[s].state
  BY NewRowFields
<1>3. row' = [row EXCEPT ![s] = NewRow(c)]
  BY DEF EditWrite
<1>4. row' \in [Subs -> Row] /\ row'[s].state = row[s].state
  BY <1>1, <1>2, <1>3 DEF RowsTyped, SubsTypeOK
<1>5. /\ stale' \subseteq Calls
      /\ mixed' \subseteq Subs
      /\ copies' \subseteq Subs
  BY <1>1 DEF EditWrite, RowsTyped, SubsTypeOK
<1>6. \A t \in Subs : row'[t].state = row[t].state
  BY <1>1, <1>3, <1>4 DEF RowsTyped, SubsTypeOK
<1>7. NoRow \in Row
  BY DEF NoRow, Row, Ranges
<1> QED BY <1>1, <1>4, <1>5, <1>6, <1>7
        DEF EditWrite, RowsTyped, SubsTypeOK, CallInv, importVars

LEMMA SaveTypes ==
  ASSUME RowsTyped, NEW c \in Calls, NEW id \in [Missing(c) -> Unborn],
         ImportSave(c, id)
  PROVE  RowsTyped'
<1> DEFINE new == {id[d] : d \in Missing(c)}
<1>1. new \subseteq Unborn
  OBVIOUS
<1>2. ASSUME NEW s \in new
      PROVE  (CHOOSE d \in Missing(c) : id[d] = s) \in Deals
  <2>1. \E d \in Missing(c) : id[d] = s
    BY <1>2
  <2> QED BY <2>1 DEF Missing
<1>3. row' = [s \in Subs |->
        IF s \in new
        THEN Deal(CHOOSE d \in Missing(c) : id[d] = s)
        ELSE row[s]]
  BY DEF ImportSave
<1>4. ASSUME NEW d \in Deals
      PROVE  Deal(d) \in Row /\ Deal(d).state = "row"
  <2>1. d \in Routes
    BY DealsAssumption
  <2> QED BY <2>1 DEF Deal, NoRow, Row, Ranges, Routes
<1>5. /\ row' \in [Subs -> Row]
      /\ \A s \in Subs : row[s].state # "none" => row'[s].state # "none"
  BY <1>2, <1>3, <1>4 DEF RowsTyped, SubsTypeOK
<1>6. pc[c] = "save" /\ pc' = [pc EXCEPT ![c] = "ack"]
  BY DEF ImportSave, Step
<1>7. /\ stale' \subseteq Calls /\ copies' \subseteq Subs
      /\ creating' \subseteq Calls /\ hasImporter' \in BOOLEAN
      /\ found' \in [Calls -> SUBSET Deals]
  BY <1>1 DEF ImportSave, RowsTyped, SubsTypeOK, Unborn
<1> QED BY <1>5, <1>6, <1>7
        DEF ImportSave, RowsTyped, SubsTypeOK, CallInv, editVars, Importing

LEMMA NextTry ==
  ASSUME NEW m \in Nat \ {0}, NEW t \in 0 .. (m - 1), t + 1 < m
  PROVE  t + 1 \in 0 .. (m - 1)
OBVIOUS

LEMMA ImportTypes ==
  ASSUME RowsTyped, NEW c \in Calls,
         \/ ImportStart(c) \/ ImportFetch(c) \/ ImportUser(c)
         \/ ImportInsertUser(c) \/ ImportFails(c) \/ ImportDeals(c)
         \/ ImportAck(c) \/ ImportCrash(c)
  PROVE  RowsTyped'
<1> USE DEF RowsTyped, SubsTypeOK, CallInv, Step, Importing, editVars,
            importVars, historyVars
<1>1. CASE ImportStart(c) BY <1>1 DEF ImportStart
<1>2. CASE ImportFetch(c) BY <1>2 DEF ImportFetch
<1>3. CASE ImportUser(c) BY <1>3 DEF ImportUser
<1>4. CASE ImportInsertUser(c) BY <1>4 DEF ImportInsertUser
<1>5. CASE ImportFails(c)
  <2>1. CASE tries[c] + 1 < MaxTries
    <3>1. tries[c] + 1 \in 0 .. (MaxTries - 1)
      BY <2>1, ImportTriesAssumption, NextTry
    <3>2. tries' = [tries EXCEPT ![c] = tries[c] + 1]
      BY <1>5, <2>1 DEF ImportFails
    <3>3. tries' \in [Calls -> 0 .. (MaxTries - 1)]
      BY <3>1, <3>2
    <3> QED BY <1>5, <2>1, <3>3 DEF ImportFails
  <2>2. CASE ~(tries[c] + 1 < MaxTries)
    BY <1>5, <2>2 DEF ImportFails
  <2> QED BY <2>1, <2>2
<1>6. CASE ImportDeals(c) BY <1>6 DEF ImportDeals, ActiveDeals
<1>7. CASE ImportAck(c) BY <1>7 DEF ImportAck
<1>8. CASE ImportCrash(c) BY <1>8 DEF ImportCrash
<1> QED BY <1>1, <1>2, <1>3, <1>4, <1>5, <1>6, <1>7, <1>8

LEMMA RowsStepTypes ==
  ASSUME RowsTyped, NEW c \in Calls, RowsNext(c) PROVE RowsTyped'
<1>1. ASSUME NEW s \in Subs, NEW from \in Ranges, NEW to \in Ranges,
             Create(c, s, from, to)
      PROVE  RowsTyped'
  <2>1. [NoRow EXCEPT !.state = "row", !.start = from, !.end = to] \in Row
    BY DEF NoRow, Row, Ranges
  <2>2. [NoRow EXCEPT !.state = "row", !.start = from, !.end = to].state
          = "row"
    BY DEF NoRow
  <2> QED BY <1>1, <2>1, <2>2 DEF Create, RowsTyped, SubsTypeOK, CallInv, Step,
                                  editVars, importVars, historyVars
<1>2. ASSUME NEW s \in Subs, NEW ch \in Edits, EditLoad(c, s, ch)
      PROVE  RowsTyped'
  BY <1>2, LoadTypes DEF EditLoad, Bodies
<1>3. ASSUME NEW s \in Subs, Delete(c, s) PROVE RowsTyped'
  <2>1. row[s] \in Row
    BY DEF RowsTyped, SubsTypeOK
  <2>2. /\ [row[s] EXCEPT !.state = "gone"] \in Row
        /\ [row[s] EXCEPT !.state = "gone"].state = "gone"
    BY <2>1 DEF Row
  <2>3. row' = [row EXCEPT ![s] = [row[s] EXCEPT !.state = "gone"]]
    BY <1>3 DEF Delete
  <2> QED BY <1>3, <2>2, <2>3 DEF Delete, RowsTyped, SubsTypeOK, CallInv, Step,
                                  editVars, importVars, historyVars
<1>4. CASE EditFails(c)
  <2>1. NoRow \in Row
    BY DEF NoRow, Row, Ranges
  <2> QED BY <1>4, <2>1 DEF EditFails, RowsTyped, SubsTypeOK, CallInv, Step,
                            importVars, historyVars
<1>5. CASE Arrive(c)
  <2>1. target[c] \in Subs /\ change[c] \in Bodies
    BY <1>5 DEF Arrive, Load, Step, RowsTyped, SubsTypeOK, CallInv
  <2> QED BY <1>5, <2>1, LoadTypes DEF Arrive
<1> QED BY <1>1, <1>2, <1>3, <1>4, <1>5, WriteTypes, SaveTypes, ImportTypes
        DEF RowsNext, SubsStep

LEMMA RowsTypes == RowsTyped /\ [Next]_vars => RowsTyped'
<1> SUFFICES ASSUME RowsTyped, [Next]_vars PROVE RowsTyped'
  OBVIOUS
<1>1. CASE ToggleStep
  <2>1. PICK c \in Calls, s \in Subs, value \in BOOLEAN :
          /\ Step(c, "idle", "sent")
          /\ target' = [target EXCEPT ![c] = s]
          /\ change' = [change EXCEPT ![c] = [active |-> value]]
          /\ UNCHANGED <<row, seen, importVars, historyVars>>
    BY <1>1 DEF ToggleStep
  <2>2. [active |-> value] \in Bodies
    BY DEF Bodies
  <2> QED BY <2>1, <2>2 DEF RowsTyped, SubsTypeOK, CallInv, Step, importVars,
                            historyVars
<1>2. CASE UNCHANGED subsVars
  BY <1>2 DEF RowsTyped, SubsTypeOK, CallInv, subsVars, editVars, importVars,
              historyVars
<1> QED BY <1>1, <1>2, RowsSteps, RowsStepTypes

LEMMA RowsTypesHold == Spec => []RowsTyped
<1>1. Init => RowsTyped
  <2> SUFFICES ASSUME Init PROVE RowsTyped
    OBVIOUS
  <2>1. SubsInit
    BY DEF Init
  <2>2. NoRow \in Row
    BY DEF NoRow, Row, Ranges
  <2>3. OldRow \subseteq Row
    BY DEF OldRow
  <2>4. 0 \in 0 .. (MaxTries - 1)
    BY ImportTriesAssumption
  <2> QED BY <2>1, <2>2, <2>3, <2>4
          DEF SubsInit, RowsTyped, SubsTypeOK, CallInv
<1> QED BY <1>1, RowsTypes, PTL DEF Spec

\* The rows and calls, and the list in the browser.
LEMMA ViewIsTyped ==
  RowsTyped => View \in [Subs -> BOOLEAN \cup {None}]
BY DEF RowsTyped, SubsTypeOK, View, Row

LEMMA ListTypes ==
  TypeOK /\ RowsTyped /\ SubsTypeOK' /\ [Next]_vars => TypeOK'
<1> SUFFICES ASSUME TypeOK, RowsTyped, SubsTypeOK', [Next]_vars PROVE TypeOK'
  OBVIOUS
<1> USE DEF TypeOK, CancelQueries, Invalidate, Sent, uiHistory
<1>1. Unknown \in [Subs -> BOOLEAN \cup {None}]
  BY DEF Unknown
<1>2. ASSUME NEW c \in Calls, NEW s \in Subs, NEW value \in BOOLEAN,
             Mutate(c, s, value)
      PROVE  TypeOK'
  BY <1>1, <1>2 DEF Mutate
<1>3. ASSUME NEW c \in Calls, Succeed(c) PROVE TypeOK'
  BY <1>1, <1>3 DEF Succeed
<1>4. ASSUME NEW c \in Calls, Fail(c) PROVE TypeOK'
  BY <1>1, <1>4 DEF Fail
<1>5. CASE Refocus BY <1>1, <1>5 DEF Refocus
<1>6. CASE FetchRead BY <1>6, ViewIsTyped DEF FetchRead
<1>7. CASE FetchArrives BY <1>1, <1>7 DEF FetchArrives
<1>8. CASE FetchFails BY <1>1, <1>8 DEF FetchFails
<1>9. ASSUME NEW c \in Calls, Server(c) PROVE TypeOK'
  BY <1>9 DEF Server
<1>10. CASE UNCHANGED vars
  BY <1>10 DEF vars, uiVars
<1> QED BY <1>2, <1>3, <1>4, <1>5, <1>6, <1>7, <1>8, <1>9, <1>10
        DEF Next, Browser

\* The types of the rows, of the calls on them, and of the list in the
\* browser.
THEOREM SubscriptionsTypeCorrect == Spec => []TypeOK
<1>1. Init /\ RowsTyped => TypeOK
  <2>1. Unknown \in [Subs -> BOOLEAN \cup {None}]
    BY DEF Unknown
  <2> QED BY <2>1, ViewIsTyped DEF Init, TypeOK, RowsTyped
<1>2. RowsTyped /\ RowsTyped' /\ TypeOK /\ [Next]_vars => TypeOK'
  BY ListTypes DEF RowsTyped
<1> QED BY <1>1, <1>2, RowsTypesHold, PTL DEF Spec

-----------------------------------------------------------------------------
(* The date range *)

\* What an edit leaves in field f of a row that is as it was loaded, a NULL
\* counting as unset.
Intended(c, f) ==
  IF f \in DOMAIN change[c] /\ change[c][f] # None
  THEN change[c][f] ELSE seen[c][f]

\* An edit that nobody overtook has checked the row as it is.
EditInv ==
  \A c \in Calls : pc[c] = "write" /\ c \notin stale =>
    /\ Exists(target[c]) => /\ row[target[c]].start = seen[c].start
                            /\ row[target[c]].end = seen[c].end
    /\ Ordered(Intended(c, "start"), Intended(c, "end"))

RangeInv == RowsTyped /\ EditInv /\ RangeBrokenOnlyByOverlap

LEMMA RangeLoadStep ==
  ASSUME RangeInv, NEW c \in Calls, NEW s \in Subs, NEW ch \in Bodies,
         NEW from, from # "write", Load(c, s, ch, from)
  PROVE  EditInv' /\ RangeBrokenOnlyByOverlap'
<1>1. /\ target' = [target EXCEPT ![c] = s]
      /\ change' = [change EXCEPT ![c] = ch]
      /\ seen' = [seen EXCEPT ![c] = row[s]]
      /\ UNCHANGED <<row, stale, mixed>>
  BY DEF Load, historyVars
<1>2. \A d \in Calls \ {c} :
        /\ pc'[d] = pc[d] /\ target'[d] = target[d]
        /\ change'[d] = change[d] /\ seen'[d] = seen[d]
  BY DEF Load, Step, RangeInv, RowsTyped, SubsTypeOK, CallInv
<1>3. /\ target'[c] = s /\ change'[c] = ch /\ seen'[c] = row[s]
      /\ pc'[c] = "write" => ValidEdit(ch, s)
  BY DEF Load, Step, RangeInv, RowsTyped, SubsTypeOK, CallInv
<1>4. RangeBrokenOnlyByOverlap'
  BY <1>1 DEF RangeInv, RangeBrokenOnlyByOverlap, Exists
<1>5. EditInv'
  BY <1>1, <1>2, <1>3
     DEF RangeInv, EditInv, ValidEdit, Final, Intended, Exists
<1> QED BY <1>4, <1>5

LEMMA RangeWriteStep ==
  ASSUME RangeInv, NEW c \in Calls, EditWrite(c)
  PROVE  EditInv' /\ RangeBrokenOnlyByOverlap'
<1> DEFINE s == target[c]
<1>1. /\ s \in Subs /\ row[s] \in Row
      /\ pc[c] = "write" /\ pc' = [pc EXCEPT ![c] = "done"]
  BY DEF EditWrite, RangeInv, RowsTyped, SubsTypeOK, Step
<1>2. /\ row' = [row EXCEPT ![s] = NewRow(c)]
      /\ NewRow(c).start = Written(c, "start")
      /\ NewRow(c).end = Written(c, "end")
  BY NewRowFields DEF EditWrite, RangeInv
<1>3. /\ row'[s].start = Written(c, "start")
      /\ row'[s].end = Written(c, "end")
      /\ \A t \in Subs \ {s} : row'[t] = row[t]
  BY <1>1, <1>2 DEF RangeInv, RowsTyped, SubsTypeOK
<1>4. Exists(s)
  BY DEF EditWrite, Writable
<1>5. ASSUME c \notin stale PROVE Ordered(row'[s].start, row'[s].end)
  <2>1. /\ row[s].start = seen[c].start
        /\ row[s].end = seen[c].end
        /\ Ordered(Intended(c, "start"), Intended(c, "end"))
    BY <1>1, <1>4, <1>5 DEF RangeInv, EditInv
  <2>2. ASSUME NEW f \in {"start", "end"}, row[s][f] = seen[c][f]
        PROVE  Written(c, f) \in {None, Intended(c, f)}
    BY <2>2 DEF Written, Changed, Intended
  <2>3. Written(c, "start") \in {None, Intended(c, "start")}
    BY <2>1, <2>2
  <2>4. Written(c, "end") \in {None, Intended(c, "end")}
    BY <2>1, <2>2
  <2> QED BY <1>3, <2>1, <2>3, <2>4 DEF Ordered
<1>6. mixed' = IF c \in stale THEN mixed \cup {s} ELSE mixed \ {s}
  BY DEF EditWrite
<1>7. RangeBrokenOnlyByOverlap'
  BY <1>3, <1>5, <1>6 DEF RangeInv, RangeBrokenOnlyByOverlap, Exists
<1>8. ASSUME NEW d \in Calls, pc'[d] = "write", d \notin stale'
      PROVE  /\ d # c /\ pc[d] = "write" /\ d \notin stale
             /\ target[d] \in Subs
             /\ target'[d] = target[d]
             /\ change'[d] = change[d]
             /\ seen'[d] = seen[d]
             /\ \/ target[d] # s
                \/ /\ row'[s].start = row[s].start
                   /\ row'[s].end = row[s].end
  BY <1>1, <1>2, <1>3, <1>8 DEF EditWrite, RangeInv, RowsTyped, SubsTypeOK
<1>9. ASSUME NEW d \in Calls, pc'[d] = "write", d \notin stale',
             row'[target[d]].state = "row"
      PROVE  row[target[d]].state = "row"
  <2>1. \A t \in Subs : row'[t].state = row[t].state
    BY <1>1, <1>2, NewRowFields DEF RangeInv, RowsTyped, SubsTypeOK
  <2> QED BY <1>8, <1>9, <2>1
<1>10. EditInv'
  BY <1>3, <1>8, <1>9 DEF RangeInv, EditInv, Intended, Exists
<1> QED BY <1>7, <1>10

LEMMA RangeOtherStep ==
  ASSUME RangeInv, NEW c \in Calls, pc[c] # "write",
         pc'[c] # "write",
         \A d \in Calls \ {c} :
           /\ pc'[d] = pc[d] /\ target'[d] = target[d]
           /\ change'[d] = change[d] /\ seen'[d] = seen[d]
           /\ d \in stale => d \in stale',
         \A s \in Subs : \/ row'[s] = row[s]
                         \/ row'[s].state = "gone"
                         \/ row[s].state = "none"
                            /\ Ordered(row'[s].start, row'[s].end),
         mixed \subseteq mixed'
  PROVE  EditInv' /\ RangeBrokenOnlyByOverlap'
<1>1. RangeBrokenOnlyByOverlap'
  BY DEF RangeInv, RangeBrokenOnlyByOverlap, Exists
<1>2. ASSUME NEW d \in Calls, pc'[d] = "write", d \notin stale'
      PROVE  /\ d # c /\ d \notin stale
             /\ target[d] \in Subs
             /\ row[target[d]].state # "none"
  BY <1>2 DEF RangeInv, RowsTyped, SubsTypeOK, CallInv
<1>3. EditInv'
  BY <1>2 DEF RangeInv, EditInv, Intended, Exists
<1> QED BY <1>1, <1>3

LEMMA RangeSaveStep ==
  ASSUME RangeInv, NEW c \in Calls, NEW id \in [Missing(c) -> Unborn],
         ImportSave(c, id)
  PROVE  EditInv' /\ RangeBrokenOnlyByOverlap'
<1> DEFINE new == {id[d] : d \in Missing(c)}
<1>1. new \subseteq Unborn
  OBVIOUS
<1>2. row' = [s \in Subs |->
        IF s \in new
        THEN Deal(CHOOSE d \in Missing(c) : id[d] = s)
        ELSE row[s]]
  BY DEF ImportSave
<1>3. ASSUME NEW x
      PROVE  Ordered(Deal(x).start, Deal(x).end)
  BY DEF Deal, NoRow, Ordered
<1>4. \A s \in Subs : \/ row'[s] = row[s]
                      \/ row[s].state = "none"
                         /\ Ordered(row'[s].start, row'[s].end)
  BY <1>1, <1>2, <1>3 DEF Unborn
<1>5. /\ pc[c] = "save" /\ pc' = [pc EXCEPT ![c] = "ack"]
      /\ stale \subseteq stale' /\ mixed \subseteq mixed'
      /\ UNCHANGED <<target, change, seen>>
  BY DEF ImportSave, Step, editVars
<1>6. /\ pc[c] # "write" /\ pc'[c] # "write"
      /\ \A d \in Calls \ {c} : pc'[d] = pc[d]
  BY <1>5 DEF RangeInv, RowsTyped, SubsTypeOK
<1> QED BY <1>4, <1>5, <1>6, RangeOtherStep

LEMMA RangeImportStep ==
  ASSUME RangeInv, NEW c \in Calls,
         \/ ImportStart(c) \/ ImportFetch(c) \/ ImportUser(c)
         \/ ImportInsertUser(c) \/ ImportFails(c) \/ ImportDeals(c)
         \/ ImportAck(c) \/ ImportCrash(c)
  PROVE  EditInv' /\ RangeBrokenOnlyByOverlap'
<1> USE DEF ImportStart, ImportFetch, ImportUser, ImportInsertUser,
            ImportFails, ImportDeals, ImportAck, ImportCrash
<1>1. /\ pc[c] # "write" /\ pc'[c] # "write"
      /\ \A d \in Calls \ {c} : pc'[d] = pc[d]
  BY DEF RangeInv, RowsTyped, SubsTypeOK, Step, Importing
<1>2. UNCHANGED <<row, target, change, seen, mixed>>
  BY DEF editVars, historyVars
<1>3. \A d \in Calls \ {c} : d \in stale => d \in stale'
  BY DEF historyVars
<1> QED BY <1>1, <1>2, <1>3, RangeOtherStep

LEMMA RangeRowsStep ==
  ASSUME RangeInv, NEW c \in Calls, RowsNext(c)
  PROVE  EditInv' /\ RangeBrokenOnlyByOverlap'
<1> USE DEF RangeInv, RowsTyped, SubsTypeOK, CallInv
<1>1. ASSUME NEW s \in Subs, NEW from \in Ranges, NEW to \in Ranges,
             Create(c, s, from, to)
      PROVE  EditInv' /\ RangeBrokenOnlyByOverlap'
  <2>1. LET r == [NoRow EXCEPT !.state = "row", !.start = from, !.end = to]
        IN  r.start = from /\ r.end = to
    BY DEF NoRow
  <2>2. \A t \in Subs : \/ row'[t] = row[t]
                        \/ row[t].state = "none"
                           /\ Ordered(row'[t].start, row'[t].end)
    BY <1>1, <2>1 DEF Create, Unborn
  <2>3. /\ pc[c] # "write" /\ pc'[c] # "write"
        /\ \A d \in Calls \ {c} : pc'[d] = pc[d]
        /\ UNCHANGED <<target, change, seen, stale, mixed>>
    BY <1>1 DEF Create, Step, editVars, historyVars
  <2> QED BY <2>2, <2>3, RangeOtherStep
<1>2. ASSUME NEW s \in Subs, NEW ch \in Edits, EditLoad(c, s, ch)
      PROVE  EditInv' /\ RangeBrokenOnlyByOverlap'
  BY <1>2, RangeLoadStep DEF EditLoad, Bodies
<1>3. ASSUME NEW s \in Subs, Delete(c, s)
      PROVE  EditInv' /\ RangeBrokenOnlyByOverlap'
  <2>1. /\ row[s] \in Row
        /\ row' = [row EXCEPT ![s] = [row[s] EXCEPT !.state = "gone"]]
    BY <1>3 DEF Delete
  <2>2. \A t \in Subs : row'[t] = row[t] \/ row'[t].state = "gone"
    BY <2>1 DEF Row
  <2>3. /\ pc[c] # "write" /\ pc'[c] # "write"
        /\ \A d \in Calls \ {c} : pc'[d] = pc[d]
        /\ UNCHANGED <<target, change, seen, stale, mixed>>
    BY <1>3 DEF Delete, Step, editVars, historyVars
  <2> QED BY <2>2, <2>3, RangeOtherStep
<1>4. CASE EditFails(c)
  <2>1. /\ pc' = [pc EXCEPT ![c] = "error"]
        /\ seen' = [seen EXCEPT ![c] = NoRow]
        /\ UNCHANGED <<row, target, change, stale, mixed>>
    BY <1>4 DEF EditFails, Step, historyVars
  <2> QED BY <2>1 DEF EditInv, RangeBrokenOnlyByOverlap, Intended, Exists
<1>5. CASE Arrive(c)
  <2>1. target[c] \in Subs /\ change[c] \in Bodies
    BY <1>5 DEF Arrive, Load, Step
  <2> QED BY <1>5, <2>1, RangeLoadStep DEF Arrive
<1> QED BY <1>1, <1>2, <1>3, <1>4, <1>5, RangeWriteStep, RangeSaveStep,
           RangeImportStep
        DEF RowsNext, SubsStep

LEMMA RangeStep ==
  RangeInv /\ [Next]_vars => EditInv' /\ RangeBrokenOnlyByOverlap'
<1> SUFFICES ASSUME RangeInv, [Next]_vars
             PROVE  EditInv' /\ RangeBrokenOnlyByOverlap'
  OBVIOUS
<1>1. CASE ToggleStep
  <2>1. PICK c \in Calls, s \in Subs, value \in BOOLEAN :
          /\ Step(c, "idle", "sent")
          /\ target' = [target EXCEPT ![c] = s]
          /\ change' = [change EXCEPT ![c] = [active |-> value]]
          /\ UNCHANGED <<row, seen, importVars, historyVars>>
    BY <1>1 DEF ToggleStep
  <2>2. /\ pc[c] # "write" /\ pc'[c] # "write"
        /\ \A d \in Calls \ {c} : /\ pc'[d] = pc[d]
                                  /\ target'[d] = target[d]
                                  /\ change'[d] = change[d]
        /\ UNCHANGED <<row, seen, stale, mixed>>
    BY <2>1 DEF RangeInv, RowsTyped, SubsTypeOK, CallInv, Step, historyVars
  <2> QED BY <2>2, RangeOtherStep
<1>2. CASE UNCHANGED subsVars
  BY <1>2 DEF RangeInv, EditInv, RangeBrokenOnlyByOverlap, Intended, Exists,
              subsVars, editVars, historyVars
<1> QED BY <1>1, <1>2, RowsSteps, RangeRowsStep

\* A range gets out of order only through an edit of a row that changed
\* after the edit had loaded and checked it.
THEOREM RangesAreOrdered == Spec => []RangeBrokenOnlyByOverlap
<1>1. Init => EditInv /\ RangeBrokenOnlyByOverlap
  <2> SUFFICES ASSUME Init PROVE EditInv /\ RangeBrokenOnlyByOverlap
    OBVIOUS
  <2>1. SubsInit
    BY DEF Init
  <2>2. \A r \in OldRow \cup {NoRow} : Ordered(r.start, r.end)
    <3>1. NoRow.start = None
      BY DEF NoRow
    <3> QED BY <3>1 DEF OldRow, Ordered
  <2> QED BY <2>1, <2>2 DEF SubsInit, EditInv, RangeBrokenOnlyByOverlap
<1>2. RowsTyped /\ EditInv /\ RangeBrokenOnlyByOverlap /\ [Next]_vars
        => EditInv' /\ RangeBrokenOnlyByOverlap'
  BY RangeStep DEF RangeInv
<1> QED BY <1>1, <1>2, RowsTypesHold, PTL DEF Spec

-----------------------------------------------------------------------------
(* The deals *)

\* Of the active rows of a deal all but one are copies, and an import that
\* is not stale and did not find the deal meets copies only.
DealInv ==
  \A d \in Deals :
    /\ \A s, t \in Active(d) : s = t \/ s \in copies \/ t \in copies
    /\ \A c \in Calls : pc[c] = "save" /\ c \notin stale /\ d \notin found[c]
                          => Active(d) \subseteq copies

\* A step that activates no row, or only marks what it activates.
LEMMA DealOtherStep ==
  ASSUME RowsTyped, DealInv,
         \A s \in Subs, d \in Deals :
           s \in Active(d)' => s \in Active(d) \/ s \in copies',
         copies \subseteq copies',
         \A c \in Calls :
           \/ pc'[c] # "save"
           \/ /\ pc[c] = "save" /\ found'[c] = found[c]
              /\ c \in stale => c \in stale'
           \/ /\ \A d \in Deals : d \notin found'[c] => Active(d)' = {}
  PROVE  DealInv'
<1>1. \A d \in Deals : Active(d)' \subseteq Subs
  BY DEF Active
<1>2. ASSUME NEW d \in Deals, NEW s \in Active(d)', NEW t \in Active(d)'
      PROVE  s = t \/ s \in copies' \/ t \in copies'
  <2>1. /\ s \in Active(d) \/ s \in copies'
        /\ t \in Active(d) \/ t \in copies'
    BY <1>1
  <2> QED BY <2>1 DEF DealInv
<1>3. ASSUME NEW d \in Deals, NEW c \in Calls, pc'[c] = "save",
             c \notin stale', d \notin found'[c]
      PROVE  Active(d)' \subseteq copies'
  BY <1>1, <1>3 DEF DealInv
<1> QED BY <1>2, <1>3 DEF DealInv

LEMMA DealSaveStep ==
  ASSUME RowsTyped, DealInv, NEW c \in Calls,
         NEW id \in [Missing(c) -> Unborn], ImportSave(c, id)
  PROVE  DealInv'
<1> DEFINE new == {id[d] : d \in Missing(c)}
<1> USE DEF RowsTyped, SubsTypeOK
<1>1. /\ new \subseteq Subs
      /\ \A s \in new : row[s].state = "none"
  BY DEF Unborn
<1>2. /\ pc[c] = "save" /\ pc' = [pc EXCEPT ![c] = "ack"]
      /\ stale' = IF new = {} THEN stale
                  ELSE stale \cup {d \in Calls \ {c} : pc[d] = "save"}
      /\ copies' = IF c \in stale THEN copies \cup new ELSE copies
      /\ found' = [found EXCEPT ![c] = {}]
      /\ row' = [s \in Subs |->
           IF s \in new
           THEN Deal(CHOOSE d \in Missing(c) : id[d] = s)
           ELSE row[s]]
  BY DEF ImportSave, Step
<1>3. ASSUME NEW s \in new
      PROVE  /\ (CHOOSE d \in Missing(c) : id[d] = s) \in Missing(c)
             /\ id[CHOOSE d \in Missing(c) : id[d] = s] = s
  <2>1. \E d \in Missing(c) : id[d] = s
    BY <1>3
  <2> QED BY <2>1
<1>4. ASSUME NEW d \in Deals, NEW e \in Deals, CopyOf(Deal(e), d)
      PROVE  e = d
  <2>1. e \in Routes /\ d \in Routes
    BY DealsAssumption
  <2>2. e.origin = d.origin /\ e.destination = d.destination
    BY <1>4 DEF CopyOf, Deal, NoRow
  <2> QED BY <2>1, <2>2 DEF Routes
<1>5. ASSUME NEW s \in new, NEW d \in Deals, CopyOf(row'[s], d)
      PROVE  d \in Missing(c) /\ id[d] = s
  <2> DEFINE e == CHOOSE e \in Missing(c) : id[e] = s
  <2>1. e \in Missing(c) /\ e \in Deals /\ id[e] = s
    BY <1>3 DEF Missing
  <2>2. row'[s] = Deal(e)
    BY <1>1, <1>2
  <2>3. e = d
    BY <1>4, <1>5, <2>1, <2>2
  <2> QED BY <2>1, <2>3
<1>6. \A s \in Subs \ new : row'[s] = row[s]
  BY <1>2
<1> HIDE DEF new
<1>7. ASSUME NEW d \in Deals, NEW s \in Active(d)'
      PROVE  /\ s \in Subs
             /\ \/ s \in Active(d)
                \/ s \in new /\ d \in Missing(c) /\ id[d] = s
  BY <1>5, <1>6 DEF Active
<1>8. ASSUME NEW d \in Deals, d \in Missing(c), c \notin stale
      PROVE  Active(d) \subseteq copies
  BY <1>2, <1>8 DEF DealInv, Missing
<1>9. ASSUME NEW d \in Deals, NEW s \in Active(d)', NEW t \in Active(d)'
      PROVE  s = t \/ s \in copies' \/ t \in copies'
  <2>1. CASE s \in Active(d) /\ t \in Active(d)
    BY <1>2, <2>1 DEF DealInv
  <2>2. CASE c \in stale
    BY <1>2, <1>7, <2>1, <2>2
  <2>3. CASE c \notin stale /\ ~(s \in Active(d) /\ t \in Active(d))
    <3>1. CASE s \in Active(d)
      <4>1. d \in Missing(c)
        BY <1>7, <2>3, <3>1
      <4>2. s \in copies
        BY <1>8, <2>3, <3>1, <4>1
      <4> QED BY <1>2, <4>2
    <3>2. CASE t \in Active(d)
      <4>1. d \in Missing(c)
        BY <1>7, <2>3, <3>2
      <4>2. t \in copies
        BY <1>8, <2>3, <3>2, <4>1
      <4> QED BY <1>2, <4>2
    <3>3. CASE s \notin Active(d) /\ t \notin Active(d)
      BY <1>7, <3>3
    <3> QED BY <3>1, <3>2, <3>3
  <2> QED BY <2>1, <2>2, <2>3
<1>10. ASSUME NEW d \in Deals, NEW e \in Calls, pc'[e] = "save",
              e \notin stale', d \notin found'[e]
       PROVE  Active(d)' \subseteq copies'
  <2>1. e # c /\ pc[e] = "save" /\ found'[e] = found[e]
    BY <1>2, <1>10
  <2>2. new = {} /\ e \notin stale
    BY <1>2, <1>10, <2>1
  <2>3. Active(d) \subseteq copies
    BY <1>10, <2>1, <2>2 DEF DealInv
  <2> QED BY <1>2, <1>7, <2>2, <2>3
<1> QED BY <1>9, <1>10 DEF DealInv

LEMMA DealWriteStep ==
  ASSUME RowsTyped, DealInv, NEW c \in Calls, EditWrite(c) PROVE DealInv'
<1> DEFINE s == target[c]
<1>1. s \in Subs /\ pc[c] = "write" /\ pc' = [pc EXCEPT ![c] = "done"]
  BY DEF EditWrite, RowsTyped, SubsTypeOK, Step
<1>2. /\ row'[s] = NewRow(c)
      /\ \A t \in Subs \ {s} : row'[t] = row[t]
  BY <1>1 DEF EditWrite, RowsTyped, SubsTypeOK
<1>3. copies' = IF \E d \in Deals : CopyOf(NewRow(c), d) /\ ~CopyOf(row[s], d)
                THEN copies \cup {s} ELSE copies
  BY DEF EditWrite
<1>4. ASSUME NEW t \in Subs, NEW d \in Deals, t \in Active(d)'
      PROVE  t \in Active(d) \/ t \in copies'
  BY <1>2, <1>3, <1>4 DEF Active
<1>5. /\ copies \subseteq copies' /\ stale \subseteq stale' /\ UNCHANGED found
  BY <1>3 DEF EditWrite, importVars
<1>6. \A d \in Calls : pc'[d] = "save" => pc[d] = "save"
  BY <1>1 DEF RowsTyped, SubsTypeOK
<1> QED BY <1>4, <1>5, <1>6, DealOtherStep

LEMMA DealImportStep ==
  ASSUME RowsTyped, DealInv, NEW c \in Calls,
         \/ ImportStart(c) \/ ImportFetch(c) \/ ImportUser(c)
         \/ ImportInsertUser(c) \/ ImportFails(c) \/ ImportAck(c)
         \/ ImportCrash(c)
  PROVE  DealInv'
<1> USE DEF ImportStart, ImportFetch, ImportUser, ImportInsertUser,
            ImportFails, ImportAck, ImportCrash
<1>1. UNCHANGED <<row, found, stale, copies>>
  BY DEF importVars, historyVars
<1>2. \A d \in Calls : pc'[d] = "save" => pc[d] = "save"
  BY DEF Step, RowsTyped, SubsTypeOK
<1>3. \A d \in Deals : Active(d)' = Active(d)
  BY <1>1 DEF Active
<1> QED BY <1>1, <1>2, <1>3, DealOtherStep

LEMMA DealRowsStep ==
  ASSUME RowsTyped, DealInv, NEW c \in Calls, RowsNext(c) PROVE DealInv'
<1>1. ASSUME NEW s \in Subs, NEW from \in Ranges, NEW to \in Ranges,
             Create(c, s, from, to)
      PROVE  DealInv'
  <2>1. ~[NoRow EXCEPT !.state = "row", !.start = from, !.end = to].imported
    BY DEF NoRow
  <2>2. \A t \in Subs, d \in Deals : t \in Active(d)' => t \in Active(d)
    BY <1>1, <2>1 DEF Create, Active, CopyOf, RowsTyped, SubsTypeOK
  <2>3. \A d \in Calls : pc'[d] = "save" => pc[d] = "save"
    BY <1>1 DEF Create, Step, RowsTyped, SubsTypeOK
  <2> QED BY <1>1, <2>2, <2>3, DealOtherStep
          DEF Create, importVars, historyVars
<1>2. ASSUME NEW s \in Subs, Delete(c, s) PROVE DealInv'
  <2>1. /\ row[s] \in Row
        /\ row' = [row EXCEPT ![s] = [row[s] EXCEPT !.state = "gone"]]
    BY <1>2 DEF Delete, RowsTyped, SubsTypeOK
  <2>2. \A t \in Subs : row'[t] = row[t] \/ row'[t].state = "gone"
    BY <2>1 DEF Row, RowsTyped, SubsTypeOK
  <2>3. \A t \in Subs, d \in Deals : t \in Active(d)' => t \in Active(d)
    BY <2>2 DEF Active, CopyOf
  <2>4. \A d \in Calls : pc'[d] = "save" => pc[d] = "save"
    BY <1>2 DEF Delete, Step, RowsTyped, SubsTypeOK
  <2> QED BY <1>2, <2>3, <2>4, DealOtherStep
          DEF Delete, importVars, historyVars
<1>3. ASSUME NEW s, NEW ch, NEW from, Load(c, s, ch, from) PROVE DealInv'
  <2>1. \A d \in Calls : pc'[d] = "save" => pc[d] = "save"
    BY <1>3 DEF Load, Step, RowsTyped, SubsTypeOK
  <2>2. /\ UNCHANGED <<row, found, stale, copies>>
        /\ \A d \in Deals : Active(d)' = Active(d)
    BY <1>3 DEF Load, Active, importVars, historyVars
  <2> QED BY <2>1, <2>2, DealOtherStep
<1>4. CASE EditFails(c)
  <2>1. \A d \in Calls : pc'[d] = "save" => pc[d] = "save"
    BY <1>4 DEF EditFails, Step, RowsTyped, SubsTypeOK
  <2>2. /\ UNCHANGED <<row, found, stale, copies>>
        /\ \A d \in Deals : Active(d)' = Active(d)
    BY <1>4 DEF EditFails, Active, importVars, historyVars
  <2> QED BY <2>1, <2>2, DealOtherStep
<1>5. CASE ImportDeals(c)
  <2>1. /\ UNCHANGED <<row, copies>>
        /\ \A d \in Deals : Active(d)' = Active(d)
    BY <1>5 DEF ImportDeals, Active
  <2>2. /\ pc' = [pc EXCEPT ![c] = "save"] /\ stale' = stale \ {c}
        /\ found' = [found EXCEPT ![c] = ActiveDeals]
    BY <1>5 DEF ImportDeals, Step
  <2>3. \A d \in Deals : d \notin found'[c] => Active(d) = {}
    BY <2>2 DEF ActiveDeals, RowsTyped, SubsTypeOK
  <2>4. \A d \in Calls \ {c} : /\ pc'[d] = pc[d] /\ found'[d] = found[d]
                               /\ d \in stale => d \in stale'
    BY <2>2 DEF RowsTyped, SubsTypeOK
  <2> QED BY <2>1, <2>3, <2>4, DealOtherStep
<1> QED BY <1>1, <1>2, <1>3, <1>4, <1>5, DealWriteStep, DealSaveStep,
           DealImportStep
        DEF RowsNext, SubsStep, EditLoad, Arrive

LEMMA DealStep == RowsTyped /\ DealInv /\ [Next]_vars => DealInv'
<1> SUFFICES ASSUME RowsTyped, DealInv, [Next]_vars PROVE DealInv'
  OBVIOUS
<1>1. CASE ToggleStep
  <2>1. \A d \in Calls : pc'[d] = "save" => pc[d] = "save"
    BY <1>1 DEF ToggleStep, Step, RowsTyped, SubsTypeOK
  <2>2. /\ UNCHANGED <<row, found, stale, copies>>
        /\ \A d \in Deals : Active(d)' = Active(d)
    BY <1>1 DEF ToggleStep, Active, importVars, historyVars
  <2> QED BY <2>1, <2>2, DealOtherStep
<1>2. CASE UNCHANGED subsVars
  BY <1>2 DEF DealInv, Active, subsVars, importVars, historyVars
<1> QED BY <1>1, <1>2, RowsSteps, DealRowsStep

\* At most one element, and the size of the set.
LEMMA FewElements ==
  ASSUME NEW S, \A s, t \in S : s = t
  PROVE  Cardinality(S) <= 1
<1>1. CASE S = {}
  BY <1>1, FS_EmptySet
<1>2. ASSUME NEW s \in S PROVE Cardinality(S) = 1
  <2>1. S = {s}
    BY <1>2
  <2> QED BY <2>1, FS_Singleton
<1> QED BY <1>1, <1>2

LEMMA SmallSets ==
  ASSUME NEW S, IsFiniteSet(S), Cardinality(S) <= 1, NEW s \in S, NEW t \in S
  PROVE  s = t
<1>1. Cardinality(S) \in Nat /\ Cardinality(S) # 0
  BY FS_CardinalityType, FS_EmptySet
<1>2. Cardinality(S) = 1
  BY <1>1
<1> QED BY <1>2, FS_Singleton

\* Run again and again, the import leaves one active row for a deal, unless
\* two imports overlapped or an edit made a row a copy of the deal.
THEOREM DealsAreImportedOnce == Spec => []DealImportedOnce
<1>1. Init => DealInv
  <2> SUFFICES ASSUME Init, NEW d \in Deals
               PROVE  /\ \A s, t \in Active(d) : s = t
                      /\ \A c \in Calls : pc[c] # "save"
    BY DEF DealInv
  <2>1. SubsInit
    BY DEF Init
  <2>2. Cardinality(Active(d)) <= 1
    BY <2>1 DEF SubsInit
  <2>3. IsFiniteSet(Active(d))
    BY RowsAssumption, FS_Subset DEF Active
  <2>4. \A s, t \in Active(d) : s = t
    BY <2>2, <2>3, SmallSets
  <2> QED BY <2>1, <2>4 DEF SubsInit
<1>2. ASSUME DealInv, NEW d \in Deals, Active(d) \cap copies = {}
      PROVE  ~(Cardinality(Active(d)) > 1)
  <2>1. \A s, t \in Active(d) : s = t
    BY <1>2 DEF DealInv
  <2>2. Cardinality(Active(d)) \in Nat
    <3>1. IsFiniteSet(Active(d))
      BY RowsAssumption, FS_Subset DEF Active
    <3> QED BY <3>1, FS_CardinalityType
  <2> QED BY <2>1, <2>2, FewElements
<1>3. DealInv => DealImportedOnce
  BY <1>2 DEF DealImportedOnce
<1> QED BY <1>1, <1>3, DealStep, RowsTypesHold, PTL DEF Spec

-----------------------------------------------------------------------------
(* The list in the browser *)

\* The last fetch read what the server has, or a toggle is still under way,
\* which is followed by another fetch.
FetchInv == fetch = "read" /\ ~behind => fetched = View \/ Sent # {}

LEMMA ListStep ==
  TypeOK /\ FetchInv /\ CacheConverges /\ [Next]_vars
    => FetchInv' /\ CacheConverges'
<1> SUFFICES ASSUME TypeOK, FetchInv, CacheConverges, [Next]_vars
             PROVE  FetchInv' /\ CacheConverges'
  OBVIOUS
<1> USE DEF TypeOK, FetchInv, CacheConverges, CancelQueries, Invalidate, Sent
<1>1. ASSUME NEW c \in Calls, NEW s \in Subs, NEW value \in BOOLEAN,
             Mutate(c, s, value)
      PROVE  FetchInv' /\ CacheConverges'
  BY <1>1 DEF Mutate
<1>2. ASSUME NEW c \in Calls, Succeed(c) PROVE FetchInv' /\ CacheConverges'
  BY <1>2 DEF Succeed
<1>3. ASSUME NEW c \in Calls, Fail(c) PROVE FetchInv' /\ CacheConverges'
  BY <1>3 DEF Fail
<1>4. CASE Refocus BY <1>4 DEF Refocus
<1>5. ASSUME UNCHANGED subsVars PROVE View' = View
  BY <1>5 DEF View, Exists, subsVars
<1>6. CASE FetchRead BY <1>5, <1>6 DEF FetchRead
<1>7. CASE FetchArrives BY <1>5, <1>7 DEF FetchArrives
<1>8. CASE FetchFails BY <1>8 DEF FetchFails
<1>9. ASSUME NEW c \in Calls, Server(c) PROVE FetchInv' /\ CacheConverges'
  <2>1. /\ UNCHANGED <<ui, cache, fetch, fetched>>
        /\ behind' = (behind \/ (View' # View /\ c \notin Sent))
    BY <1>9 DEF Server
  <2>2. CASE View' = View \/ (behind' /\ c \notin Sent)
    BY <2>1, <2>2
  <2>3. CASE c \in Sent
    BY <2>1, <2>3
  <2> QED BY <2>1, <2>2, <2>3
<1>10. CASE UNCHANGED vars
  BY <1>5, <1>10 DEF vars, uiVars, uiHistory
<1> QED BY <1>1, <1>2, <1>3, <1>4, <1>6, <1>7, <1>8, <1>9, <1>10
        DEF Next, Browser

\* However toggles, rollbacks, fetches and the server interleave, the list
\* that stays on the screen is the server's, as far as it was fetched.
THEOREM ListsConverge == Spec => []CacheConverges
<1>1. Init => FetchInv /\ CacheConverges
  BY DEF Init, FetchInv, CacheConverges
<1> QED BY <1>1, ListStep, SubscriptionsTypeCorrect, PTL DEF Spec

-----------------------------------------------------------------------------
(* The toggle on the screen *)

\* A fetch that is under way was asked for after every toggle that is, and
\* the snapshot of a toggle shows the earlier ones that are still shown.
ShownInv ==
  /\ fetch # "none" => Sent \subseteq askedBy
  /\ \A c \in Sent : pc[c] # "idle"
  /\ \A c \in Calls : \A d \in earlier[c] : pc[d] # "idle"
  /\ \A c \in Sent : \A d \in (earlier[c] \cap Sent) \ overridden :
       snapshot[c][target[d]] = change[d]["active"]

LEMMA ShownServerStep ==
  ASSUME RowsTyped, TypeOK, ShownInv, ToggleIsShown,
         NEW c \in Calls, Server(c)
  PROVE  ShownInv' /\ ToggleIsShown'
<1>1. UNCHANGED <<ui, cache, snapshot, fetch, askedBy, earlier, overridden>>
  BY DEF Server
<1>2. RowsNext(c)
  BY DEF Server, RowsNext
<1> DEFINE Kept ==
      /\ \A d \in Calls \ {c} : /\ pc'[d] = pc[d]
                                /\ target'[d] = target[d]
                                /\ change'[d] = change[d]
      /\ pc'[c] # "idle"
      /\ pc[c] # "idle" => target'[c] = target[c] /\ change'[c] = change[c]
<1>3. Kept
  <2> USE DEF RowsTyped, SubsTypeOK, CallInv, Step, editVars
  <2>1. CASE Arrive(c) BY <2>1 DEF Arrive, Load
  <2>2. ASSUME NEW s \in Subs, NEW ch \in Edits, EditLoad(c, s, ch)
        PROVE  Kept
    BY <2>2 DEF EditLoad, Load
  <2>3. CASE EditWrite(c) BY <2>3 DEF EditWrite
  <2>4. CASE EditFails(c) BY <2>4 DEF EditFails
  <2>5. ASSUME NEW s \in Subs, Delete(c, s) PROVE <1>3
    BY <2>5 DEF Delete
  <2>6. ASSUME NEW s \in Subs, NEW from \in Ranges, NEW to \in Ranges,
               Create(c, s, from, to)
        PROVE  Kept
    BY <2>6 DEF Create
  <2>7. ASSUME \/ ImportStart(c) \/ ImportFetch(c) \/ ImportUser(c)
               \/ ImportInsertUser(c) \/ ImportFails(c) \/ ImportDeals(c)
               \/ ImportAck(c) \/ ImportCrash(c)
        PROVE  Kept
    BY <2>7 DEF ImportStart, ImportFetch, ImportUser, ImportInsertUser,
                ImportFails, ImportDeals, ImportAck, ImportCrash
  <2>8. ASSUME NEW id \in [Missing(c) -> Unborn], ImportSave(c, id)
        PROVE  Kept
    BY <2>8 DEF ImportSave
  <2> QED BY <1>2, <2>1, <2>2, <2>3, <2>4, <2>5, <2>6, <2>7, <2>8
          DEF RowsNext, SubsStep
<1>4. \A d \in Calls :
        /\ pc[d] # "idle" => /\ pc'[d] # "idle"
                             /\ target'[d] = target[d]
                             /\ change'[d] = change[d]
  BY <1>3
<1>5. Sent' = Sent
  BY <1>1 DEF Sent
<1>6. ToggleIsShown'
  BY <1>1, <1>4, <1>5 DEF ShownInv, ToggleIsShown, Sent
<1>7. ASSUME NEW x \in Sent, NEW d \in (earlier[x] \cap Sent) \ overridden
      PROVE  snapshot[x][target'[d]] = change'[d]["active"]
  <2>1. /\ d \in Calls /\ pc[d] # "idle"
        /\ snapshot[x][target[d]] = change[d]["active"]
    BY <1>7 DEF ShownInv, Sent
  <2> QED BY <1>4, <2>1
<1>8. ShownInv'
  <2>1. \A x \in Calls : \A d \in earlier[x] : pc'[d] # "idle"
    BY <1>4 DEF ShownInv, TypeOK
  <2>2. \A x \in Sent : pc'[x] # "idle"
    BY <1>4 DEF ShownInv, Sent
  <2> QED BY <1>1, <1>5, <1>7, <2>1, <2>2 DEF ShownInv
<1> QED BY <1>6, <1>8

LEMMA ShownStep ==
  RowsTyped /\ TypeOK /\ ShownInv /\ ToggleIsShown /\ [Next]_vars
    => ShownInv' /\ ToggleIsShown'
<1> SUFFICES ASSUME RowsTyped, TypeOK, ShownInv, ToggleIsShown, [Next]_vars
             PROVE  ShownInv' /\ ToggleIsShown'
  OBVIOUS
<1> USE DEF ShownInv, ToggleIsShown, Invalidate, Sent
<1>1. ASSUME NEW c \in Calls, NEW s \in Subs, NEW value \in BOOLEAN,
             Mutate(c, s, value)
      PROVE  ShownInv' /\ ToggleIsShown'
  <2>1. /\ target' = [target EXCEPT ![c] = s]
        /\ change' = [change EXCEPT ![c] = [active |-> value]]
        /\ ui' = [ui EXCEPT ![c] = "sent"]
        /\ pc' = [pc EXCEPT ![c] = "sent"]
        /\ cache' = [cache EXCEPT ![s] = value]
        /\ fetch' = "none"
        /\ overridden' = overridden \cup {d \in Sent : target[d] = s}
    BY <1>1 DEF Mutate, CancelQueries, Step
  <2>2. cache'[s] = value /\ change'[c]["active"] = value /\ target'[c] = s
    BY <2>1 DEF TypeOK, RowsTyped, SubsTypeOK, CallInv
  <2>3. ASSUME NEW d \in Calls \ {c}, ui'[d] = "sent"
        PROVE  \/ d \in overridden'
               \/ cache'[target'[d]] = change'[d]["active"]
    <3>1. ui[d] = "sent" /\ target'[d] = target[d] /\ change'[d] = change[d]
      BY <2>1, <2>3 DEF TypeOK, RowsTyped, SubsTypeOK, CallInv
    <3>2. target[d] = s \/ cache'[target[d]] = cache[target[d]]
      BY <2>1 DEF TypeOK
    <3> QED BY <2>1, <3>1, <3>2
  <2>4. ToggleIsShown'
    BY <2>2, <2>3
  <2>5. /\ pc[c] = "idle" /\ pc'[c] = "sent"
        /\ snapshot' = [snapshot EXCEPT ![c] = cache]
        /\ earlier' = [earlier EXCEPT ![c] = Sent]
        /\ \A d \in Calls \ {c} : /\ pc'[d] = pc[d] /\ ui'[d] = ui[d]
                                  /\ target'[d] = target[d]
                                  /\ change'[d] = change[d]
    BY <1>1, <2>1 DEF Mutate, Step, TypeOK, RowsTyped, SubsTypeOK, CallInv
  <2>6. /\ \A x \in Sent' : pc'[x] # "idle"
        /\ \A x \in Calls : \A d \in earlier'[x] : pc'[d] # "idle"
    <3>1. \A d \in Calls : pc[d] # "idle" => pc'[d] # "idle"
      BY <2>5
    <3>2. \A x \in Calls : \A d \in earlier'[x] :
            d \in Calls /\ pc[d] # "idle"
      BY <2>5 DEF TypeOK
    <3> QED BY <2>5, <3>1, <3>2
  <2>7. ASSUME NEW x \in Sent', NEW d \in (earlier'[x] \cap Sent') \ overridden'
        PROVE  snapshot'[x][target'[d]] = change'[d]["active"]
    <3>1. d \in Calls /\ pc[d] # "idle" /\ d # c /\ d \notin overridden
      BY <2>1, <2>5, <2>7 DEF TypeOK
    <3>2. /\ d \in Sent
          /\ target'[d] = target[d] /\ change'[d] = change[d]
      BY <2>5, <2>7, <3>1
    <3>3. CASE x = c
      BY <2>5, <3>1, <3>2, <3>3 DEF TypeOK
    <3>4. CASE x # c
      BY <2>5, <2>7, <3>1, <3>2, <3>4 DEF TypeOK
    <3> QED BY <3>3, <3>4
  <2>8. ShownInv'
    BY <2>1, <2>6, <2>7
  <2> QED BY <2>4, <2>8
<1>2. ASSUME NEW c \in Calls, Succeed(c) PROVE ShownInv' /\ ToggleIsShown'
  BY <1>2 DEF Succeed, TypeOK, subsVars, editVars
<1>3. ASSUME NEW c \in Calls, Fail(c) PROVE ShownInv' /\ ToggleIsShown'
  BY <1>3 DEF Fail, TypeOK, subsVars, editVars
<1>4. CASE Refocus BY <1>4 DEF Refocus, subsVars, editVars
<1>5. CASE FetchRead BY <1>5 DEF FetchRead, subsVars, editVars
<1>6. CASE FetchArrives BY <1>6 DEF FetchArrives, subsVars, editVars
<1>7. CASE FetchFails BY <1>7 DEF FetchFails, subsVars, editVars
<1>8. CASE UNCHANGED vars
  BY <1>8 DEF vars, uiVars, uiHistory, subsVars, editVars
<1> QED BY <1>1, <1>2, <1>3, <1>4, <1>5, <1>6, <1>7, <1>8, ShownServerStep
        DEF Next, Browser

\* What the user clicked stays on the screen until the answer, or until a
\* later click, a rollback or a later fetch replaces it.
THEOREM TogglesAreShown == Spec => []ToggleIsShown
<1>1. Init => ShownInv /\ ToggleIsShown
  BY DEF Init, ShownInv, ToggleIsShown, Sent
<1> QED BY <1>1, ShownStep, RowsTypesHold, SubscriptionsTypeCorrect, PTL
        DEF Spec
=============================================================================
