------------------------- MODULE InstrumentCacheProofs -------------------------
(***************************************************************************)
(* Proofs about InstrumentCache, for any instruments, files and tickers:   *)
(* who waits beside his instruments, that the report of an import is true, *)
(* what the report of its dry run foretells, and what an instrument is     *)
(* lost to.                                                                *)
(***************************************************************************)
EXTENDS InstrumentCache, FiniteSetTheorems, WellFoundedInduction, TLAPS

Fields == {"at", "batch", "dry", "known", "report", "expected", "disturbed", "trespassed"}
Actions == {"NEW", "UPDATE", "UNCHANGED", "ERROR"}
Shaped ==
    /\ importer = NoImport \/ (importer.at = "items" /\ DOMAIN importer = Fields)
    /\ importer.at = "items" => importer.report \in Seq(Actions)
    /\ DOMAIN opportunity = Tickers

LEMMA TakeKeepsShape ==
    ASSUME Shaped, AtItem, NEW i, NEW action \in Actions, Take(i, action),
           UNCHANGED opportunity
    PROVE  /\ Shaped'
           /\ importer'.at = "items" /\ importer'.report # <<>>
           /\ importer'.dry = importer.dry
  <1>1. importer.at = "items" /\ DOMAIN importer = Fields /\ importer.report \in Seq(Actions)
    BY DEF Shaped, AtItem, NoImport
  <1>2. importer'.report = Append(importer.report, action)
    BY <1>1 DEF Take, Fields, Reported
  <1>3. importer'.at = "items" /\ importer'.dry = importer.dry /\ DOMAIN importer' = Fields
    BY <1>1 DEF Take, Fields
  <1>4. Append(importer.report, action) \in Seq(Actions) /\ Append(importer.report, action) # <<>>
    BY <1>1
  <1>. QED
    BY <1>2, <1>3, <1>4 DEF Shaped
(* Another terminal's change only marks the running import.                *)
LEMMA DisturbedKeepsShape ==
    ASSUME Shaped, importer' = Disturbed, UNCHANGED opportunity
    PROVE  /\ Shaped'
           /\ importer'.at = importer.at
           /\ importer.at = "items" =>
                  importer'.dry = importer.dry /\ importer'.report = importer.report
  <1>1. CASE importer = NoImport
    BY <1>1 DEF Shaped, Disturbed, NoImport
  <1>2. CASE importer.at = "items" /\ DOMAIN importer = Fields
    BY <1>2 DEF Shaped, Disturbed, Fields
  <1>. QED
    BY <1>1, <1>2 DEF Shaped

LEMMA RefusalKeepsShape ==
    ASSUME Shaped, ImportRefused
    PROVE  /\ Shaped'
           /\ importer'.at = "items" /\ importer'.report # <<>>
           /\ importer'.dry = importer.dry
  <1>1. importer.at = "items" /\ DOMAIN importer = Fields /\ importer.report \in Seq(Actions)
    BY DEF ImportRefused, AtItem, Shaped, NoImport
  <1>2. importer'.report = Append(importer.report, "ERROR")
    BY <1>1 DEF ImportRefused, Reported, Fields
  <1>3. importer'.at = "items" /\ importer'.dry = importer.dry /\ DOMAIN importer' = Fields
    BY <1>1 DEF ImportRefused, Fields
  <1>4. \A a \in Actions : /\ Append(importer.report, a) \in Seq(Actions)
                            /\ Append(importer.report, a) # <<>>
    BY <1>1
  <1>5. opportunity' = opportunity
    BY Zenon DEF ImportRefused
  <1>6. importer'.report \in Seq(Actions) /\ importer'.report # <<>>
    BY <1>2, <1>4 DEF Actions
  <1>7. DOMAIN opportunity' = Tickers
    BY <1>5 DEF Shaped
  <1>. QED
    BY <1>3, <1>6, <1>7, Zenon DEF Shaped

LEMMA ImportedItem ==
    ASSUME ImportNew \/ ImportKnown
    PROVE  /\ AtItem /\ UNCHANGED <<opportunity, late>>
           /\ \E i : \E action \in Actions : Take(i, action)
  <1>1. CASE ImportNew
    <2>1. PICK i \in NewIds : Take(i, "NEW")
      BY <1>1 DEF ImportNew
    <2>2. "NEW" \in Actions
      BY DEF Actions
    <2>. QED
      BY <1>1, <2>1, <2>2 DEF ImportNew
  <1>2. CASE ImportKnown
    <2>1. (IF Changed THEN "UPDATE" ELSE "UNCHANGED") \in Actions
      BY DEF Actions
    <2>. QED
      BY <1>2, <2>1 DEF ImportKnown
  <1>. QED
    BY <1>1, <1>2

LEMMA ShapedStep ==
    ASSUME Shaped, [Next]_vars
    PROVE  Shaped'
  <1>1. ASSUME NEW row \in Rows, InstrumentAdd(row) \/ InstrumentEditSubmit(row)
        PROVE  Shaped'
    <2>1. importer' = Disturbed \/ importer' = importer
      BY <1>1 DEF InstrumentAdd, InstrumentEditSubmit
    <2>. QED
      BY <1>1, <2>1, DisturbedKeepsShape DEF InstrumentAdd, InstrumentEditSubmit, Shaped
  <1>2. ASSUME NEW i \in Ids, InstrumentEditOpen(i) \/ InstrumentDelete(i)
        PROVE  Shaped'
    BY <1>2, DisturbedKeepsShape DEF InstrumentEditOpen, InstrumentDelete, Shaped
  <1>3. ASSUME NEW b \in Batches, NEW dry \in BOOLEAN, StartImport(b, dry)
        PROVE  Shaped'
    BY <1>3 DEF StartImport, Import, Shaped, Fields
  <1>4. CASE ImportRefused
    BY <1>4, RefusalKeepsShape
  <1>5. CASE ImportNew \/ ImportKnown
    BY <1>5, ImportedItem, TakeKeepsShape
  <1>6. CASE FinishImport \/ FinishDryRun \/ ImportDies
    BY <1>6 DEF FinishImport, FinishDryRun, ImportDies, Shaped, NoImport
  <1>7. ASSUME NEW t \in Tickers, OpportunityAdd(t) \/ OpportunityRefresh(t) \/ Rank(t)
        PROVE  Shaped'
    BY <1>7 DEF OpportunityAdd, OpportunityRefresh, Rank, Shaped
  <1>8. CASE OpportunitiesRefreshWaiting
    BY <1>8 DEF OpportunitiesRefreshWaiting, Shaped
  <1>9. CASE UNCHANGED vars
    BY <1>9 DEF vars, Shaped
  <1>. QED
    BY <1>1, <1>2, <1>3, <1>4, <1>5, <1>6, <1>7, <1>8, <1>9 DEF Next

(* What FinishImport and the refresh command do to each waiting ticker.    *)
LEMMA RefreshLeavesNone ==
    ASSUME NEW t \in Tickers, Refreshed(t) = "WAITING"
    PROVE  Cached(t) = {}
  BY DEF Refreshed

(* A row leaves: no ticker has more instruments than before.               *)
LEMMA DeleteAddsNone ==
    ASSUME NEW i \in Ids, InstrumentDelete(i), NEW t \in Tickers, Cached(t)' # {}
    PROVE  Cached(t) # {}
  <1>1. PICK j \in Ids : /\ cache'[j] # NoRow
                         /\ t \in {cache'[j].identity.underlying, Reference(cache'[j])}
    BY DEF Cached, Held, Reference
  <1>2. cache' = [cache EXCEPT ![i] = NoRow]
    BY DEF InstrumentDelete
  <1>3. j # i => cache'[j] = cache[j]
    BY <1>2
  <1>4. j = i => cache'[j] = NoRow \/ cache'[j] = cache[j]
    BY <1>2
  <1>. QED
    BY <1>1, <1>3, <1>4 DEF Cached, Held, Reference

LEMMA ExplainedStep ==
    ASSUME Shaped, WaitingExplained, [Next]_vars
    PROVE  WaitingExplained'
  <1>1. ASSUME NEW row \in Rows, InstrumentAdd(row)
        PROVE  WaitingExplained'
    BY <1>1 DEF InstrumentAdd, WaitingExplained
  <1>2. ASSUME NEW row \in Rows, InstrumentEditSubmit(row)
        PROVE  WaitingExplained'
    BY <1>2 DEF InstrumentEditSubmit, WaitingExplained, Cached, Held
  <1>3. ASSUME NEW i \in Ids, InstrumentEditOpen(i)
        PROVE  WaitingExplained'
    BY <1>3 DEF InstrumentEditOpen, WaitingExplained, Cached, Held
  <1>4. ASSUME NEW i \in Ids, InstrumentDelete(i)
        PROVE  WaitingExplained'
    <2>1. importer' = Disturbed /\ late' = late /\ opportunity' = opportunity
      BY <1>4 DEF InstrumentDelete
    <2>2. \A t \in Tickers : Cached(t)' # {} => Cached(t) # {}
      BY <1>4, DeleteAddsNone
    <2>. QED
      BY <2>1, <2>2, DisturbedKeepsShape DEF WaitingExplained
  <1>5. ASSUME NEW b \in Batches, NEW dry \in BOOLEAN, StartImport(b, dry)
        PROVE  WaitingExplained'
    BY <1>5 DEF StartImport, WaitingExplained, Cached, Held
  <1>6. CASE ImportRefused
    <2>1. importer'.at = "items" /\ importer'.report # <<>> /\ importer'.dry = importer.dry
      BY <1>6, RefusalKeepsShape
    <2>. QED
      BY <1>6, <2>1 DEF ImportRefused, WaitingExplained, Cached, Held
  <1>7. CASE ImportNew \/ ImportKnown
    <2>1. PICK i : \E action \in Actions : Take(i, action)
      BY <1>7, ImportedItem
    <2>2. /\ importer'.at = "items" /\ importer'.report # <<>>
          /\ importer'.dry = importer.dry
      BY <1>7, <2>1, ImportedItem, TakeKeepsShape
    <2>3. CASE importer.dry
      <3>1. cache' = cache /\ late' = late /\ opportunity' = opportunity
        BY <1>7, <2>1, <2>3, ImportedItem DEF Take
      <3>. QED
        BY <2>3, <3>1 DEF WaitingExplained, Cached, Held
    <2>4. CASE ~ importer.dry
      BY <2>2, <2>4 DEF WaitingExplained
    <2>. QED
      BY <2>3, <2>4
  <1>8. CASE FinishImport \/ OpportunitiesRefreshWaiting
    <2>1. /\ cache' = cache
          /\ \A t \in Tickers : opportunity'[t] = "WAITING" => Refreshed(t) = "WAITING"
      BY <1>8 DEF FinishImport, OpportunitiesRefreshWaiting
    <2>2. \A t \in Tickers : opportunity'[t] = "WAITING" => Cached(t) = {}
      BY <2>1, RefreshLeavesNone
    <2>. QED
      BY <2>1, <2>2 DEF WaitingExplained, Cached, Held
  <1>9. CASE FinishDryRun
    BY <1>9 DEF FinishDryRun, Passed, WaitingExplained, Cached, Held
  <1>12. CASE ImportDies
    <2>1. ASSUME NEW t \in Tickers, opportunity'[t] = "WAITING", Cached(t)' # {}
          PROVE  late'
      <3>1. opportunity[t] = "WAITING" /\ Cached(t) # {}
        BY <1>12, <2>1 DEF ImportDies, Cached, Held
      <3>2. late \/ (~ importer.dry /\ importer.report # <<>>)
        BY <3>1, Zenon DEF WaitingExplained
      <3>3. late' = (late \/ (~ importer.dry /\ importer.report # <<>>))
        BY <1>12, Zenon DEF ImportDies
      <3>. QED
        BY <3>2, <3>3, Zenon
    <2>. QED
      BY <2>1, Zenon DEF WaitingExplained
  <1>10. ASSUME NEW t \in Tickers, OpportunityAdd(t) \/ OpportunityRefresh(t) \/ Rank(t)
         PROVE  WaitingExplained'
    <2>1. cache' = cache /\ importer' = importer /\ late' = late
      BY <1>10 DEF OpportunityAdd, OpportunityRefresh, Rank
    <2>2. \A u \in Tickers : opportunity'[u] = "WAITING" =>
              opportunity[u] = "WAITING" \/ Cached(u) = {}
      BY <1>10, RefreshLeavesNone DEF OpportunityAdd, OpportunityRefresh, Rank, Shaped
    <2>. QED
      BY <2>1, <2>2 DEF WaitingExplained, Cached, Held
  <1>11. CASE UNCHANGED vars
    BY <1>11 DEF vars, WaitingExplained, Cached, Held
  <1>. QED
    BY <1>1, <1>2, <1>3, <1>4, <1>5, <1>6, <1>7, <1>8, <1>9, <1>10, <1>11, <1>12 DEF Next

(* Whatever the file, the cache and the other terminal do: an opportunity  *)
(* that waits beside its instruments has an import running or rows nobody  *)
(* has refreshed for.                                                      *)
THEOREM WaitersAreExplained == Spec => []WaitingExplained
  <1>1. Init => Shaped /\ WaitingExplained
    BY DEF Init, Shaped, NoImport, WaitingExplained
  <1>2. Shaped /\ WaitingExplained /\ [Next]_vars => (Shaped /\ WaitingExplained)'
    BY ShapedStep, ExplainedStep
  <1>. QED
    BY <1>1, <1>2, PTL DEF Spec

(***************************************************************************)
(* The types of the cache, of a running import and of a forecast.          *)
(***************************************************************************)

RowOrNone == Rows \union {NoRow}
Entries == [id : Ids \union {NoId}, row : RowOrNone]
Imports == [at : {"items"}, batch : Seq(Items), dry : BOOLEAN,
            known : [Identities -> Entries], report : Seq(Actions),
            expected : Seq(Actions), disturbed : BOOLEAN, trespassed : BOOLEAN]
Typed ==
    /\ cache \in [Ids -> RowOrNone]
    /\ editor # NoEdit => editor.id \in Ids
    /\ importer = NoImport \/ importer \in Imports
    /\ foretold \in [batch : Seq(Items), report : Seq(Actions)]

(* A row is never the absent one: it has its content.                      *)
LEMMA RowIsARow == \A row \in Rows : row # NoRow
  BY DEF Rows, NoRow

(* Of the rows of one identity the one listed last is one of them: a finite*)
(* set of rows has a last one.                                             *)
LEMMA LastListed ==
    ASSUME cache \in [Ids -> RowOrNone], NEW S \in SUBSET Held, S # {}
    PROVE  \E j \in S : \A o \in S : ListedBefore(o, j)
  <1> DEFINE Up(j) == {o \in S : ListedBefore(j, o)}
             Ups == {Up(j) : j \in S}
  <1>1. IsFiniteSet(S)
    BY CacheAssumption, FS_Subset DEF Held
  <1>2. Ups \subseteq FiniteSubsetsOf(S) /\ Ups # {}
    <2>1. \A j \in S : Up(j) \subseteq S /\ IsFiniteSet(Up(j))
      BY <1>1, FS_Subset
    <2>. QED
      BY <2>1, <1>1 DEF FiniteSubsetsOf
  <1>3. PICK U \in Ups : \A V \in Ups : ~ (<<V, U>> \in StrictSubsetOrdering(S))
    BY <1>2, FS_StrictSubsetOrderingWellFounded, WFMin
  <1>4. PICK j \in S : U = Up(j)
    BY <1>3
  <1>5. \A i \in S : i \in Int /\ Reference(cache[i]) \in Int
    BY CacheAssumption DEF Held, RowOrNone, Rows, Reference
  <1>6. ASSUME NEW o \in S, ~ ListedBefore(o, j) PROVE FALSE
    <2>1. ListedBefore(j, o) /\ ListedBefore(j, j)
      BY <1>5, <1>6 DEF ListedBefore
    <2>2. Up(o) \subseteq Up(j)
      BY <1>5, <2>1 DEF ListedBefore
    <2>3. j \in Up(j) /\ j \notin Up(o)
      BY <1>6, <2>1
    <2>4. <<Up(o), Up(j)>> \in StrictSubsetOrdering(S)
      BY <2>2, <2>3 DEF StrictSubsetOrdering
    <2>. QED
      BY <1>3, <1>4, <2>4
  <1>. QED
    BY <1>6

LEMMA KnownFromCache ==
    ASSUME cache \in [Ids -> RowOrNone], NEW k \in Identities
    PROVE  /\ Known(k) \in Entries
           /\ Known(k).row # NoRow =>
                  /\ Known(k).id \in Ids
                  /\ cache[Known(k).id] = Known(k).row
                  /\ Known(k).row.identity = k
  <1> DEFINE same == {i \in Held : cache[i].identity = k}
  <1>1. CASE same = {}
    <2>1. Known(k) = [id |-> NoId, row |-> NoRow]
      BY <1>1 DEF Known
    <2>. QED
      BY <2>1 DEF Entries, RowOrNone
  <1>2. CASE same # {}
    <2> DEFINE i == CHOOSE j \in same : \A o \in same : ListedBefore(o, j)
    <2>1. \E j \in same : \A o \in same : ListedBefore(o, j)
      BY <1>2, LastListed
    <2>2. i \in same
      BY <2>1
    <2>3. Known(k) = [id |-> i, row |-> cache[i]]
      BY <1>2 DEF Known
    <2> HIDE DEF i
    <2>4. i \in Ids /\ cache[i] \in RowOrNone /\ cache[i].identity = k
      BY <2>2 DEF Held
    <2>. QED
      BY <2>3, <2>4 DEF Entries
  <1>. QED
    BY <1>1, <1>2

(***************************************************************************)
(* What an import knows and reports, item by item, without the ids.        *)
(***************************************************************************)

Running == importer.at = "items"
Memories == [Identities -> RowOrNone]
CachedRows == [k \in Identities |-> Known(k).row]
KnownRows == [k \in Identities |-> importer.known[k].row]

Judge(rows, item) ==
    LET row == Row(item.identity, item.content)
    IN  IF ~ Consistent(row) THEN "ERROR"
        ELSE IF rows[item.identity] = NoRow THEN "NEW"
        ELSE IF rows[item.identity] # row THEN "UPDATE" ELSE "UNCHANGED"
Learn(rows, item) ==
    LET row == Row(item.identity, item.content)
    IN  IF Consistent(row) THEN [rows EXCEPT ![item.identity] = row] ELSE rows

LEMMA ItemTyped ==
    ASSUME NEW item \in Items
    PROVE  /\ item.identity \in Identities /\ item.content \in Contents
           /\ item.id \in Ids \union {NoId}
           /\ Row(item.identity, item.content) \in Rows
           /\ Row(item.identity, item.content) # NoRow
           /\ Row(item.identity, item.content).identity = item.identity
  <1>1. item \in [identity : Identities, content : Contents, id : Ids \union {NoId}]
    BY CacheAssumption
  <1>. QED
    BY <1>1, RowIsARow DEF Row, Rows

LEMMA AtItemTyped ==
    ASSUME importer \in Imports, AtItem
    PROVE  Item \in Items /\ Current \in Entries
  <1>1. Item \in Items
    BY DEF Imports, AtItem, Item
  <1>. QED
    BY <1>1, ItemTyped DEF Imports, Current

(* What taking one item does to the running import.                        *)
LEMMA Taken ==
    ASSUME importer \in Imports, AtItem, NEW id \in Ids \union {NoId},
           NEW action \in Actions, Take(id, action)
    PROVE  /\ importer' \in Imports
           /\ importer'.batch = importer.batch /\ importer'.dry = importer.dry
           /\ importer'.expected = importer.expected
           /\ importer'.disturbed = importer.disturbed
           /\ importer'.report = Append(importer.report, action)
           /\ importer'.known = Saved(importer.known, id)
           /\ importer'.trespassed =
                  (importer.trespassed \/ (action = "NEW" /\ id \in Held))
  <1> DEFINE entry == [id |-> id, row |-> ItemRow]
             known == Saved(importer.known, id)
             report == Append(importer.report, action)
             trespassed == importer.trespassed \/ (action = "NEW" /\ id \in Held)
  <1>1. entry \in Entries /\ Item.identity \in Identities
    BY AtItemTyped, ItemTyped DEF Entries, RowOrNone, ItemRow
  <1>2. importer.known \in [Identities -> Entries] /\ importer.report \in Seq(Actions)
    BY DEF Imports
  <1>3. known \in [Identities -> Entries]
    BY <1>1, <1>2 DEF Saved
  <1>4. report \in Seq(Actions) /\ trespassed \in BOOLEAN
    BY <1>2 DEF Imports
  <1>5. importer' = [importer EXCEPT !.report = report, !.known = known,
                                     !.trespassed = trespassed]
    BY DEF Take, Reported, Imports
  <1>. HIDE DEF entry, known, report, trespassed
  <1>6. /\ importer' \in Imports
        /\ importer'.batch = importer.batch /\ importer'.dry = importer.dry
        /\ importer'.expected = importer.expected
        /\ importer'.disturbed = importer.disturbed
        /\ importer'.report = report /\ importer'.known = known
        /\ importer'.trespassed = trespassed
    BY <1>3, <1>4, <1>5 DEF Imports
  <1>. QED
    BY <1>6 DEF entry, known, report, trespassed

LEMMA Refused ==
    ASSUME importer \in Imports, ImportRefused
    PROVE  /\ importer' \in Imports
           /\ importer'.batch = importer.batch /\ importer'.dry = importer.dry
           /\ importer'.expected = importer.expected
           /\ importer'.disturbed = importer.disturbed
           /\ importer'.report = Append(importer.report, "ERROR")
           /\ importer'.known = importer.known
           /\ importer'.trespassed = importer.trespassed
  <1>1. importer.report \in Seq(Actions) /\ "ERROR" \in Actions
    BY DEF Imports, Actions
  <1>2. Append(importer.report, "ERROR") \in Seq(Actions)
    BY <1>1
  <1>3. importer' = [importer EXCEPT !.report = Append(importer.report, "ERROR")]
    BY DEF ImportRefused, Reported
  <1>. QED
    BY <1>2, <1>3 DEF Imports

(* One item taken, by the id it is saved under.                            *)
TakenUnder(id) ==
    \/ ImportNew /\ id \in NewIds /\ Take(id, "NEW")
    \/ ImportKnown /\ id = Current.id
         /\ Take(id, IF Changed THEN "UPDATE" ELSE "UNCHANGED")

LEMMA SomeId ==
    ASSUME importer \in Imports, ImportNew \/ ImportKnown
    PROVE  /\ AtItem /\ Consistent(ItemRow)
           /\ \E id \in Ids \union {NoId} : TakenUnder(id)
  <1>1. CASE ImportNew
    <2>1. AtItem /\ Consistent(ItemRow)
      BY <1>1 DEF ImportNew
    <2>2. PICK id \in NewIds : Take(id, "NEW")
      BY <1>1 DEF ImportNew
    <2>3. id \in Ids \union {NoId}
      BY <2>1, <2>2, AtItemTyped, ItemTyped DEF NewIds
    <2>. QED
      BY <1>1, <2>1, <2>2, <2>3 DEF TakenUnder
  <1>2. CASE ImportKnown
    <2>1. /\ AtItem /\ Consistent(ItemRow)
          /\ Take(Current.id, IF Changed THEN "UPDATE" ELSE "UNCHANGED")
      BY <1>2 DEF ImportKnown
    <2>2. Current.id \in Ids \union {NoId}
      BY <2>1, AtItemTyped DEF Entries
    <2>. QED
      BY <1>2, <2>1, <2>2 DEF TakenUnder
  <1>. QED
    BY <1>1, <1>2

LEMMA TakenAction ==
    ASSUME NEW id, TakenUnder(id)
    PROVE  \E action \in Actions \ {"ERROR"} : Take(id, action)
  BY DEF TakenUnder, Actions

(* Each item is judged by what the import knows, and learned if saved.     *)
LEMMA ItemJudged ==
    ASSUME importer \in Imports, ImportRefused \/ ImportNew \/ ImportKnown
    PROVE  /\ AtItem /\ importer' \in Imports
           /\ importer'.batch = importer.batch /\ importer'.dry = importer.dry
           /\ importer'.expected = importer.expected
           /\ importer'.disturbed = importer.disturbed
           /\ importer'.report = Append(importer.report, Judge(KnownRows, Item))
           /\ KnownRows' = IF importer.dry THEN KnownRows ELSE Learn(KnownRows, Item)
  <1>1. AtItem
    BY DEF ImportRefused, ImportNew, ImportKnown
  <1>2. /\ Item.identity \in Identities
        /\ KnownRows[Item.identity] = Current.row
        /\ KnownRows \in Memories
    BY <1>1, AtItemTyped, ItemTyped DEF KnownRows, Current, Memories, Imports, Entries
  <1>3. CASE ImportRefused
    <2>1. Judge(KnownRows, Item) = "ERROR" /\ Learn(KnownRows, Item) = KnownRows
      BY <1>3 DEF ImportRefused, ItemRow, Judge, Learn
    <2>2. KnownRows' = KnownRows
      BY <1>3, Refused DEF KnownRows
    <2>. QED
      BY <1>1, <1>3, <2>1, <2>2, Refused
  <1>4. CASE ImportNew \/ ImportKnown
    <2>1. PICK id \in Ids \union {NoId} : TakenUnder(id)
      BY <1>4, SomeId
    <2>2. PICK action \in Actions : /\ Take(id, action)
                                    /\ action = Judge(KnownRows, Item)
      BY <2>1, <1>2, <1>4, SomeId
      DEF TakenUnder, ImportNew, ImportKnown, Changed, Judge, ItemRow, Actions
    <2>3. importer'.known = Saved(importer.known, id)
      BY <1>1, <2>2, Taken
    <2>4. CASE importer.dry
      <3>1. KnownRows' = KnownRows
        BY <2>3, <2>4 DEF KnownRows, Saved
      <3>. QED
        BY <1>1, <2>2, <2>4, <3>1, Taken
    <2>5. CASE ~ importer.dry
      <3>1. KnownRows' = [KnownRows EXCEPT ![Item.identity] = ItemRow]
        BY <1>2, <2>3, <2>5 DEF KnownRows, Imports, Saved
      <3>2. Learn(KnownRows, Item) = [KnownRows EXCEPT ![Item.identity] = ItemRow]
        BY <1>4, SomeId DEF Learn, ItemRow
      <3>. QED
        BY <1>1, <2>2, <2>5, <3>1, <3>2, Taken
    <2>. QED
      BY <2>4, <2>5
  <1>. QED
    BY <1>3, <1>4

LEMMA DisturbedTyped ==
    ASSUME importer = NoImport \/ importer \in Imports
    PROVE  /\ Disturbed = NoImport \/ Disturbed \in Imports
           /\ Disturbed.at = importer.at
           /\ Running => /\ Disturbed.batch = importer.batch /\ Disturbed.dry = importer.dry
                         /\ Disturbed.known = importer.known
                         /\ Disturbed.report = importer.report
                         /\ Disturbed.expected = importer.expected
                         /\ Disturbed.disturbed = TRUE
                         /\ Disturbed.trespassed = importer.trespassed
  <1>1. CASE importer = NoImport
    BY <1>1 DEF Disturbed, NoImport, Running
  <1>2. CASE importer \in Imports
    <2>1. Disturbed = [importer EXCEPT !.disturbed = TRUE]
      BY <1>2 DEF Disturbed, Imports
    <2>. QED
      BY <1>2, <2>1 DEF Imports
  <1>. QED
    BY <1>1, <1>2

LEMMA TypedStep ==
    ASSUME Typed, [Next]_vars
    PROVE  Typed'
  <1>1. importer' = Disturbed => importer' = NoImport \/ importer' \in Imports
    BY DisturbedTyped DEF Typed
  <1>0. NoForecast \in [batch : Seq(Items), report : Seq(Actions)]
    BY DEF NoForecast
  <1>2. ASSUME NEW row \in Rows, InstrumentAdd(row) \/ InstrumentEditSubmit(row)
        PROVE  Typed'
    <2>1. cache' \in [Ids -> RowOrNone]
      BY <1>2 DEF InstrumentAdd, InstrumentEditSubmit, Typed, RowOrNone
    <2>. QED
      BY <1>0, <1>1, <1>2, <2>1 DEF InstrumentAdd, InstrumentEditSubmit, Typed
  <1>3. ASSUME NEW i \in Ids, InstrumentEditOpen(i) \/ InstrumentDelete(i)
        PROVE  Typed'
    <2>1. cache' \in [Ids -> RowOrNone]
      BY <1>3 DEF InstrumentEditOpen, InstrumentDelete, Typed, RowOrNone
    <2>. QED
      BY <1>0, <1>1, <1>3, <2>1 DEF InstrumentEditOpen, InstrumentDelete, Typed
  <1>4. ASSUME NEW b \in Batches, NEW dry \in BOOLEAN, StartImport(b, dry)
        PROVE  Typed'
    <2>1. b \in Seq(Items)
      BY CacheAssumption DEF Batches
    <2>2. [k \in Identities |-> Known(k)] \in [Identities -> Entries]
      BY KnownFromCache DEF Typed
    <2>3. importer' \in Imports
      BY <1>4, <2>1, <2>2 DEF StartImport, Import, Imports, Typed
    <2>. QED
      BY <1>0, <1>4, <2>3 DEF StartImport, Typed
  <1>5. CASE ImportRefused
    <2>1. importer' \in Imports
      BY <1>5, ItemJudged DEF ImportRefused, AtItem, NoImport, Typed
    <2>. QED
      BY <1>5, <2>1 DEF ImportRefused, Typed
  <1>6. CASE ImportNew \/ ImportKnown
    <2>1. importer \in Imports
      BY <1>6 DEF ImportNew, ImportKnown, AtItem, NoImport, Typed
    <2>2. importer' \in Imports
      BY <1>6, <2>1, ItemJudged
    <2>3. PICK id : TakenUnder(id)
      BY <1>6, <2>1, SomeId
    <2>4. cache' = IF importer.dry THEN cache ELSE [cache EXCEPT ![id] = ItemRow]
      BY <2>3 DEF TakenUnder, Take
    <2>5. ItemRow \in RowOrNone
      BY <1>6, <2>1, SomeId, AtItemTyped, ItemTyped DEF ItemRow, RowOrNone
    <2>6. cache' \in [Ids -> RowOrNone]
      BY <2>4, <2>5 DEF Typed
    <2>7. editor' = editor /\ foretold' = foretold
      BY <1>6 DEF ImportNew, ImportKnown
    <2>. QED
      BY <2>2, <2>6, <2>7 DEF Typed
  <1>7. CASE FinishImport \/ ImportDies
    BY <1>7 DEF FinishImport, ImportDies, Typed
  <1>8. CASE FinishDryRun
    <2>1. importer \in Imports
      BY <1>8 DEF FinishDryRun, Passed, NoImport, Typed
    <2>. QED
      BY <1>0, <1>8, <2>1 DEF FinishDryRun, Imports, Typed
  <1>9. ASSUME NEW t \in Tickers, OpportunityAdd(t) \/ OpportunityRefresh(t) \/ Rank(t)
        PROVE  Typed'
    BY <1>9 DEF OpportunityAdd, OpportunityRefresh, Rank, Typed
  <1>10. CASE OpportunitiesRefreshWaiting
    BY <1>10 DEF OpportunitiesRefreshWaiting, Typed
  <1>11. CASE UNCHANGED vars
    BY <1>11 DEF vars, Typed
  <1>. QED
    BY <1>2, <1>3, <1>4, <1>5, <1>6, <1>7, <1>8, <1>9, <1>10, <1>11 DEF Next

(* What the running import does not see: all but its own items.            *)
Elsewhere ==
    \/ \E i \in Ids : InstrumentEditOpen(i)
    \/ \E row \in Rows : InstrumentEditSubmit(row) /\ ~ Consistent(row)
    \/ \E t \in Tickers : OpportunityAdd(t) \/ OpportunityRefresh(t) \/ Rank(t)
    \/ OpportunitiesRefreshWaiting
    \/ UNCHANGED vars

LEMMA ElsewhereChangesNothing ==
    ASSUME Elsewhere
    PROVE  UNCHANGED <<cache, importer, foretold>>
  BY DEF Elsewhere, InstrumentEditOpen, InstrumentEditSubmit, OpportunityAdd,
         OpportunityRefresh, Rank, OpportunitiesRefreshWaiting, vars

(* A change of the cache by hand.                                          *)
ByHand ==
    \/ \E row \in Rows : InstrumentAdd(row) \/ (InstrumentEditSubmit(row) /\ Consistent(row))
    \/ \E i \in Ids : InstrumentDelete(i)

LEMMA ByHandDisturbs ==
    ASSUME ByHand
    PROVE  importer' = Disturbed /\ foretold' = NoForecast
  BY DEF ByHand, InstrumentAdd, InstrumentEditSubmit, InstrumentDelete

LEMMA Steps ==
    ASSUME [Next]_vars
    PROVE  \/ Elsewhere \/ ByHand
           \/ \E b \in Batches, dry \in BOOLEAN : StartImport(b, dry)
           \/ ImportRefused \/ ImportNew \/ ImportKnown
           \/ FinishImport \/ FinishDryRun \/ ImportDies
  BY DEF Next, Elsewhere, ByHand

(***************************************************************************)
(* What an import is sure of, as long as nothing else touches the cache:   *)
(* each row it knows is where it believes it.                              *)
(***************************************************************************)

Sure == Running /\ ~ importer.dry /\ ~ importer.disturbed /\ ~ importer.trespassed
Placed(k) ==
    importer.known[k].row # NoRow =>
        /\ importer.known[k].id \in Ids
        /\ cache[importer.known[k].id] = importer.known[k].row
        /\ importer.known[k].row.identity = k
Tracked == Sure => \A k \in Identities : Placed(k)

LEMMA TrackedStep ==
    ASSUME Typed, Tracked, [Next]_vars
    PROVE  Tracked'
  <1>1. CASE Elsewhere
    BY <1>1, ElsewhereChangesNothing DEF Tracked, Sure, Running, Placed
  <1>2. CASE ByHand
    BY <1>2, ByHandDisturbs, DisturbedTyped DEF Tracked, Sure, Running, Typed
  <1>3. ASSUME NEW b \in Batches, NEW dry \in BOOLEAN, StartImport(b, dry)
        PROVE  Tracked'
    <2>1. cache' = cache /\ importer'.known = [k \in Identities |-> Known(k)]
      BY <1>3 DEF StartImport, Import
    <2>. QED
      BY <2>1, KnownFromCache DEF Tracked, Placed, Typed
  <1>4. CASE ImportRefused
    <2>1. importer \in Imports
      BY <1>4 DEF ImportRefused, AtItem, NoImport, Typed
    <2>2. cache' = cache
      BY <1>4 DEF ImportRefused
    <2>3. Sure' => Sure
      BY <1>4, <2>1, Refused DEF Sure, Running, Imports
    <2>. QED
      BY <1>4, <2>1, <2>2, <2>3, Refused DEF Tracked, Placed
  <1>5. CASE ImportNew \/ ImportKnown
    <2> SUFFICES ASSUME Sure', NEW k \in Identities PROVE Placed(k)'
      BY DEF Tracked
    <2>1. importer \in Imports
      BY <1>5 DEF ImportNew, ImportKnown, AtItem, NoImport, Typed
    <2>2. AtItem /\ Item \in Items /\ Item.identity \in Identities
      BY <1>5, <2>1, SomeId, AtItemTyped, ItemTyped
    <2>3. PICK id \in Ids \union {NoId} : TakenUnder(id)
      BY <1>5, <2>1, SomeId
    <2>4. PICK action \in Actions : Take(id, action) /\ (ImportNew => action = "NEW")
      BY <2>3 DEF TakenUnder, Actions, ImportNew, ImportKnown
    <2>5. /\ importer'.known = [importer.known EXCEPT ![Item.identity] =
                                    [id |-> id, row |-> ItemRow]]
          /\ Sure
          /\ ~ (action = "NEW" /\ id \in Held)
      BY <2>1, <2>2, <2>4, Taken DEF Sure, Running, Imports, Saved
    <2>6. cache' = [cache EXCEPT ![id] = ItemRow]
      BY <2>4, <2>5 DEF Take, Sure
    <2>7. id \in Ids /\ (id \notin Held \/ (Current.row # NoRow /\ id = Current.id))
      <3>1. CASE ImportNew
        BY <2>3, <2>4, <2>5, <3>1 DEF TakenUnder, ImportNew, ImportKnown, NewIds, Sure
      <3>2. CASE ImportKnown
        BY <2>2, <2>3, <2>5, <3>2 DEF TakenUnder, ImportNew, ImportKnown, Tracked, Placed, Current
      <3>. QED
        BY <1>5, <3>1, <3>2
    <2>8. CASE k = Item.identity
      <3>1. importer'.known[k] = [id |-> id, row |-> ItemRow]
        BY <2>1, <2>5, <2>8 DEF Imports
      <3>2. cache'[id] = ItemRow /\ ItemRow.identity = k
        BY <2>2, <2>6, <2>7, <2>8, ItemTyped DEF Typed, ItemRow
      <3>. QED
        BY <2>7, <3>1, <3>2 DEF Placed
    <2>9. CASE k # Item.identity
      <3>1. importer'.known[k] = importer.known[k] /\ Placed(k)
        BY <2>1, <2>5, <2>9 DEF Imports, Tracked
      <3>2. importer.known[k].row # NoRow => importer.known[k].id # id
        BY <2>2, <2>5, <2>7, <2>9, <3>1 DEF Placed, Held, Tracked, Current
      <3>. QED
        BY <2>6, <3>1, <3>2 DEF Placed, Typed
    <2>. QED
      BY <2>8, <2>9
  <1>6. CASE FinishImport \/ FinishDryRun \/ ImportDies
    BY <1>6 DEF FinishImport, FinishDryRun, ImportDies, NoImport, Tracked, Sure, Running
  <1>. QED
    BY <1>1, <1>2, <1>3, <1>4, <1>5, <1>6, Steps

(* What is reported as taken is known as the file says it, unless a later  *)
(* item has said otherwise.                                                *)
Kept(rows, batch, report) ==
    \A n \in 1 .. Len(report) :
        LET item == batch[n]
        IN  \/ report[n] = "ERROR"
            \/ rows[item.identity] = Row(item.identity, item.content)
            \/ \E m \in n + 1 .. Len(report) :
                   batch[m].identity = item.identity /\ report[m] # "ERROR"
StoredSoFar == Running /\ ~ importer.dry => Kept(KnownRows, importer.batch, importer.report)

(* A report that judges every item by the same rows, as a dry run does.    *)
Judged(rows, batch, report) ==
    \A n \in 1 .. Len(report) : report[n] = Judge(rows, batch[n])

(* An item of the same instrument was taken before item n.                 *)
Repeats(batch, report, n) ==
    \E m \in 1 .. n - 1 : batch[m].identity = batch[n].identity /\ report[m] # "ERROR"
(* What an import, now knowing rows, has made of a forecast: it departed   *)
(* from it at repeated items only, and will from here on.                  *)
Departs(rows, batch, report, expected) ==
    /\ Len(expected) = Len(batch)
    /\ \A n \in 1 .. Len(batch) :
           expected[n] = "ERROR" <=> ~ Consistent(Row(batch[n].identity, batch[n].content))
    /\ \A n \in 1 .. Len(report) : report[n] # expected[n] =>
           /\ "ERROR" \notin {report[n], expected[n]}
           /\ report[n] # "NEW"
           /\ Repeats(batch, report, n)
    /\ \A n \in Len(report) + 1 .. Len(batch) : expected[n] # Judge(rows, batch[n]) =>
           /\ rows[batch[n].identity] # NoRow
           /\ \E m \in 1 .. Len(report) :
                  batch[m].identity = batch[n].identity /\ report[m] # "ERROR"

Within == Running => foretold = NoForecast /\ Len(importer.report) <= Len(importer.batch)
Standing ==
    foretold # NoForecast =>
        /\ Len(foretold.report) = Len(foretold.batch)
        /\ Judged(CachedRows, foretold.batch, foretold.report)
Rehearsed ==
    Running /\ importer.dry /\ ~ importer.disturbed =>
        /\ KnownRows = CachedRows
        /\ Judged(CachedRows, importer.batch, importer.report)
AsForetold ==
    Running /\ ~ importer.dry /\ importer.expected # <<>> =>
        Departs(KnownRows, importer.batch, importer.report, importer.expected)

LEMMA JudgeErrs ==
    ASSUME NEW rows, NEW item
    PROVE  /\ Judge(rows, item) = "ERROR" <=> ~ Consistent(Row(item.identity, item.content))
           /\ Judge(rows, item) = "NEW" => rows[item.identity] = NoRow
           /\ Judge(rows, item) \in Actions
  BY DEF Judge, Actions

(* A forecast of what is known departs nowhere yet.                        *)
LEMMA DepartsNowhere ==
    ASSUME NEW rows \in Memories, NEW batch \in Seq(Items), NEW expected \in Seq(Actions),
           Len(expected) = Len(batch), Judged(rows, batch, expected)
    PROVE  Departs(rows, batch, <<>>, expected)
  <1>1. \A n \in 1 .. Len(batch) : expected[n] = Judge(rows, batch[n])
    BY DEF Judged
  <1>2. Len(<<>>) = 0 /\ 1 .. 0 = {} /\ 0 + 1 = 1
    OBVIOUS
  <1>. QED
    BY <1>1, <1>2, JudgeErrs DEF Departs

LEMMA DepartsOneMore ==
    ASSUME NEW rows \in Memories, NEW batch \in Seq(Items), NEW report \in Seq(Actions),
           NEW expected \in Seq(Actions), Len(report) < Len(batch),
           Departs(rows, batch, report, expected),
           NEW item, item = batch[Len(report) + 1]
    PROVE  Departs(Learn(rows, item), batch, Append(report, Judge(rows, item)), expected)
  <1> DEFINE len == Len(report)
             judged == Judge(rows, item)
             learned == Learn(rows, item)
             next == Append(report, judged)
  <1>1. item \in Items /\ item.identity \in Identities /\ len \in Nat /\ len + 1 \in 1 .. Len(batch)
    BY ItemTyped
  <1>2. judged \in Actions
    BY JudgeErrs
  <1>3. /\ judged = "ERROR" => learned = rows
        /\ judged # "ERROR" =>
               /\ learned[item.identity] # NoRow
               /\ \A k \in Identities \ {item.identity} : learned[k] = rows[k]
    <2>1. judged # "ERROR" =>
              learned = [rows EXCEPT ![item.identity] = Row(item.identity, item.content)]
      BY JudgeErrs DEF Learn
    <2>2. judged = "ERROR" => learned = rows
      BY JudgeErrs DEF Learn
    <2>. QED
      BY <1>1, <2>1, <2>2, ItemTyped DEF Memories
  <1>4. /\ judged = "ERROR" <=> ~ Consistent(Row(item.identity, item.content))
        /\ judged = "NEW" => rows[item.identity] = NoRow
    BY JudgeErrs
  <1>5. /\ Len(expected) = Len(batch)
        /\ \A n \in 1 .. Len(batch) :
               expected[n] = "ERROR" <=> ~ Consistent(Row(batch[n].identity, batch[n].content))
    BY DEF Departs
  <1>6. expected[len + 1] # judged =>
            /\ rows[item.identity] # NoRow
            /\ \E m \in 1 .. len : batch[m].identity = item.identity /\ report[m] # "ERROR"
    BY <1>1 DEF Departs
  <1> HIDE DEF judged, learned
  <1>7. /\ Len(next) = len + 1 /\ next[len + 1] = judged
        /\ \A n \in 1 .. len : next[n] = report[n]
    BY <1>2
  <1> HIDE DEF next
  <1>8. ASSUME NEW n \in 1 .. len + 1, next[n] # expected[n]
        PROVE  /\ "ERROR" \notin {next[n], expected[n]}
               /\ next[n] # "NEW"
               /\ Repeats(batch, next, n)
    <2>1. CASE n \in 1 .. len
      <3>1. /\ "ERROR" \notin {report[n], expected[n]}
            /\ report[n] # "NEW"
            /\ Repeats(batch, report, n)
        BY <1>7, <1>8, <2>1 DEF Departs
      <3>2. \A m \in 1 .. n - 1 : next[m] = report[m]
        BY <1>1, <1>7, <2>1
      <3>. QED
        BY <1>7, <2>1, <3>1, <3>2 DEF Repeats
    <2>2. CASE n = len + 1
      <3>1. PICK m \in 1 .. len : batch[m].identity = item.identity /\ report[m] # "ERROR"
        BY <1>6, <1>7, <1>8, <2>2
      <3>2. m \in 1 .. n - 1 /\ next[m] # "ERROR" /\ batch[m].identity = batch[n].identity
        BY <1>1, <1>7, <2>2, <3>1
      <3>3. Repeats(batch, next, n)
        BY <3>2 DEF Repeats
      <3>4. expected[n] = "ERROR" <=> judged = "ERROR"
        BY <1>1, <1>4, <1>5, <2>2
      <3>. QED
        BY <1>4, <1>6, <1>7, <1>8, <2>2, <3>3, <3>4
    <2>. QED
      BY <1>1, <2>1, <2>2
  <1>9. ASSUME NEW n \in len + 2 .. Len(batch), expected[n] # Judge(learned, batch[n])
        PROVE  /\ learned[batch[n].identity] # NoRow
               /\ \E m \in 1 .. len + 1 :
                      batch[m].identity = batch[n].identity /\ next[m] # "ERROR"
    <2>1. batch[n] \in Items /\ batch[n].identity \in Identities
      BY <1>1, ItemTyped
    <2>2. CASE judged # "ERROR" /\ batch[n].identity = item.identity
      BY <1>1, <1>3, <1>7, <2>2
    <2>3. CASE judged = "ERROR" \/ batch[n].identity # item.identity
      <3>1. learned[batch[n].identity] = rows[batch[n].identity]
        BY <1>3, <2>1, <2>3
      <3>2. Judge(learned, batch[n]) = Judge(rows, batch[n])
        BY <3>1 DEF Judge
      <3>3. n \in len + 1 .. Len(batch)
        BY <1>1
      <3>4. /\ rows[batch[n].identity] # NoRow
            /\ \E m \in 1 .. len : batch[m].identity = batch[n].identity /\ report[m] # "ERROR"
        BY <1>9, <3>2, <3>3 DEF Departs
      <3>5. PICK m \in 1 .. len : batch[m].identity = batch[n].identity /\ report[m] # "ERROR"
        BY <3>4
      <3>6. m \in 1 .. len + 1 /\ next[m] # "ERROR"
        BY <1>1, <1>7, <3>5
      <3>. QED
        BY <3>1, <3>4, <3>5, <3>6
    <2>. QED
      BY <2>2, <2>3
  <1>10. Len(next) + 1 = len + 2
    BY <1>1, <1>7
  <1>11. Departs(learned, batch, next, expected)
    BY <1>5, <1>7, <1>8, <1>9, <1>10 DEF Departs
  <1>. QED
    BY <1>11 DEF next, judged, learned

LEMMA CachedRowsTyped ==
    ASSUME cache \in [Ids -> RowOrNone]
    PROVE  CachedRows \in Memories
  BY KnownFromCache DEF CachedRows, Memories, Entries

LEMMA CachedRowsStay ==
    ASSUME cache' = cache
    PROVE  CachedRows' = CachedRows
  BY DEF CachedRows, Known, Held, ListedBefore, Reference

LEMMA KeptOneMore ==
    ASSUME NEW rows \in Memories, NEW batch \in Seq(Items), NEW report \in Seq(Actions),
           Len(report) < Len(batch), Kept(rows, batch, report),
           NEW item, item = batch[Len(report) + 1]
    PROVE  Kept(Learn(rows, item), batch, Append(report, Judge(rows, item)))
  <1> DEFINE len == Len(report)
             judged == Judge(rows, item)
             learned == Learn(rows, item)
             Good(r, w, n) ==
                 \/ w[n] = "ERROR"
                 \/ r[batch[n].identity] = Row(batch[n].identity, batch[n].content)
                 \/ \E m \in n + 1 .. Len(w) :
                        batch[m].identity = batch[n].identity /\ w[m] # "ERROR"
  <1>1. item \in Items /\ item.identity \in Identities /\ len \in Nat
    BY ItemTyped
  <1>2. judged = "ERROR" => learned = rows
    BY DEF Judge, Learn
  <1>3. judged # "ERROR" =>
            /\ learned[item.identity] = Row(item.identity, item.content)
            /\ \A k \in Identities \ {item.identity} : learned[k] = rows[k]
    BY <1>1 DEF Judge, Learn, Memories
  <1>4. judged \in Actions
    BY DEF Judge, Actions
  <1> HIDE DEF judged, learned
  <1>5. /\ Len(Append(report, judged)) = len + 1
        /\ Append(report, judged)[len + 1] = judged
        /\ \A n \in 1 .. len : Append(report, judged)[n] = report[n]
    BY <1>4
  <1>6. Good(learned, Append(report, judged), len + 1)
    BY <1>3, <1>5
  <1>7. ASSUME NEW n \in 1 .. len PROVE Good(learned, Append(report, judged), n)
    <2>1. batch[n].identity \in Identities
      BY ItemTyped
    <2>2. CASE report[n] = "ERROR"
      BY <1>5, <2>2
    <2>3. CASE \E m \in n + 1 .. len : batch[m].identity = batch[n].identity /\ report[m] # "ERROR"
      <3>1. PICK m \in n + 1 .. len : batch[m].identity = batch[n].identity /\ report[m] # "ERROR"
        BY <2>3
      <3>2. m \in n + 1 .. len + 1 /\ Append(report, judged)[m] = report[m]
        BY <1>5, <3>1
      <3>. QED
        BY <1>5, <3>1, <3>2
    <2>4. CASE rows[batch[n].identity] = Row(batch[n].identity, batch[n].content)
      <3>1. CASE judged = "ERROR" \/ batch[n].identity # item.identity
        BY <1>2, <1>3, <2>1, <2>4, <3>1
      <3>2. CASE judged # "ERROR" /\ batch[n].identity = item.identity
        <4>1. len + 1 \in n + 1 .. len + 1
          BY <1>1
        <4>. QED
          BY <1>5, <3>2, <4>1
      <3>. QED
        BY <3>1, <3>2
    <2>. QED
      BY <2>2, <2>3, <2>4 DEF Kept
  <1>8. \A n \in 1 .. len + 1 : n \in 1 .. len \/ n = len + 1
    BY <1>1
  <1>9. \A n \in 1 .. Len(Append(report, judged)) : Good(learned, Append(report, judged), n)
    BY <1>5, <1>6, <1>7, <1>8
  <1> HIDE DEF Good
  <1>. QED
    BY <1>9, Zenon DEF Kept, Good, judged, learned

LEMMA ReportTyped ==
    ASSUME importer \in Imports
    PROVE  /\ importer.batch \in Seq(Items) /\ importer.report \in Seq(Actions)
           /\ importer.expected \in Seq(Actions) /\ KnownRows \in Memories
           /\ importer.dry \in BOOLEAN /\ importer.at = "items"
  BY DEF Imports, KnownRows, Memories, Entries

LEMMA RunningTyped ==
    ASSUME Typed, Running
    PROVE  importer \in Imports
  BY DEF Typed, Running, NoImport

LEMMA ItemsAreRunning ==
    ASSUME Typed, ImportRefused \/ ImportNew \/ ImportKnown
    PROVE  importer \in Imports /\ Running
  BY DEF ImportRefused, ImportNew, ImportKnown, AtItem, Typed, NoImport, Running

LEMMA StoredSoFarStep ==
    ASSUME Typed, StoredSoFar, [Next]_vars
    PROVE  StoredSoFar'
  <1>1. CASE Elsewhere
    BY <1>1, ElsewhereChangesNothing DEF StoredSoFar, Running, KnownRows
  <1>2. CASE ByHand
    BY <1>2, ByHandDisturbs, DisturbedTyped DEF StoredSoFar, Running, Typed, KnownRows
  <1>3. ASSUME NEW b \in Batches, NEW dry \in BOOLEAN, StartImport(b, dry)
        PROVE  StoredSoFar'
    BY <1>3 DEF StartImport, Import, StoredSoFar, Kept
  <1>4. CASE ImportRefused \/ ImportNew \/ ImportKnown
    <2>1. importer \in Imports /\ Running
      BY <1>4, ItemsAreRunning
    <2>2. ~ importer.dry =>
              Kept(Learn(KnownRows, Item), importer.batch,
                   Append(importer.report, Judge(KnownRows, Item)))
      BY <1>4, <2>1, ItemJudged, KeptOneMore, ReportTyped DEF StoredSoFar, AtItem, Item
    <2>. QED
      BY <1>4, <2>1, <2>2, ItemJudged DEF StoredSoFar
  <1>5. CASE FinishImport \/ FinishDryRun \/ ImportDies
    BY <1>5 DEF FinishImport, FinishDryRun, ImportDies, NoImport, StoredSoFar, Running
  <1>. QED
    BY <1>1, <1>2, <1>3, <1>4, <1>5, Steps

(* The forecast, its rehearsal and what came of it agree.                  *)
Foretelling == Within /\ Standing /\ Rehearsed /\ AsForetold

LEMMA ForetellingAtStart ==
    ASSUME Typed, Foretelling, NEW b \in Batches, NEW dry \in BOOLEAN, StartImport(b, dry)
    PROVE  Foretelling'
  <1>1. /\ cache' = cache /\ foretold' = NoForecast
        /\ importer' = Import(b, dry, [k \in Identities |-> Known(k)],
                              IF foretold.batch = b /\ ~ dry THEN foretold.report ELSE <<>>)
    BY DEF StartImport
  <1>2. CachedRows' = CachedRows /\ CachedRows \in Memories
    BY <1>1, CachedRowsStay, CachedRowsTyped DEF Typed
  <1>3. KnownRows' = CachedRows
    BY <1>1 DEF KnownRows, Import, CachedRows
  <1>4. /\ importer'.batch = b /\ importer'.report = <<>> /\ importer'.dry = dry
        /\ importer'.expected = IF foretold.batch = b /\ ~ dry THEN foretold.report ELSE <<>>
    BY <1>1 DEF Import
  <1>5. b \in Seq(Items)
    BY CacheAssumption DEF Batches
  <1>6. Within' /\ Standing'
    BY <1>1, <1>4, <1>5 DEF Within, Standing
  <1>7. Rehearsed'
    BY <1>2, <1>3, <1>4 DEF Rehearsed, Judged
  <1>8. AsForetold'
    <2> SUFFICES ASSUME importer'.expected # <<>> PROVE AsForetold'
      BY DEF AsForetold
    <2>1. foretold.batch = b /\ importer'.expected = foretold.report
      BY <1>4
    <2>2. foretold # NoForecast /\ foretold.report \in Seq(Actions)
      BY <2>1 DEF NoForecast, Typed
    <2>3. Len(foretold.report) = Len(b) /\ Judged(CachedRows, b, foretold.report)
      BY <2>1, <2>2 DEF Foretelling, Standing
    <2>4. Departs(CachedRows, b, <<>>, foretold.report)
      BY <1>2, <1>5, <2>2, <2>3, DepartsNowhere
    <2>. QED
      BY <1>3, <1>4, <2>1, <2>4 DEF AsForetold
  <1>. QED
    BY <1>6, <1>7, <1>8 DEF Foretelling

LEMMA ForetellingAtItem ==
    ASSUME Typed, Foretelling, ImportRefused \/ ImportNew \/ ImportKnown
    PROVE  Foretelling'
  <1> DEFINE len == Len(importer.report)
             judged == Judge(KnownRows, Item)
             learned == Learn(KnownRows, Item)
  <1>1. importer \in Imports /\ Running /\ foretold' = foretold /\ AtItem
    BY ItemsAreRunning, ItemJudged DEF ImportRefused, ImportNew, ImportKnown
  <1>2. /\ importer'.batch = importer.batch /\ importer'.dry = importer.dry
        /\ importer'.expected = importer.expected
        /\ importer'.disturbed = importer.disturbed
        /\ importer'.report = Append(importer.report, judged)
        /\ KnownRows' = IF importer.dry THEN KnownRows ELSE learned
    BY <1>1, ItemJudged
  <1>3. /\ importer.batch \in Seq(Items) /\ importer.report \in Seq(Actions)
        /\ importer.expected \in Seq(Actions) /\ KnownRows \in Memories
        /\ len < Len(importer.batch) /\ Item = importer.batch[len + 1]
    BY <1>1, ReportTyped DEF AtItem, Item
  <1>4. judged \in Actions
    BY DEF Judge, Actions
  <1> HIDE DEF judged, learned
  <1>5. /\ Len(importer'.report) = len + 1 /\ importer'.report[len + 1] = judged
        /\ \A n \in 1 .. len : importer'.report[n] = importer.report[n]
        /\ len \in Nat
    BY <1>2, <1>3, <1>4
  <1>6. Within' /\ Standing'
    BY <1>1, <1>2, <1>3, <1>5 DEF Foretelling, Within, Standing
  <1>7. Rehearsed'
    <2> SUFFICES ASSUME importer.dry, ~ importer.disturbed PROVE Rehearsed'
      BY <1>2 DEF Rehearsed
    <2>1. cache' = cache
      BY DEF ImportRefused, ImportNew, ImportKnown, Take
    <2>2. CachedRows' = CachedRows
      BY <2>1, CachedRowsStay
    <2>3. KnownRows = CachedRows /\ Judged(CachedRows, importer.batch, importer.report)
      BY <1>1 DEF Foretelling, Rehearsed
    <2>4. ASSUME NEW n \in 1 .. len + 1
          PROVE  importer'.report[n] = Judge(CachedRows, importer.batch[n])
      <3>1. CASE n \in 1 .. len
        BY <1>5, <2>3, <3>1 DEF Judged
      <3>2. CASE n = len + 1
        BY <1>3, <1>5, <2>3, <3>2 DEF judged
      <3>. QED
        BY <1>5, <3>1, <3>2
    <2>. QED
      BY <1>2, <1>5, <2>2, <2>3, <2>4 DEF Rehearsed, Judged
  <1>8. AsForetold'
    <2> SUFFICES ASSUME ~ importer.dry, importer.expected # <<>> PROVE AsForetold'
      BY <1>2 DEF AsForetold
    <2>1. Departs(KnownRows, importer.batch, importer.report, importer.expected)
      BY <1>1 DEF Foretelling, AsForetold
    <2>2. Departs(learned, importer.batch, Append(importer.report, judged), importer.expected)
      BY <1>3, <2>1, DepartsOneMore DEF learned, judged
    <2>. QED
      BY <1>2, <2>2 DEF AsForetold
  <1>. QED
    BY <1>6, <1>7, <1>8 DEF Foretelling

LEMMA ForetellingStep ==
    ASSUME Typed, Foretelling, [Next]_vars
    PROVE  Foretelling'
  <1>1. CASE Elsewhere
    <2>1. cache' = cache /\ importer' = importer /\ foretold' = foretold
      BY <1>1, ElsewhereChangesNothing
    <2>2. CachedRows' = CachedRows /\ KnownRows' = KnownRows
      BY <2>1, CachedRowsStay DEF KnownRows
    <2>. QED
      BY <2>1, <2>2 DEF Foretelling, Within, Standing, Rehearsed, AsForetold, Running
  <1>2. CASE ByHand
    <2>1. importer' = Disturbed /\ foretold' = NoForecast
      BY <1>2, ByHandDisturbs
    <2>2. /\ Running' => Running
          /\ Running => /\ importer'.batch = importer.batch /\ importer'.dry = importer.dry
                        /\ importer'.report = importer.report
                        /\ importer'.expected = importer.expected
                        /\ importer'.disturbed
                        /\ KnownRows' = KnownRows
      BY <2>1, DisturbedTyped DEF Typed, Running, KnownRows
    <2>. QED
      BY <2>1, <2>2 DEF Foretelling, Within, Standing, Rehearsed, AsForetold
  <1>3. ASSUME NEW b \in Batches, NEW dry \in BOOLEAN, StartImport(b, dry)
        PROVE  Foretelling'
    BY <1>3, ForetellingAtStart
  <1>4. CASE ImportRefused \/ ImportNew \/ ImportKnown
    BY <1>4, ForetellingAtItem
  <1>5. CASE FinishImport \/ FinishDryRun \/ ImportDies
    <2>1. cache' = cache /\ ~ Running'
      BY <1>5 DEF FinishImport, FinishDryRun, ImportDies, NoImport, Running
    <2>2. CachedRows' = CachedRows
      BY <2>1, CachedRowsStay
    <2>3. CASE FinishImport \/ ImportDies
      BY <2>1, <2>2, <2>3
      DEF FinishImport, ImportDies, Foretelling, Within, Standing, Rehearsed, AsForetold
    <2>4. CASE FinishDryRun
      <3>1. Running /\ importer.dry /\ Len(importer.report) = Len(importer.batch)
        BY <2>4 DEF FinishDryRun, Passed, Running
      <3>2. CASE importer.disturbed
        BY <2>1, <2>4, <3>2
        DEF FinishDryRun, Foretelling, Within, Standing, Rehearsed, AsForetold
      <3>3. CASE ~ importer.disturbed
        <4>1. Judged(CachedRows, importer.batch, importer.report)
          BY <3>1, <3>3 DEF Foretelling, Rehearsed
        <4>2. foretold' = [batch |-> importer.batch, report |-> importer.report]
          BY <2>4, <3>3 DEF FinishDryRun
        <4>. QED
          BY <2>1, <2>2, <3>1, <4>1, <4>2
          DEF Foretelling, Within, Standing, Rehearsed, AsForetold
      <3>. QED
        BY <3>2, <3>3
    <2>. QED
      BY <1>5, <2>3, <2>4
  <1>. QED
    BY <1>1, <1>2, <1>3, <1>4, <1>5, Steps

IInv == Typed /\ Tracked /\ StoredSoFar /\ Foretelling

LEMMA IInvHolds == Spec => []IInv
  <1>1. Init => IInv
    BY DEF Init, NoImport, NoEdit, NoForecast, IInv, Typed, RowOrNone, Tracked, Sure,
           Running, StoredSoFar, Foretelling, Within, Standing, Rehearsed, AsForetold
  <1>2. IInv /\ [Next]_vars => IInv'
    BY TypedStep, TrackedStep, StoredSoFarStep, ForetellingStep DEF IInv
  <1>. QED
    BY <1>1, <1>2, PTL DEF Spec

(* Whatever the file and whatever the other terminal does: an import that  *)
(* follows its dry run reports otherwise only of an item whose instrument  *)
(* the file named before, and what it reports as taken is in the cache.    *)
THEOREM ReportsAreTrue == Spec => []ReportIsTrue
  <1>1. IInv => FirstsForetold
    <2> SUFFICES ASSUME IInv, Passed, ~ importer.dry, importer.expected # <<>>,
                        NEW n \in DOMAIN importer.batch,
                        importer.report[n] # importer.expected[n]
                 PROVE  /\ "ERROR" \notin {importer.report[n], importer.expected[n]}
                        /\ importer.report[n] # "NEW"
                        /\ \E m \in 1 .. n - 1 :
                               /\ importer.batch[m].identity = importer.batch[n].identity
                               /\ importer.report[m] # "ERROR"
      BY DEF FirstsForetold
    <2>1. Running /\ importer \in Imports
      BY RunningTyped DEF Passed, Running, IInv
    <2>2. n \in 1 .. Len(importer.report)
      BY <2>1, ReportTyped DEF Passed
    <2>3. Departs(KnownRows, importer.batch, importer.report, importer.expected)
      BY <2>1 DEF IInv, Foretelling, AsForetold
    <2>. QED
      BY <2>2, <2>3 DEF Departs, Repeats
  <1>2. IInv => ReportedIsStored
    <2> SUFFICES ASSUME IInv, Passed, ~ importer.dry, ~ importer.disturbed,
                        ~ importer.trespassed, NEW n \in DOMAIN importer.batch
                 PROVE  LET item == importer.batch[n]
                        IN  \/ importer.report[n] = "ERROR"
                            \/ \E i \in Held : cache[i] = Row(item.identity, item.content)
                            \/ \E m \in n + 1 .. Len(importer.batch) :
                                   /\ importer.batch[m].identity = item.identity
                                   /\ importer.report[m] # "ERROR"
      BY DEF ReportedIsStored
    <2> DEFINE item == importer.batch[n]
    <2>1. Running /\ importer \in Imports /\ Sure
      BY RunningTyped DEF Passed, Running, Sure, IInv
    <2>2. importer.batch \in Seq(Items) /\ Len(importer.report) = Len(importer.batch)
      BY <2>1, ReportTyped DEF Passed
    <2>3. n \in 1 .. Len(importer.report) /\ item \in Items
      BY <2>2
    <2>4. CASE KnownRows[item.identity] = Row(item.identity, item.content)
      <3>1. /\ item.identity \in Identities
            /\ importer.known[item.identity].row = Row(item.identity, item.content)
            /\ importer.known[item.identity].row # NoRow
        BY <2>3, <2>4, ItemTyped DEF KnownRows
      <3>2. /\ importer.known[item.identity].id \in Ids
            /\ cache[importer.known[item.identity].id] = importer.known[item.identity].row
        BY <2>1, <3>1 DEF IInv, Tracked, Placed
      <3>. QED
        BY <3>1, <3>2 DEF Held
    <2>5. Kept(KnownRows, importer.batch, importer.report)
      BY <2>1 DEF IInv, StoredSoFar
    <2>. QED
      BY <2>2, <2>3, <2>4, <2>5 DEF Kept
  <1>. QED
    BY <1>1, <1>2, IInvHolds, PTL DEF ReportIsTrue

(* A row of another identity saved under an id costs nothing that was not  *)
(* under that id.                                                          *)
LEMMA OnlyTheOverwritten ==
    ASSUME cache \in [Ids -> RowOrNone], NEW id, NEW row \in Rows,
           cache' = [cache EXCEPT ![id] = row],
           NEW k, IsCached(k), ~ IsCached(k)'
    PROVE  id \in Held /\ cache[id].identity = k /\ row.identity # k
  <1>1. PICK i \in Held : cache[i].identity = k
    BY DEF IsCached
  <1>2. i \in Ids /\ (cache'[i] = NoRow \/ cache'[i].identity # k)
    BY <1>1 DEF IsCached, Held
  <1>3. i # id => cache'[i] = cache[i]
    BY <1>2
  <1>4. i = id
    BY <1>1, <1>2, <1>3 DEF Held
  <1>5. cache'[id] = row /\ row # NoRow
    BY <1>2, <1>4, RowIsARow
  <1>. QED
    BY <1>1, <1>2, <1>4, <1>5

(* Correcting, adding and importing instruments never costs another one:   *)
(* one leaves by a deletion, by an edit of its row, or under an import     *)
(* whose file or whose neighbour took its id.                              *)
THEOREM InstrumentsVanishForCause == Spec => VanishesForCause
  <1> DEFINE Cause == \/ Held' # Held /\ Held' \subseteq Held
                      \/ editor # NoEdit /\ editor' = NoEdit
                      \/ importer'.at = "items" /\ (importer'.trespassed \/ importer.disturbed)
             Caused == \A k \in Identities : IsCached(k) /\ ~ IsCached(k)' => Cause
  <1>1. ASSUME IInv, Next, NEW k \in Identities, IsCached(k), ~ IsCached(k)'
        PROVE  Cause
    <2>1. cache \in [Ids -> RowOrNone] /\ cache' # cache
      BY <1>1 DEF IInv, Typed, IsCached, Held
    <2>2. CASE \E row \in Rows : InstrumentAdd(row)
      <3>1. PICK row \in Rows, id \in Ids : Unused(id) /\ cache' = [cache EXCEPT ![id] = row]
        BY <2>2 DEF InstrumentAdd
      <3>. QED
        BY <1>1, <2>1, <3>1, OnlyTheOverwritten DEF Unused
    <2>3. CASE \E row \in Rows : InstrumentEditSubmit(row)
      BY <2>3 DEF InstrumentEditSubmit, Answered
    <2>4. CASE \E i \in Ids : InstrumentDelete(i)
      <3>1. PICK i \in Held : cache' = [cache EXCEPT ![i] = NoRow]
        BY <2>4 DEF InstrumentDelete
      <3>2. i \notin Held' /\ Held' \subseteq Held
        BY <2>1, <3>1 DEF Held
      <3>. QED
        BY <3>1, <3>2
    <2>5. CASE ImportNew \/ ImportKnown
      <3>1. importer \in Imports /\ Running
        BY <1>1, <2>5, ItemsAreRunning DEF IInv
      <3>2. AtItem /\ ItemRow \in Rows /\ ItemRow.identity = Item.identity
                   /\ Item.identity \in Identities
        BY <2>5, <3>1, SomeId, AtItemTyped, ItemTyped DEF ItemRow
      <3>3. PICK id \in Ids \union {NoId} : TakenUnder(id)
        BY <2>5, <3>1, SomeId
      <3>4. PICK action \in Actions : /\ Take(id, action)
                                      /\ ImportNew => action = "NEW"
        BY <3>3 DEF TakenUnder, Actions, ImportNew, ImportKnown
      <3>5. /\ importer' \in Imports
            /\ importer'.disturbed = importer.disturbed
            /\ importer'.trespassed =
                   (importer.trespassed \/ (action = "NEW" /\ id \in Held))
        BY <3>1, <3>2, <3>4, Taken
      <3>6. ~ importer.dry /\ cache' = [cache EXCEPT ![id] = ItemRow]
        BY <2>1, <3>4 DEF Take
      <3>7. id \in Held /\ cache[id].identity = k /\ Item.identity # k
        BY <1>1, <2>1, <3>2, <3>6, OnlyTheOverwritten
      <3>8. CASE ImportNew
        BY <3>4, <3>5, <3>7, <3>8 DEF Imports
      <3>9. CASE ImportKnown
        <4>1. id = Current.id /\ Current.row # NoRow
          BY <3>3, <3>9 DEF TakenUnder, ImportNew, ImportKnown
        <4>2. ~ Sure
          BY <1>1, <3>2, <3>7, <4>1 DEF IInv, Tracked, Placed, Current
        <4>3. importer.disturbed \/ importer.trespassed
          BY <3>1, <3>6, <4>2 DEF Sure
        <4>. QED
          BY <3>5, <4>3 DEF Imports
      <3>. QED
        BY <2>5, <3>8, <3>9
    <2>. QED
      BY <1>1, <2>1, <2>2, <2>3, <2>4, <2>5
      DEF Next, InstrumentEditOpen, StartImport, ImportRefused, FinishImport, FinishDryRun,
          ImportDies, OpportunityAdd, OpportunityRefresh, Rank, OpportunitiesRefreshWaiting
  <1>2. IInv /\ [Next]_vars => [Caused]_vars
    BY <1>1
  <1>. QED
    BY <1>2, IInvHolds, PTL DEF Spec, VanishesForCause
=============================================================================
