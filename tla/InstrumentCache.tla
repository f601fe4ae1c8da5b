--------------------------- MODULE InstrumentCache ---------------------------
(***************************************************************************)
(* The Fineco instrument cache: FinecoBulkImporter (app/cio/               *)
(* bulk_importer.py), the instrument commands (cli.py) and the             *)
(* opportunities that wait for instruments (storage.py).                   *)
(*                                                                         *)
(* A row is known by its id; the importer knows an instrument by its       *)
(* identity: what it is traded as, without the id.  An import reads the    *)
(* cache once, saves item by item, each in a transaction of its own, and   *)
(* ends by refreshing the opportunities that wait.  It may die between two *)
(* items, and another terminal may add, edit or delete meanwhile; an edit  *)
(* holds the row it read for as long as the operator takes to answer.      *)
(***************************************************************************)
EXTENDS Integers, Sequences, FiniteSets

CONSTANTS
    Ids,          \* instrument ids, in the order the store lists them
    Tickers,      \* tickers, in the order the store lists them
    Identities,   \* instrument_identity: underlying, type, mode, relationship
    Contents,     \* what else a row says: reference, availability, certificate
    Items,        \* what an import file may hold: identity, content, id
    MaxBatch,     \* bound: items of one file
    NoId,
    NoReference   \* content that names no reference underlying

ASSUME CacheAssumption ==
    /\ IsFiniteSet(Ids) /\ Ids \subseteq Int /\ NoId \notin Ids
    /\ \A k \in Identities : k.underlying \in Int
    /\ \A c \in Contents : c.reference \in Int
    /\ Items \subseteq [identity : Identities, content : Contents,
                        id : Ids \union {NoId}]
    /\ MaxBatch \in Nat

VARIABLES
    cache,        \* fineco_instruments: a row or NoRow per id
    opportunity,  \* the status of a ticker's opportunity
    importer,     \* the running bulk import
    editor,       \* the open edit: the row as it was read
    foretold,     \* observation: what the last dry run reported, if it stands
    late          \* observation: rows came by hand or by an import that died
vars == <<cache, opportunity, importer, editor, foretold, late>>

DirectTypes == {"ORDINARY", "MARGIN", "CFD", "CFDC"}
NoRow == [identity |-> [type |-> "NONE"]]
Row(identity, content) == [identity |-> identity, content |-> content]
Rows == [identity : Identities, content : Contents]
Held == {i \in Ids : cache[i] # NoRow}

(* An id nobody has had: uuid4 gives every new row one of its own.         *)
Unused(i) ==
    /\ i \notin Held /\ i # editor.id
    /\ importer.at # "idle" => \A k \in Identities : importer.known[k].id # i

(* A row that names no reference is one of its own underlying: saved so,   *)
(* read so, and made so by the migration that precedes every read where    *)
(* the row is older than the column.                                       *)
Reference(row) ==
    IF row.content.reference = NoReference THEN row.identity.underlying
    ELSE row.content.reference

(* FinecoInstrument.validate_instrument_consistency *)
Consistent(row) ==
    LET k == row.identity  c == row.content
    IN  /\ k.mode = "INTRADAY" => c.intraday # "no"
        /\ k.mode \in {"OVERNIGHT", "MULTIDAY"} => c.overnight # "no"
        /\ k.type = "CERTIFICATE" => k.relationship \in {"STRUCTURED", "OTHER"}
        /\ c.certificate => ~ (k.relationship = "STRUCTURED" /\ k.type # "CERTIFICATE")

(* What the prompts of instrument_add and instrument_edit can put together:*)
(* direct types refer to themselves, and certificates, no others, have     *)
(* terms, if only empty ones.                                              *)
EnteredTerms(row) == row.content.certificate <=> row.identity.type = "CERTIFICATE"
Entered(row) ==
    LET k == row.identity
    IN  /\ k.type \in DirectTypes =>
               k.relationship = "DIRECT" /\ row.content.reference = k.underlying
        /\ k.type = "CERTIFICATE" => k.relationship = "STRUCTURED"
        /\ EnteredTerms(row)

(* find_fineco_instruments *)
Cached(t) == {i \in Held : t \in {cache[i].identity.underlying, Reference(cache[i])}}

(* list_fineco_instruments, made into a map by identity: of two rows of    *)
(* one identity the one listed last remains.                               *)
ListedBefore(i, j) ==
    \/ Reference(cache[i]) < Reference(cache[j])
    \/ Reference(cache[i]) = Reference(cache[j]) /\ i <= j
Known(identity) ==
    LET same == {i \in Held : cache[i].identity = identity}
    IN  IF same = {} THEN [id |-> NoId, row |-> NoRow]
        ELSE LET i == CHOOSE j \in same : \A o \in same : ListedBefore(o, j)
             IN  [id |-> i, row |-> cache[i]]

(* Mutant: an opportunity looks for its instruments by the underlying only.*)
RefreshedByUnderlying(t) ==
    IF opportunity[t] = "RANKED" THEN "RANKED"
    ELSE IF \E i \in Held : cache[i].identity.underlying = t THEN "READY" ELSE "WAITING"

(* refresh_trade_opportunity_broker_state of one ticker's opportunity.     *)
Refreshed(t) ==
    IF opportunity[t] = "RANKED" THEN "RANKED"
    ELSE IF Cached(t) # {} THEN "READY" ELSE "WAITING"

NoImport == [at |-> "idle"]
NoEdit == [id |-> NoId, row |-> NoRow]
NoForecast == [batch |-> <<>>, report |-> <<>>]

Init ==
    /\ cache = [i \in Ids |-> NoRow]
    /\ opportunity = [t \in Tickers |-> "NONE"]
    /\ importer = NoImport /\ editor = NoEdit
    /\ foretold = NoForecast /\ late = FALSE

(* Another terminal changed the cache while an import was running.         *)
Disturbed == IF importer.at = "idle" THEN importer ELSE [importer EXCEPT !.disturbed = TRUE]
-----------------------------------------------------------------------------
(* The instrument commands.                                                *)

InstrumentAdd(row) ==
    /\ Entered(row) /\ Consistent(row)
    /\ \E i \in {j \in Ids : Unused(j)} : cache' = [cache EXCEPT ![i] = row]
    /\ importer' = Disturbed /\ foretold' = NoForecast /\ late' = TRUE
    /\ UNCHANGED <<opportunity, editor>>

InstrumentEditOpen(i) ==
    /\ editor = NoEdit /\ i \in Held
    /\ editor' = [id |-> i, row |-> cache[i]]
    /\ UNCHANGED <<cache, opportunity, importer, foretold, late>>

(* The prompts of an edit derive what those of instrument_add derive; what *)
(* they ask, they offer with the value that was read.                      *)
Answered(row) == editor # NoEdit /\ Entered(row)

(* The answers, over what was read when the edit was opened: a value that  *)
(* is inconsistent is refused, the row is saved under its id otherwise.    *)
InstrumentEditSubmit(row) ==
    /\ Answered(row)
    /\ editor' = NoEdit
    /\ IF Consistent(row)
       THEN /\ cache' = [cache EXCEPT ![editor.id] = row]
            /\ importer' = Disturbed /\ foretold' = NoForecast /\ late' = TRUE
       ELSE UNCHANGED <<cache, importer, foretold, late>>
    /\ UNCHANGED opportunity

InstrumentDelete(i) ==
    /\ i \in Held
    /\ cache' = [cache EXCEPT ![i] = NoRow]
    /\ importer' = Disturbed /\ foretold' = NoForecast
    /\ UNCHANGED <<opportunity, editor, late>>
-----------------------------------------------------------------------------
(* FinecoBulkImporter.import_file                                          *)

Import(batch, dry, known, expected) ==
    [at |-> "items", batch |-> batch, dry |-> dry, known |-> known, report |-> <<>>,
     expected |-> expected, disturbed |-> FALSE, trespassed |-> FALSE]

StartImport(batch, dry) ==
    /\ importer.at = "idle"
    /\ importer' = Import(batch, dry, [k \in Identities |-> Known(k)],
                          IF foretold.batch = batch /\ ~ dry THEN foretold.report ELSE <<>>)
    /\ foretold' = NoForecast
    /\ UNCHANGED <<cache, opportunity, editor, late>>

Item == importer.batch[Len(importer.report) + 1]
ItemRow == Row(Item.identity, Item.content)
Reported(action) == Append(importer.report, action)

(* What a dry run passes it does not remember: the map, like the cache, is *)
(* changed only by what is saved.                                          *)
Saved(entries, id) ==
    IF importer.dry THEN entries
    ELSE [entries EXCEPT ![Item.identity] = [id |-> id, row |-> ItemRow]]

(* Mutant: a dry run saves what it passes.                                 *)
TakeInEarnest(id, action) ==
    /\ cache' = IF id \in Ids THEN [cache EXCEPT ![id] = ItemRow] ELSE cache
    /\ importer' = [importer EXCEPT
           !.report = Reported(action),
           !.known = Saved(@, id),
           !.trespassed = @ \/ (action = "NEW" /\ id \in Held)]

(* Mutant: a known instrument moves to the id the file names for it.       *)
TakeUnderGivenId(id, action) ==
    LET given == IF Item.id # NoId THEN Item.id ELSE id
    IN  /\ cache' = IF importer.dry THEN cache ELSE [cache EXCEPT ![given] = ItemRow]
        /\ importer' = [importer EXCEPT
               !.report = Reported(action),
               !.known = Saved(@, given),
               !.trespassed = @ \/ (action = "NEW" /\ id \in Held)]

(* One item is saved under id, or only reported by a dry run.              *)
Take(id, action) ==
    /\ cache' = IF importer.dry THEN cache ELSE [cache EXCEPT ![id] = ItemRow]
    /\ importer' = [importer EXCEPT
           !.report = Reported(action),
           !.known = Saved(@, id),
           !.trespassed = @ \/ (action = "NEW" /\ id \in Held)]

AtItem == importer.at = "items" /\ Len(importer.report) < Len(importer.batch)
Current == importer.known[Item.identity]

(* The id of a new row: the one the file gives, occupied or not, or a new  *)
(* one; a dry run has no use for it.                                       *)
NewIds ==
    IF Item.id # NoId THEN {Item.id}
    ELSE IF importer.dry THEN {NoId} ELSE {i \in Ids : Unused(i)}

(* What validation refuses is reported and the import goes on.             *)
ImportRefused ==
    /\ AtItem /\ ~ Consistent(ItemRow)
    /\ importer' = [importer EXCEPT !.report = Reported("ERROR")]
    /\ UNCHANGED <<cache, opportunity, editor, foretold, late>>

ImportNew ==
    /\ AtItem /\ Consistent(ItemRow) /\ Current.row = NoRow
    /\ \E i \in NewIds : Take(i, "NEW")
    /\ UNCHANGED <<opportunity, editor, foretold, late>>

(* _comparison_payload of the two: what a confirmation changes is left out.*)
Changed == Current.row # ItemRow

(* A known instrument keeps its id, and is saved even when nothing changed.*)
ImportKnown ==
    /\ AtItem /\ Consistent(ItemRow) /\ Current.row # NoRow
    /\ Take(Current.id, IF Changed THEN "UPDATE" ELSE "UNCHANGED")
    /\ UNCHANGED <<opportunity, editor, foretold, late>>

Passed == importer.at = "items" /\ Len(importer.report) = Len(importer.batch)

(* refresh_waiting_trade_opportunities, after the last item.               *)
FinishImport ==
    /\ Passed /\ ~ importer.dry
    /\ opportunity' = [t \in Tickers |->
           IF opportunity[t] = "WAITING" THEN Refreshed(t) ELSE opportunity[t]]
    /\ importer' = NoImport /\ late' = FALSE
    /\ UNCHANGED <<cache, editor, foretold>>

(* A dry run that nothing disturbed stands until the cache changes.        *)
FinishDryRun ==
    /\ Passed /\ importer.dry
    /\ foretold' = IF importer.disturbed THEN NoForecast
                   ELSE [batch |-> importer.batch, report |-> importer.report]
    /\ importer' = NoImport
    /\ UNCHANGED <<cache, opportunity, editor, late>>

(* The process dies: the items saved so far stay, no opportunity is told.  *)
ImportDies ==
    /\ importer.at # "idle"
    /\ importer' = NoImport
    /\ late' = (late \/ (~ importer.dry /\ importer.report # <<>>))
    /\ UNCHANGED <<cache, opportunity, editor, foretold>>
-----------------------------------------------------------------------------
(* The opportunities, one per ticker.                                      *)

(* opportunity_add saves it as DISCOVERED and calls the refresh; a process *)
(* that dies between the two leaves it so, for no import to find.          *)
OpportunityAdd(t) ==
    /\ opportunity[t] = "NONE"
    /\ opportunity' = [opportunity EXCEPT ![t] = "DISCOVERED"]
    /\ UNCHANGED <<cache, importer, editor, foretold, late>>

OpportunityRefresh(t) ==
    /\ opportunity[t] # "NONE"
    /\ opportunity' = [opportunity EXCEPT ![t] = Refreshed(t)]
    /\ UNCHANGED <<cache, importer, editor, foretold, late>>

OpportunitiesRefreshWaiting ==
    /\ \E t \in Tickers : opportunity[t] = "WAITING"
    /\ opportunity' = [t \in Tickers |->
           IF opportunity[t] = "WAITING" THEN Refreshed(t) ELSE opportunity[t]]
    /\ late' = FALSE
    /\ UNCHANGED <<cache, importer, editor, foretold>>

(* The pipeline ranks what is ready; no refresh takes that back.           *)
Rank(t) ==
    /\ opportunity[t] = "READY" /\ Cached(t) # {}
    /\ opportunity' = [opportunity EXCEPT ![t] = "RANKED"]
    /\ UNCHANGED <<cache, importer, editor, foretold, late>>

Batches == UNION {[1 .. n -> Items] : n \in 1 .. MaxBatch}

Next ==
    \/ \E row \in Rows : InstrumentAdd(row) \/ InstrumentEditSubmit(row)
    \/ \E i \in Ids : InstrumentEditOpen(i) \/ InstrumentDelete(i)
    \/ \E b \in Batches, dry \in BOOLEAN : StartImport(b, dry)
    \/ ImportRefused \/ ImportNew \/ ImportKnown
    \/ FinishImport \/ FinishDryRun \/ ImportDies
    \/ \E t \in Tickers : OpportunityAdd(t) \/ OpportunityRefresh(t) \/ Rank(t)
    \/ OpportunitiesRefreshWaiting

Spec == Init /\ [][Next]_vars
-----------------------------------------------------------------------------
(* An opportunity waits although its instruments are cached only while an  *)
(* import that has taken an item is running, or where rows came by hand or *)
(* by an import that died and nobody has refreshed since: a finished       *)
(* import leaves none behind, even those that wait for another's rows.     *)
WaitingExplained ==
    \A t \in Tickers : opportunity[t] = "WAITING" /\ Cached(t) # {} =>
        late \/ (importer.at = "items" /\ ~ importer.dry /\ importer.report # <<>>)

(* What the help of the command calls a preview: an import that nothing    *)
(* disturbed since its dry run reports what the dry run did.  The code does*)
(* not keep this of a file that names an instrument twice.                 *)
DryRunForetells ==
    Passed /\ ~ importer.dry /\ ~ importer.disturbed /\ importer.expected # <<>> =>
        importer.report = importer.expected

(* What it does keep: the import reports an item otherwise than its dry    *)
(* run did only where an item before it, in the same file, is the same     *)
(* instrument and was taken; and the two refuse the same items.            *)
FirstsForetold ==
    Passed /\ ~ importer.dry /\ ~ importer.disturbed /\ importer.expected # <<>> =>
        \A n \in DOMAIN importer.batch :
            importer.report[n] # importer.expected[n] =>
                /\ "ERROR" \notin {importer.report[n], importer.expected[n]}
                /\ importer.report[n] # "NEW"
                /\ \E m \in 1 .. n - 1 :
                       /\ importer.batch[m].identity = importer.batch[n].identity
                       /\ importer.report[m] # "ERROR"

(* What an undisturbed import reports as taken is in the cache as the file *)
(* says it, unless a later item of the file is the same instrument or the  *)
(* file put a new row under an id that was occupied.                       *)
ReportedIsStored ==
    Passed /\ ~ importer.dry /\ ~ importer.disturbed /\ ~ importer.trespassed =>
        \A n \in DOMAIN importer.batch :
            LET item == importer.batch[n]
            IN  \/ importer.report[n] = "ERROR"
                \/ \E i \in Held : cache[i] = Row(item.identity, item.content)
                \/ \E m \in n + 1 .. Len(importer.batch) :
                        importer.batch[m].identity = item.identity /\ importer.report[m] # "ERROR"

(* The report an operator reads tells the truth, before and after: of each *)
(* instrument's first item the dry run's too.                              *)
ReportIsTrue == FirstsForetold /\ ReportedIsStored

(* An instrument leaves the cache only when its row is deleted or edited,  *)
(* or when an import saves over it a row of the id its file names, or a    *)
(* row another terminal changed under it: correcting an instrument never   *)
(* costs another one, however alike they are.                              *)
IsCached(k) == \E i \in Held : cache[i].identity = k
VanishesForCause ==
    [][\A k \in Identities : IsCached(k) /\ ~ IsCached(k)' =>
          \/ Held' # Held /\ Held' \subseteq Held
          \/ editor # NoEdit /\ editor' = NoEdit
          \/ importer'.at = "items" /\ (importer'.trespassed \/ importer.disturbed)]_vars
=============================================================================
