--------------------------- MODULE ExchangeCatalog ---------------------------
(***************************************************************************)
(* The listing universe of the scanner: compose_exchange_universe over     *)
(* CachedExchangeSymbolProviders that share one ExchangeSymbolFileCache    *)
(* (app/scanner/provider_composition.py, cached_exchange_provider.py,      *)
(* provider_cache.py, universe_provider.py).                               *)
(*                                                                         *)
(* An invocation of a scanner tool takes the acquisitions of its policy in *)
(* order: it reads the acquisition's file, may ask the provider, may write *)
(* the file, and goes on.  Several invocations share the directory, files  *)
(* expire, go damaged and cannot be written, and an invocation may die     *)
(* between its reading and its provider's answer.                          *)
(*                                                                         *)
(* The clock's unit is a fraction of a lifetime (24 hours by default); an  *)
(* answer, its checks and its write fall into one instant.                 *)
(***************************************************************************)
EXTENDS Integers, Sequences

CONSTANTS
    Acquisitions,    \* acquisition codes
    Outputs,         \* the enabled venues of an acquisition
    Aggregates,      \* acquisitions of scope AGGREGATE_VENUES
    Limited,         \* acquisitions of scope INDEX_FALLBACK
    Rows,            \* RawMarketListings: a venue, a symbol and an ISIN
    NoIsin,          \* a row that names none
    Excluded,        \* listing keys of the exclusion list
    Answers,         \* what a provider may answer: status, rows, declares
    Invocations,     \* tool invocations on one cache directory
    Order,           \* the acquisitions of an invocation's policy, sorted
    StaleAllowed,    \* invocations with allow_stale_on_error
    TTL,
    MaxStaleAge,
    MaxTime          \* bound: the clock

Policy(r) == {Order[r][i] : i \in 1..Len(Order[r])}
EnabledVenues(r) == UNION {Outputs[a] : a \in Policy(r)}

ASSUME CatalogAssumption ==
    /\ TTL \in Nat \ {0} /\ MaxStaleAge \in Nat \ {0} /\ MaxTime \in Nat
    /\ Order \in [Invocations -> Seq(Acquisitions)]
    /\ \A x \in Answers : x.status \in {"SUCCESS", "PARTIAL"} /\ x.rows \subseteq Rows
    /\ \A row \in Rows :
        row = [venue |-> row.venue, symbol |-> row.symbol, isin |-> row.isin]

VARIABLES
    now,
    files,           \* the cache directory: an entry per acquisition
    runs             \* the invocations
vars == <<now, files, runs>>

Modes == {"PREFER_CACHE", "FORCE_REFRESH", "CACHE_ONLY"}

(* The document of one acquisition.  answered is the time its provider     *)
(* spoke; the code keeps it as fetched_at and judges by cached only.       *)
Entry == [answer : Answers, answered : Nat, cached : Nat]
NoFile == [answered |-> -1, cached |-> -1]
Damaged == [answered |-> -2, cached |-> -2]

(* CacheLookup.                                                            *)
Lookup(status, entry) == [status |-> status, entry |-> entry]
NotRead == Lookup("NONE", NoFile)

(* expires_at, which the storing invocation writes by its own --ttl-hours: *)
(* here all are invoked with the same.                                     *)
Expires(entry) == entry.cached + TTL

(* ExchangeSymbolFileCache.load: every doubt about the document, its       *)
(* digest or its identity makes it INVALID.                                *)
Load(a) ==
    IF files[a] = NoFile THEN Lookup("MISS", NoFile)
    ELSE IF files[a] = Damaged THEN Lookup("INVALID", NoFile)
    ELSE Lookup(IF now < Expires(files[a]) THEN "FRESH" ELSE "STALE", files[a])

(* What one acquisition brought into the universe: how long ago its        *)
(* provider spoke, whether it is a fallback, whether it is complete.       *)
Nothing == [age |-> -1, fallback |-> FALSE, complete |-> FALSE, rows |-> {}]
Served(answer, answered, fallback) ==
    [age |-> now - answered, fallback |-> fallback,
     complete |-> answer.status = "SUCCESS" /\ ~fallback, rows |-> answer.rows]

Idle == [at |-> "idle", mode |-> "CACHE_ONLY", next |-> 0,
         lookup |-> NotRead, brought |-> [a \in Acquisitions |-> Nothing],
         universe |-> {}, status |-> "NONE"]

Current(r) == Order[r][runs[r].next]
-----------------------------------------------------------------------------
(* compose_exchange_universe takes no rows of a result whose scope or      *)
(* whose venues are not the policy's; the file keeps that result.          *)
Fits(a, answer) ==
    /\ a \in Limited => answer.declares
    /\ a \in Aggregates \/ \A row \in answer.rows : row.venue \in Outputs[a]

(* The acquisition's result is in, or it failed: on to the next one.       *)
Advance(r, what) ==
    runs' = [runs EXCEPT ![r].at = "lookup", ![r].next = @ + 1, ![r].lookup = NotRead,
                         ![r].brought = [@ EXCEPT ![Current(r)] = what]]

Take(r, answer, answered, fallback) ==
    Advance(r, IF Fits(Current(r), answer) THEN Served(answer, answered, fallback)
               ELSE Nothing)

Start(r, mode) ==
    /\ runs[r].at \in {"idle", "ended"}
    /\ runs' = [runs EXCEPT ![r] = [Idle EXCEPT !.at = "lookup", !.mode = mode,
                                                !.next = 1]]
    /\ UNCHANGED <<now, files>>

(* MISSING_PROVIDER, PROVIDER_ID_MISMATCH.                                 *)
SkipUnregistered(r) ==
    /\ runs[r].at = "lookup" /\ runs[r].next <= Len(Order[r])
    /\ Advance(r, Nothing)
    /\ UNCHANGED <<now, files>>

(* Mutant: every invocation may ask the provider.                          *)
NeverOffline(r) == FALSE
Offline(r) == runs[r].mode = "CACHE_ONLY"

(* CachedExchangeSymbolProvider.fetch up to the live call.                 *)
Read(r) ==
    /\ runs[r].at = "lookup" /\ runs[r].next <= Len(Order[r])
    /\ LET found == IF runs[r].mode = "FORCE_REFRESH" THEN NotRead ELSE Load(Current(r)) IN
       \/ /\ found.status = "FRESH"
          /\ Take(r, found.entry.answer, found.entry.answered, FALSE)
       \/ /\ found.status # "FRESH" /\ Offline(r)
          /\ Advance(r, Nothing)
       \/ /\ found.status # "FRESH" /\ ~Offline(r)
          /\ runs' = [runs EXCEPT ![r].at = "live", ![r].lookup = found]
    /\ UNCHANGED <<now, files>>

Stored(a, answer, answered) ==
    files' = [files EXCEPT ![a] = [answer |-> answer, answered |-> answered,
                                   cached |-> now]]

(* The provider answers, and the file is replaced in one rename.           *)
Refresh(r, answer) ==
    /\ runs[r].at = "live"
    /\ Stored(Current(r), answer, now)
    /\ Take(r, answer, now, FALSE)
    /\ UNCHANGED now

(* CACHE_WRITE_FAILED: the file stays what it was.                         *)
RefreshUnwritten(r, answer) ==
    /\ runs[r].at = "live"
    /\ Take(r, [answer EXCEPT !.status = "PARTIAL"], now, FALSE)
    /\ UNCHANGED <<now, files>>

(* _stale_fallback: the file as it was read before the provider was asked, *)
(* under FORCE_REFRESH as it is now; its age is judged now.                *)
Known(r) == IF runs[r].lookup = NotRead THEN Load(Current(r)) ELSE runs[r].lookup
Usable(r) ==
    /\ r \in StaleAllowed /\ Known(r).status = "STALE"
    /\ now - Expires(Known(r).entry) <= MaxStaleAge
(* Mutant: the fallback is written like an answer.                         *)
FallBackAndStore(r) ==
    /\ runs[r].at = "live" /\ Usable(r)
    /\ Take(r, Known(r).entry.answer, Known(r).entry.answered, TRUE)
    /\ Stored(Current(r), Known(r).entry.answer, Known(r).entry.answered)
    /\ UNCHANGED now

FallBack(r) ==
    /\ runs[r].at = "live" /\ Usable(r)
    /\ Take(r, Known(r).entry.answer, Known(r).entry.answered, TRUE)
    /\ UNCHANGED <<now, files>>

FailLive(r) ==
    /\ runs[r].at = "live" /\ ~Usable(r)
    /\ Advance(r, Nothing)
    /\ UNCHANGED <<now, files>>
-----------------------------------------------------------------------------
(* build_canonical_universe over raw_listings.                             *)
Raw(r) == UNION {runs[r].brought[a].rows : a \in Policy(r)}
Key(row) == <<row.venue, row.symbol>>
Kept(r) == {row \in Raw(r) : row.venue \in EnabledVenues(r) /\ Key(row) \notin Excluded}
Conflict(r) ==
    \E one, other \in Kept(r) :
        /\ Key(one) = Key(other) /\ one.isin # other.isin
        /\ NoIsin \notin {one.isin, other.isin}
Canonical(r) ==
    {row \in Kept(r) :
        row.isin = NoIsin => \A other \in Kept(r) : Key(other) = Key(row) => other.isin = NoIsin}

(* Mutant: an acquisition that failed leaves nothing to be partial about.  *)
CompleteWhereBrought(r) ==
    \A a \in Policy(r) : runs[r].brought[a] # Nothing => runs[r].brought[a].complete
Complete(r) == \A a \in Policy(r) : runs[r].brought[a].complete

StatusOf(r) ==
    IF Conflict(r) \/ Canonical(r) = {} THEN "FAILED"
    ELSE IF Complete(r) THEN "SUCCESS" ELSE "PARTIAL"

(* The end of compose_exchange_universe.                                   *)
Compose(r) ==
    /\ runs[r].at = "lookup" /\ runs[r].next > Len(Order[r])
    /\ runs' = [runs EXCEPT ![r].at = "ended", ![r].status = StatusOf(r),
                            ![r].universe = IF StatusOf(r) = "FAILED" THEN {}
                                            ELSE Canonical(r)]
    /\ UNCHANGED <<now, files>>

Die(r) ==
    /\ runs[r].at \in {"lookup", "live"}
    /\ runs' = [runs EXCEPT ![r] = Idle]
    /\ UNCHANGED <<now, files>>

(* The file system: a document is edited or cut short.                     *)
Damage(a) ==
    /\ files[a] \notin {NoFile, Damaged}
    /\ files' = [files EXCEPT ![a] = Damaged]
    /\ UNCHANGED <<now, runs>>

Tick ==
    /\ now < MaxTime
    /\ now' = now + 1
    /\ UNCHANGED <<files, runs>>
-----------------------------------------------------------------------------
Init ==
    /\ now = 0
    /\ files = [a \in Acquisitions |-> NoFile]
    /\ runs = [r \in Invocations |-> Idle]

Next ==
    \/ \E r \in Invocations :
        \/ \E mode \in Modes : Start(r, mode)
        \/ SkipUnregistered(r) \/ Read(r) \/ FallBack(r) \/ FailLive(r) \/ Compose(r) \/ Die(r)
        \/ \E answer \in Answers : Refresh(r, answer) \/ RefreshUnwritten(r, answer)
    \/ \E a \in Acquisitions : Damage(a)
    \/ Tick

Spec == Init /\ [][Next]_vars
-----------------------------------------------------------------------------
(* Type invariant.                                                         *)
Result == [age : Nat, fallback : BOOLEAN, complete : BOOLEAN, rows : SUBSET Rows]
TypeOK ==
    /\ now \in Nat
    /\ files \in [Acquisitions -> Entry \union {NoFile, Damaged}]
    /\ runs \in [Invocations ->
        [at : {"idle", "lookup", "live", "ended"}, mode : Modes, next : Nat, universe : SUBSET Rows,
         lookup : [status : {"NONE", "MISS", "INVALID", "FRESH", "STALE"},
                   entry : Entry \union {NoFile}],
         brought : [Acquisitions -> Result \union {Nothing}],
         status : {"NONE", "SUCCESS", "PARTIAL", "FAILED"}]]
    /\ \A r \in Invocations :
        /\ runs[r].at # "idle" => runs[r].next >= 1
        /\ runs[r].at = "live" => runs[r].next <= Len(Order[r])

(* However often files are replaced, cannot be replaced, fail to be        *)
(* refreshed or are read by one invocation while another writes them, no   *)
(* acquisition brings rows its provider gave a lifetime ago, unless the    *)
(* operator allowed stale data, the provider had failed, and they are not  *)
(* older than the interval allowed on top: serving a fallback never        *)
(* renews it.                                                              *)
AgedWithinLimit ==
    \A r \in Invocations, a \in Acquisitions :
        LET result == runs[r].brought[a] IN
        result # Nothing =>
            \/ result.age < TTL
            \/ /\ result.fallback /\ r \in StaleAllowed /\ runs[r].mode # "CACHE_ONLY"
               /\ result.age <= TTL + MaxStaleAge

Represented(row, universe) ==
    \E listing \in universe :
        Key(listing) = Key(row) /\ row.isin \in {NoIsin, listing.isin}

(* A universe called SUCCESS is the policy's: every acquisition answered   *)
(* completely within its lifetime, none was left out for a missing         *)
(* provider, a failure, a wrong venue or an undeclared scope; and whatever *)
(* is not FAILED names each listing once and with the one identity all its *)
(* sources agree on, though they may have been read days apart.            *)
SuccessIsWhole ==
    \A r \in Invocations :
        /\ runs[r].status = "SUCCESS" =>
            \A a \in Policy(r) :
                /\ runs[r].brought[a].complete /\ runs[r].brought[a].age < TTL
                /\ Fits(a, [rows |-> runs[r].brought[a].rows, declares |-> TRUE])
        /\ runs[r].status \in {"SUCCESS", "PARTIAL"} =>
            /\ \A one, other \in runs[r].universe : Key(one) = Key(other) => one = other
            /\ \A row \in Kept(r) : Represented(row, runs[r].universe)

(* A file changes into the answer its provider gives now to an invocation  *)
(* that may use the network, or it is damaged; a provider that fails, a    *)
(* CACHE_ONLY invocation and one that dies leave every file as it was.     *)
FileIsAnAnswer ==
    [][\A a \in Acquisitions :
        \/ files'[a] = files[a]
        \/ files[a] # NoFile /\ files'[a] = Damaged
        \/ /\ files'[a].answered = now /\ files'[a].cached = now
           /\ \E r \in Invocations :
                runs[r].at = "live" /\ runs[r].mode # "CACHE_ONLY" /\ Current(r) = a]_vars
=============================================================================
