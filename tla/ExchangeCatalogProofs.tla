------------------------ MODULE ExchangeCatalogProofs ------------------------
(***************************************************************************)
(* Proofs about ExchangeCatalog, for any policies, answers, lifetimes and  *)
(* number of invocations on one cache directory.                           *)
(*                                                                         *)
(* The bound on the age of what is served is not inductive: it needs that  *)
(* an entry is cached when its provider speaks and never later (Timed),    *)
(* for the files and for what an invocation has read and still holds while *)
(* others replace the file, and that only what may use the network waits   *)
(* for a provider (Online).  That a SUCCESS is whole needs what each       *)
(* acquisition brought, and that an ended invocation keeps it (Told).      *)
(***************************************************************************)
EXTENDS ExchangeCatalog, TLAPS

Timed(entry) == entry.answered = entry.cached /\ entry.cached \in 0..now

FilesTimed == \A a \in Acquisitions : files[a] \in {NoFile, Damaged} \/ Timed(files[a])
HeldTimed ==
    \A r \in Invocations :
        runs[r].lookup.status \in {"FRESH", "STALE"} =>
            runs[r].lookup.entry \in Entry /\ Timed(runs[r].lookup.entry)
Online == \A r \in Invocations : runs[r].at = "live" => runs[r].mode # "CACHE_ONLY"

IInv == TypeOK /\ FilesTimed /\ HeldTimed /\ Online /\ AgedWithinLimit

Placed(i) ==
    /\ runs[i].at # "idle" => runs[i].next >= 1
    /\ runs[i].at = "live" => runs[i].next <= Len(Order[i])

InvocationRecord ==
    [at : {"idle", "lookup", "live", "ended"}, mode : Modes, next : Nat, universe : SUBSET Rows,
     lookup : [status : {"NONE", "MISS", "INVALID", "FRESH", "STALE"},
               entry : Entry \union {NoFile}],
     brought : [Acquisitions -> Result \union {Nothing}],
     status : {"NONE", "SUCCESS", "PARTIAL", "FAILED"}]

(* An entry is told from no file and from a damaged one by its times.      *)
LEMMA EntryIsNoMark ==
    ASSUME NEW e \in Entry
    PROVE  e \notin {NoFile, Damaged}
  BY DEF Entry, NoFile, Damaged

(* The acquisition an invocation is at is one of the catalog's.            *)
LEMMA CurrentIn ==
    ASSUME CatalogAssumption, NEW r \in Invocations, runs[r].next \in 1..Len(Order[r])
    PROVE  Current(r) \in Acquisitions
  BY DEF CatalogAssumption, Current

(* What load says of a file.                                               *)
LEMMA LoadSays ==
    ASSUME CatalogAssumption, IInv, NEW a \in Acquisitions
    PROVE  /\ Load(a) \in [status : {"MISS", "INVALID", "FRESH", "STALE"},
                           entry : Entry \union {NoFile}]
           /\ Load(a).status \in {"FRESH", "STALE"} =>
                Load(a).entry \in Entry /\ Timed(Load(a).entry)
           /\ Load(a).status = "FRESH" => now - Load(a).entry.answered < TTL
  <1>1. CASE files[a] = NoFile
    BY <1>1 DEF Load, Lookup, NoFile
  <1>2. CASE files[a] = Damaged /\ files[a] # NoFile
    BY <1>2 DEF Load, Lookup, NoFile
  <1>3. CASE files[a] \notin {NoFile, Damaged}
    <2>1. files[a] \in Entry /\ Timed(files[a])
      BY <1>3 DEF IInv, TypeOK, FilesTimed
    <2>2. Load(a) = [status |-> IF now < files[a].cached + TTL THEN "FRESH" ELSE "STALE",
                     entry |-> files[a]]
      BY <1>3 DEF Load, Lookup, Expires
    <2>3. now \in Nat /\ TTL \in Nat
      BY DEF CatalogAssumption, IInv, TypeOK
    <2> QED BY <2>1, <2>2, <2>3 DEF Timed, Entry
  <1> QED BY <1>1, <1>2, <1>3

(* An answer that is served keeps its age; one within the limit stays so.  *)
LEMMA ServedFits ==
    ASSUME CatalogAssumption, IInv, NEW answer, answer.rows \subseteq Rows,
           NEW answered \in 0..now, NEW fallback \in BOOLEAN
    PROVE  /\ Served(answer, answered, fallback) \in Result
           /\ Served(answer, answered, fallback).age = now - answered
           /\ Served(answer, answered, fallback).fallback = fallback
  BY DEF Served, Result, IInv, TypeOK, CatalogAssumption

Allowed(r, result) ==
    result # Nothing =>
        \/ result.age < TTL
        \/ /\ result.fallback /\ r \in StaleAllowed /\ runs[r].mode # "CACHE_ONLY"
           /\ result.age <= TTL + MaxStaleAge

(* What a provider has just said is no age at all.                         *)
LEMMA LiveAllowed ==
    ASSUME CatalogAssumption, IInv, NEW r \in Invocations, NEW answer, answer.rows \subseteq Rows
    PROVE  Allowed(r, Served(answer, now, FALSE))
  <1>1. now \in Nat /\ now \in 0..now /\ TTL \in Nat \ {0}
    BY DEF IInv, TypeOK, CatalogAssumption
  <1>2. now - now < TTL
    BY <1>1
  <1>3. Served(answer, now, FALSE).age < TTL
    BY <1>2 DEF Served
  <1> QED BY <1>3 DEF Allowed

(* Going on with an allowed result keeps everything about the invocations. *)
LEMMA AdvanceKeeps ==
    ASSUME CatalogAssumption, IInv, NEW r \in Invocations,
           runs[r].next \in 1..Len(Order[r]),
           NEW what \in Result \union {Nothing}, Allowed(r, what),
           Advance(r, what), UNCHANGED now
    PROVE  /\ runs' \in [Invocations -> InvocationRecord]
           /\ \A i \in Invocations : Placed(i)'
           /\ HeldTimed' /\ Online' /\ AgedWithinLimit'
  <1> DEFINE c == Current(r)
             new == [runs[r] EXCEPT !.at = "lookup", !.next = @ + 1, !.lookup = NotRead,
                                    !.brought = [@ EXCEPT ![c] = what]]
  <1>1. c \in Acquisitions
    BY CurrentIn
  <1>2. runs \in [Invocations -> InvocationRecord]
    BY DEF IInv, TypeOK, InvocationRecord
  <1>3. runs' = [runs EXCEPT ![r] = new]
    BY <1>2 DEF Advance
  <1>4. new \in InvocationRecord
    <2>1. runs[r] \in InvocationRecord
      BY <1>2
    <2>2. [runs[r].brought EXCEPT ![c] = what] \in [Acquisitions -> Result \union {Nothing}]
      BY <2>1 DEF InvocationRecord
    <2>3. NotRead \in [status : {"NONE", "MISS", "INVALID", "FRESH", "STALE"},
                       entry : Entry \union {NoFile}]
      BY DEF NotRead, Lookup
    <2>4. runs[r].next + 1 \in Nat
      BY <2>1 DEF InvocationRecord
    <2> HIDE DEF c
    <2> QED BY <2>1, <2>2, <2>3, <2>4 DEF InvocationRecord
  <1>5. /\ new.at = "lookup" /\ new.next = runs[r].next + 1 /\ new.mode = runs[r].mode /\ new.lookup.status = "NONE"
        /\ new.brought = [runs[r].brought EXCEPT ![c] = what]
    BY <1>2 DEF InvocationRecord, NotRead, Lookup
  <1>6. \A i \in Invocations : i # r => runs'[i] = runs[i]
    BY <1>2, <1>3
  <1>7. runs'[r] = new
    BY <1>2, <1>3
  <1> HIDE DEF new, c
  <1>8. runs' \in [Invocations -> InvocationRecord]
    BY <1>2, <1>3, <1>4
  <1>9. \A i \in Invocations : Placed(i)'
    <2> SUFFICES ASSUME NEW i \in Invocations PROVE Placed(i)'
      OBVIOUS
    <2>1. CASE i = r
      <3>1. runs[r].next \in Nat
        BY <1>2 DEF InvocationRecord
      <3> QED BY <2>1, <3>1, <1>5, <1>7 DEF Placed
    <2>2. CASE i # r
      BY <2>2, <1>6 DEF IInv, TypeOK, Placed
    <2> QED BY <2>1, <2>2
  <1>10. HeldTimed'
    BY <1>5, <1>6, <1>7 DEF IInv, HeldTimed, Timed
  <1>11. Online'
    BY <1>5, <1>6, <1>7 DEF IInv, Online
  <1>12. AgedWithinLimit'
    <2> SUFFICES ASSUME NEW i \in Invocations, NEW a \in Acquisitions,
                        runs'[i].brought[a] # Nothing
                 PROVE  \/ runs'[i].brought[a].age < TTL
                        \/ /\ runs'[i].brought[a].fallback /\ i \in StaleAllowed
                           /\ runs'[i].mode # "CACHE_ONLY"
                           /\ runs'[i].brought[a].age <= TTL + MaxStaleAge
      BY DEF AgedWithinLimit
    <2>1. CASE i # r
      BY <2>1, <1>6 DEF IInv, AgedWithinLimit
    <2>2. CASE i = r /\ a # c
      <3>1. runs'[r].brought[a] = runs[r].brought[a]
        BY <2>2, <1>1, <1>2, <1>5, <1>7 DEF InvocationRecord
      <3> QED BY <3>1, <2>2, <1>5, <1>7 DEF IInv, AgedWithinLimit
    <2>3. CASE i = r /\ a = c
      <3>1. runs'[r].brought[c] = what
        BY <1>1, <1>2, <1>5, <1>7 DEF InvocationRecord
      <3> QED BY <3>1, <2>3, <1>5, <1>7 DEF Allowed
    <2> QED BY <2>1, <2>2, <2>3
  <1> QED BY <1>8, <1>9, <1>10, <1>11, <1>12

(* The same for an answer that may not fit the policy.                     *)
LEMMA TakeKeeps ==
    ASSUME CatalogAssumption, IInv, NEW r \in Invocations,
           runs[r].next \in 1..Len(Order[r]),
           NEW answer, answer.rows \subseteq Rows, NEW answered \in 0..now,
           NEW fallback \in BOOLEAN,
           Allowed(r, Served(answer, answered, fallback)),
           Take(r, answer, answered, fallback), UNCHANGED now
    PROVE  /\ runs' \in [Invocations -> InvocationRecord]
           /\ \A i \in Invocations : Placed(i)'
           /\ HeldTimed' /\ Online' /\ AgedWithinLimit'
  <1>1. Served(answer, answered, fallback) \in Result
    BY ServedFits
  <1>2. CASE Fits(Current(r), answer)
    BY <1>1, <1>2, AdvanceKeeps DEF Take
  <1>3. CASE ~Fits(Current(r), answer)
    BY <1>3, AdvanceKeeps DEF Take, Allowed
  <1> QED BY <1>2, <1>3

(* No entry is cached, none is held, nothing is served.                    *)
LEMMA InitHolds == ASSUME CatalogAssumption, Init PROVE IInv
  <1>1. [a \in Acquisitions |-> Nothing] \in [Acquisitions -> Result \union {Nothing}]
    OBVIOUS
  <1>2. NotRead \in [status : {"NONE", "MISS", "INVALID", "FRESH", "STALE"},
                     entry : Entry \union {NoFile}]
    BY DEF NotRead, Lookup
  <1>3. Idle \in InvocationRecord
    BY <1>1, <1>2 DEF Idle, InvocationRecord, Modes
  <1>4. /\ Idle.at = "idle" /\ Idle.lookup.status = "NONE"
        /\ \A a \in Acquisitions : Idle.brought[a] = Nothing
    BY DEF Idle, NotRead, Lookup
  <1> QED BY <1>3, <1>4
          DEF Init, IInv, TypeOK, FilesTimed, HeldTimed, Online, AgedWithinLimit, InvocationRecord

(* The invariant is inductive, and a step changes a file only to what its  *)
(* provider answers now or to a damaged one.                               *)
FilesKeep ==
    \A a \in Acquisitions :
        \/ files'[a] = files[a]
        \/ files[a] # NoFile /\ files'[a] = Damaged
        \/ /\ files'[a].answered = now /\ files'[a].cached = now
           /\ \E r \in Invocations :
                runs[r].at = "live" /\ runs[r].mode # "CACHE_ONLY" /\ Current(r) = a

LEMMA StepHolds ==
    ASSUME CatalogAssumption, IInv, [Next]_vars
    PROVE  IInv' /\ FilesKeep
  <1> USE CatalogAssumption
  <1> DEFINE RunsHold == /\ runs' \in [Invocations -> InvocationRecord]
                         /\ \A i \in Invocations : Placed(i)'
                         /\ HeldTimed' /\ Online' /\ AgedWithinLimit'
  <1>0. /\ now \in Nat /\ files \in [Acquisitions -> Entry \union {NoFile, Damaged}]
        /\ runs \in [Invocations -> InvocationRecord]
        /\ \A i \in Invocations : Placed(i)
        /\ \A i \in Invocations : Order[i] \in Seq(Acquisitions) /\ Len(Order[i]) \in Nat
    BY DEF IInv, TypeOK, InvocationRecord, CatalogAssumption, Placed
  <1>1. ASSUME UNCHANGED <<now, files>>, RunsHold
        PROVE  IInv' /\ FilesKeep
    BY <1>0, <1>1 DEF IInv, TypeOK, InvocationRecord, FilesTimed, Timed, FilesKeep, Placed
  <1>2. ASSUME NEW r \in Invocations, NEW mode \in Modes, Start(r, mode)
        PROVE  IInv' /\ FilesKeep
    <2> DEFINE new == [Idle EXCEPT !.at = "lookup", !.mode = mode, !.next = 1]
    <2>1. [a \in Acquisitions |-> Nothing] \in [Acquisitions -> Result \union {Nothing}]
      OBVIOUS
    <2>2. NotRead \in [status : {"NONE", "MISS", "INVALID", "FRESH", "STALE"},
                       entry : Entry \union {NoFile}]
      BY DEF NotRead, Lookup
    <2>3. new \in InvocationRecord
      BY <2>1, <2>2 DEF Idle, InvocationRecord, Modes
    <2>4. /\ new.at = "lookup" /\ new.next = 1 /\ new.lookup.status = "NONE"
          /\ \A a \in Acquisitions : new.brought[a] = Nothing
      BY DEF Idle, NotRead, Lookup
    <2>5. runs' = [runs EXCEPT ![r] = new]
      BY <1>2 DEF Start
    <2> HIDE DEF new
    <2>6. runs'[r] = new /\ \A i \in Invocations : i # r => runs'[i] = runs[i]
      BY <1>0, <2>5
    <2>7. UNCHANGED <<now, files>>
      BY <1>2 DEF Start
    <2>8. runs' \in [Invocations -> InvocationRecord]
      BY <1>0, <2>3, <2>5
    <2>9. \A i \in Invocations : Placed(i)'
      <3> TAKE i \in Invocations
      <3>1. CASE i = r
        BY <1>0, <2>4, <2>6, <3>1 DEF Placed
      <3>2. CASE i # r
        BY <1>0, <2>6, <3>2 DEF Placed
      <3> QED BY <3>1, <3>2
    <2>10. HeldTimed'
      BY <2>4, <2>6, <2>7 DEF IInv, HeldTimed, Timed
    <2>11. Online'
      BY <2>4, <2>6 DEF IInv, Online
    <2>12. AgedWithinLimit'
      BY <2>4, <2>6 DEF IInv, AgedWithinLimit
    <2> QED BY <1>1, <2>7, <2>8, <2>9, <2>10, <2>11, <2>12
  <1>3. ASSUME NEW r \in Invocations, SkipUnregistered(r)
        PROVE  IInv' /\ FilesKeep
    <2>1. runs[r].next \in 1..Len(Order[r])
      BY <1>0, <1>3 DEF SkipUnregistered, Placed, InvocationRecord
    <2>2. RunsHold
      BY <1>3, <2>1, AdvanceKeeps DEF SkipUnregistered, Allowed
    <2> QED BY <1>1, <1>3, <2>2 DEF SkipUnregistered
  <1>4. ASSUME NEW r \in Invocations, Read(r)
        PROVE  IInv' /\ FilesKeep
    <2> DEFINE found == IF runs[r].mode = "FORCE_REFRESH" THEN NotRead ELSE Load(Current(r))
    <2>1. runs[r].next \in 1..Len(Order[r])
      BY <1>0, <1>4 DEF Read, Placed, InvocationRecord
    <2>2. Current(r) \in Acquisitions
      BY <2>1, CurrentIn
    <2>3. found \in [status : {"NONE", "MISS", "INVALID", "FRESH", "STALE"},
                     entry : Entry \union {NoFile}]
      BY <2>2, LoadSays DEF NotRead, Lookup
    <2>4. found.status \in {"FRESH", "STALE"} => found.entry \in Entry /\ Timed(found.entry)
      BY <2>2, LoadSays DEF NotRead, Lookup
    <2>5. found.status = "FRESH" => now - found.entry.answered < TTL
      BY <2>2, LoadSays DEF NotRead, Lookup
    <2>6. UNCHANGED <<now, files>>
      BY <1>4 DEF Read
    <2>7. \/ /\ found.status = "FRESH"
             /\ Take(r, found.entry.answer, found.entry.answered, FALSE)
          \/ /\ found.status # "FRESH" /\ Offline(r)
             /\ Advance(r, Nothing)
          \/ /\ found.status # "FRESH" /\ ~Offline(r)
             /\ runs' = [runs EXCEPT ![r].at = "live", ![r].lookup = found]
      BY <1>4 DEF Read
    <2> HIDE DEF found
    <2>8. CASE found.status = "FRESH" /\ Take(r, found.entry.answer, found.entry.answered, FALSE)
      <3>1. found.entry.answer.rows \subseteq Rows /\ found.entry.answered \in 0..now
        BY <2>4, <2>8 DEF Entry, Timed, CatalogAssumption
      <3>2. Allowed(r, Served(found.entry.answer, found.entry.answered, FALSE))
        BY <2>5, <2>8, <3>1, ServedFits DEF Allowed
      <3>3. RunsHold
        BY <2>1, <2>6, <2>8, <3>1, <3>2, TakeKeeps
      <3> QED BY <1>1, <2>6, <3>3
    <2>9. CASE Advance(r, Nothing)
      <3>1. RunsHold
        BY <2>1, <2>6, <2>9, AdvanceKeeps DEF Allowed
      <3> QED BY <1>1, <2>6, <3>1
    <2>10. CASE ~Offline(r) /\ runs' = [runs EXCEPT ![r].at = "live", ![r].lookup = found]
      <3> DEFINE new == [runs[r] EXCEPT !.at = "live", !.lookup = found]
      <3>1. new \in InvocationRecord
        <4>1. runs[r] \in InvocationRecord
          BY <1>0
        <4> QED BY <4>1, <2>3 DEF InvocationRecord
      <3>2. /\ new.at = "live" /\ new.next = runs[r].next /\ new.mode = runs[r].mode
            /\ new.lookup = found /\ new.brought = runs[r].brought
        BY <1>0 DEF InvocationRecord
      <3>3. runs' = [runs EXCEPT ![r] = new]
        BY <1>0, <2>10
      <3> HIDE DEF new
      <3>4. runs'[r] = new /\ \A i \in Invocations : i # r => runs'[i] = runs[i]
        BY <1>0, <3>3
      <3>5. runs' \in [Invocations -> InvocationRecord]
        BY <1>0, <3>1, <3>3
      <3>6. \A i \in Invocations : Placed(i)'
        <4>1. Placed(r)'
          BY <2>1, <3>2, <3>4 DEF Placed
        <4>2. \A i \in Invocations : i # r => Placed(i)'
          BY <1>0, <3>4 DEF Placed
        <4> QED BY <4>1, <4>2
      <3>7. HeldTimed'
        BY <2>4, <2>6, <3>2, <3>4 DEF IInv, HeldTimed, Timed
      <3>8. Online'
        BY <2>10, <3>2, <3>4 DEF IInv, Online, Offline
      <3>9. AgedWithinLimit'
        BY <3>2, <3>4 DEF IInv, AgedWithinLimit
      <3> QED BY <1>1, <2>6, <3>5, <3>6, <3>7, <3>8, <3>9
    <2> QED BY <2>7, <2>8, <2>9, <2>10
  <1>5. ASSUME NEW r \in Invocations, NEW answer \in Answers, Refresh(r, answer)
        PROVE  IInv' /\ FilesKeep
    <2>1. runs[r].next \in 1..Len(Order[r])
      BY <1>0, <1>5 DEF Refresh, Placed, InvocationRecord
    <2>2. Current(r) \in Acquisitions
      BY <2>1, CurrentIn
    <2> DEFINE entry == [answer |-> answer, answered |-> now, cached |-> now]
    <2>3. entry \in Entry
      BY <1>0 DEF Entry
    <2>4. now' = now /\ files' = [files EXCEPT ![Current(r)] = entry]
      BY <1>5 DEF Refresh, Stored
    <2>5. RunsHold
      <3>1. answer.rows \subseteq Rows /\ now \in 0..now /\ TTL > 0
        BY <1>0 DEF CatalogAssumption
      <3>2. Allowed(r, Served(answer, now, FALSE))
        BY <3>1, LiveAllowed
      <3>3. now' = now /\ Take(r, answer, now, FALSE)
        BY <1>5 DEF Refresh
      <3> QED BY <2>1, <3>1, <3>2, <3>3, TakeKeeps
    <2>6. files' \in [Acquisitions -> Entry \union {NoFile, Damaged}]
      BY <1>0, <2>3, <2>4
    <2>7. entry.answered = now /\ entry.cached = now
      OBVIOUS
    <2> HIDE DEF entry
    <2>8. /\ files'[Current(r)] = entry
          /\ \A a \in Acquisitions : a # Current(r) => files'[a] = files[a]
      BY <1>0, <2>2, <2>4
    <2>9. FilesTimed'
      BY <1>0, <2>4, <2>7, <2>8 DEF IInv, FilesTimed, Timed
    <2>10. FilesKeep
      BY <1>5, <2>7, <2>8 DEF FilesKeep, IInv, Online, Refresh
    <2> QED BY <1>0, <2>4, <2>5, <2>6, <2>9, <2>10
            DEF IInv, TypeOK, InvocationRecord, Placed
  <1>6. ASSUME NEW r \in Invocations, NEW answer \in Answers, RefreshUnwritten(r, answer)
        PROVE  IInv' /\ FilesKeep
    <2>1. runs[r].next \in 1..Len(Order[r])
      BY <1>0, <1>6 DEF RefreshUnwritten, Placed, InvocationRecord
    <2> DEFINE partial == [answer EXCEPT !.status = "PARTIAL"]
    <2>2. partial.rows \subseteq Rows /\ now \in 0..now /\ TTL > 0
      BY <1>0 DEF CatalogAssumption
    <2>3. UNCHANGED <<now, files>> /\ Take(r, partial, now, FALSE)
      BY <1>6 DEF RefreshUnwritten
    <2> HIDE DEF partial
    <2>4. Allowed(r, Served(partial, now, FALSE))
      BY <2>2, LiveAllowed
    <2>5. RunsHold
      BY <2>1, <2>2, <2>3, <2>4, TakeKeeps
    <2> QED BY <1>1, <2>3, <2>5
  <1>7. ASSUME NEW r \in Invocations, FallBack(r)
        PROVE  IInv' /\ FilesKeep
    <2>1. runs[r].next \in 1..Len(Order[r]) /\ Current(r) \in Acquisitions
      BY <1>0, <1>7, CurrentIn DEF FallBack, Placed, InvocationRecord
    <2>2. Known(r).status = "STALE" => Known(r).entry \in Entry /\ Timed(Known(r).entry)
      <3>1. CASE runs[r].lookup = NotRead
        BY <3>1, <2>1, LoadSays DEF Known
      <3>2. CASE runs[r].lookup # NotRead
        <4>1. Known(r) = runs[r].lookup
          BY <3>2 DEF Known
        <4> QED BY <4>1 DEF IInv, HeldTimed
      <3> QED BY <3>1, <3>2
    <2>3. /\ UNCHANGED <<now, files>> /\ runs[r].at = "live" /\ Usable(r)
          /\ Take(r, Known(r).entry.answer, Known(r).entry.answered, TRUE)
      BY <1>7 DEF FallBack
    <2>4. /\ Known(r).entry.answer.rows \subseteq Rows /\ Known(r).entry.answered \in 0..now
          /\ now - Known(r).entry.answered <= TTL + MaxStaleAge
      BY <1>0, <2>2, <2>3 DEF Usable, Expires, Entry, Timed, CatalogAssumption
    <2>5. Allowed(r, Served(Known(r).entry.answer, Known(r).entry.answered, TRUE))
      BY <2>3, <2>4, ServedFits DEF Allowed, Usable, IInv, Online
    <2>6. RunsHold
      BY <2>1, <2>3, <2>4, <2>5, TakeKeeps
    <2> QED BY <1>1, <2>3, <2>6
  <1>8. ASSUME NEW r \in Invocations, FailLive(r)
        PROVE  IInv' /\ FilesKeep
    <2>1. runs[r].next \in 1..Len(Order[r])
      BY <1>0, <1>8 DEF FailLive, Placed, InvocationRecord
    <2>2. RunsHold
      BY <1>8, <2>1, AdvanceKeeps DEF FailLive, Allowed
    <2> QED BY <1>1, <1>8, <2>2 DEF FailLive
  <1>9. ASSUME NEW r \in Invocations, Compose(r)
        PROVE  IInv' /\ FilesKeep
    <2> DEFINE listed == IF StatusOf(r) = "FAILED" THEN {} ELSE Canonical(r)
               new == [runs[r] EXCEPT !.at = "ended", !.status = StatusOf(r), !.universe = listed]
    <2>1. runs[r] \in InvocationRecord
      BY <1>0
    <2>2. StatusOf(r) \in {"SUCCESS", "PARTIAL", "FAILED"}
      BY DEF StatusOf
    <2>3. \A a \in Acquisitions : runs[r].brought[a].rows \subseteq Rows
      BY <2>1 DEF InvocationRecord, Result, Nothing
    <2>4. Policy(r) \subseteq Acquisitions
      BY <1>0 DEF Policy
    <2>5. listed \subseteq Rows
      BY <2>3, <2>4 DEF Canonical, Kept, Raw
    <2> HIDE DEF listed
    <2>6. new \in InvocationRecord
      BY <2>1, <2>2, <2>5 DEF InvocationRecord
    <2>7. /\ new.at = "ended" /\ new.next = runs[r].next /\ new.mode = runs[r].mode
          /\ new.lookup = runs[r].lookup /\ new.brought = runs[r].brought
      BY <2>1 DEF InvocationRecord
    <2>8. runs' = [runs EXCEPT ![r] = new] /\ UNCHANGED <<now, files>> /\ runs[r].at = "lookup"
      BY <1>0, <1>9 DEF Compose, listed
    <2> HIDE DEF new
    <2>9. runs'[r] = new /\ \A i \in Invocations : i # r => runs'[i] = runs[i]
      BY <1>0, <2>8
    <2>10. runs' \in [Invocations -> InvocationRecord]
      BY <1>0, <2>6, <2>8
    <2>11. \A i \in Invocations : Placed(i)'
      BY <1>0, <2>7, <2>8, <2>9 DEF Placed
    <2>12. HeldTimed'
      BY <2>7, <2>8, <2>9 DEF IInv, HeldTimed, Timed
    <2>13. Online'
      BY <2>7, <2>9 DEF IInv, Online
    <2>14. AgedWithinLimit'
      BY <2>7, <2>9 DEF IInv, AgedWithinLimit
    <2> QED BY <1>1, <2>8, <2>10, <2>11, <2>12, <2>13, <2>14
  <1>10. ASSUME NEW r \in Invocations, Die(r)
         PROVE  IInv' /\ FilesKeep
    <2>1. [a \in Acquisitions |-> Nothing] \in [Acquisitions -> Result \union {Nothing}]
      OBVIOUS
    <2>2. NotRead \in [status : {"NONE", "MISS", "INVALID", "FRESH", "STALE"},
                       entry : Entry \union {NoFile}]
      BY DEF NotRead, Lookup
    <2>3. Idle \in InvocationRecord
      BY <2>1, <2>2 DEF Idle, InvocationRecord, Modes
    <2>4. /\ Idle.at = "idle" /\ Idle.lookup.status = "NONE"
          /\ \A a \in Acquisitions : Idle.brought[a] = Nothing
      BY DEF Idle, NotRead, Lookup
    <2>5. runs' = [runs EXCEPT ![r] = Idle] /\ UNCHANGED <<now, files>>
      BY <1>10 DEF Die
    <2>6. runs'[r] = Idle /\ \A i \in Invocations : i # r => runs'[i] = runs[i]
      BY <1>0, <2>5
    <2>7. runs' \in [Invocations -> InvocationRecord]
      BY <1>0, <2>3, <2>5
    <2>8. \A i \in Invocations : Placed(i)'
      BY <1>0, <2>4, <2>6 DEF Placed
    <2>9. HeldTimed' /\ Online'
      BY <2>4, <2>5, <2>6 DEF IInv, HeldTimed, Timed, Online
    <2>10. AgedWithinLimit'
      BY <2>4, <2>6 DEF IInv, AgedWithinLimit
    <2> QED BY <1>1, <2>5, <2>7, <2>8, <2>9, <2>10
  <1>11. ASSUME NEW a \in Acquisitions, Damage(a)
         PROVE  IInv' /\ FilesKeep
    <2>1. /\ UNCHANGED <<now, runs>> /\ files[a] \notin {NoFile, Damaged}
          /\ files' = [files EXCEPT ![a] = Damaged]
      BY <1>11 DEF Damage
    <2>2. files'[a] = Damaged /\ \A b \in Acquisitions : b # a => files'[b] = files[b]
      BY <1>0, <2>1
    <2>3. files' \in [Acquisitions -> Entry \union {NoFile, Damaged}]
      BY <1>0, <2>1
    <2>4. FilesTimed' /\ FilesKeep
      BY <2>1, <2>2 DEF IInv, FilesTimed, Timed, FilesKeep
    <2> QED BY <2>1, <2>3, <2>4 DEF IInv, TypeOK, HeldTimed, Timed, Online, AgedWithinLimit
  <1>12. CASE Tick
    <2>1. now' = now + 1 /\ UNCHANGED <<files, runs>>
      BY <1>12 DEF Tick
    <2>2. FilesTimed' /\ HeldTimed'
      BY <1>0, <2>1 DEF IInv, FilesTimed, HeldTimed, Timed
    <2> QED BY <1>0, <2>1, <2>2 DEF IInv, TypeOK, Online, AgedWithinLimit, FilesKeep
  <1>13. CASE UNCHANGED vars
    BY <1>13 DEF vars, IInv, TypeOK, FilesTimed, HeldTimed, Timed, Online, AgedWithinLimit, FilesKeep
  <1> QED BY <1>2, <1>3, <1>4, <1>5, <1>6, <1>7, <1>8, <1>9, <1>10, <1>11, <1>12, <1>13 DEF Next

(* What is served is never older than the lifetime or, by leave of the     *)
(* operator and after a failure, than the interval on top of it.           *)
THEOREM AgeBounded == Spec => []AgedWithinLimit
  <1>1. Init => IInv
    BY InitHolds, CatalogAssumption
  <1>2. IInv /\ [Next]_vars => IInv'
    BY StepHolds, CatalogAssumption
  <1>3. IInv => AgedWithinLimit
    BY DEF IInv
  <1> QED BY <1>1, <1>2, <1>3, PTL DEF Spec

(* Files change only into what their providers answer, or go damaged.      *)
THEOREM FilesHold == Spec => FileIsAnAnswer
  <1>1. Init => IInv
    BY InitHolds, CatalogAssumption
  <1>2. IInv /\ [Next]_vars => IInv'
    BY StepHolds, CatalogAssumption
  <1>3. IInv /\ [Next]_vars => [FilesKeep]_vars
    BY StepHolds, CatalogAssumption
  <1>4. FileIsAnAnswer <=> [][FilesKeep]_vars
    BY DEF FileIsAnAnswer, FilesKeep
  <1> QED BY <1>1, <1>2, <1>3, <1>4, PTL DEF Spec

-----------------------------------------------------------------------------
(* What an acquisition brought fits the policy and is no complete fallback;*)
(* an invocation that has ended calls its universe what these make it.     *)
Fair(a, what) ==
    what # Nothing => /\ Fits(a, [rows |-> what.rows, declares |-> TRUE])
                      /\ what.complete => ~what.fallback
Told(r) ==
    /\ runs[r].at # "ended" => runs[r].status = "NONE"
    /\ runs[r].status \in {"SUCCESS", "PARTIAL"} =>
        runs[r].universe = Canonical(r) /\ ~Conflict(r)
    /\ runs[r].status = "SUCCESS" => Complete(r)
    /\ \A a \in Acquisitions : Fair(a, runs[r].brought[a])

LEMMA SameBrought ==
    ASSUME NEW r, runs'[r].brought = runs[r].brought
    PROVE  /\ Kept(r)' = Kept(r) /\ Canonical(r)' = Canonical(r)
           /\ Conflict(r)' = Conflict(r) /\ Complete(r)' = Complete(r)
  <1>1. Kept(r)' = Kept(r)
    BY DEF Kept, Raw, Policy, EnabledVenues
  <1> QED BY <1>1 DEF Canonical, Conflict, Complete, Policy

LEMMA ToldKept ==
    ASSUME NEW r, Told(r), runs'[r] = runs[r]
    PROVE  Told(r)'
  BY SameBrought DEF Told

(* Nothing has been brought yet.                                           *)
LEMMA ToldFresh ==
    ASSUME NEW r, runs'[r].status = "NONE",
           \A a \in Acquisitions : runs'[r].brought[a] = Nothing
    PROVE  Told(r)'
  BY DEF Told, Fair

(* Whatever brings no more and composes nothing.                           *)
LEMMA ToldReading ==
    ASSUME NEW r, Told(r), runs[r].at # "ended",
           runs'[r].status = runs[r].status, runs'[r].brought = runs[r].brought
    PROVE  Told(r)'
  BY DEF Told

LEMMA ToldAdvance ==
    ASSUME CatalogAssumption, TypeOK, NEW r \in Invocations,
           runs[r].next \in 1..Len(Order[r]), runs[r].at # "ended",
           NEW what, Fair(Current(r), what), Advance(r, what), Told(r)
    PROVE  Told(r)'
  <1>1. runs[r] \in InvocationRecord /\ runs \in [Invocations -> InvocationRecord]
    BY DEF TypeOK, InvocationRecord
  <1>2. Current(r) \in Acquisitions
    BY CurrentIn
  <1>3. /\ runs'[r].status = runs[r].status
        /\ runs'[r].brought = [runs[r].brought EXCEPT ![Current(r)] = what]
    BY <1>1 DEF Advance, InvocationRecord
  <1>4. \A a \in Acquisitions : Fair(a, runs'[r].brought[a])
    BY <1>1, <1>2, <1>3 DEF InvocationRecord, Told
  <1>5. runs'[r].status = "NONE"
    BY <1>3 DEF Told
  <1> QED BY <1>4, <1>5 DEF Told

LEMMA ToldTake ==
    ASSUME CatalogAssumption, TypeOK, NEW r \in Invocations,
           runs[r].next \in 1..Len(Order[r]), runs[r].at # "ended",
           NEW answer, NEW answered, NEW fallback \in BOOLEAN,
           Take(r, answer, answered, fallback), Told(r)
    PROVE  Told(r)'
  <1>1. CASE Fits(Current(r), answer)
    <2>1. Fair(Current(r), Served(answer, answered, fallback))
      BY <1>1 DEF Fair, Fits, Served
    <2> QED BY <1>1, <2>1, ToldAdvance DEF Take
  <1>2. CASE ~Fits(Current(r), answer)
    BY <1>2, ToldAdvance DEF Take, Fair
  <1> QED BY <1>1, <1>2

LEMMA ToldInit == ASSUME Init PROVE \A r \in Invocations : Told(r)
  BY DEF Init, Idle, Told, Fair

(* An action of one invocation leaves the others alone.                    *)
LEMMA OneAtATime ==
    ASSUME TypeOK, NEW r \in Invocations, NEW x, runs' = [runs EXCEPT ![r] = x]
    PROVE  runs'[r] = x /\ \A i \in Invocations \ {r} : runs'[i] = runs[i]
  BY DEF TypeOK

LEMMA ToldStep ==
    ASSUME CatalogAssumption, IInv, [Next]_vars, \A r \in Invocations : Told(r)
    PROVE  \A r \in Invocations : Told(r)'
  <1>0. /\ TypeOK /\ runs \in [Invocations -> InvocationRecord]
        /\ \A i \in Invocations : Placed(i) /\ Len(Order[i]) \in Nat
    BY DEF IInv, TypeOK, InvocationRecord, Placed, CatalogAssumption
  <1>1. CASE UNCHANGED runs
    BY <1>1, ToldKept
  <1>2. ASSUME NEW r \in Invocations, Told(r)',
               \A i \in Invocations \ {r} : runs'[i] = runs[i]
        PROVE  \A i \in Invocations : Told(i)'
    BY <1>2, ToldKept
  <1>3. ASSUME NEW r \in Invocations, NEW what, Advance(r, what)
        PROVE  \A i \in Invocations \ {r} : runs'[i] = runs[i]
    BY <1>0, <1>3 DEF Advance
  <1>4. ASSUME NEW r \in Invocations, NEW answer, NEW answered, NEW fallback \in BOOLEAN,
               Take(r, answer, answered, fallback), runs[r].at # "ended",
               runs[r].next \in 1..Len(Order[r])
        PROVE  \A i \in Invocations : Told(i)'
    BY <1>0, <1>2, <1>3, <1>4, ToldTake DEF Take
  <1>5. ASSUME NEW r \in Invocations, Advance(r, Nothing), runs[r].at # "ended",
               runs[r].next \in 1..Len(Order[r])
        PROVE  \A i \in Invocations : Told(i)'
    BY <1>0, <1>2, <1>3, <1>5, ToldAdvance DEF Fair
  <1>6. ASSUME NEW r \in Invocations, runs[r].at \in {"lookup", "live"},
               runs[r].next <= Len(Order[r])
        PROVE  runs[r].next \in 1..Len(Order[r]) /\ runs[r].at # "ended"
    BY <1>0, <1>6 DEF Placed, InvocationRecord
  <1>7. ASSUME NEW r \in Invocations, NEW mode \in Modes, Start(r, mode)
        PROVE  \A i \in Invocations : Told(i)'
    <2> DEFINE new == [Idle EXCEPT !.at = "lookup", !.mode = mode, !.next = 1]
    <2>1. runs' = [runs EXCEPT ![r] = new]
      BY <1>7 DEF Start
    <2>2. new.status = "NONE" /\ \A a \in Acquisitions : new.brought[a] = Nothing
      BY DEF Idle
    <2> HIDE DEF new
    <2>3. runs'[r] = new /\ \A i \in Invocations \ {r} : runs'[i] = runs[i]
      BY <1>0, <2>1, OneAtATime
    <2>4. Told(r)'
      BY <2>2, <2>3, ToldFresh
    <2> QED BY <1>2, <2>3, <2>4
  <1>8. ASSUME NEW r \in Invocations, Die(r)
        PROVE  \A i \in Invocations : Told(i)'
    <2>1. runs' = [runs EXCEPT ![r] = Idle]
      BY <1>8 DEF Die
    <2>2. Idle.status = "NONE" /\ \A a \in Acquisitions : Idle.brought[a] = Nothing
      BY DEF Idle
    <2>3. runs'[r] = Idle /\ \A i \in Invocations \ {r} : runs'[i] = runs[i]
      BY <1>0, <2>1, OneAtATime
    <2>4. Told(r)'
      BY <2>2, <2>3, ToldFresh
    <2> QED BY <1>2, <2>3, <2>4
  <1>9. ASSUME NEW r \in Invocations, Read(r)
        PROVE  \A i \in Invocations : Told(i)'
    <2> DEFINE found == IF runs[r].mode = "FORCE_REFRESH" THEN NotRead ELSE Load(Current(r))
    <2>1. /\ runs[r].next \in 1..Len(Order[r]) /\ runs[r].at # "ended"
          /\ \/ Take(r, found.entry.answer, found.entry.answered, FALSE)
             \/ Advance(r, Nothing)
             \/ runs' = [runs EXCEPT ![r].at = "live", ![r].lookup = found]
      BY <1>6, <1>9 DEF Read
    <2> HIDE DEF found
    <2>2. CASE runs' = [runs EXCEPT ![r].at = "live", ![r].lookup = found]
      <3>1. /\ runs'[r].status = runs[r].status /\ runs'[r].brought = runs[r].brought
            /\ \A i \in Invocations \ {r} : runs'[i] = runs[i]
        BY <1>0, <2>2 DEF InvocationRecord
      <3> QED BY <1>2, <2>1, <3>1, ToldReading
    <2> QED BY <1>4, <1>5, <2>1, <2>2
  <1>10. ASSUME NEW r \in Invocations, Compose(r)
         PROVE  \A i \in Invocations : Told(i)'
    <2> DEFINE listed == IF StatusOf(r) = "FAILED" THEN {} ELSE Canonical(r)
    <2>1. /\ runs'[r].status = StatusOf(r) /\ runs'[r].universe = listed
          /\ runs'[r].at = "ended" /\ runs'[r].brought = runs[r].brought
          /\ \A i \in Invocations \ {r} : runs'[i] = runs[i]
      BY <1>0, <1>10 DEF Compose, InvocationRecord
    <2>2. /\ Canonical(r)' = Canonical(r) /\ Conflict(r)' = Conflict(r)
          /\ Complete(r)' = Complete(r)
      BY <2>1, SameBrought
    <2>3. /\ StatusOf(r) # "FAILED" => ~Conflict(r)
          /\ StatusOf(r) = "SUCCESS" => Complete(r)
      BY DEF StatusOf
    <2>4. Told(r)'
      BY <2>1, <2>2, <2>3 DEF Told
    <2> QED BY <1>2, <2>1, <2>4
  <1>11. ASSUME NEW r \in Invocations, SkipUnregistered(r)
         PROVE  \A i \in Invocations : Told(i)'
    BY <1>5, <1>6, <1>11 DEF SkipUnregistered
  <1>12. ASSUME NEW r \in Invocations, runs[r].at = "live"
         PROVE  runs[r].next \in 1..Len(Order[r]) /\ runs[r].at # "ended"
    BY <1>0, <1>6, <1>12 DEF Placed
  <1>13. ASSUME NEW r \in Invocations, FallBack(r) \/ FailLive(r)
         PROVE  \A i \in Invocations : Told(i)'
    BY <1>4, <1>5, <1>12, <1>13 DEF FallBack, FailLive
  <1>14. ASSUME NEW r \in Invocations, NEW answer \in Answers,
                Refresh(r, answer) \/ RefreshUnwritten(r, answer)
         PROVE  \A i \in Invocations : Told(i)'
    BY <1>4, <1>12, <1>14 DEF Refresh, RefreshUnwritten
  <1> QED BY <1>1, <1>7, <1>8, <1>9, <1>10, <1>11, <1>13, <1>14
          DEF Next, Damage, Tick, vars

(* A canonical universe names a listing once, and leaves none out.         *)
LEMMA CanonicalNamesAll ==
    ASSUME CatalogAssumption, TypeOK, NEW r \in Invocations, ~Conflict(r)
    PROVE  /\ \A one, other \in Canonical(r) : Key(one) = Key(other) => one = other
           /\ \A row \in Kept(r) : Represented(row, Canonical(r))
  <1>1. Canonical(r) \subseteq Kept(r)
    BY DEF Canonical
  <1>2. Kept(r) \subseteq Rows
    <2>1. \A a \in Acquisitions : runs[r].brought[a].rows \subseteq Rows
      BY DEF TypeOK, Result, Nothing
    <2>2. Policy(r) \subseteq Acquisitions
      BY DEF Policy, CatalogAssumption
    <2> QED BY <2>1, <2>2 DEF Kept, Raw
  <1>3. ASSUME NEW one \in Canonical(r), NEW other \in Canonical(r), Key(one) = Key(other)
        PROVE  one = other
    <2>1. one \in Kept(r) /\ other \in Kept(r) /\ one \in Rows /\ other \in Rows
      BY <1>1, <1>2
    <2>2. one.isin = other.isin
      BY <1>3, <2>1 DEF Canonical, Conflict
    <2>3. one.venue = other.venue /\ one.symbol = other.symbol
      BY <1>3 DEF Key
    <2> QED BY <2>1, <2>2, <2>3 DEF CatalogAssumption
  <1>4. ASSUME NEW row \in Kept(r)
        PROVE  Represented(row, Canonical(r))
    <2>1. CASE row \in Canonical(r)
      BY <2>1 DEF Represented
    <2>2. CASE row \notin Canonical(r)
      <3>1. PICK other \in Kept(r) : Key(other) = Key(row) /\ other.isin # NoIsin
        BY <2>2 DEF Canonical
      <3>2. row.isin = NoIsin /\ other \in Canonical(r)
        BY <2>2, <3>1 DEF Canonical
      <3> QED BY <3>1, <3>2 DEF Represented
    <2> QED BY <2>1, <2>2
  <1> QED BY <1>3, <1>4

(* A universe called SUCCESS has every acquisition of its policy, complete *)
(* and within its lifetime; one that is not FAILED names each listing once *)
(* and leaves none out.                                                    *)
THEOREM SuccessHolds == Spec => []SuccessIsWhole
  <1> DEFINE AllTold == \A r \in Invocations : Told(r)
  <1>1. Init => IInv /\ AllTold
    BY InitHolds, ToldInit, CatalogAssumption
  <1>2. IInv /\ AllTold /\ [Next]_vars => IInv' /\ AllTold'
    BY StepHolds, ToldStep, CatalogAssumption
  <1>3. IInv /\ AllTold => SuccessIsWhole
    <2> SUFFICES ASSUME IInv, AllTold, NEW r \in Invocations
                 PROVE  /\ runs[r].status = "SUCCESS" =>
                            \A a \in Policy(r) :
                                /\ runs[r].brought[a].complete
                                /\ runs[r].brought[a].age < TTL
                                /\ Fits(a, [rows |-> runs[r].brought[a].rows, declares |-> TRUE])
                        /\ runs[r].status \in {"SUCCESS", "PARTIAL"} =>
                            /\ \A one, other \in runs[r].universe : Key(one) = Key(other) => one = other
                            /\ \A row \in Kept(r) : Represented(row, runs[r].universe)
      BY DEF SuccessIsWhole
    <2>1. ASSUME runs[r].status = "SUCCESS", NEW a \in Policy(r)
          PROVE  /\ runs[r].brought[a].complete /\ runs[r].brought[a].age < TTL
                 /\ Fits(a, [rows |-> runs[r].brought[a].rows, declares |-> TRUE])
      <3>1. a \in Acquisitions /\ runs[r].brought[a].complete
        BY <2>1, CatalogAssumption DEF Told, Complete, Policy, CatalogAssumption
      <3>2. runs[r].brought[a] # Nothing
        BY <3>1 DEF Nothing
      <3>3. /\ Fits(a, [rows |-> runs[r].brought[a].rows, declares |-> TRUE])
            /\ ~runs[r].brought[a].fallback
        BY <3>1, <3>2 DEF Told, Fair
      <3> QED BY <3>1, <3>2, <3>3 DEF IInv, AgedWithinLimit
    <2>2. ASSUME runs[r].status \in {"SUCCESS", "PARTIAL"}
          PROVE  /\ \A one, other \in runs[r].universe : Key(one) = Key(other) => one = other
                 /\ \A row \in Kept(r) : Represented(row, runs[r].universe)
      <3>1. runs[r].universe = Canonical(r) /\ ~Conflict(r)
        BY <2>2 DEF Told
      <3> QED BY <3>1, CanonicalNamesAll, CatalogAssumption DEF IInv
    <2> QED BY <2>1, <2>2
  <1> HIDE DEF AllTold
  <1> QED BY <1>1, <1>2, <1>3, PTL DEF Spec
=============================================================================
