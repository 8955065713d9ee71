----------------------------- MODULE ImageCache -----------------------------
(***************************************************************************)
(* FileAssetsService: resized images cached in Redis by every instance.    *)
(* An image is cached once it was asked for MinHits times, under a key     *)
(* made of its path, its modification time and the variant (size, format,  *)
(* quality).  Redis holds the data under TTLs (data), the set of hot keys  *)
(* (hot), their sizes and times (the keys that have an entry are hotMeta,  *)
(* their order in time is older) and how often each key was asked for      *)
(* (freq).  Every instance runs a cleanup that evicts the least used keys  *)
(* when the sizes of hotMeta reach the threshold.                          *)
(*                                                                         *)
(* One source image is modelled; replacing it gives it the next stamp      *)
(* (content and modification time).                                        *)
(***************************************************************************)
EXTENDS Naturals, FiniteSets, FiniteSetsExt

CONSTANTS Variants, Size,     \* the variants asked for and the bytes of each
          Readers, Cleaners,  \* requests in progress, one cleanup per instance
          None,
          MinHits,            \* minHitsToCache
          Threshold, Target,  \* 90 % and 70 % of maxCacheMemory
          MaxStamp,           \* bound: replacements of the image
          MaxRequests         \* bound: requests for images

ASSUME SizeAssumption == Size \in [Variants -> Nat \ {0}]
ASSUME MemoryAssumption == Target \in Nat /\ Threshold \in Nat /\ Target <= Threshold
ASSUME BoundsAssumption == MinHits \in Nat /\ MaxStamp \in Nat /\ MaxRequests \in Nat

Stamps == 0..MaxStamp
Keys   == Variants \X Stamps
ASSUME NoneAssumption == None \notin Keys \cup Nat

VARIABLES
  stamp,    \* the image's content, and its modification time
  present,  \* FALSE while a replacement has unlinked it
  data,     \* image:cache:<key>: the content the cached variant was made from
  hot,      \* image:hot
  hotMeta,  \* image:hot:meta: the keys with an entry, whose size is SizeOf
  older,    \* <<k, l>>: the timestamp of k's entry is before that of l's
  freq,     \* image:freq
  reader,   \* what each request does
  cleaner,  \* what each cleanup does
  requests, \* requests so far
  unmarked  \* history: keys whose hot mark failed, or was removed over a newer entry

files == <<stamp, present>>
redis == <<data, hot, hotMeta, older, freq>>
vars  == <<files, redis, reader, cleaner, requests, unmarked>>

\* Mutant of CacheKey: without the modification time.
CacheKeyPathOnly(v) == <<v, 0>>

\* generateCacheKey
CacheKey(v) == <<v, stamp>>

SizeOf(k)  == Size[k[1]]
Sizes(ks)  == MapThenSumSet(SizeOf, ks)

\* getCurrentCacheMemory
Memory == Sizes(hot \cap hotMeta)

Resting  == [pc |-> "idle", key |-> None, count |-> 0, since |-> 0, image |-> None, hit |-> FALSE]
Sweeping == [pc |-> "idle", toFree |-> 0, victims |-> {}, alone |-> TRUE]

Init ==
  /\ stamp = 0 /\ present = TRUE
  /\ data = [k \in Keys |-> None]
  /\ hot = {} /\ hotMeta = {} /\ older = {}
  /\ freq = [k \in Keys |-> 0]
  /\ reader = [r \in Readers |-> Resting]
  /\ cleaner = [c \in Cleaners |-> Sweeping]
  /\ requests = 0
  /\ unmarked = {}

-----------------------------------------------------------------------------
(* The source image: replacePhysicalFile unlinks and copies. *)

Unlink ==
  /\ present /\ stamp < MaxStamp
  /\ present' = FALSE
  /\ UNCHANGED <<stamp, redis, reader, cleaner, requests, unmarked>>

Copy ==
  /\ ~present
  /\ present' = TRUE /\ stamp' = stamp + 1
  /\ UNCHANGED <<redis, reader, cleaner, requests, unmarked>>

-----------------------------------------------------------------------------
(* processImageWithQuery *)

Go(r, from, to) == reader[r].pc = from /\ reader' = [reader EXCEPT ![r].pc = to]
Finish(r, from) == reader[r].pc = from /\ reader' = [reader EXCEPT ![r] = Resting]

\* The key is computed from the modification time at this moment.
Request(r, v) ==
  /\ reader[r].pc = "idle" /\ present /\ requests < MaxRequests
  /\ reader' = [reader EXCEPT ![r] = [Resting EXCEPT !.pc = "count", !.key = CacheKey(v),
                                             !.since = stamp]]
  /\ requests' = requests + 1
  /\ UNCHANGED <<files, redis, cleaner, unmarked>>

\* incrementFrequency
Count(r) ==
  LET k == reader[r].key IN
  /\ reader[r].pc = "count"
  /\ freq' = [freq EXCEPT ![k] = @ + 1]
  /\ reader' = [reader EXCEPT ![r].pc = "lookup", ![r].count = freq[k] + 1]
  /\ UNCHANGED <<files, data, hot, hotMeta, older, cleaner, requests, unmarked>>

\* getFromCache: the hot set first, then data and meta.
Lookup(r) ==
  /\ Go(r, "lookup", IF reader[r].key \in hot THEN "get" ELSE "process")
  /\ UNCHANGED <<files, redis, cleaner, requests, unmarked>>

Hit(r) ==
  LET k == reader[r].key IN
  /\ reader[r].pc = "get" /\ data[k] # None
  /\ reader' = [reader EXCEPT ![r].pc = "sent", ![r].image = data[k], ![r].hit = TRUE]
  /\ UNCHANGED <<files, redis, cleaner, requests, unmarked>>

Expired(r) ==
  /\ Go(r, "get", "cool") /\ data[reader[r].key] = None
  /\ UNCHANGED <<files, redis, cleaner, requests, unmarked>>

\* The hot mark of data that is gone is removed; its entry in hotMeta stays.
Cool(r) ==
  LET k == reader[r].key IN
  /\ Go(r, "cool", "process")
  /\ hot' = hot \ {k}
  /\ unmarked' = IF data[k] # None THEN unmarked \cup {k} ELSE unmarked
  /\ UNCHANGED <<files, data, hotMeta, older, freq, cleaner, requests>>

\* sharp reads the file; without it the request ends with an error.
Process(r) ==
  /\ reader[r].pc = "process" /\ present
  /\ reader' = [reader EXCEPT ![r].image = stamp,
                              ![r].pc = IF reader[r].count >= MinHits THEN "add" ELSE "sent"]
  /\ UNCHANGED <<files, redis, cleaner, requests, unmarked>>

ProcessMissing(r) ==
  /\ Finish(r, "process") /\ ~present
  /\ UNCHANGED <<files, redis, cleaner, requests, unmarked>>

\* addToCache, then addToHotKeys; their errors are logged and the image is sent.
AddToCache(r) ==
  /\ Go(r, "add", "mark")
  /\ data' = [data EXCEPT ![reader[r].key] = reader[r].image]
  /\ UNCHANGED <<files, hot, hotMeta, older, freq, cleaner, requests, unmarked>>

AddToHotKeys(r) ==
  LET k == reader[r].key IN
  /\ Go(r, "mark", "sent")
  /\ hot' = hot \cup {k}
  /\ hotMeta' = hotMeta \cup {k}
  /\ older' = {p \in older : k \notin {p[1], p[2]}} \cup ((hotMeta \ {k}) \X {k})
  /\ unmarked' = unmarked \ {k}
  /\ cleaner' = [c \in Cleaners |-> [cleaner[c] EXCEPT !.alone = FALSE]]
  /\ UNCHANGED <<files, data, freq, requests>>

\* Errors of Redis are logged: the image is processed, or sent uncached.
RedisError(r) ==
  LET k == reader[r].key  pc == reader[r].pc IN
  /\ pc \in {"count", "lookup", "get", "cool", "add", "mark"}
  /\ reader' = [reader EXCEPT ![r].pc = CASE pc = "count" -> "lookup"
                                          [] pc = "add"   -> "mark"
                                          [] pc = "mark"  -> "sent"
                                          [] OTHER        -> "process",
                              ![r].count = IF pc = "count" THEN 1 ELSE @]
  /\ unmarked' = IF pc = "mark" /\ data[k] # None THEN unmarked \cup {k} ELSE unmarked
  /\ UNCHANGED <<files, redis, cleaner, requests>>

Send(r) == Finish(r, "sent") /\ UNCHANGED <<files, redis, cleaner, requests, unmarked>>

-----------------------------------------------------------------------------
(* TTLs of Redis.  The TTL of freq is set again by each first count of a key *)
(* and runs out, for all keys at once, only a day after the last of those.   *)

ExpireData ==
  /\ \E k \in Keys : data[k] # None /\ data' = [data EXCEPT ![k] = None]
                     /\ unmarked' = unmarked \ {k}
  /\ UNCHANGED <<files, hot, hotMeta, older, freq, reader, cleaner, requests>>

ExpireFreq ==
  /\ freq' = [k \in Keys |-> 0] /\ freq # freq'
  /\ UNCHANGED <<files, data, hot, hotMeta, older, reader, cleaner, requests, unmarked>>

-----------------------------------------------------------------------------
(* cleanupLeastUsedCache *)

Measure(c) ==
  /\ cleaner[c].pc = "idle" /\ Memory >= Threshold
  /\ cleaner' = [d \in Cleaners |->
       IF d = c THEN [Sweeping EXCEPT !.pc = "rank", !.toFree = Memory - Target,
                                      !.alone = \A e \in Cleaners \ {c} : cleaner[e].pc = "idle"]
       ELSE [cleaner[d] EXCEPT !.alone = FALSE]]
  /\ UNCHANGED <<files, redis, reader, requests, unmarked>>

\* Least used first, among equals the oldest entry first.
Colder(k, l) == freq[k] < freq[l] \/ (freq[k] = freq[l] /\ <<k, l>> \in older)

\* Mutant of Victims: stops before it has freed enough.
VictimsShort(toFree) ==
  LET candidates == hot \cap hotMeta
  IN  {k \in candidates : Sizes({l \in candidates : l = k \/ Colder(l, k)}) < toFree}

\* The candidates in that order, as long as those before do not free enough.
Victims(toFree) ==
  LET candidates == hot \cap hotMeta
  IN  {k \in candidates : Sizes({l \in candidates : Colder(l, k)}) < toFree}

Rank(c) ==
  /\ cleaner[c].pc = "rank"
  /\ cleaner' = [cleaner EXCEPT ![c].pc = "evict", ![c].victims = Victims(cleaner[c].toFree)]
  /\ UNCHANGED <<files, redis, reader, requests, unmarked>>

\* Mutant of Evict: the data stays until its TTL.
EvictMarksOnly(c) ==
  LET gone == cleaner[c].victims IN
  /\ cleaner[c].pc = "evict"
  /\ hot' = hot \ gone
  /\ hotMeta' = hotMeta \ gone /\ older' = older \cap (hotMeta' \X hotMeta')
  /\ cleaner' = [cleaner EXCEPT ![c] = Sweeping]
  /\ UNCHANGED <<files, data, freq, reader, requests, unmarked>>

Evict(c) ==
  LET gone == cleaner[c].victims IN
  /\ cleaner[c].pc = "evict"
  /\ data' = [k \in Keys |-> IF k \in gone THEN None ELSE data[k]]
  /\ hot' = hot \ gone
  /\ hotMeta' = hotMeta \ gone /\ older' = older \cap (hotMeta' \X hotMeta')
  /\ cleaner' = [cleaner EXCEPT ![c] = Sweeping]
  /\ unmarked' = unmarked \ gone
  /\ UNCHANGED <<files, freq, reader, requests>>

\* An error ends the cleanup; the next one starts from scratch.
CleanupError(c) ==
  /\ cleaner[c].pc # "idle"
  /\ cleaner' = [cleaner EXCEPT ![c] = Sweeping]
  /\ UNCHANGED <<files, redis, reader, requests, unmarked>>

Next ==
  \/ Unlink \/ Copy \/ ExpireData \/ ExpireFreq
  \/ \E r \in Readers :
       \/ \E v \in Variants : Request(r, v)
       \/ Count(r)   \/ Lookup(r)         \/ Hit(r)        \/ Expired(r)      \/ Cool(r)
       \/ Process(r) \/ ProcessMissing(r) \/ AddToCache(r) \/ AddToHotKeys(r) \/ Send(r)
       \/ RedisError(r)
  \/ \E c \in Cleaners : Measure(c) \/ Rank(c) \/ Evict(c) \/ CleanupError(c)

Spec == Init /\ [][Next]_vars

-----------------------------------------------------------------------------
(* Properties. *)

\* Redis holds keys and stamps, older orders the entries of hotMeta, and nothing
\* is cached that was asked for less often than MinHits since freq was reset.
TypeOK ==
  /\ stamp \in Stamps /\ present \in BOOLEAN
  /\ data \in [Keys -> Stamps \cup {None}]
  /\ hot \subseteq Keys
  /\ hotMeta \subseteq Keys /\ older \subseteq hotMeta \X hotMeta
  /\ \A k, l \in hotMeta : k # l => (<<k, l>> \in older <=> <<l, k>> \notin older)
  /\ freq \in [Keys -> 0..MaxRequests]
  /\ \A r \in Readers : /\ reader[r].key \in Keys \cup {None}
                        /\ reader[r].pc \in {"add", "mark"} => reader[r].count >= MinHits
  /\ \A c \in Cleaners : cleaner[c].victims \subseteq Keys
  /\ requests \in 0..MaxRequests /\ unmarked \subseteq Keys

\* A cached image is never older than the file was when the request computed
\* its key: a replacement needs no invalidation, however the processing of the
\* old file, the replacement and the caching interleave.
HitIsCurrent ==
  \A r \in Readers : reader[r].hit => reader[r].image >= reader[r].since

\* What is cached is accounted for: its key is hot and has an entry in hotMeta,
\* unless a request is about to mark it, failed to, or had found an earlier entry
\* gone and then removed the mark of the newer one.
CachedIsAccounted ==
  \A k \in Keys :
    data[k] # None =>
      \/ k \in hot /\ k \in hotMeta
      \/ k \in unmarked
      \/ \E r \in Readers : reader[r].pc = "mark" /\ reader[r].key = k

\* A cleanup that ran alone, no image having become hot meanwhile, ends with
\* the accounted memory at or below the target, whatever expired, was unmarked
\* or was asked for between its reads and its evictions.
CleanupReachesTarget ==
  [][\A c \in Cleaners : Evict(c) /\ cleaner[c].alone => Memory' <= Target]_vars
=============================================================================
