--------------------------- MODULE ImageCacheProofs ---------------------------
(***************************************************************************)
(* Theorems about ImageCache, for any number of readers, cleanups,         *)
(* variants of any size and replacements of the image.                     *)
(*                                                                         *)
(* HitIsCurrent is not inductive: it rests on what is in Redis under a key *)
(* (Fresh), and that on what a request is about to store there (Made).     *)
(*                                                                         *)
(* CleanupReachesTarget rests on what a cleanup that runs alone has still  *)
(* to free at each of its steps (Sweeps), and on a theory of the sums of   *)
(* sizes: MapThenSumSet takes the elements of a set in an order of its     *)
(* choice, so that a sum depends on the set alone, grows with it and adds  *)
(* up over its parts is proved here, by the least counterexample.          *)
(***************************************************************************)
EXTENDS ImageCache, TLAPS, FiniteSetTheorems, WellFoundedInduction

ReaderPCs == {"idle", "count", "lookup", "get", "cool", "process", "add", "mark", "sent"}

ReaderStates ==
  [pc : ReaderPCs, key : Keys \cup {None}, count : Nat, since : Stamps,
   image : Stamps \cup {None}, hit : BOOLEAN]

Types ==
  /\ stamp \in Stamps /\ present \in BOOLEAN
  /\ ~present => stamp < MaxStamp
  /\ data \in [Keys -> Stamps \cup {None}]
  /\ freq \in [Keys -> Nat]
  /\ reader \in [Readers -> ReaderStates]
  /\ \A r \in Readers :
       /\ reader[r].since <= stamp
       /\ reader[r].pc # "idle" => reader[r].key \in Keys /\ reader[r].key[2] = reader[r].since

\* What Redis holds was made from a file at least as new as its key says.
Fresh == \A k \in Keys : data[k] # None => data[k] >= k[2]

\* And so is what a request has made, or has got from there.
Made ==
  \A r \in Readers :
    reader[r].pc = "add" \/ reader[r].hit =>
      reader[r].image \in Stamps /\ reader[r].image >= reader[r].since

FreshInv == Types /\ Fresh /\ Made

LEMMA StampsAreNat == Stamps \subseteq Nat /\ None \notin Stamps /\ None \notin Keys
  BY BoundsAssumption, NoneAssumption DEF Stamps

\* A step that only changes what one request is at, by a state of the request.
LEMMA ReaderStep ==
  ASSUME Types, NEW r \in Readers, NEW s \in ReaderStates,
         reader' = [reader EXCEPT ![r] = s], s.since <= stamp,
         s.pc # "idle" => s.key \in Keys /\ s.key[2] = s.since,
         UNCHANGED files,
         data' \in [Keys -> Stamps \cup {None}], freq' \in [Keys -> Nat]
  PROVE  Types'
  BY DEF Types, files

-----------------------------------------------------------------------------
(* One step. *)

LEMMA TypesNext ==
  ASSUME Types, [Next]_vars
  PROVE  Types'
<1> USE BoundsAssumption, StampsAreNat DEF Types, ReaderStates, Go, Finish,
        files, redis, ReaderPCs
<1>1. ASSUME NEW r \in Readers, NEW v \in Variants, Request(r, v)
      PROVE  Types'
  <2> DEFINE s == [Resting EXCEPT !.pc = "count", !.key = <<v, stamp>>, !.since = stamp]
  <2>1. reader' = [reader EXCEPT ![r] = s] /\ UNCHANGED <<files, data, freq>>
        BY <1>1 DEF Request, CacheKey
  <2>2. <<v, stamp>> \in Keys /\ <<v, stamp>>[2] = stamp /\ stamp <= stamp
        BY DEF Keys
  <2>3. Resting \in ReaderStates
        BY BoundsAssumption DEF Resting, Stamps
  <2>4. /\ s \in ReaderStates /\ s.since <= stamp
        /\ s.key \in Keys /\ s.key[2] = s.since
        BY <2>2, <2>3
  <2> HIDE DEF s
  <2> QED
    BY <2>1, <2>4, ReaderStep
<1>2. ASSUME NEW r \in Readers, Count(r)
      PROVE  Types'
  <2> DEFINE s == [reader[r] EXCEPT !.pc = "lookup", !.count = freq[reader[r].key] + 1]
  <2>1. /\ reader[r] \in ReaderStates /\ reader[r].since <= stamp
        /\ reader[r].key \in Keys /\ reader[r].key[2] = reader[r].since
        BY <1>2 DEF Count
  <2>2. reader' = [reader EXCEPT ![r] = s] /\ UNCHANGED <<files, data>>
        BY <1>2 DEF Count
  <2>3. freq' \in [Keys -> Nat] /\ freq[reader[r].key] \in Nat
        BY <1>2, <2>1 DEF Count
  <2>4. /\ s \in ReaderStates /\ s.since <= stamp
        /\ s.key \in Keys /\ s.key[2] = s.since
        BY <1>2, <2>1, <2>3 DEF Count
  <2> HIDE DEF s
  <2> QED
    BY <2>2, <2>3, <2>4, ReaderStep
<1>3. ASSUME NEW r \in Readers, Lookup(r)
      PROVE  Types'
      BY <1>3 DEF Lookup
<1>4. ASSUME NEW r \in Readers, Hit(r)
      PROVE  Types'
  <2> DEFINE s == [reader[r] EXCEPT !.pc = "sent", !.image = data[reader[r].key], !.hit = TRUE]
  <2>1. /\ reader[r] \in ReaderStates /\ reader[r].since <= stamp
        /\ reader[r].key \in Keys /\ reader[r].key[2] = reader[r].since
        BY <1>4 DEF Hit
  <2>2. reader' = [reader EXCEPT ![r] = s] /\ UNCHANGED <<files, data>>
        BY <1>4 DEF Hit
  <2>3. freq' \in [Keys -> Nat] /\ data[reader[r].key] \in Stamps
        BY <1>4, <2>1 DEF Hit
  <2>4. /\ s \in ReaderStates /\ s.since <= stamp
        /\ s.key \in Keys /\ s.key[2] = s.since
        BY <1>4, <2>1, <2>3 DEF Hit
  <2> HIDE DEF s
  <2> QED
    BY <2>2, <2>3, <2>4, ReaderStep
<1>5. ASSUME NEW r \in Readers, Expired(r)
      PROVE  Types'
      BY <1>5 DEF Expired
<1>6. ASSUME NEW r \in Readers, Cool(r)
      PROVE  Types'
      BY <1>6 DEF Cool
<1>7. ASSUME NEW r \in Readers, Process(r)
      PROVE  Types'
      BY <1>7 DEF Process
<1>8. ASSUME NEW r \in Readers, ProcessMissing(r)
      PROVE  Types'
      BY <1>8 DEF ProcessMissing, Resting, Stamps
<1>9. ASSUME NEW r \in Readers, AddToCache(r)
      PROVE  Types'
      BY <1>9 DEF AddToCache
<1>10. ASSUME NEW r \in Readers, AddToHotKeys(r)
      PROVE  Types'
  <2> DEFINE s == [reader[r] EXCEPT !.pc = "sent"]
  <2>1. /\ reader[r] \in ReaderStates /\ reader[r].since <= stamp
        /\ reader[r].key \in Keys /\ reader[r].key[2] = reader[r].since
        BY <1>10 DEF AddToHotKeys
  <2>2. reader' = [reader EXCEPT ![r] = s] /\ UNCHANGED <<files, data>>
        BY <1>10 DEF AddToHotKeys
  <2>3. freq' \in [Keys -> Nat]
        BY <1>10, <2>1 DEF AddToHotKeys
  <2>4. /\ s \in ReaderStates /\ s.since <= stamp
        /\ s.key \in Keys /\ s.key[2] = s.since
        BY <1>10, <2>1, <2>3 DEF AddToHotKeys
  <2> HIDE DEF s
  <2> QED
    BY <2>2, <2>3, <2>4, ReaderStep
<1>11. ASSUME NEW r \in Readers, Send(r)
      PROVE  Types'
      BY <1>11 DEF Send, Resting, Stamps
<1>12. ASSUME NEW r \in Readers, RedisError(r)
      PROVE  Types'
  <2>1. PICK p \in ReaderPCs \ {"idle"}, n \in Nat :
          reader' = [reader EXCEPT ![r].pc = p, ![r].count = n]
        BY <1>12 DEF RedisError
  <2> DEFINE s == [reader[r] EXCEPT !.pc = p, !.count = n]
  <2>2. reader' = [reader EXCEPT ![r] = s] /\ UNCHANGED <<files, data, freq>>
        BY <1>12, <2>1 DEF RedisError
  <2>3. /\ reader[r] \in ReaderStates /\ reader[r].since <= stamp
        /\ reader[r].key \in Keys /\ reader[r].key[2] = reader[r].since
        BY <1>12 DEF RedisError
  <2>4. /\ s \in ReaderStates /\ s.since <= stamp
        /\ s.key \in Keys /\ s.key[2] = s.since
        BY <2>1, <2>3
  <2> HIDE DEF s
  <2> QED
    BY <2>2, <2>3, <2>4, ReaderStep
<1>13. CASE Unlink
      BY <1>13 DEF Unlink
<1>14. CASE Copy
      BY <1>14 DEF Copy, Stamps
<1>15. CASE ExpireData
      BY <1>15 DEF ExpireData
<1>16. CASE ExpireFreq
      BY <1>16 DEF ExpireFreq
<1>17. ASSUME NEW c \in Cleaners, Measure(c) \/ Rank(c) \/ Evict(c) \/ CleanupError(c)
      PROVE  Types'
      BY <1>17 DEF Measure, Rank, Evict, CleanupError
<1>18. CASE UNCHANGED vars
      BY <1>18 DEF vars
<1> QED
  BY <1>1, <1>2, <1>3, <1>4, <1>5, <1>6, <1>7, <1>8, <1>9, <1>10, <1>11,
     <1>12, <1>13, <1>14, <1>15, <1>16, <1>17, <1>18 DEF Next

LEMMA FreshNext ==
  ASSUME FreshInv, [Next]_vars
  PROVE  Fresh'
<1> USE StampsAreNat DEF Types, ReaderStates, Go, Finish, files, redis,
        FreshInv, Fresh, Made
<1>1. ASSUME NEW r \in Readers, NEW v \in Variants, Request(r, v)
      PROVE  Fresh'
      BY <1>1 DEF Request, CacheKey, Resting
<1>2. ASSUME NEW r \in Readers, Count(r)
      PROVE  Fresh'
      BY <1>2 DEF Count
<1>3. ASSUME NEW r \in Readers, Lookup(r)
      PROVE  Fresh'
      BY <1>3 DEF Lookup
<1>4. ASSUME NEW r \in Readers, Hit(r)
      PROVE  Fresh'
      BY <1>4 DEF Hit
<1>5. ASSUME NEW r \in Readers, Expired(r)
      PROVE  Fresh'
      BY <1>5 DEF Expired
<1>6. ASSUME NEW r \in Readers, Cool(r)
      PROVE  Fresh'
      BY <1>6 DEF Cool
<1>7. ASSUME NEW r \in Readers, Process(r)
      PROVE  Fresh'
      BY <1>7 DEF Process
<1>8. ASSUME NEW r \in Readers, ProcessMissing(r)
      PROVE  Fresh'
      BY <1>8 DEF ProcessMissing, Resting
<1>9. ASSUME NEW r \in Readers, AddToCache(r)
      PROVE  Fresh'
      BY <1>9 DEF AddToCache
<1>10. ASSUME NEW r \in Readers, AddToHotKeys(r)
      PROVE  Fresh'
      BY <1>10 DEF AddToHotKeys
<1>11. ASSUME NEW r \in Readers, Send(r)
      PROVE  Fresh'
      BY <1>11 DEF Send, Resting
<1>12. ASSUME NEW r \in Readers, RedisError(r)
      PROVE  Fresh'
      BY <1>12 DEF RedisError
<1>13. CASE Unlink
      BY <1>13 DEF Unlink
<1>14. CASE Copy
      BY <1>14 DEF Copy
<1>15. CASE ExpireData
      BY <1>15 DEF ExpireData
<1>16. CASE ExpireFreq
      BY <1>16 DEF ExpireFreq
<1>17. ASSUME NEW c \in Cleaners, Measure(c) \/ Rank(c) \/ Evict(c) \/ CleanupError(c)
      PROVE  Fresh'
      BY <1>17 DEF Measure, Rank, Evict, CleanupError
<1>18. CASE UNCHANGED vars
      BY <1>18 DEF vars
<1> QED
  BY <1>1, <1>2, <1>3, <1>4, <1>5, <1>6, <1>7, <1>8, <1>9, <1>10, <1>11,
     <1>12, <1>13, <1>14, <1>15, <1>16, <1>17, <1>18 DEF Next

LEMMA MadeNext ==
  ASSUME FreshInv, [Next]_vars
  PROVE  Made'
<1> USE StampsAreNat DEF Types, ReaderStates, Go, Finish, files, redis,
        FreshInv, Fresh, Made
<1>1. ASSUME NEW r \in Readers, NEW v \in Variants, Request(r, v)
      PROVE  Made'
      BY <1>1 DEF Request, CacheKey, Resting
<1>2. ASSUME NEW r \in Readers, Count(r)
      PROVE  Made'
      BY <1>2 DEF Count
<1>3. ASSUME NEW r \in Readers, Lookup(r)
      PROVE  Made'
      BY <1>3 DEF Lookup
<1>4. ASSUME NEW r \in Readers, Hit(r)
      PROVE  Made'
      BY <1>4 DEF Hit
<1>5. ASSUME NEW r \in Readers, Expired(r)
      PROVE  Made'
      BY <1>5 DEF Expired
<1>6. ASSUME NEW r \in Readers, Cool(r)
      PROVE  Made'
      BY <1>6 DEF Cool
<1>7. ASSUME NEW r \in Readers, Process(r)
      PROVE  Made'
      BY <1>7 DEF Process
<1>8. ASSUME NEW r \in Readers, ProcessMissing(r)
      PROVE  Made'
      BY <1>8 DEF ProcessMissing, Resting
<1>9. ASSUME NEW r \in Readers, AddToCache(r)
      PROVE  Made'
      BY <1>9 DEF AddToCache
<1>10. ASSUME NEW r \in Readers, AddToHotKeys(r)
      PROVE  Made'
      BY <1>10 DEF AddToHotKeys
<1>11. ASSUME NEW r \in Readers, Send(r)
      PROVE  Made'
      BY <1>11 DEF Send, Resting
<1>12. ASSUME NEW r \in Readers, RedisError(r)
      PROVE  Made'
      BY <1>12 DEF RedisError
<1>13. CASE Unlink
      BY <1>13 DEF Unlink
<1>14. CASE Copy
      BY <1>14 DEF Copy
<1>15. CASE ExpireData
      BY <1>15 DEF ExpireData
<1>16. CASE ExpireFreq
      BY <1>16 DEF ExpireFreq
<1>17. ASSUME NEW c \in Cleaners, Measure(c) \/ Rank(c) \/ Evict(c) \/ CleanupError(c)
      PROVE  Made'
      BY <1>17 DEF Measure, Rank, Evict, CleanupError
<1>18. CASE UNCHANGED vars
      BY <1>18 DEF vars
<1> QED
  BY <1>1, <1>2, <1>3, <1>4, <1>5, <1>6, <1>7, <1>8, <1>9, <1>10, <1>11,
     <1>12, <1>13, <1>14, <1>15, <1>16, <1>17, <1>18 DEF Next

LEMMA InitInv == Init => FreshInv
<1> SUFFICES ASSUME Init
             PROVE  FreshInv
  OBVIOUS
<1>1. Types
      BY BoundsAssumption DEF Init, Types, ReaderStates, ReaderPCs, Resting, Stamps
<1>2. Fresh /\ Made
      BY DEF Init, Fresh, Made, Resting
<1> QED
  BY <1>1, <1>2 DEF FreshInv

\* However processing, replacements, TTLs, cleanups and failures of Redis interleave,
\* a hit is no older than the file its key was made from: the modification time in
\* the key invalidates by itself (FileAssetsService.generateCacheKey).
THEOREM HitsAreCurrent == Spec => []HitIsCurrent
<1>1. FreshInv /\ [Next]_vars => FreshInv'
      BY TypesNext, FreshNext, MadeNext DEF FreshInv
<1>2. FreshInv => HitIsCurrent
      BY DEF FreshInv, Made, HitIsCurrent
<1> QED
  BY InitInv, <1>1, <1>2, PTL DEF Spec
-----------------------------------------------------------------------------
(***************************************************************************)
(* Sums of sizes.  Sizes is a fold of the library: a recursive function on *)
(* the subsets of its argument.  What it computes is proved by induction   *)
(* on the cardinality, stated with the set of its counterexamples, which   *)
(* would have a least one.                                                 *)
(***************************************************************************)

\* Every nonempty set of numbers has a least one.
LEMMA LeastNumber ==
  ASSUME NEW T \in SUBSET Nat, T # {}
  PROVE  \E m \in Nat : m \in T /\ \A k \in Nat : k < m => k \notin T
<1>1. \E m \in T : \A k \in T : <<k, m>> \notin OpToRel(<, Nat)
  BY NatLessThanWellFounded, WFMin
<1>2. \E m \in T : \A k \in T : ~(k < m)
  BY <1>1 DEF OpToRel
<1> QED
  BY <1>2

Some(s) == CHOOSE x \in s : TRUE

\* One step of the recursion of Sizes, and a function that obeys it on a set D.
Sum(g, s)  == IF s = {} THEN 0 ELSE SizeOf(Some(s)) + g[s \ {Some(s)}]
Adds(g, D) == g = [s \in D |-> Sum(g, s)]

LEMMA SizesDef ==
  ASSUME NEW S
  PROVE  Sizes(S) = (CHOOSE g : Adds(g, SUBSET S))[S]
  BY DEF Sizes, MapThenSumSet, MapThenFoldSet, Adds, Sum, Some

LEMMA SomeIn ==
  ASSUME NEW s, s # {}
  PROVE  Some(s) \in s
  BY DEF Some

\* Taking an element out of a finite set makes it smaller.
LEMMA TakeOut ==
  ASSUME NEW s, IsFiniteSet(s), NEW x \in s
  PROVE  /\ IsFiniteSet(s \ {x})
         /\ Cardinality(s) \in Nat /\ Cardinality(s \ {x}) \in Nat
         /\ Cardinality(s \ {x}) = Cardinality(s) - 1
  BY FS_RemoveElement, FS_CardinalityType

UpTo(S, n) == {s \in SUBSET S : Cardinality(s) <= n}

LEMMA AddsExists ==
  ASSUME NEW S, IsFiniteSet(S)
  PROVE  \E g : Adds(g, SUBSET S)
<1> DEFINE Bad == {n \in Nat : ~ \E g : Adds(g, UpTo(S, n))}
<1>1. \A s \in SUBSET S :
        IsFiniteSet(s) /\ Cardinality(s) \in Nat /\ Cardinality(s) <= Cardinality(S)
  BY FS_Subset, FS_CardinalityType
<1>2. Bad = {}
  <2>1. SUFFICES ASSUME Bad # {}
                 PROVE  FALSE
    OBVIOUS
  <2>2. PICK m \in Nat : m \in Bad /\ \A k \in Nat : k < m => k \notin Bad
    BY <2>1, LeastNumber
  <2>3. CASE m = 0
    <3>1. \A s \in UpTo(S, 0) : s = {}
      BY <1>1, FS_EmptySet DEF UpTo
    <3>2. Adds([s \in UpTo(S, 0) |-> 0], UpTo(S, 0))
      BY <3>1 DEF Adds, Sum
    <3> QED
      BY <2>2, <2>3, <3>2
  <2>4. CASE m # 0
    <3>1. m - 1 \in Nat /\ m - 1 \notin Bad
      BY <2>2, <2>4
    <3>2. PICK g : Adds(g, UpTo(S, m - 1))
      BY <3>1
    <3> DEFINE h == [s \in UpTo(S, m) |-> Sum(g, s)]
    <3>3. ASSUME NEW s \in UpTo(S, m), s # {}
          PROVE  s \ {Some(s)} \in UpTo(S, m - 1) /\ s \ {Some(s)} \in UpTo(S, m)
      BY <1>1, <3>3, SomeIn, TakeOut DEF UpTo
    <3>4. \A s \in UpTo(S, m - 1) : h[s] = g[s]
      <4>1. UpTo(S, m - 1) \subseteq UpTo(S, m)
        BY <1>1 DEF UpTo
      <4> QED
        BY <3>2, <4>1 DEF Adds
    <3>5. \A s \in UpTo(S, m) : Sum(g, s) = Sum(h, s)
      BY <3>3, <3>4 DEF Sum
    <3>6. Adds(h, UpTo(S, m))
      BY <3>5 DEF Adds
    <3> QED
      BY <2>2, <3>6
  <2> QED
    BY <2>3, <2>4
<1>3. UpTo(S, Cardinality(S)) = SUBSET S
  BY <1>1 DEF UpTo
<1>4. Cardinality(S) \in Nat
  BY FS_CardinalityType
<1>5. \E g : Adds(g, UpTo(S, Cardinality(S)))
  BY <1>2, <1>4
<1> QED
  BY <1>3, <1>5

LEMMA AddsUnique ==
  ASSUME NEW S, IsFiniteSet(S), NEW T \in SUBSET S, NEW g, Adds(g, SUBSET S),
         NEW h, Adds(h, SUBSET T)
  PROVE  g[T] = h[T]
<1> DEFINE Bad == {n \in Nat : \E s \in SUBSET T : Cardinality(s) = n /\ g[s] # h[s]}
<1>1. \A s \in SUBSET S : IsFiniteSet(s) /\ Cardinality(s) \in Nat
  BY FS_Subset, FS_CardinalityType
<1>2. Bad = {}
  <2>1. SUFFICES ASSUME Bad # {}
                 PROVE  FALSE
    OBVIOUS
  <2>2. PICK m \in Nat : m \in Bad /\ \A k \in Nat : k < m => k \notin Bad
    BY <2>1, LeastNumber
  <2>3. PICK s \in SUBSET T : Cardinality(s) = m /\ g[s] # h[s]
    BY <2>2
  <2>4. g[s] = Sum(g, s) /\ h[s] = Sum(h, s)
    BY DEF Adds
  <2>5. s # {}
    BY <2>3, <2>4 DEF Sum
  <2>6. g[s \ {Some(s)}] # h[s \ {Some(s)}]
    BY <2>3, <2>4, <2>5 DEF Sum
  <2>7. Cardinality(s \ {Some(s)}) \in Nat /\ Cardinality(s \ {Some(s)}) < m
    BY <1>1, <2>3, <2>5, SomeIn, TakeOut
  <2>8. s \ {Some(s)} \in SUBSET T
    OBVIOUS
  <2>9. Cardinality(s \ {Some(s)}) \in Bad
    BY <2>6, <2>7, <2>8
  <2> QED
    BY <2>2, <2>7, <2>9
<1> QED
  BY <1>1, <1>2

LEMMA SizesStep ==
  ASSUME NEW S, IsFiniteSet(S)
  PROVE  /\ S = {} => Sizes(S) = 0
         /\ S # {} => Sizes(S) = SizeOf(Some(S)) + Sizes(S \ {Some(S)})
<1> DEFINE G(T) == CHOOSE g : Adds(g, SUBSET T)
<1>1. Adds(G(S), SUBSET S)
  BY AddsExists
<1>2. Sizes(S) = Sum(G(S), S)
  BY <1>1, SizesDef DEF Adds
<1>3. CASE S # {}
  <2> DEFINE T == S \ {Some(S)}
  <2>1. IsFiniteSet(T) /\ T \in SUBSET S
    BY <1>3, SomeIn, TakeOut
  <2>2. Adds(G(T), SUBSET T)
    BY <2>1, AddsExists
  <2> HIDE DEF G
  <2>3. G(S)[T] = G(T)[T]
    BY <1>1, <2>1, <2>2, AddsUnique
  <2>4. Sizes(T) = G(T)[T]
    BY SizesDef DEF G
  <2> QED
    BY <1>2, <1>3, <2>3, <2>4 DEF Sum
<1> QED
  BY <1>2, <1>3 DEF Sum

LEMMA SizeIsNat ==
  ASSUME NEW k \in Keys
  PROVE  SizeOf(k) \in Nat \ {0}
  BY SizeAssumption DEF SizeOf, Keys

LEMMA SizesNat ==
  ASSUME NEW S \in SUBSET Keys, IsFiniteSet(S)
  PROVE  Sizes(S) \in Nat
<1> DEFINE Bad == {n \in Nat : \E s \in SUBSET S : Cardinality(s) = n /\ Sizes(s) \notin Nat}
<1>1. \A s \in SUBSET S : IsFiniteSet(s) /\ Cardinality(s) \in Nat
  BY FS_Subset, FS_CardinalityType
<1>2. SUFFICES ASSUME Bad # {}
               PROVE  FALSE
  BY <1>1
<1>3. PICK m \in Nat : m \in Bad /\ \A k \in Nat : k < m => k \notin Bad
  BY <1>2, LeastNumber
<1>4. PICK s \in SUBSET S : Cardinality(s) = m /\ Sizes(s) \notin Nat
  BY <1>3
<1>5. s # {} /\ Sizes(s) = SizeOf(Some(s)) + Sizes(s \ {Some(s)})
  BY <1>1, <1>4, SizesStep
<1>6. SizeOf(Some(s)) \in Nat
  BY <1>5, SomeIn, SizeIsNat
<1>7. Cardinality(s \ {Some(s)}) \in Nat /\ Cardinality(s \ {Some(s)}) < m
  BY <1>1, <1>4, <1>5, SomeIn, TakeOut
<1>8. Cardinality(s \ {Some(s)}) \notin Bad
  BY <1>3, <1>7
<1>9. Sizes(s \ {Some(s)}) \in Nat
  BY <1>7, <1>8
<1> QED
  BY <1>4, <1>5, <1>6, <1>9

\* The sum does not depend on the order in which elements are taken.
LEMMA SizesWithout ==
  ASSUME NEW S \in SUBSET Keys, IsFiniteSet(S), NEW x \in S
  PROVE  Sizes(S) = SizeOf(x) + Sizes(S \ {x})
<1> DEFINE Bad == {n \in Nat : \E s \in SUBSET S : \E y \in s :
                     Cardinality(s) = n /\ Sizes(s) # SizeOf(y) + Sizes(s \ {y})}
<1>1. \A s \in SUBSET S : IsFiniteSet(s) /\ Cardinality(s) \in Nat /\ Sizes(s) \in Nat
  BY FS_Subset, FS_CardinalityType, SizesNat
<1>2. SUFFICES ASSUME Bad # {}
               PROVE  FALSE
  <2>1. Sizes(S) # SizeOf(x) + Sizes(S \ {x}) => Cardinality(S) \in Bad
    BY <1>1
  <2> HIDE DEF Bad
  <2> QED
    BY <2>1
<1>3. PICK m \in Nat : m \in Bad /\ \A k \in Nat : k < m => k \notin Bad
  BY <1>2, LeastNumber
<1>4. PICK s \in SUBSET S, y \in S :
        y \in s /\ Cardinality(s) = m /\ Sizes(s) # SizeOf(y) + Sizes(s \ {y})
  BY <1>3
<1> DEFINE c == Some(s)
<1>5. c \in s /\ Sizes(s) = SizeOf(c) + Sizes(s \ {c})
  BY <1>1, <1>4, SizesStep, SomeIn
<1>6. y # c
  BY <1>4, <1>5
<1>7. SizeOf(c) \in Nat /\ SizeOf(y) \in Nat
  BY <1>5, SizeIsNat
<1>8. ASSUME NEW a \in s, NEW b \in s, a # b
      PROVE  Sizes(s \ {a}) = SizeOf(b) + Sizes((s \ {a}) \ {b})
  <2>1. Cardinality(s \ {a}) \in Nat /\ Cardinality(s \ {a}) < m
    BY <1>1, <1>4, TakeOut
  <2>2. Cardinality(s \ {a}) \notin Bad
    BY <1>3, <2>1
  <2> QED
    BY <1>8, <2>1, <2>2
<1> HIDE DEF c
<1>9. (s \ {c}) \ {y} = s \ {c, y} /\ (s \ {y}) \ {c} = s \ {c, y}
  OBVIOUS
<1>10. Sizes(s \ {c}) = SizeOf(y) + Sizes(s \ {c, y})
  BY <1>4, <1>5, <1>6, <1>8, <1>9
<1>11. Sizes(s \ {y}) = SizeOf(c) + Sizes(s \ {c, y})
  BY <1>4, <1>5, <1>6, <1>8, <1>9
<1>12. Sizes(s \ {c, y}) \in Nat
  BY <1>1
<1> QED
  BY <1>4, <1>5, <1>7, <1>10, <1>11, <1>12

\* The sizes of a set are those of a part and of the rest.
LEMMA SizesSplit ==
  ASSUME NEW S \in SUBSET Keys, IsFiniteSet(S), NEW A \in SUBSET S
  PROVE  Sizes(S) = Sizes(A) + Sizes(S \ A)
<1> DEFINE Bad == {n \in Nat : \E s \in SUBSET S :
                     Cardinality(s) = n /\ Sizes(S) # Sizes(s) + Sizes(S \ s)}
<1>1. \A s \in SUBSET S : IsFiniteSet(s) /\ Cardinality(s) \in Nat /\ Sizes(s) \in Nat
  BY FS_Subset, FS_CardinalityType, SizesNat
<1>2. SUFFICES ASSUME Bad # {}
               PROVE  FALSE
  BY <1>1
<1>3. PICK m \in Nat : m \in Bad /\ \A k \in Nat : k < m => k \notin Bad
  BY <1>2, LeastNumber
<1>4. PICK s \in SUBSET S : Cardinality(s) = m /\ Sizes(S) # Sizes(s) + Sizes(S \ s)
  BY <1>3
<1>5. Sizes({}) = 0
  BY SizesStep, FS_EmptySet
<1>6. s # {}
  <2>1. S \ {} = S /\ Sizes(S) \in Nat
    BY <1>1
  <2> QED
    BY <1>4, <1>5, <2>1
<1>7. PICK x \in s : TRUE
  BY <1>6
<1> DEFINE r == s \ {x}
<1>8. Cardinality(r) \in Nat /\ Cardinality(r) < m
  BY <1>1, <1>4, TakeOut
<1>9. Cardinality(r) \notin Bad
  BY <1>3, <1>8
<1>10. Sizes(S) = Sizes(r) + Sizes(S \ r)
  BY <1>8, <1>9
<1>11. Sizes(s) = SizeOf(x) + Sizes(r)
  BY <1>1, SizesWithout
<1>12. Sizes(S \ r) = SizeOf(x) + Sizes(S \ s)
  <2>1. x \in S \ r /\ (S \ r) \ {x} = S \ s
    OBVIOUS
  <2>2. S \ r \in SUBSET Keys /\ IsFiniteSet(S \ r)
    BY <1>1
  <2> QED
    BY <2>1, <2>2, SizesWithout
<1>13. Sizes(r) \in Nat /\ Sizes(S \ s) \in Nat /\ SizeOf(x) \in Nat
  BY <1>1, SizeIsNat
<1> QED
  BY <1>4, <1>10, <1>11, <1>12, <1>13

LEMMA SizesMonotonic ==
  ASSUME NEW S \in SUBSET Keys, IsFiniteSet(S), NEW A \in SUBSET S
  PROVE  /\ IsFiniteSet(A) /\ Sizes(A) \in Nat /\ Sizes(S) \in Nat
         /\ Sizes(A) <= Sizes(S)
<1>1. IsFiniteSet(A) /\ IsFiniteSet(S \ A)
  BY FS_Subset
<1>2. Sizes(A) \in Nat /\ Sizes(S \ A) \in Nat /\ Sizes(S) \in Nat
  BY <1>1, SizesNat
<1>3. Sizes(S) = Sizes(A) + Sizes(S \ A)
  BY SizesSplit
<1> QED
  BY <1>1, <1>2, <1>3

-----------------------------------------------------------------------------
(* Cleanups. *)

CleanerStates ==
  [pc : {"idle", "rank", "evict"}, toFree : Nat, victims : SUBSET Keys, alone : BOOLEAN]

\* The entries of the hot keys are finitely many and ordered in time.
Entries ==
  /\ hot \subseteq Keys /\ hotMeta \subseteq Keys /\ IsFiniteSet(hotMeta)
  /\ older \subseteq hotMeta \X hotMeta
  /\ \A k, l \in hotMeta : k # l => (<<k, l>> \in older <=> <<l, k>> \notin older)
  /\ \A k \in hotMeta : <<k, k>> \notin older
  /\ \A k, l, m \in hotMeta : <<k, l>> \in older /\ <<l, m>> \in older => <<k, m>> \in older
  /\ cleaner \in [Cleaners -> CleanerStates]

Candidates == hot \cap hotMeta

\* What a cleanup that runs alone has still to free, and what it will leave.
Sweeps ==
  \A c \in Cleaners : cleaner[c].alone =>
    /\ cleaner[c].pc = "rank"  => Sizes(Candidates) <= cleaner[c].toFree + Target
    /\ cleaner[c].pc = "evict" => Sizes(Candidates \ cleaner[c].victims) <= Target

\* The victims free what is to be freed: no candidate that is left is colder than
\* the coldest one left, so the victims' sizes reach toFree before it.
LEMMA VictimsFree ==
  ASSUME Types, Entries, NEW n \in Nat, Sizes(Candidates) <= n + Target
  PROVE  Sizes(Candidates \ Victims(n)) <= Target
<1> USE DEF Entries
<1> DEFINE Below(k) == {l \in Candidates : Colder(l, k)}
           Rest     == Candidates \ Victims(n)
<1>1. /\ Candidates \in SUBSET Keys /\ IsFiniteSet(Candidates)
      /\ Victims(n) = {k \in Candidates : Sizes(Below(k)) < n}
  BY FS_Subset DEF Candidates, Victims
<1>2. Target \in Nat /\ \A k \in Keys : freq[k] \in Nat
  BY MemoryAssumption DEF Types
<1>3. \A k \in Candidates : Sizes(Below(k)) \in Nat
  BY <1>1, SizesMonotonic
<1>4. CASE Rest = {}
  <2>1. Sizes({}) = 0
    BY SizesStep, FS_EmptySet
  <2>2. Sizes(Rest) = 0
    BY <1>4, <2>1
  <2> QED
    BY <1>2, <2>2
<1>5. CASE Rest # {}
  <2> DEFINE Sums == {Sizes(Below(k)) : k \in Rest}
  <2>1. Sums \in SUBSET Nat /\ Sums # {}
    <3>1. \A k \in Rest : Sizes(Below(k)) \in Nat
      BY <1>3
    <3> HIDE DEF Below, Rest
    <3> QED
      BY <1>5, <3>1
  <2>2. PICK s \in Nat : s \in Sums /\ \A i \in Nat : i < s => i \notin Sums
    BY <2>1, LeastNumber
  <2>3. PICK m \in Rest : Sizes(Below(m)) = s
    BY <2>2
  <2>4. Below(m) \subseteq Victims(n)
    <3>1. SUFFICES ASSUME NEW l \in Below(m), l \in Rest
                   PROVE  FALSE
      BY <1>1
    <3>2. Colder(l, m) /\ l # m /\ ~Colder(l, l)
      BY <1>1, <1>2 DEF Colder, Candidates
    <3>3. \A k \in Candidates : Colder(k, l) => Colder(k, m)
      BY <1>1, <1>2, <3>2 DEF Colder, Candidates
    <3>4. Below(l) \subseteq Below(m) \ {l}
      BY <3>2, <3>3
    <3>5. IsFiniteSet(Below(m)) /\ Below(m) \in SUBSET Keys
      BY <1>1, FS_Subset
    <3>6. /\ Sizes(Below(m)) = SizeOf(l) + Sizes(Below(m) \ {l})
          /\ IsFiniteSet(Below(m) \ {l})
      BY <3>5, SizesWithout, TakeOut
    <3>7. /\ Sizes(Below(l)) \in Nat /\ Sizes(Below(m) \ {l}) \in Nat
          /\ Sizes(Below(l)) <= Sizes(Below(m) \ {l})
      <4> DEFINE B == Below(m) \ {l}
      <4>1. B \in SUBSET Keys /\ IsFiniteSet(B) /\ Below(l) \in SUBSET B
        BY <3>4, <3>5, <3>6
      <4> HIDE DEF B, Below
      <4>2. Sizes(Below(l)) \in Nat /\ Sizes(B) \in Nat /\ Sizes(Below(l)) <= Sizes(B)
        BY <4>1, SizesMonotonic
      <4> QED
        BY <4>2 DEF B
    <3>8. SizeOf(l) \in Nat \ {0}
      BY <1>1, SizeIsNat
    <3> HIDE DEF Below, Rest
    <3>9. Sizes(Below(l)) < s
      BY <2>3, <3>6, <3>7, <3>8
    <3>10. Sizes(Below(l)) \in Sums
      BY <3>1
    <3> QED
      BY <2>2, <3>7, <3>9, <3>10
  <2>5. n <= Sizes(Victims(n))
    <3>1. Victims(n) \in SUBSET Keys /\ IsFiniteSet(Victims(n))
      BY <1>1, FS_Subset
    <3>2. Sizes(Below(m)) <= Sizes(Victims(n)) /\ Sizes(Victims(n)) \in Nat
      BY <2>4, <3>1, SizesMonotonic
    <3>3. m \in Candidates /\ ~(Sizes(Below(m)) < n)
      BY <1>1
    <3> QED
      BY <1>3, <3>2, <3>3
  <2>6. /\ Sizes(Candidates) = Sizes(Victims(n)) + Sizes(Rest)
        /\ Sizes(Rest) \in Nat /\ Sizes(Victims(n)) \in Nat
    <3>1. Victims(n) \in SUBSET Candidates /\ Rest \in SUBSET Candidates
      BY <1>1
    <3> HIDE DEF Rest
    <3>2. Sizes(Rest) \in Nat /\ Sizes(Victims(n)) \in Nat
      BY <1>1, <3>1, SizesMonotonic
    <3>3. Sizes(Candidates) = Sizes(Victims(n)) + Sizes(Candidates \ Victims(n))
      BY <1>1, <3>1, SizesSplit
    <3> QED
      BY <3>2, <3>3 DEF Rest
  <2> QED
    BY <1>2, <2>5, <2>6
<1> QED
  BY <1>4, <1>5

\* Every step but a new mark leaves at most the candidates there were.
LEMMA FewerCandidates ==
  ASSUME Entries, Sweeps, Entries', Candidates' \subseteq Candidates,
         \A c \in Cleaners :
           cleaner'[c].pc # "idle" /\ cleaner'[c].alone => cleaner'[c] = cleaner[c]
  PROVE  Sweeps'
<1> SUFFICES ASSUME NEW c \in Cleaners, cleaner'[c].alone
             PROVE  /\ cleaner'[c].pc = "rank"  => Sizes(Candidates') <= cleaner'[c].toFree + Target
                    /\ cleaner'[c].pc = "evict" =>
                         Sizes(Candidates' \ cleaner'[c].victims) <= Target
  BY DEF Sweeps
<1>1. Candidates \in SUBSET Keys /\ IsFiniteSet(Candidates)
  BY FS_Subset DEF Candidates, Entries
<1>2. Target \in Nat /\ cleaner[c].toFree \in Nat
  BY MemoryAssumption DEF Entries, CleanerStates
<1>3. CASE cleaner'[c].pc = "rank"
  <2>1. cleaner'[c] = cleaner[c] /\ Sizes(Candidates) <= cleaner[c].toFree + Target
    BY <1>3 DEF Sweeps
  <2>2. /\ Sizes(Candidates') \in Nat /\ Sizes(Candidates) \in Nat
        /\ Sizes(Candidates') <= Sizes(Candidates)
    BY <1>1, SizesMonotonic
  <2> QED
    BY <1>2, <1>3, <2>1, <2>2
<1>4. CASE cleaner'[c].pc = "evict"
  <2> DEFINE A == Candidates' \ cleaner[c].victims
             B == Candidates \ cleaner[c].victims
  <2>1. cleaner'[c] = cleaner[c] /\ Sizes(B) <= Target
    BY <1>4 DEF Sweeps
  <2>2. B \in SUBSET Keys /\ IsFiniteSet(B) /\ A \in SUBSET B
    BY <1>1, FS_Subset
  <2> HIDE DEF A, B
  <2>3. Sizes(A) \in Nat /\ Sizes(B) \in Nat /\ Sizes(A) <= Sizes(B)
    BY <2>2, SizesMonotonic
  <2>4. Sizes(A) <= Target
    BY <1>2, <2>1, <2>3
  <2> QED
    BY <1>4, <2>1, <2>4 DEF A
<1> QED
  BY <1>3, <1>4

LEMMA MemoryNat ==
  ASSUME Entries
  PROVE  Memory = Sizes(Candidates) /\ Memory \in Nat
<1>1. Candidates \in SUBSET Keys /\ IsFiniteSet(Candidates)
  BY FS_Subset DEF Entries, Candidates
<1> QED
  BY <1>1, SizesNat DEF Memory, Candidates

LEMMA NotAlone ==
  ASSUME NEW q \in CleanerStates
  PROVE  /\ [q EXCEPT !.alone = FALSE] \in CleanerStates
         /\ ~[q EXCEPT !.alone = FALSE].alone
  BY DEF CleanerStates

LEMMA SweepingState == Sweeping \in CleanerStates
  BY DEF Sweeping, CleanerStates

\* A cleanup that starts is in a proper state.
LEMMA MeasureState ==
  ASSUME Entries, NEW c \in Cleaners, Measure(c)
  PROVE  /\ cleaner'[c].pc = "rank" /\ cleaner'[c].toFree = Memory - Target
         /\ \A d \in Cleaners \ {c} : ~cleaner'[d].alone
         /\ cleaner' \in [Cleaners -> CleanerStates]
<1>1. Memory - Target \in Nat
  <2>1. Memory >= Threshold
    BY DEF Measure
  <2> QED
    BY <2>1, MemoryNat, MemoryAssumption
<1> DEFINE b == \A e \in Cleaners \ {c} : cleaner[e].pc = "idle"
           n == Memory - Target
           s == [Sweeping EXCEPT !.pc = "rank", !.toFree = n, !.alone = b]
<1>2. b \in BOOLEAN /\ n \in Nat
  BY <1>1
<1> HIDE DEF b, n
<1>3. s \in CleanerStates /\ s.pc = "rank" /\ s.toFree = n
  BY <1>2, SweepingState DEF CleanerStates
<1>4. cleaner' = [d \in Cleaners |-> IF d = c THEN s ELSE [cleaner[d] EXCEPT !.alone = FALSE]]
  BY Zenon DEF Measure, b, n
<1>5. ASSUME NEW d \in Cleaners
      PROVE  /\ [cleaner[d] EXCEPT !.alone = FALSE] \in CleanerStates
             /\ ~[cleaner[d] EXCEPT !.alone = FALSE].alone
  <2>1. cleaner[d] \in CleanerStates
    BY DEF Entries
  <2> QED
    BY <2>1, NotAlone
<1> HIDE DEF s
<1> QED
  BY <1>3, <1>4, <1>5 DEF n

LEMMA EntriesNext ==
  ASSUME Types, Entries, [Next]_vars
  PROVE  Entries'
<1> USE DEF Entries, redis
<1>1. ASSUME NEW r \in Readers, NEW v \in Variants, Request(r, v)
      PROVE  Entries'
  BY <1>1 DEF Request
<1>2. ASSUME NEW r \in Readers,
             Count(r) \/ Lookup(r) \/ Hit(r) \/ Expired(r) \/ Cool(r) \/ Process(r)
               \/ ProcessMissing(r) \/ AddToCache(r) \/ Send(r) \/ RedisError(r)
      PROVE  Entries'
  BY <1>2 DEF Count, Lookup, Hit, Expired, Cool, Process, ProcessMissing, AddToCache, Send,
     RedisError
<1>3. ASSUME NEW r \in Readers, AddToHotKeys(r)
      PROVE  Entries'
  <2> DEFINE k == reader[r].key
  <2>1. k \in Keys
    BY <1>3 DEF Types, AddToHotKeys, Go
  <2>2. /\ hot' = hot \cup {k} /\ hotMeta' = hotMeta \cup {k}
        /\ older' = {p \in older : k \notin {p[1], p[2]}} \cup ((hotMeta \ {k}) \X {k})
        /\ cleaner' = [c \in Cleaners |-> [cleaner[c] EXCEPT !.alone = FALSE]]
    BY <1>3 DEF AddToHotKeys
  <2> HIDE DEF k
  <2>3. hot' \subseteq Keys /\ hotMeta' \subseteq Keys /\ IsFiniteSet(hotMeta')
    BY <2>1, <2>2, FS_AddElement
  <2>4. \A a, b \in hotMeta' :
          <<a, b>> \in older' <=> a # k /\ (b = k \/ <<a, b>> \in older)
    BY <2>2
  <2>5. older' \subseteq hotMeta' \X hotMeta'
    BY <2>2
  <2>6. /\ \A a, b \in hotMeta' : a # b => (<<a, b>> \in older' <=> <<b, a>> \notin older')
        /\ \A a \in hotMeta' : <<a, a>> \notin older'
        /\ \A a, b, c \in hotMeta' :
             <<a, b>> \in older' /\ <<b, c>> \in older' => <<a, c>> \in older'
    BY <2>2, <2>4
  <2>7. cleaner' \in [Cleaners -> CleanerStates]
    <3>1. ASSUME NEW c \in Cleaners
          PROVE  [cleaner[c] EXCEPT !.alone = FALSE] \in CleanerStates
      BY NotAlone
    <3> QED
      BY <2>2, <3>1
  <2> QED
    BY <2>3, <2>5, <2>6, <2>7
<1>4. CASE Unlink \/ Copy \/ ExpireData \/ ExpireFreq
  BY <1>4 DEF Unlink, Copy, ExpireData, ExpireFreq
<1>5. ASSUME NEW c \in Cleaners, Measure(c)
      PROVE  Entries'
  <2>1. UNCHANGED redis
    BY <1>5 DEF Measure
  <2>2. cleaner' \in [Cleaners -> CleanerStates]
    BY <1>5, MeasureState
  <2> QED
    BY <2>1, <2>2
<1>6. ASSUME NEW c \in Cleaners, Rank(c)
      PROVE  Entries'
  <2>1. Victims(cleaner[c].toFree) \in SUBSET Keys
    BY DEF Victims
  <2> DEFINE s == [cleaner[c] EXCEPT !.pc = "evict", !.victims = Victims(cleaner[c].toFree)]
  <2>2. cleaner[c] \in CleanerStates
    OBVIOUS
  <2>3. s \in CleanerStates
    BY <2>1, <2>2 DEF CleanerStates
  <2>4. cleaner' = [cleaner EXCEPT ![c] = s] /\ UNCHANGED redis
    BY <1>6 DEF Rank
  <2> HIDE DEF s
  <2> QED
    BY <2>3, <2>4
<1>7. ASSUME NEW c \in Cleaners, Evict(c)
      PROVE  Entries'
  <2>1. IsFiniteSet(hotMeta')
    BY <1>7, FS_Subset DEF Evict
  <2> QED
    BY <1>7, <2>1, SweepingState DEF Evict
<1>8. ASSUME NEW c \in Cleaners, CleanupError(c)
      PROVE  Entries'
  BY <1>8, SweepingState DEF CleanupError
<1>9. CASE UNCHANGED vars
  BY <1>9 DEF vars
<1> QED
  BY <1>1, <1>2, <1>3, <1>4, <1>5, <1>6, <1>7, <1>8, <1>9 DEF Next

LEMMA SweepsNext ==
  ASSUME Types, Entries, Sweeps, [Next]_vars
  PROVE  Sweeps'
<1>0. Entries'
  BY EntriesNext
<1> USE DEF Entries, CleanerStates, Sweeping, redis
<1>1. ASSUME NEW r \in Readers,
             \/ \E v \in Variants : Request(r, v)
             \/ Count(r) \/ Lookup(r) \/ Hit(r) \/ Expired(r) \/ Cool(r) \/ Process(r)
             \/ ProcessMissing(r) \/ AddToCache(r) \/ Send(r) \/ RedisError(r)
      PROVE  Sweeps'
  <2>1. cleaner' = cleaner /\ Candidates' \subseteq Candidates
    BY <1>1 DEF Candidates, Request, Count, Lookup, Hit, Expired, Cool, Process, ProcessMissing,
       AddToCache, Send, RedisError
  <2> QED
    BY <1>0, <2>1, FewerCandidates
<1>2. ASSUME NEW r \in Readers, AddToHotKeys(r)
      PROVE  Sweeps'
  BY <1>2 DEF AddToHotKeys, Sweeps
<1>3. CASE Unlink \/ Copy \/ ExpireData \/ ExpireFreq
  <2>1. cleaner' = cleaner /\ Candidates' \subseteq Candidates
    BY <1>3 DEF Candidates, Unlink, Copy, ExpireData, ExpireFreq
  <2> QED
    BY <1>0, <2>1, FewerCandidates
<1>4. ASSUME NEW c \in Cleaners, Measure(c)
      PROVE  Sweeps'
  <2>1. Candidates' = Candidates /\ Memory = Sizes(Candidates) /\ Memory \in Nat
    BY <1>4, MemoryNat DEF Measure, Candidates
  <2>2. cleaner'[c].pc = "rank" /\ cleaner'[c].toFree = Memory - Target
    BY <1>4, MeasureState
  <2>3. \A d \in Cleaners \ {c} : ~cleaner'[d].alone
    BY <1>4, MeasureState
  <2>4. Sizes(Candidates) <= cleaner'[c].toFree + Target
    BY <2>1, <2>2, MemoryAssumption
  <2> QED
    BY <2>1, <2>2, <2>3, <2>4 DEF Sweeps
<1>5. ASSUME NEW c \in Cleaners, Rank(c)
      PROVE  Sweeps'
  <2>1. Candidates' = Candidates
    BY <1>5 DEF Rank, Candidates
  <2>2. /\ cleaner[c].pc = "rank" /\ cleaner'[c].pc = "evict"
        /\ cleaner'[c].alone = cleaner[c].alone
        /\ cleaner'[c].victims = Victims(cleaner[c].toFree) /\ cleaner[c].toFree \in Nat
    BY <1>5 DEF Rank
  <2>3. \A d \in Cleaners \ {c} : cleaner'[d] = cleaner[d]
    BY <1>5 DEF Rank
  <2>4. cleaner[c].alone => Sizes(Candidates \ Victims(cleaner[c].toFree)) <= Target
    BY <2>2, VictimsFree DEF Sweeps
  <2> QED
    BY <2>1, <2>2, <2>3, <2>4 DEF Sweeps
<1>6. ASSUME NEW c \in Cleaners, Evict(c) \/ CleanupError(c)
      PROVE  Sweeps'
  <2>1. Candidates' \subseteq Candidates
    BY <1>6 DEF Evict, CleanupError, Candidates
  <2>2. \A d \in Cleaners : cleaner'[d].pc # "idle" => cleaner'[d] = cleaner[d]
    BY <1>6 DEF Evict, CleanupError
  <2> QED
    BY <1>0, <2>1, <2>2, FewerCandidates
<1>7. CASE UNCHANGED vars
  <2>1. cleaner' = cleaner /\ Candidates' \subseteq Candidates
    BY <1>7 DEF vars, Candidates
  <2> QED
    BY <1>0, <2>1, FewerCandidates
<1> QED
  BY <1>1, <1>2, <1>3, <1>4, <1>5, <1>6, <1>7 DEF Next

\* However readers, TTLs and replacements interleave with a cleanup that runs alone
\* and during which nothing new becomes hot, it ends at or below its target
\* (FileAssetsService.cleanupLeastUsedCache).
THEOREM CleanupsReachTarget == Spec => CleanupReachesTarget
<1>1. Init => Types /\ Entries /\ Sweeps
  <2> SUFFICES ASSUME Init
               PROVE  Types /\ Entries /\ Sweeps
    OBVIOUS
  <2>1. Types
    BY InitInv DEF FreshInv
  <2>2. Entries /\ Sweeps
    BY FS_EmptySet DEF Init, Entries, Sweeps, CleanerStates, Sweeping
  <2> QED
    BY <2>1, <2>2
<1>2. Types /\ Entries /\ Sweeps /\ [Next]_vars => (Types /\ Entries /\ Sweeps)'
  BY TypesNext, EntriesNext, SweepsNext
<1>3. ASSUME Sweeps, Entries, NEW c \in Cleaners, Evict(c), cleaner[c].alone
      PROVE  Memory' <= Target
  <2>1. (hot \ cleaner[c].victims) \cap (hotMeta \ cleaner[c].victims)
          = Candidates \ cleaner[c].victims
    BY DEF Candidates
  <2>2. Memory' = Sizes(Candidates \ cleaner[c].victims)
    BY <1>3, <2>1 DEF Evict, Memory
  <2> QED
    BY <1>3, <2>2 DEF Sweeps, Evict
<1>4. Sweeps /\ Entries =>
        [\A c \in Cleaners : Evict(c) /\ cleaner[c].alone => Memory' <= Target]_vars
  BY <1>3
<1> QED
  BY <1>1, <1>2, <1>4, PTL DEF Spec, CleanupReachesTarget

\* Who is about to mark a key still is.
StillMarking ==
  \A q \in Readers : reader[q].pc = "mark" =>
    reader'[q].pc = "mark" /\ reader'[q].key = reader[q].key

LEMMA StillAccounted ==
  ASSUME CachedIsAccounted, StillMarking, UNCHANGED <<data, hot, hotMeta, unmarked>>
  PROVE  CachedIsAccounted'
BY DEF CachedIsAccounted, StillMarking

LEMMA AccountedNext ==
  ASSUME Types, CachedIsAccounted, [Next]_vars
  PROVE  CachedIsAccounted'
<1> USE StampsAreNat DEF Types, ReaderStates, CachedIsAccounted, Go, Finish, files, redis
<1>1. ASSUME NEW r \in Readers, NEW v \in Variants, Request(r, v)
      PROVE  CachedIsAccounted'
  <2>1. StillMarking
    BY <1>1 DEF Request, Resting, StillMarking
  <2> QED
    BY <1>1, <2>1, StillAccounted DEF Request
<1>2. ASSUME NEW r \in Readers, Count(r) \/ Lookup(r) \/ Hit(r) \/ Expired(r)
      PROVE  CachedIsAccounted'
  <2>1. StillMarking
    BY <1>2 DEF Count, Lookup, Hit, Expired, StillMarking
  <2>2. UNCHANGED <<data, hot, hotMeta, unmarked>>
    BY <1>2 DEF Count, Lookup, Hit, Expired
  <2> QED
    BY <2>1, <2>2, StillAccounted
<1>3. ASSUME NEW r \in Readers, Cool(r)
      PROVE  CachedIsAccounted'
  BY <1>3 DEF Cool
<1>4. ASSUME NEW r \in Readers, Process(r) \/ ProcessMissing(r) \/ Send(r)
      PROVE  CachedIsAccounted'
  <2>1. StillMarking
    BY <1>4 DEF Process, ProcessMissing, Send, Resting, StillMarking
  <2>2. UNCHANGED <<data, hot, hotMeta, unmarked>>
    BY <1>4 DEF Process, ProcessMissing, Send
  <2> QED
    BY <2>1, <2>2, StillAccounted
<1>5. ASSUME NEW r \in Readers, AddToCache(r)
      PROVE  CachedIsAccounted'
  BY <1>5 DEF AddToCache
<1>6. ASSUME NEW r \in Readers, AddToHotKeys(r)
      PROVE  CachedIsAccounted'
  BY <1>6 DEF AddToHotKeys
<1>7. ASSUME NEW r \in Readers, RedisError(r)
      PROVE  CachedIsAccounted'
  BY <1>7 DEF RedisError
<1>8. CASE Unlink \/ Copy \/ ExpireData \/ ExpireFreq
  BY <1>8 DEF Unlink, Copy, ExpireData, ExpireFreq
<1>9. ASSUME NEW c \in Cleaners, Measure(c) \/ Rank(c) \/ CleanupError(c)
      PROVE  CachedIsAccounted'
  BY <1>9 DEF Measure, Rank, CleanupError
<1>10. ASSUME NEW c \in Cleaners, Evict(c)
       PROVE  CachedIsAccounted'
  BY <1>10 DEF Evict
<1>11. CASE UNCHANGED vars
  BY <1>11 DEF vars
<1> QED
  BY <1>1, <1>2, <1>3, <1>4, <1>5, <1>6, <1>7, <1>8, <1>9, <1>10, <1>11 DEF Next

\* What is cached is accounted for, or nobody may count on it: the accounting and
\* the data are written, expire and are evicted in steps of their own
\* (FileAssetsService.addToCache, addToHotKeys, getFromCache).
THEOREM CacheIsAccounted == Spec => []CachedIsAccounted
<1>1. Init => CachedIsAccounted
  BY DEF Init, CachedIsAccounted
<1>2. Init => Types
  BY InitInv DEF FreshInv
<1> QED
  BY <1>1, <1>2, TypesNext, AccountedNext, PTL DEF Spec

-----------------------------------------------------------------------------
(* The counters. *)

\* The requests that have yet to be counted.
Counting == {r \in Readers : reader[r].pc = "count"}

\* No key is counted more often than there were requests, and only what was counted
\* often enough is on its way into the cache.
Counted ==
  /\ requests \in 0..MaxRequests /\ unmarked \subseteq Keys
  /\ IsFiniteSet(Counting)
  /\ \A k \in Keys : freq[k] + Cardinality(Counting) <= requests
  /\ \A r \in Readers : reader[r].pc \in {"add", "mark"} => reader[r].count >= MinHits

\* A step that counts nothing.
LEMMA StillCounted ==
  ASSUME Types, Counted, Counting' = Counting, UNCHANGED <<requests, freq>>,
         unmarked' \subseteq Keys,
         \A r \in Readers : reader'[r].pc \in {"add", "mark"} => reader'[r].count >= MinHits
  PROVE  Counted'
BY DEF Counted

\* A request to be counted is one request more.
LEMMA RequestCounted ==
  ASSUME Types, Counted, NEW r \in Readers, NEW v \in Variants, Request(r, v)
  PROVE  Counted'
<1> USE DEF Types
<1>1. /\ reader[r].pc = "idle" /\ requests < MaxRequests
      /\ reader' = [reader EXCEPT ![r] = [Resting EXCEPT !.pc = "count", !.key = CacheKey(v),
                                                        !.since = stamp]]
      /\ requests' = requests + 1 /\ UNCHANGED <<freq, unmarked>>
  BY DEF Request, redis
<1>2. reader'[r].pc = "count" /\ \A q \in Readers \ {r} : reader'[q] = reader[q]
  BY <1>1 DEF Resting
<1>3. Counting' = Counting \cup {r} /\ r \notin Counting
  BY <1>1, <1>2 DEF Counting
<1>4. IsFiniteSet(Counting') /\ Cardinality(Counting') = Cardinality(Counting) + 1
  BY <1>3, FS_AddElement DEF Counted
<1>5. Cardinality(Counting) \in Nat
  BY FS_CardinalityType DEF Counted
<1>6. \A k \in Keys : freq'[k] + Cardinality(Counting') <= requests'
  BY <1>1, <1>4, <1>5 DEF Counted
<1>7. requests' \in 0..MaxRequests
  BY <1>1, BoundsAssumption DEF Counted
<1>8. \A q \in Readers : reader'[q].pc \in {"add", "mark"} => reader'[q].count >= MinHits
  BY <1>2 DEF Counted
<1> QED
  BY <1>1, <1>4, <1>6, <1>7, <1>8 DEF Counted

\* Counting it leaves one request fewer to be counted, whether or not Redis fails.
LEMMA CountCounted ==
  ASSUME Types, Counted, NEW r \in Readers, Count(r) \/ RedisError(r), reader[r].pc = "count"
  PROVE  Counted'
<1> DEFINE k == reader[r].key
<1>0. k \in Keys /\ reader[r] \in ReaderStates
  BY DEF Types
<1>1. /\ UNCHANGED <<requests, unmarked>>
      /\ freq' = freq \/ freq' = [freq EXCEPT ![k] = @ + 1]
  BY DEF Count, RedisError, redis
<1>2. reader'[r].pc = "lookup" /\ \A q \in Readers \ {r} : reader'[q] = reader[q]
  BY <1>0 DEF Count, RedisError, Types, ReaderStates
<1>3. Counting' = Counting \ {r} /\ r \in Counting
  BY <1>2 DEF Counting
<1>4. IsFiniteSet(Counting') /\ Cardinality(Counting') = Cardinality(Counting) - 1
  BY <1>3, FS_RemoveElement DEF Counted
<1>5. Cardinality(Counting) \in Nat /\ Cardinality(Counting') \in Nat
  BY <1>4, FS_CardinalityType DEF Counted
<1>6. \A l \in Keys : freq[l] \in Nat /\ (freq'[l] = freq[l] \/ freq'[l] = freq[l] + 1)
  BY <1>0, <1>1 DEF Types
<1>7. \A l \in Keys : freq'[l] + Cardinality(Counting') <= requests'
  BY <1>1, <1>4, <1>5, <1>6 DEF Counted
<1>8. \A q \in Readers : reader'[q].pc \in {"add", "mark"} => reader'[q].count >= MinHits
  BY <1>2 DEF Counted
<1> QED
  BY <1>1, <1>4, <1>7, <1>8 DEF Counted

\* All steps together.
LEMMA CountedNext == Types /\ Counted /\ [Next]_vars => Counted'
<1> SUFFICES ASSUME Types, Counted, [Next]_vars PROVE Counted'
  OBVIOUS
<1>1. ASSUME NEW r \in Readers, RedisError(r), reader[r].pc # "count"
      PROVE  Counted'
  <2>1. /\ UNCHANGED <<requests, freq>> /\ unmarked' \subseteq Keys
        /\ \A q \in Readers \ {r} : reader'[q] = reader[q]
    BY <1>1 DEF RedisError, redis, Types, ReaderStates, Counted
  <2>2. /\ reader[r].pc \in {"lookup", "get", "cool", "add", "mark"}
        /\ reader'[r].count = reader[r].count
        /\ reader'[r].pc \in {"process", "mark", "sent"}
        /\ reader'[r].pc = "mark" => reader[r].pc = "add"
    BY <1>1 DEF RedisError, Types, ReaderStates
  <2>3. Counting' = Counting
    BY <1>1, <2>1, <2>2 DEF Counting
  <2>4. \A q \in Readers : reader'[q].pc \in {"add", "mark"} => reader'[q].count >= MinHits
    BY <2>1, <2>2 DEF Counted
  <2> QED
    BY <2>1, <2>3, <2>4, StillCounted
<1>2. ASSUME NEW r \in Readers,
             \/ Lookup(r) \/ Hit(r) \/ Expired(r) \/ Cool(r) \/ Process(r) \/ ProcessMissing(r)
             \/ AddToCache(r) \/ AddToHotKeys(r) \/ Send(r)
      PROVE  Counted'
  <2>1. /\ UNCHANGED <<requests, freq>>
        /\ \A q \in Readers \ {r} : reader'[q] = reader[q]
    BY <1>2 DEF Lookup, Hit, Expired, Cool, Process, ProcessMissing, AddToCache, AddToHotKeys, Send,
       Go, Finish, redis, Types
  <2>2. reader[r] \in ReaderStates /\ (reader[r].pc # "idle" => reader[r].key \in Keys)
    BY DEF Types
  <2>3. unmarked' \subseteq Keys
    BY <1>2, <2>2 DEF Lookup, Hit, Expired, Cool, Process, ProcessMissing, AddToCache, AddToHotKeys,
       Send, Go, Counted
  <2>4. /\ reader[r].pc # "count" /\ reader'[r].pc # "count"
        /\ reader'[r].pc \in {"add", "mark"} => reader'[r].count >= MinHits
    BY <1>2, <2>2 DEF Lookup, Hit, Expired, Cool, Process, ProcessMissing, AddToCache, AddToHotKeys,
       Send, Go, Finish, Resting, Types, ReaderStates, Counted
  <2>5. Counting' = Counting
    BY <2>1, <2>4 DEF Counting
  <2>6. \A q \in Readers : reader'[q].pc \in {"add", "mark"} => reader'[q].count >= MinHits
    BY <2>1, <2>4 DEF Counted
  <2> QED
    BY <2>1, <2>3, <2>5, <2>6, StillCounted
<1>3. CASE ExpireFreq
  <2>1. UNCHANGED <<reader, requests, unmarked>> /\ \A k \in Keys : freq'[k] = 0 /\ freq[k] \in Nat
    BY <1>3 DEF ExpireFreq, Types
  <2>2. Counting' = Counting /\ Cardinality(Counting) \in Nat
    BY <2>1, FS_CardinalityType DEF Counting, Counted
  <2> QED
    BY <2>1, <2>2 DEF Counted
<1>4. ASSUME UNCHANGED <<reader, requests, freq>>, unmarked' \subseteq unmarked
      PROVE  Counted'
  <2>1. Counting' = Counting
    BY <1>4 DEF Counting
  <2> QED
    BY <1>4, <2>1 DEF Counted
<1>5. ASSUME NEW c \in Cleaners, Measure(c) \/ Rank(c) \/ Evict(c) \/ CleanupError(c)
      PROVE  Counted'
  BY <1>4, <1>5 DEF Measure, Rank, Evict, CleanupError, redis
<1>6. CASE Unlink \/ Copy \/ ExpireData \/ UNCHANGED vars
  BY <1>4, <1>6 DEF Unlink, Copy, ExpireData, vars, redis
<1>7. ASSUME NEW r \in Readers, Count(r)
      PROVE  Counted'
  BY <1>7, CountCounted DEF Count
<1> QED
  BY <1>1, <1>2, <1>3, <1>5, <1>6, <1>7, CountCounted, RequestCounted DEF Next

\* The types of ImageCache; in particular, a key is never counted more often than
\* there were requests, the entries stay ordered, and only what was asked for MinHits
\* times is on its way into the cache.
THEOREM ImagesTyped == Spec => []TypeOK
<1>1. Init => Types /\ Entries /\ Counted
  <2> SUFFICES ASSUME Init PROVE Types /\ Entries /\ Counted
    OBVIOUS
  <2>1. Types
    BY InitInv DEF FreshInv
  <2>2. Entries
    BY FS_EmptySet DEF Init, Entries, CleanerStates, Sweeping
  <2>3. Counting = {} /\ IsFiniteSet(Counting) /\ Cardinality(Counting) = 0
    BY FS_EmptySet DEF Init, Counting, Resting
  <2>4. Counted
    BY <2>3, BoundsAssumption DEF Init, Counted, Resting
  <2> QED
    BY <2>1, <2>2, <2>4
<1>2. Types /\ Entries /\ Counted => TypeOK
  <2> SUFFICES ASSUME Types, Entries, Counted PROVE TypeOK
    OBVIOUS
  <2>1. \A k \in Keys : freq[k] \in 0..MaxRequests
    <3>1. Cardinality(Counting) \in Nat
      BY FS_CardinalityType DEF Counted
    <3> QED
      BY <3>1, BoundsAssumption DEF Types, Counted
  <2>2. freq \in [Keys -> 0..MaxRequests]
    BY <2>1 DEF Types
  <2>3. \A r \in Readers : reader[r].key \in Keys \cup {None}
    BY DEF Types, ReaderStates
  <2>4. \A c \in Cleaners : cleaner[c].victims \subseteq Keys
    BY DEF Entries, CleanerStates
  <2>5. stamp \in Stamps /\ present \in BOOLEAN /\ data \in [Keys -> Stamps \cup {None}]
    BY DEF Types
  <2> QED
    BY <2>2, <2>3, <2>4, <2>5 DEF Entries, Counted, TypeOK
<1> QED
  BY <1>1, <1>2, TypesNext, EntriesNext, CountedNext, PTL DEF Spec

==============================================================================
