-------------------------- MODULE HandleStoreProofs --------------------------
(***************************************************************************)
(* Theorems about HandleStore, for every capacity, TTL and number of       *)
(* handles and reservations.                                               *)
(***************************************************************************)
EXTENDS HandleStore, FiniteSetTheorems, TLAPS

-----------------------------------------------------------------------------
(* Counting the slots of reservations. *)

LEMMA IntervalSize ==
  ASSUME NEW n \in Nat
  PROVE  IsFiniteSet(1..n) /\ Cardinality(1..n) = n
  BY FS_Interval

LEMMA DisjointUnion ==
  ASSUME NEW S, NEW T, IsFiniteSet(S), IsFiniteSet(T), S \cap T = {}
  PROVE  Cardinality(S \cup T) = Cardinality(S) + Cardinality(T)
<1>1. Cardinality(S \cup T) = Cardinality(S) + Cardinality(T) - Cardinality(S \cap T)
  BY FS_Union
<1>2. Cardinality(S \cap T) = 0
  BY FS_EmptySet
<1>3. Cardinality(S) \in Nat /\ Cardinality(T) \in Nat
  BY FS_CardinalityType
<1>4. QED
  BY <1>1, <1>2, <1>3

LEMMA SlotsFinite ==
  ASSUME StoreAssumption, NEW s, NEW rs, IsFiniteSet(rs)
  PROVE  /\ IsFiniteSet(Slots(s, rs))
         /\ Cardinality(Slots(s, rs)) \in Nat
<1>1. IsFiniteSet(1..Capacity)
  BY FS_Interval DEF StoreAssumption
<1>2. IsFiniteSet(rs \X (1..Capacity))
  BY <1>1, FS_Product
<1>3. IsFiniteSet(Slots(s, rs))
  BY <1>2, FS_Subset DEF Slots
<1>4. QED
  BY <1>3, FS_CardinalityType

\* One reservation holds as many slots as it has remaining.
LEMMA SlotsOfOne ==
  ASSUME StoreAssumption, NEW s, NEW r, s.reservations[r].remaining \in 0..Capacity
  PROVE  Cardinality(Slots(s, {r})) = s.reservations[r].remaining
<1> DEFINE n == s.reservations[r].remaining
           f == [i \in 1..n |-> <<r, i>>]
<1>0. n \in Nat
  BY DEF StoreAssumption
<1>1. IsFiniteSet(1..n) /\ Cardinality(1..n) = n
  BY <1>0, IntervalSize
<1>2. f \in Bijection(1..n, Slots(s, {r}))
  <2>1. \A i \in 1..n : f[i] \in Slots(s, {r})
    BY DEF Slots, StoreAssumption
  <2>2. \A slot \in Slots(s, {r}) : slot[2] \in 1..n /\ slot = f[slot[2]]
    BY DEF Slots, StoreAssumption
  <2>3. \A i, j \in 1..n : f[i] = f[j] => i = j
    OBVIOUS
  <2>4. f \in [1..n -> Slots(s, {r})]
    BY <2>1
  <2>5. f \in Injection(1..n, Slots(s, {r}))
    BY <2>3, <2>4 DEF Injection, IsInjective
  <2>6. f \in Surjection(1..n, Slots(s, {r}))
    BY <2>2, <2>4 DEF Surjection
  <2>7. QED
    BY <2>5, <2>6 DEF Bijection
<1>3. ExistsBijection(1..n, Slots(s, {r}))
  BY <1>2 DEF ExistsBijection
<1>4. QED
  BY <1>1, <1>3, FS_Bijection

LEMMA SlotsOfBoth ==
  ASSUME StoreAssumption, NEW s, NEW rs, NEW qs,
         IsFiniteSet(rs), IsFiniteSet(qs), rs \cap qs = {}
  PROVE  Cardinality(Slots(s, rs \cup qs))
           = Cardinality(Slots(s, rs)) + Cardinality(Slots(s, qs))
<1>1. Slots(s, rs \cup qs) = Slots(s, rs) \cup Slots(s, qs)
  BY DEF Slots
<1>2. Slots(s, rs) \cap Slots(s, qs) = {}
  BY DEF Slots
<1>3. /\ IsFiniteSet(Slots(s, rs)) /\ Cardinality(Slots(s, rs)) \in Nat
      /\ IsFiniteSet(Slots(s, qs)) /\ Cardinality(Slots(s, qs)) \in Nat
  BY SlotsFinite
<1>4. QED
  BY <1>1, <1>2, <1>3, DisjointUnion

\* Only what remains matters.
LEMMA SlotsSame ==
  ASSUME NEW s, NEW u, NEW rs,
         \A r \in rs : u.reservations[r].remaining = s.reservations[r].remaining
  PROVE  Slots(u, rs) = Slots(s, rs)
  BY DEF Slots

-----------------------------------------------------------------------------
(* The invariant of a store. *)

Early(s, time) ==
  {h \in DOMAIN s.tombstones : s.tombstones[h].expires >= time}
    \cup {h \in Live(s) : s.entries[h].expires < time}

Typed(s) ==
  /\ s = [entries |-> s.entries, tombstones |-> s.tombstones,
          reserved |-> s.reserved, reservations |-> s.reservations]
  /\ s.entries \in [Live(s) -> Entry]
  /\ s.tombstones \in [DOMAIN s.tombstones -> Tombstone]
  /\ s.reservations \in [DOMAIN s.reservations -> Reservation]
  /\ IsFiniteSet(Live(s))
  /\ IsFiniteSet(DOMAIN s.tombstones)
  /\ IsFiniteSet(DOMAIN s.reservations)

Counted(s) ==
  /\ \A r \in DOMAIN s.reservations : s.reservations[r].remaining <= Capacity
  /\ s.reserved = Cardinality(Slots(s, ActiveReservations(s)))
  /\ Cardinality(Live(s)) + s.reserved <= Capacity

Remembering(s) ==
  /\ \A h \in DOMAIN s.tombstones : s.tombstones[h].expires <= now + Ttl
  /\ \A time \in 0..(MaxTime + Ttl) : Cardinality(Early(s, time)) <= Capacity

Sound(s) == Typed(s) /\ Counted(s) /\ Remembering(s)

Placed(s, known) ==
  /\ Live(s) \subseteq known
  /\ DOMAIN s.tombstones \subseteq known \ Live(s)
  /\ DOMAIN s.reservations \subseteq Reservations

StoreInvariant ==
  /\ now \in 0..MaxTime
  /\ issued \subseteq Handles
  /\ Sound(store)
  /\ Placed(store, issued)

LEMMA ActiveSlots ==
  ASSUME StoreAssumption, NEW s, Typed(s)
  PROVE  /\ IsFiniteSet(ActiveReservations(s))
         /\ Cardinality(Slots(s, ActiveReservations(s))) \in Nat
         /\ Cardinality(Live(s)) \in Nat
<1>1. IsFiniteSet(ActiveReservations(s))
  BY FS_Subset DEF ActiveReservations, Typed
<1>2. QED
  BY <1>1, SlotsFinite, FS_CardinalityType DEF Typed

\* Nothing is remembered in place of the oldest: there is always room.
LEMMA RememberedAll ==
  ASSUME StoreAssumption, now \in 0..MaxTime, NEW s, Sound(s)
  PROVE  LET older == DOMAIN s.tombstones \ ExpiredIn(s.tombstones)
             gone == ExpiredIn(s.entries)
         IN  Remembered(s) = [h \in older \cup gone |->
               IF h \in gone THEN [expires |-> now + Ttl] ELSE s.tombstones[h]]
<1> DEFINE older == DOMAIN s.tombstones \ ExpiredIn(s.tombstones)
           gone == ExpiredIn(s.entries)
           all == [h \in older \cup gone |->
                     IF h \in gone THEN [expires |-> now + Ttl] ELSE s.tombstones[h]]
<1>1. older \cup gone = Early(s, now + 1)
  <2>1. \A h \in DOMAIN s.tombstones : s.tombstones[h].expires \in Nat
    BY DEF Sound, Typed, Tombstone
  <2>2. \A h \in Live(s) : s.entries[h].expires \in Nat
    BY DEF Sound, Typed, Entry
  <2>3. older = {h \in DOMAIN s.tombstones : s.tombstones[h].expires >= now + 1}
    BY <2>1 DEF ExpiredIn
  <2>4. gone = {h \in Live(s) : s.entries[h].expires < now + 1}
    BY <2>2 DEF ExpiredIn, Live
  <2>5. QED
    BY <2>3, <2>4 DEF Early
<1>2. now + 1 \in 0..(MaxTime + Ttl)
  BY DEF StoreAssumption
<1>3. Cardinality(DOMAIN all) <= Capacity
  BY <1>1, <1>2 DEF Sound, Remembering
<1>4. Newest(all) = all
  BY <1>3 DEF Newest
<1>5. QED
  BY <1>4 DEF Remembered

\* A purge keeps the store sound, and forgets only tombstones whose time is over.
LEMMA PurgeSound ==
  ASSUME StoreAssumption, now \in 0..MaxTime, NEW s, Sound(s)
  PROVE  /\ Sound(Purge(s))
         /\ Live(Purge(s)) = Live(s) \ ExpiredIn(s.entries)
         /\ DOMAIN Purge(s).reservations = DOMAIN s.reservations
         /\ DOMAIN Purge(s).tombstones =
              (DOMAIN s.tombstones \ ExpiredIn(s.tombstones)) \cup ExpiredIn(s.entries)
<1> DEFINE u == Purge(s)
           older == DOMAIN s.tombstones \ ExpiredIn(s.tombstones)
           gone == ExpiredIn(s.entries)
           lapsed == Lapsed(s)
           active == ActiveReservations(s)
<1>1. /\ u = [entries |-> u.entries, tombstones |-> u.tombstones,
              reserved |-> u.reserved, reservations |-> u.reservations]
      /\ u.entries = [h \in Live(s) \ gone |-> s.entries[h]]
      /\ u.tombstones = [h \in older \cup gone |->
            IF h \in gone THEN [expires |-> now + Ttl] ELSE s.tombstones[h]]
      /\ u.reserved = s.reserved - Cardinality(Slots(s, lapsed))
      /\ u.reservations = [r \in DOMAIN s.reservations |->
            IF r \in lapsed THEN Released(s.reservations[r]) ELSE s.reservations[r]]
  BY RememberedAll DEF Purge, Restrict
<1>2. gone \subseteq Live(s)
  BY DEF ExpiredIn, Live
<1>3. lapsed \subseteq active /\ active \subseteq DOMAIN s.reservations
  BY DEF Lapsed, ActiveReservations
<1>4. Typed(u)
  <2>1. u.entries \in [Live(u) -> Entry] /\ Live(u) = Live(s) \ gone
    BY <1>1 DEF Sound, Typed, Live
  <2>2. u.tombstones \in [DOMAIN u.tombstones -> Tombstone]
    BY <1>1 DEF Sound, Typed, Tombstone, StoreAssumption
  <2>3. \A r \in DOMAIN s.reservations : s.reservations[r] \in Reservation
    BY DEF Sound, Typed
  <2>4. \A r \in DOMAIN s.reservations : Released(s.reservations[r]) \in Reservation
    BY <2>3 DEF Released, Reservation
  <2>5. u.reservations \in [DOMAIN u.reservations -> Reservation]
    BY <1>1, <2>3, <2>4
  <2>6. IsFiniteSet(Live(u)) /\ IsFiniteSet(gone)
    BY <2>1, <1>2, FS_Subset DEF Sound, Typed
  <2>7. IsFiniteSet(older)
    BY FS_Subset DEF Sound, Typed
  <2>8. IsFiniteSet(DOMAIN u.tombstones)
    <3>1. IsFiniteSet(older \cup gone)
      BY <2>6, <2>7, FS_Union
    <3>2. DOMAIN u.tombstones = older \cup gone
      BY <1>1
    <3>3. QED
      BY <3>1, <3>2
  <2>9. QED
    BY <1>1, <2>1, <2>2, <2>5, <2>6, <2>8 DEF Typed, Sound
<1>5. Counted(u)
  <2>1. \A r \in DOMAIN s.reservations :
          /\ s.reservations[r] \in Reservation
          /\ s.reservations[r].remaining \in 0..Capacity
    BY DEF Sound, Typed, Counted, Reservation
  <2>2. \A r \in DOMAIN u.reservations : u.reservations[r].remaining <= Capacity
    <3>1. \A r \in DOMAIN s.reservations : Released(s.reservations[r]).remaining = 0
      BY <2>1 DEF Released, Reservation
    <3>2. QED
      BY <1>1, <2>1, <3>1 DEF StoreAssumption
  <2>3. ActiveReservations(u) = active \ lapsed
    BY <1>1, <1>3, <2>1 DEF ActiveReservations, Released, Reservation
  <2>4. Slots(u, active \ lapsed) = Slots(s, active \ lapsed)
    <3>1. \A r \in active \ lapsed : u.reservations[r].remaining = s.reservations[r].remaining
      BY <1>1, <1>3
    <3>2. QED
      BY <3>1, SlotsSame
  <2>5. IsFiniteSet(active)
    BY ActiveSlots DEF Sound
  <2>6. IsFiniteSet(active \ lapsed) /\ IsFiniteSet(lapsed)
    BY <2>5, <1>3, FS_Subset
  <2>7. active = (active \ lapsed) \cup lapsed /\ (active \ lapsed) \cap lapsed = {}
    BY <1>3
  <2>8. Cardinality(Slots(s, active)) =
          Cardinality(Slots(s, active \ lapsed)) + Cardinality(Slots(s, lapsed))
    BY <2>6, <2>7, SlotsOfBoth
  <2>9. Cardinality(Slots(s, active \ lapsed)) \in Nat /\ Cardinality(Slots(s, lapsed)) \in Nat
    BY <2>6, SlotsFinite
  <2>10. u.reserved = Cardinality(Slots(u, ActiveReservations(u)))
    BY <1>1, <2>3, <2>4, <2>8, <2>9 DEF Sound, Counted
  <2>11. Cardinality(Live(u)) <= Cardinality(Live(s)) /\ Cardinality(Live(u)) \in Nat
    <3>1. Live(u) \subseteq Live(s)
      BY <1>1 DEF Live
    <3>2. QED
      BY <3>1, FS_Subset, FS_CardinalityType DEF Sound, Typed
  <2>12. Cardinality(Live(u)) + u.reserved <= Capacity
    BY <1>1, <2>8, <2>9, <2>11, ActiveSlots DEF Sound, Counted, StoreAssumption
  <2>13. QED
    BY <2>2, <2>10, <2>12 DEF Counted
<1>6. Remembering(u)
  <2>1. \A h \in DOMAIN s.tombstones : s.tombstones[h].expires \in Nat
    BY DEF Sound, Typed, Tombstone
  <2>2. \A h \in Live(s) : s.entries[h].expires \in Nat
    BY DEF Sound, Typed, Entry
  <2>3. \A h \in DOMAIN u.tombstones : u.tombstones[h].expires <= now + Ttl
    BY <1>1, <2>1 DEF Sound, Remembering, StoreAssumption
  <2>4. ASSUME NEW time \in 0..(MaxTime + Ttl)
        PROVE  Cardinality(Early(u, time)) <= Capacity
    <3>1. CASE time > now + Ttl
      <4>1. Early(u, time) \subseteq Live(s)
        <5>1. \A h \in DOMAIN u.tombstones : u.tombstones[h].expires \in Nat
          BY <1>4 DEF Typed, Tombstone
        <5>2. \A h \in DOMAIN u.tombstones : ~(u.tombstones[h].expires >= time)
          BY <5>1, <2>3, <3>1 DEF StoreAssumption
        <5>3. Live(u) \subseteq Live(s)
          BY <1>1 DEF Live
        <5>4. QED
          BY <5>2, <5>3 DEF Early
      <4>2. Cardinality(Early(u, time)) <= Cardinality(Live(s))
        BY <4>1, FS_Subset DEF Sound, Typed
      <4>3. Cardinality(Live(s)) <= Capacity
        BY ActiveSlots DEF Sound, Counted, StoreAssumption
      <4>4. Cardinality(Early(u, time)) \in Nat
        BY <4>1, FS_Subset, FS_CardinalityType DEF Sound, Typed
      <4>5. QED
        BY <4>2, <4>3, <4>4, ActiveSlots DEF Sound, StoreAssumption
    <3>2. CASE time <= now + Ttl /\ time >= now + 1
      <4>1. Early(u, time) = Early(s, time)
        <5>1. {h \in DOMAIN u.tombstones : u.tombstones[h].expires >= time}
                = {h \in DOMAIN s.tombstones : s.tombstones[h].expires >= time} \cup gone
          BY <1>1, <1>2, <2>1, <2>2, <3>2 DEF ExpiredIn, StoreAssumption
        <5>2. {h \in Live(s) : s.entries[h].expires < time}
                = {h \in Live(u) : u.entries[h].expires < time} \cup gone
          BY <1>1, <1>2, <2>2, <3>2 DEF ExpiredIn, Live
        <5>3. QED
          BY <5>1, <5>2 DEF Early
      <4>2. QED
        BY <4>1 DEF Sound, Remembering
    <3>3. CASE time <= now
      <4>1. Early(u, time) = Early(s, now + 1)
        <5>1. {h \in DOMAIN u.tombstones : u.tombstones[h].expires >= time}
                = {h \in DOMAIN s.tombstones : s.tombstones[h].expires >= now + 1} \cup gone
          BY <1>1, <1>2, <2>1, <2>2, <3>3 DEF ExpiredIn, StoreAssumption
        <5>2. {h \in Live(u) : u.entries[h].expires < time} = {}
          BY <1>1, <2>2, <3>3 DEF ExpiredIn, Live
        <5>3. {h \in Live(s) : s.entries[h].expires < now + 1} = gone
          BY <2>2 DEF ExpiredIn, Live
        <5>4. QED
          BY <5>1, <5>2, <5>3 DEF Early
      <4>2. now + 1 \in 0..(MaxTime + Ttl)
        BY DEF StoreAssumption
      <4>3. QED
        BY <4>1, <4>2 DEF Sound, Remembering
    <3>4. QED
      BY <3>1, <3>2, <3>3 DEF StoreAssumption
  <2>5. QED
    BY <2>3, <2>4 DEF Remembering
<1>7. QED
  BY <1>1, <1>4, <1>5, <1>6 DEF Sound, Live

LEMMA PurgePlaced ==
  ASSUME StoreAssumption, now \in 0..MaxTime, NEW s, Sound(s), NEW known, Placed(s, known)
  PROVE  Placed(Purge(s), known)
  BY PurgeSound DEF Placed, ExpiredIn, Live

-----------------------------------------------------------------------------
(* What each operation makes of a sound store. *)

\* Entries may change in all but their lifetime.
LEMMA UpdateSound ==
  ASSUME NEW s, Sound(s), NEW known, Placed(s, known), NEW h \in Live(s), NEW e \in Entry,
         e.expires = s.entries[h].expires
  PROVE  LET u == Changed(s, [s.entries EXCEPT ![h] = e], s.reserved, s.reservations)
         IN  Sound(u) /\ Placed(u, known)
<1> DEFINE u == Changed(s, [s.entries EXCEPT ![h] = e], s.reserved, s.reservations)
<1>1. /\ u = [entries |-> u.entries, tombstones |-> s.tombstones,
              reserved |-> s.reserved, reservations |-> s.reservations]
      /\ u.entries = [s.entries EXCEPT ![h] = e]
  BY DEF Changed
<1>2. Live(u) = Live(s)
  BY <1>1 DEF Live
<1>3. \A g \in Live(s) : u.entries[g].expires = s.entries[g].expires
  BY <1>1 DEF Sound, Typed
<1>4. u.entries \in [Live(u) -> Entry]
  BY <1>1, <1>2 DEF Sound, Typed
<1>5. \A time : Early(u, time) = Early(s, time)
  BY <1>1, <1>2, <1>3 DEF Early
<1>6. ActiveReservations(u) = ActiveReservations(s)
  BY <1>1 DEF ActiveReservations
<1>7. Slots(u, ActiveReservations(u)) = Slots(s, ActiveReservations(s))
  BY <1>1, <1>6 DEF Slots
<1>8. QED
  BY <1>1, <1>2, <1>4, <1>5, <1>7 DEF Sound, Typed, Counted, Remembering, Placed

\* A reservation that begins holds what it held.
LEMMA BeginSound ==
  ASSUME NEW s, Sound(s), NEW known, Placed(s, known), NEW r \in ActiveReservations(s)
  PROVE  Sound(Begun(s, r)) /\ Placed(Begun(s, r), known)
<1> DEFINE u == Begun(s, r)
           begun == [s.reservations[r] EXCEPT !.inFlight = TRUE]
<1>1. r \in DOMAIN s.reservations /\ s.reservations[r] \in Reservation
  BY DEF Sound, Typed, ActiveReservations
<1>2. /\ u = [entries |-> s.entries, tombstones |-> s.tombstones,
              reserved |-> s.reserved, reservations |-> u.reservations]
      /\ u.reservations = [s.reservations EXCEPT ![r] = begun]
  BY DEF Begun, Changed
<1> HIDE DEF u
<1>3. /\ begun \in Reservation
      /\ begun.remaining = s.reservations[r].remaining
      /\ begun.active = s.reservations[r].active
  BY <1>1 DEF Reservation
<1>4. u.reservations \in [DOMAIN u.reservations -> Reservation]
  BY <1>2, <1>3 DEF Sound, Typed
<1>5. \A q \in DOMAIN s.reservations :
        /\ u.reservations[q].remaining = s.reservations[q].remaining
        /\ u.reservations[q].active = s.reservations[q].active
  BY <1>2, <1>3 DEF Sound, Typed
<1>6. ActiveReservations(u) = ActiveReservations(s)
  BY <1>2, <1>5 DEF ActiveReservations
<1>7. Slots(u, ActiveReservations(u)) = Slots(s, ActiveReservations(s))
  <2>1. \A q \in ActiveReservations(s) : u.reservations[q].remaining = s.reservations[q].remaining
    BY <1>5 DEF ActiveReservations
  <2>2. QED
    BY <1>6, <2>1 DEF Slots
<1>8. Live(u) = Live(s) /\ \A time : Early(u, time) = Early(s, time)
  BY <1>2 DEF Live, Early
<1>9. Typed(u)
  BY <1>2, <1>4, <1>8 DEF Sound, Typed
<1>10. Counted(u)
  BY <1>2, <1>5, <1>7, <1>8 DEF Sound, Counted
<1>11. QED
  BY <1>2, <1>8, <1>9, <1>10 DEF u, Sound, Remembering, Placed

\* A release gives back what the reservation still held.
LEMMA WithoutSound ==
  ASSUME StoreAssumption, NEW s, Sound(s), NEW known, Placed(s, known), NEW r
  PROVE  Sound(Without(s, r)) /\ Placed(Without(s, r), known)
<1>1. CASE r \notin ActiveReservations(s)
  BY <1>1 DEF Without
<1>2. CASE r \in ActiveReservations(s)
  <2> DEFINE u == Without(s, r)
             active == ActiveReservations(s)
  <2>1. r \in DOMAIN s.reservations /\ s.reservations[r] \in Reservation
    BY <1>2 DEF Sound, Typed, ActiveReservations
  <2>2. /\ u = [entries |-> s.entries, tombstones |-> s.tombstones,
                reserved |-> u.reserved, reservations |-> u.reservations]
        /\ u.reserved = s.reserved - s.reservations[r].remaining
        /\ u.reservations = [s.reservations EXCEPT ![r] = Released(s.reservations[r])]
    BY <1>2 DEF Without, Changed
  <2> HIDE DEF u
  <2>3. /\ Released(s.reservations[r]) \in Reservation
        /\ Released(s.reservations[r]).remaining = 0
        /\ Released(s.reservations[r]).active = FALSE
    BY <2>1 DEF Released, Reservation
  <2>4. Live(u) = Live(s) /\ \A time : Early(u, time) = Early(s, time)
    BY <2>2 DEF Live, Early
  <2>5. Typed(u)
    <3>1. u.reservations \in [DOMAIN s.reservations -> Reservation]
      BY <2>2, <2>3 DEF Sound, Typed
    <3>2. QED
      BY <2>2, <2>4, <3>1 DEF Sound, Typed
  <2>6. ActiveReservations(u) = active \ {r}
    BY <2>1, <2>2, <2>3 DEF ActiveReservations, Sound, Typed
  <2>7. Slots(u, active \ {r}) = Slots(s, active \ {r})
    <3>1. \A q \in active \ {r} : u.reservations[q].remaining = s.reservations[q].remaining
      BY <2>2 DEF ActiveReservations, Sound, Typed
    <3>2. QED
      BY <3>1 DEF Slots
  <2>8. IsFiniteSet(active \ {r}) /\ IsFiniteSet({r})
    BY ActiveSlots, FS_RemoveElement, FS_Singleton DEF Sound
  <2>9. active = (active \ {r}) \cup {r} /\ (active \ {r}) \cap {r} = {}
    BY <1>2
  <2>10. Cardinality(Slots(s, active))
           = Cardinality(Slots(s, active \ {r})) + Cardinality(Slots(s, {r}))
    BY <2>8, <2>9, SlotsOfBoth
  <2>11. s.reservations[r].remaining \in 0..Capacity
    BY <2>1 DEF Sound, Counted, Reservation
  <2>12. Cardinality(Slots(s, {r})) = s.reservations[r].remaining
    BY <2>11, SlotsOfOne
  <2>13. Cardinality(Slots(s, active \ {r})) \in Nat
    BY <2>8, SlotsFinite
  <2>14. u.reserved = Cardinality(Slots(u, ActiveReservations(u)))
    BY <2>2, <2>6, <2>7, <2>10, <2>11, <2>12, <2>13 DEF Sound, Counted, StoreAssumption
  <2>15. \A q \in DOMAIN u.reservations : u.reservations[q].remaining <= Capacity
    BY <2>2, <2>3 DEF Sound, Counted, StoreAssumption
  <2>16. Cardinality(Live(u)) + u.reserved <= Capacity
    BY <2>2, <2>4, <2>11, ActiveSlots DEF Sound, Counted, StoreAssumption
  <2>17. QED
    BY <2>2, <2>4, <2>5, <2>14, <2>15, <2>16 DEF u, Sound, Counted, Remembering, Placed
<1>3. QED
  BY <1>1, <1>2

\* A new reservation holds room nobody else has.
LEMMA ReservedSound ==
  ASSUME StoreAssumption, now \in 0..MaxTime, NEW s, Sound(s), NEW known, Placed(s, known),
         NEW r \in Reservations, r \notin DOMAIN s.reservations, NEW n \in Nat, CanReserve(s, n)
  PROVE  Sound(WithReservation(s, r, n)) /\ Placed(WithReservation(s, r, n), known)
<1> DEFINE u == WithReservation(s, r, n)
           active == ActiveReservations(s)
           held == [remaining |-> n, expires |-> now + Ttl, active |-> TRUE, inFlight |-> FALSE]
<1>1. /\ u = [entries |-> s.entries, tombstones |-> s.tombstones,
              reserved |-> u.reserved, reservations |-> u.reservations]
      /\ u.reserved = s.reserved + n
      /\ u.reservations = [q \in DOMAIN s.reservations \cup {r} |->
                             IF q = r THEN held ELSE s.reservations[q]]
  BY DEF WithReservation, Changed
<1> HIDE DEF u
<1>2. held \in Reservation
  BY DEF Reservation, StoreAssumption
<1>3. Live(u) = Live(s) /\ \A time : Early(u, time) = Early(s, time)
  BY <1>1 DEF Live, Early
<1>4. Cardinality(Live(s)) \in Nat /\ s.reserved \in Nat /\ IsFiniteSet(active)
  BY ActiveSlots DEF Sound, Counted
<1>5. n \in 0..Capacity /\ Cardinality(Live(s)) + s.reserved + n <= Capacity
  BY <1>4 DEF CanReserve, StoreAssumption
<1>6. Typed(u)
  <2>1. u.reservations \in [DOMAIN u.reservations -> Reservation]
    BY <1>1, <1>2 DEF Sound, Typed
  <2>2. IsFiniteSet(DOMAIN s.reservations \cup {r})
    BY FS_AddElement DEF Sound, Typed
  <2>3. DOMAIN u.reservations = DOMAIN s.reservations \cup {r}
    BY <1>1
  <2>4. u = [entries |-> s.entries, tombstones |-> s.tombstones,
             reserved |-> u.reserved, reservations |-> u.reservations]
    BY <1>1
  <2>5. QED
    BY <1>3, <2>1, <2>2, <2>3, <2>4 DEF Sound, Typed
<1>7. ActiveReservations(u) = active \cup {r}
  BY <1>1 DEF ActiveReservations
<1>8. Slots(u, active) = Slots(s, active)
  <2>1. \A q \in active : u.reservations[q].remaining = s.reservations[q].remaining
    BY <1>1 DEF ActiveReservations
  <2>2. QED
    BY <2>1 DEF Slots
<1>9. Cardinality(Slots(u, {r})) = n
  <2>1. u.reservations[r].remaining = n
    BY <1>1
  <2>2. QED
    BY <1>5, <2>1, SlotsOfOne
<1>10. Cardinality(Slots(u, active \cup {r})) = Cardinality(Slots(s, active)) + n
  <2>1. IsFiniteSet({r}) /\ active \cap {r} = {}
    BY FS_Singleton DEF ActiveReservations
  <2>2. QED
    BY <1>4, <1>8, <1>9, <2>1, SlotsOfBoth
<1>11. \A q \in DOMAIN u.reservations : u.reservations[q].remaining <= Capacity
  BY <1>1, <1>5 DEF Sound, Counted, StoreAssumption
<1>12. Counted(u)
  <2>1. u.reserved = s.reserved + n
    BY <1>1
  <2>2. s.reserved = Cardinality(Slots(s, active))
    BY DEF Sound, Counted
  <2>3. u.reserved = Cardinality(Slots(u, ActiveReservations(u)))
    BY <1>7, <1>10, <2>1, <2>2
  <2>4. Cardinality(Live(u)) + u.reserved <= Capacity
    BY <1>3, <1>4, <1>5, <2>1
  <2>5. QED
    BY <1>11, <2>3, <2>4 DEF Counted
<1>13. QED
  BY <1>1, <1>3, <1>6, <1>12 DEF u, Sound, Remembering, Placed

\* A slot is taken from the reservation and from the counter: that makes room for an entry.
LEMMA TakeSound ==
  ASSUME StoreAssumption, NEW s, Sound(s), NEW known, Placed(s, known), NEW r, CanTake(s, r)
  PROVE  /\ Sound(TakeFrom(s, r)) /\ Placed(TakeFrom(s, r), known)
         /\ HasRoom(TakeFrom(s, r))
<1> DEFINE u == TakeFrom(s, r)
           active == ActiveReservations(s)
           n == s.reservations[r].remaining
           less == [s.reservations[r] EXCEPT !.remaining = n - 1]
<1>1. r \in active /\ r \in DOMAIN s.reservations /\ s.reservations[r] \in Reservation
  BY DEF CanTake, Sound, Typed, ActiveReservations
<1>2. n \in 1..Capacity
  BY <1>1 DEF CanTake, Sound, Counted, Reservation
<1>3. /\ u = [entries |-> s.entries, tombstones |-> s.tombstones,
              reserved |-> u.reserved, reservations |-> u.reservations]
      /\ u.reserved = s.reserved - 1
      /\ u.reservations = [s.reservations EXCEPT ![r] = less]
  BY DEF TakeFrom, Changed
<1> HIDE DEF u
<1>4. less \in Reservation /\ less.remaining = n - 1 /\ less.active = s.reservations[r].active
  BY <1>1, <1>2 DEF Reservation, StoreAssumption
<1>5. Live(u) = Live(s) /\ \A time : Early(u, time) = Early(s, time)
  BY <1>3 DEF Live, Early
<1>6. Typed(u)
  <2>1. u.reservations \in [DOMAIN s.reservations -> Reservation]
    BY <1>3, <1>4 DEF Sound, Typed
  <2>2. QED
    BY <1>3, <1>5, <2>1 DEF Sound, Typed
<1>7. ActiveReservations(u) = active
  BY <1>1, <1>3, <1>4 DEF ActiveReservations, Sound, Typed
<1>8. Slots(u, active \ {r}) = Slots(s, active \ {r})
  <2>1. \A q \in active \ {r} : u.reservations[q].remaining = s.reservations[q].remaining
    BY <1>3 DEF ActiveReservations, Sound, Typed
  <2>2. QED
    BY <2>1 DEF Slots
<1>9. Cardinality(Slots(u, {r})) = n - 1 /\ Cardinality(Slots(s, {r})) = n
  <2>1. u.reservations[r].remaining = n - 1
    BY <1>1, <1>3, <1>4 DEF Sound, Typed
  <2>2. n - 1 \in 0..Capacity /\ n \in 0..Capacity
    BY <1>2 DEF StoreAssumption
  <2>3. QED
    BY <2>1, <2>2, SlotsOfOne
<1>10. IsFiniteSet(active \ {r}) /\ IsFiniteSet({r})
  BY ActiveSlots, FS_RemoveElement, FS_Singleton DEF Sound
<1>11. active = (active \ {r}) \cup {r} /\ (active \ {r}) \cap {r} = {}
  BY <1>1
<1>12. /\ Cardinality(Slots(s, active))
            = Cardinality(Slots(s, active \ {r})) + Cardinality(Slots(s, {r}))
       /\ Cardinality(Slots(u, active))
            = Cardinality(Slots(u, active \ {r})) + Cardinality(Slots(u, {r}))
  BY <1>10, <1>11, SlotsOfBoth
<1>13. Cardinality(Slots(s, active \ {r})) \in Nat /\ Cardinality(Live(s)) \in Nat
  BY <1>10, SlotsFinite, ActiveSlots DEF Sound
<1>14. s.reserved = Cardinality(Slots(s, active)) /\ Cardinality(Live(s)) + s.reserved <= Capacity
  BY DEF Sound, Counted
<1>15. u.reserved = Cardinality(Slots(u, ActiveReservations(u)))
  BY <1>2, <1>3, <1>7, <1>8, <1>9, <1>12, <1>13, <1>14
<1>16. /\ Cardinality(Live(u)) + u.reserved < Capacity
       /\ Cardinality(Live(u)) + u.reserved <= Capacity
  BY <1>2, <1>3, <1>5, <1>9, <1>12, <1>13, <1>14 DEF StoreAssumption
<1>17. \A q \in DOMAIN u.reservations : u.reservations[q].remaining <= Capacity
  BY <1>2, <1>3, <1>4 DEF Sound, Typed, Counted, StoreAssumption
<1>18. QED
  BY <1>3, <1>5, <1>6, <1>15, <1>16, <1>17 DEF u, Sound, Counted, Remembering, Placed, HasRoom

\* A new entry expires last of all.
LEMMA EntrySound ==
  ASSUME StoreAssumption, now \in 0..MaxTime, NEW s, Sound(s), NEW known, Placed(s, known),
         NEW h, h \notin known, NEW state \in HandleStates, HasRoom(s)
  PROVE  Sound(WithEntry(s, h, state)) /\ Placed(WithEntry(s, h, state), known \cup {h})
<1> DEFINE u == WithEntry(s, h, state)
           e == [state |-> state, consumed |-> FALSE, expires |-> now + Ttl]
<1>1. /\ u = [entries |-> u.entries, tombstones |-> s.tombstones,
              reserved |-> s.reserved, reservations |-> s.reservations]
      /\ u.entries = [g \in Live(s) \cup {h} |-> IF g = h THEN e ELSE s.entries[g]]
  BY DEF WithEntry, Changed
<1> HIDE DEF u
<1>2. h \notin Live(s)
  BY DEF Placed
<1>3. e \in Entry
  BY DEF Entry, StoreAssumption
<1>4. Live(u) = Live(s) \cup {h}
  BY <1>1 DEF Live
<1>5. IsFiniteSet(Live(u)) /\ Cardinality(Live(u)) = Cardinality(Live(s)) + 1
  BY <1>2, <1>4, FS_AddElement DEF Sound, Typed
<1>6. Typed(u)
  <2>1. u.entries \in [Live(u) -> Entry]
    BY <1>1, <1>3, <1>4 DEF Sound, Typed
  <2>2. u = [entries |-> u.entries, tombstones |-> s.tombstones,
             reserved |-> s.reserved, reservations |-> s.reservations]
    BY <1>1
  <2>3. QED
    BY <1>5, <2>1, <2>2 DEF Sound, Typed
<1>7. s.reserved \in Nat /\ Cardinality(Live(s)) \in Nat
  BY ActiveSlots DEF Sound, Counted
<1>8. Cardinality(Live(u)) + u.reserved <= Capacity
  BY <1>1, <1>5, <1>7 DEF HasRoom, StoreAssumption
<1>9. ActiveReservations(u) = ActiveReservations(s) /\
      Slots(u, ActiveReservations(s)) = Slots(s, ActiveReservations(s))
  BY <1>1 DEF ActiveReservations, Slots
<1>10. Counted(u)
  BY <1>1, <1>8, <1>9 DEF Sound, Counted
<1>11. ASSUME NEW time \in 0..(MaxTime + Ttl)
       PROVE  Cardinality(Early(u, time)) <= Capacity
  <2>1. CASE time <= now + Ttl
    <3>1. ~(u.entries[h].expires < time)
      BY <1>1, <1>3, <2>1 DEF StoreAssumption
    <3>2. \A g \in Live(s) : u.entries[g] = s.entries[g]
      BY <1>1, <1>2
    <3>3. Early(u, time) = Early(s, time)
      BY <1>1, <1>4, <3>1, <3>2 DEF Early
    <3>4. QED
      BY <3>3 DEF Sound, Remembering
  <2>2. CASE time > now + Ttl
    <3>1. \A g \in DOMAIN s.tombstones : ~(s.tombstones[g].expires >= time)
      BY <2>2 DEF Sound, Typed, Tombstone, Remembering, StoreAssumption
    <3>2. Early(u, time) \subseteq Live(u)
      BY <1>1, <3>1 DEF Early
    <3>3. /\ Cardinality(Early(u, time)) <= Cardinality(Live(u))
          /\ Cardinality(Early(u, time)) \in Nat
      BY <1>5, <3>2, FS_Subset, FS_CardinalityType
    <3>4. QED
      BY <1>1, <1>5, <1>7, <1>8, <3>3 DEF StoreAssumption
  <2>3. QED
    BY <2>1, <2>2 DEF StoreAssumption
<1>12. QED
  BY <1>1, <1>4, <1>2, <1>6, <1>10, <1>11 DEF u, Sound, Remembering, Placed

-----------------------------------------------------------------------------
(* The operations keep the invariant and forget only what is over. *)

ForgetsWhatIsOver ==
  \A h \in DOMAIN store.tombstones \ DOMAIN store'.tombstones :
    now >= store.tombstones[h].expires

LEMMA PurgedStore ==
  ASSUME StoreAssumption, StoreInvariant
  PROVE  Sound(Purged) /\ Placed(Purged, issued)
  BY PurgeSound, PurgePlaced DEF StoreInvariant, Purged

\* An operation purges and changes everything but the tombstones.
LEMMA StepKeeps ==
  ASSUME StoreAssumption, StoreInvariant, UNCHANGED now, issued' \subseteq Handles,
         Sound(store'), Placed(store', issued'), store'.tombstones = Purged.tombstones
  PROVE  StoreInvariant' /\ ForgetsWhatIsOver
<1>1. StoreInvariant'
  <2>1. Sound(store)'
    BY DEF Sound, Typed, Counted, Remembering, Early, Slots, ActiveReservations, Live
  <2>2. Placed(store, issued)'
    BY DEF Placed, Live
  <2>3. QED
    BY <2>1, <2>2 DEF StoreInvariant
<1>2. ForgetsWhatIsOver
  <2>1. DOMAIN Purged.tombstones =
          (DOMAIN store.tombstones \ ExpiredIn(store.tombstones)) \cup ExpiredIn(store.entries)
    BY PurgeSound DEF StoreInvariant, Purged
  <2>2. QED
    BY <2>1 DEF ForgetsWhatIsOver, ExpiredIn
<1>3. QED
  BY <1>1, <1>2

LEMMA ResolveKeeps ==
  ASSUME StoreAssumption, StoreInvariant, Resolve
  PROVE  StoreInvariant' /\ ForgetsWhatIsOver
<1>1. Sound(store') /\ Placed(store', issued')
  BY PurgedStore DEF Resolve
<1>2. QED
  BY <1>1, StepKeeps DEF Resolve, StoreInvariant

LEMMA ReserveKeeps ==
  ASSUME StoreAssumption, StoreInvariant, NEW r \in Reservations, NEW n \in Nat, Reserve(r, n)
  PROVE  StoreInvariant' /\ ForgetsWhatIsOver
<1>1. CASE CanReserve(Purged, n)
  <2>1. store' = WithReservation(Purged, r, n) /\ UNCHANGED <<now, issued>>
    BY <1>1 DEF Reserve
  <2>2. r \notin DOMAIN Purged.reservations
    BY PurgeSound DEF Reserve, StoreInvariant, Purged
  <2>3. Sound(store') /\ Placed(store', issued')
    BY <1>1, <2>1, <2>2, PurgedStore, ReservedSound DEF StoreInvariant
  <2>4. store'.tombstones = Purged.tombstones
    BY <2>1 DEF WithReservation, Changed
  <2>5. QED
    BY <2>1, <2>3, <2>4, StepKeeps DEF StoreInvariant
<1>2. CASE ~CanReserve(Purged, n)
  BY <1>2, ResolveKeeps DEF Reserve, Resolve
<1>3. QED
  BY <1>1, <1>2

LEMMA ReleaseKeeps ==
  ASSUME StoreAssumption, StoreInvariant, NEW r, Release(r)
  PROVE  StoreInvariant' /\ ForgetsWhatIsOver
<1>1. Sound(store') /\ Placed(store', issued')
  BY WithoutSound DEF Release, StoreInvariant
<1>2. store'.tombstones = store.tombstones
  BY DEF Release, Without, Changed
<1>3. Sound(store)' /\ Placed(store, issued)'
  BY <1>1
  DEF Release, Sound, Typed, Counted, Remembering, Early, Slots, ActiveReservations, Live, Placed
<1>4. QED
  BY <1>2, <1>3 DEF Release, StoreInvariant, ForgetsWhatIsOver

LEMMA BeginKeeps ==
  ASSUME StoreAssumption, StoreInvariant, NEW r, Begin(r)
  PROVE  StoreInvariant' /\ ForgetsWhatIsOver
<1>1. CASE CanBegin(Purged, r)
  <2>1. store' = Begun(Purged, r) /\ UNCHANGED <<now, issued>>
    BY <1>1 DEF Begin
  <2>2. Sound(store') /\ Placed(store', issued')
    BY <1>1, <2>1, PurgedStore, BeginSound DEF CanBegin
  <2>3. store'.tombstones = Purged.tombstones
    BY <2>1 DEF Begun, Changed
  <2>4. QED
    BY <2>1, <2>2, <2>3, StepKeeps DEF StoreInvariant
<1>2. CASE ~CanBegin(Purged, r)
  BY <1>2, ResolveKeeps DEF Begin, Resolve
<1>3. QED
  BY <1>1, <1>2

LEMMA IssueReservedKeeps ==
  ASSUME StoreAssumption, StoreInvariant,
         NEW h, NEW type, NEW state \in HandleStates, NEW r, IssueReserved(h, type, state, r)
  PROVE  StoreInvariant' /\ ForgetsWhatIsOver
<1>1. CASE CanTake(Purged, r)
  <2> DEFINE u == TakeFrom(Purged, r)
  <2>1. /\ store' = WithEntry(u, h, state) /\ issued' = issued \cup {h} /\ UNCHANGED now
        /\ h \in Handles /\ h \notin issued
    BY <1>1 DEF IssueReserved, Fresh
  <2>2. Sound(u) /\ Placed(u, issued) /\ HasRoom(u)
    BY <1>1, PurgedStore, TakeSound
  <2>3. Sound(store') /\ Placed(store', issued')
    <3> HIDE DEF u
    <3> QED
      BY <2>1, <2>2, EntrySound DEF StoreInvariant
  <2>4. store'.tombstones = Purged.tombstones
    BY <2>1 DEF WithEntry, TakeFrom, Changed
  <2>5. QED
    BY <2>1, <2>3, <2>4, StepKeeps DEF StoreInvariant
<1>2. CASE ~CanTake(Purged, r)
  BY <1>2, ResolveKeeps DEF IssueReserved, Resolve
<1>3. QED
  BY <1>1, <1>2

LEMMA IssueKeeps ==
  ASSUME StoreAssumption, StoreInvariant,
         NEW h, NEW type, NEW state \in HandleStates, Issue(h, type, state)
  PROVE  StoreInvariant' /\ ForgetsWhatIsOver
<1>1. CASE HasRoom(Purged)
  <2>1. /\ store' = WithEntry(Purged, h, state) /\ issued' = issued \cup {h} /\ UNCHANGED now
        /\ h \in Handles /\ h \notin issued
    BY <1>1 DEF Issue, Fresh
  <2>2. Sound(store') /\ Placed(store', issued')
    BY <1>1, <2>1, PurgedStore, EntrySound DEF StoreInvariant
  <2>3. store'.tombstones = Purged.tombstones
    BY <2>1 DEF WithEntry, Changed
  <2>4. QED
    BY <2>1, <2>2, <2>3, StepKeeps DEF StoreInvariant
<1>2. CASE ~HasRoom(Purged)
  BY <1>2, ResolveKeeps DEF Issue, Resolve
<1>3. QED
  BY <1>1, <1>2

\* The entry e takes the place of that of a handle that resolves.
LEMMA UpdateKeeps ==
  ASSUME StoreAssumption, StoreInvariant, NEW h, NEW type, NEW allowConsumed,
         Resolves(Purged, h, type, allowConsumed), NEW e \in Entry,
         e.expires = Purged.entries[h].expires,
         store' = Changed(Purged, [Purged.entries EXCEPT ![h] = e],
                          Purged.reserved, Purged.reservations),
         UNCHANGED <<now, issued>>
  PROVE  StoreInvariant' /\ ForgetsWhatIsOver
<1>1. h \in Live(Purged)
  BY DEF Resolves
<1>2. Sound(store') /\ Placed(store', issued')
  BY <1>1, PurgedStore, UpdateSound
<1>3. store'.tombstones = Purged.tombstones
  BY DEF Changed
<1>4. QED
  BY <1>2, <1>3, StepKeeps DEF StoreInvariant

LEMMA StateKeeps ==
  ASSUME StoreAssumption, StoreInvariant, NEW h, NEW type, NEW allowConsumed,
         NEW state \in HandleStates, Resolves(Purged, h, type, allowConsumed),
         store' = WithState(Purged, h, state), UNCHANGED <<now, issued>>
  PROVE  StoreInvariant' /\ ForgetsWhatIsOver
<1> DEFINE e == [Purged.entries[h] EXCEPT !.state = state]
<1>1. Purged.entries[h] \in Entry
  BY PurgedStore DEF Resolves, Sound, Typed
<1>2. e \in Entry /\ e.expires = Purged.entries[h].expires
  BY <1>1 DEF Entry
<1>3. store' = Changed(Purged, [Purged.entries EXCEPT ![h] = e],
                       Purged.reserved, Purged.reservations)
  BY DEF WithState
<1>4. QED
  BY <1>2, <1>3, UpdateKeeps

LEMMA TransitionKeeps ==
  ASSUME StoreAssumption, StoreInvariant,
         NEW h, NEW type, NEW state \in HandleStates, Transition(h, type, state)
  PROVE  StoreInvariant' /\ ForgetsWhatIsOver
<1>1. CASE Resolves(Purged, h, type, FALSE)
  BY <1>1, StateKeeps DEF Transition
<1>2. CASE ~Resolves(Purged, h, type, FALSE)
  BY <1>2, ResolveKeeps DEF Transition, Resolve
<1>3. QED
  BY <1>1, <1>2

LEMMA CompleteKeeps ==
  ASSUME StoreAssumption, StoreInvariant,
         NEW h, NEW type, NEW state \in HandleStates, Complete(h, type, state)
  PROVE  StoreInvariant' /\ ForgetsWhatIsOver
<1>1. CASE Resolves(Purged, h, type, TRUE)
  BY <1>1, StateKeeps DEF Complete
<1>2. CASE ~Resolves(Purged, h, type, TRUE)
  BY <1>2, ResolveKeeps DEF Complete, Resolve
<1>3. QED
  BY <1>1, <1>2

LEMMA ConsumeKeeps ==
  ASSUME StoreAssumption, StoreInvariant, NEW h, NEW type, Consume(h, type)
  PROVE  StoreInvariant' /\ ForgetsWhatIsOver
<1>1. CASE Resolves(Purged, h, type, FALSE)
  <2> DEFINE e == [Purged.entries[h] EXCEPT !.state = "EXECUTING", !.consumed = TRUE]
  <2>1. Purged.entries[h] \in Entry
    BY <1>1, PurgedStore DEF Resolves, Sound, Typed
  <2>2. e \in Entry /\ e.expires = Purged.entries[h].expires
    BY <2>1 DEF Entry, StoreAssumption
  <2>3. h \in DOMAIN Purged.entries
    BY <1>1 DEF Resolves, Live
  <2>4. store' = Changed(Purged, [Purged.entries EXCEPT ![h] = e],
                         Purged.reserved, Purged.reservations)
    BY <1>1, <2>3 DEF Consume, Consumed
  <2>5. QED
    BY <1>1, <2>2, <2>4, UpdateKeeps DEF Consume
<1>2. CASE ~Resolves(Purged, h, type, FALSE)
  BY <1>2, ResolveKeeps DEF Consume, Resolve
<1>3. QED
  BY <1>1, <1>2

LEMMA TickKeeps ==
  ASSUME StoreAssumption, StoreInvariant, Tick
  PROVE  StoreInvariant' /\ ForgetsWhatIsOver
<1>1. now' \in 0..MaxTime /\ now' = now + 1 /\ UNCHANGED <<issued, store>>
  BY DEF Tick, StoreInvariant, StoreAssumption
<1>2. \A h \in DOMAIN store.tombstones : store.tombstones[h].expires <= now' + Ttl
  BY <1>1 DEF StoreInvariant, Sound, Typed, Remembering, Tombstone, StoreAssumption
<1>3. Remembering(store)'
  BY <1>1, <1>2 DEF StoreInvariant, Sound, Remembering, Early, Live
<1>4. Typed(store)' /\ Counted(store)' /\ Placed(store, issued)'
  BY <1>1
  DEF StoreInvariant, Sound, Typed, Counted, Placed, Slots, ActiveReservations, Live
<1>5. QED
  BY <1>1, <1>3, <1>4 DEF StoreInvariant, Sound, ForgetsWhatIsOver

LEMMA CountKeeps ==
  ASSUME StoreAssumption, StoreInvariant, CountTombstones
  PROVE  StoreInvariant' /\ ForgetsWhatIsOver
<1> DEFINE u == store'
           kept == DOMAIN store.tombstones \ ExpiredIn(store.tombstones)
<1>1. Typed(store) /\ Counted(store) /\ Remembering(store)
  BY DEF StoreInvariant, Sound
<1>2. /\ u.entries = store.entries /\ u.reservations = store.reservations
      /\ u.reserved = store.reserved
      /\ u = [entries |-> u.entries, tombstones |-> u.tombstones,
              reserved |-> u.reserved, reservations |-> u.reservations]
      /\ u.tombstones = [h \in kept |-> store.tombstones[h]]
  BY <1>1 DEF CountTombstones, Restrict, Typed
<1>3. DOMAIN u.tombstones = kept /\ kept \subseteq DOMAIN store.tombstones
  BY <1>2
<1>4. Live(u) = Live(store) /\ ActiveReservations(u) = ActiveReservations(store)
  BY <1>2 DEF Live, ActiveReservations
<1>5. Typed(u)
  <2>1. u.tombstones \in [DOMAIN u.tombstones -> Tombstone]
    BY <1>1, <1>2, <1>3 DEF Typed
  <2>2. IsFiniteSet(DOMAIN u.tombstones)
    BY <1>1, <1>3, FS_Subset DEF Typed
  <2>3. QED
    BY <1>1, <1>2, <1>4, <2>1, <2>2 DEF Typed
<1>6. Counted(u)
  <2>1. Slots(u, ActiveReservations(u)) = Slots(store, ActiveReservations(store))
    BY <1>2, <1>4 DEF Slots
  <2>2. QED
    BY <1>1, <1>2, <1>4, <2>1 DEF Counted
<1>7. Remembering(u)
  <2>1. ASSUME NEW time \in 0..(MaxTime + Ttl)
        PROVE  Cardinality(Early(u, time)) <= Capacity
    <3>1. Early(u, time) \subseteq Early(store, time)
      BY <1>2, <1>3, <1>4 DEF Early
    <3>2. IsFiniteSet(Early(store, time))
      <4>1. IsFiniteSet(DOMAIN store.tombstones \cup Live(store))
        BY <1>1, FS_Union DEF Typed
      <4>2. Early(store, time) \subseteq DOMAIN store.tombstones \cup Live(store)
        BY DEF Early
      <4>3. QED
        BY <4>1, <4>2, FS_Subset
    <3>3. /\ Cardinality(Early(u, time)) <= Cardinality(Early(store, time))
          /\ Cardinality(Early(u, time)) \in Nat /\ Cardinality(Early(store, time)) \in Nat
      BY <3>1, <3>2, FS_Subset, FS_CardinalityType
    <3>4. QED
      BY <1>1, <3>3 DEF Remembering, StoreAssumption
  <2>2. QED
    BY <1>1, <1>2, <1>3, <2>1 DEF Remembering
<1>8. Sound(store)' /\ Placed(store, issued)'
  <2>1. Sound(u)
    BY <1>5, <1>6, <1>7 DEF Sound
  <2>2. Sound(store)'
    BY <2>1
    DEF CountTombstones, Sound, Typed, Counted, Remembering, Early, Slots, ActiveReservations, Live
  <2>3. Placed(store, issued)'
    BY <1>2, <1>3, <1>4 DEF CountTombstones, StoreInvariant, Placed, Live
  <2>4. QED
    BY <2>2, <2>3
<1>9. ForgetsWhatIsOver
  BY <1>3 DEF ForgetsWhatIsOver, ExpiredIn
<1>10. QED
  BY <1>8, <1>9 DEF CountTombstones, StoreInvariant

LEMMA InitKeeps ==
  ASSUME StoreAssumption, StoreInit
  PROVE  StoreInvariant
<1>1. /\ store.entries = <<>> /\ store.tombstones = <<>> /\ store.reservations = <<>>
      /\ store.reserved = 0
      /\ store = [entries |-> store.entries, tombstones |-> store.tombstones,
                  reserved |-> store.reserved, reservations |-> store.reservations]
  BY DEF StoreInit
<1>2. /\ Live(store) = {} /\ DOMAIN store.tombstones = {} /\ DOMAIN store.reservations = {}
  BY <1>1 DEF Live
<1>3. /\ store.entries \in [Live(store) -> Entry]
      /\ store.tombstones \in [DOMAIN store.tombstones -> Tombstone]
      /\ store.reservations \in [DOMAIN store.reservations -> Reservation]
  BY <1>1, <1>2
<1>4. IsFiniteSet({}) /\ Cardinality({}) = 0
  BY FS_EmptySet
<1>5. Typed(store)
  BY <1>1, <1>2, <1>3, <1>4 DEF Typed
<1>6. Slots(store, ActiveReservations(store)) = {}
  BY <1>2 DEF Slots, ActiveReservations
<1>7. Counted(store)
  BY <1>1, <1>2, <1>4, <1>6 DEF Counted, StoreAssumption
<1>8. \A time : Early(store, time) = {}
  BY <1>2 DEF Early
<1>9. Remembering(store)
  BY <1>2, <1>4, <1>8 DEF Remembering, StoreAssumption
<1>10. QED
  BY <1>2, <1>5, <1>7, <1>9 DEF StoreInit, StoreInvariant, Sound, Placed, StoreAssumption

LEMMA StutterKeeps ==
  ASSUME StoreInvariant, UNCHANGED storeVars
  PROVE  StoreInvariant' /\ ForgetsWhatIsOver
  BY DEF storeVars, StoreInvariant, ForgetsWhatIsOver, Sound, Typed, Counted, Remembering,
         Early, Placed, Slots, ActiveReservations, Live

\* Every step of the store, whoever takes it.
LEMMA NextKeeps ==
  ASSUME StoreAssumption, StoreInvariant, [StoreNext]_storeVars
  PROVE  StoreInvariant' /\ ForgetsWhatIsOver
<1>1. ASSUME NEW r \in Reservations, NEW n \in 1..Capacity, Reserve(r, n)
      PROVE  StoreInvariant' /\ ForgetsWhatIsOver
  <2>1. n \in Nat
    BY DEF StoreAssumption
  <2>2. QED
    BY <1>1, <2>1, ReserveKeeps
<1>2. ASSUME NEW r, Release(r) \/ Begin(r)
      PROVE  StoreInvariant' /\ ForgetsWhatIsOver
  BY <1>2, ReleaseKeeps, BeginKeeps
<1>3. ASSUME NEW h, NEW state \in HandleStates, NEW r, IssueReserved(h, TypeOf[h], state, r)
      PROVE  StoreInvariant' /\ ForgetsWhatIsOver
  BY <1>3, IssueReservedKeeps
<1>4. ASSUME NEW h, NEW state \in HandleStates, Issue(h, TypeOf[h], state)
      PROVE  StoreInvariant' /\ ForgetsWhatIsOver
  BY <1>4, IssueKeeps
<1>5. ASSUME NEW h, NEW state \in HandleStates,
             Transition(h, TypeOf[h], state) \/ Complete(h, TypeOf[h], state)
      PROVE  StoreInvariant' /\ ForgetsWhatIsOver
  BY <1>5, TransitionKeeps, CompleteKeeps
<1>6. ASSUME NEW h, Consume(h, TypeOf[h])
      PROVE  StoreInvariant' /\ ForgetsWhatIsOver
  BY <1>6, ConsumeKeeps
<1>7. QED
  BY <1>1, <1>2, <1>3, <1>4, <1>5, <1>6, ResolveKeeps, CountKeeps, TickKeeps, StutterKeeps
  DEF StoreNext

-----------------------------------------------------------------------------
(* The theorems. StoreAssumption is an assumption of HandleStore. *)

\* The inductive invariant holds in every state of the registry.
THEOREM StoreInvariantHolds == StoreSpec => []StoreInvariant
<1>1. StoreInit => StoreInvariant
  BY StoreAssumption, InitKeeps
<1>2. StoreInvariant /\ [StoreNext]_storeVars => StoreInvariant'
  BY StoreAssumption, NextKeeps
<1>3. QED
  BY <1>1, <1>2, PTL DEF StoreSpec

\* Every part of the registry has its type, and no handle is both live and remembered as stale.
THEOREM StoreTypeCorrect == StoreSpec => []StoreTypeOK
<1>1. StoreInvariant => StoreTypeOK
  BY DEF StoreInvariant, Sound, Typed, Placed, StoreTypeOK
<1>2. QED
  BY <1>1, StoreInvariantHolds, PTL

\* _reserved_slots is exact for every order of lapsing, taking, releasing and releasing again.
THEOREM ReservedAlwaysExact == StoreSpec => []ReservedIsExact
<1>1. StoreInvariant => ReservedIsExact
  BY DEF StoreInvariant, Sound, Counted, ReservedIsExact
<1>2. QED
  BY <1>1, StoreInvariantHolds, PTL

\* Live entries and reserved slots stay within _max_entries.
THEOREM AlwaysWithinCapacity == StoreSpec => []WithinCapacity
<1>1. StoreInvariant => WithinCapacity
  BY DEF StoreInvariant, Sound, Counted, WithinCapacity
<1>2. QED
  BY <1>1, StoreInvariantHolds, PTL

\* What could become a tombstone together never exceeds the capacity.
THEOREM StaleAlwaysFits == StoreSpec => []StaleFits
<1>1. StoreInvariant => StaleFits
  BY DEF StoreInvariant, Sound, Remembering, Early, StaleFits
<1>2. QED
  BY <1>1, StoreInvariantHolds, PTL

\* The eviction in _remember_stale_locked never drops a tombstone before its time.
THEOREM StaleAlwaysRemembered == StoreSpec => StaleIsRemembered
<1>1. StoreInvariant /\ [StoreNext]_storeVars => ForgetsWhatIsOver
  BY StoreAssumption, NextKeeps
<1>2. StoreInvariant /\ [StoreNext]_storeVars => [ForgetsWhatIsOver]_storeVars
  BY <1>1
<1>3. StoreSpec => [][ForgetsWhatIsOver]_storeVars
  BY <1>2, StoreInvariantHolds, PTL DEF StoreSpec
<1>4. QED
  BY <1>3 DEF StaleIsRemembered, ForgetsWhatIsOver
=============================================================================
