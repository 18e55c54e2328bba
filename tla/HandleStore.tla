----------------------------- MODULE HandleStore -----------------------------
(***************************************************************************)
(* OpaqueHandleStore (dwi/mcp/state_store.py): the bounded in-memory       *)
(* registry behind the MCP tools.  Every operation takes the store's lock, *)
(* first purges what has expired, and then reads or changes the registry,  *)
(* so each is one action.                                                  *)
(*                                                                         *)
(* The text of a handle starts with its type, so the type is a constant of *)
(* the handle.  The payload of a live entry is the business of the module  *)
(* that issues it (McpService).                                            *)
(***************************************************************************)
EXTENDS Integers, FiniteSets, Functions

CONSTANTS
  Handles,       \* the texts secrets.token_urlsafe may produce
  TypeOf,        \* the handle type each of them starts with
  HandleStates,  \* McpHandleState
  Reservations,  \* the HandleReservation objects
  Capacity,      \* _max_entries
  Ttl,           \* _ttl_seconds
  MaxTime        \* bound on the clock

ASSUME StoreAssumption ==
  /\ Capacity \in Nat \ {0}
  /\ Ttl \in Nat \ {0}
  /\ MaxTime \in Nat
  /\ "EXECUTING" \in HandleStates

VARIABLES
  now,     \* the monotonic clock
  issued,  \* the texts that were ever drawn: a random text is not drawn again
  store    \* entries, tombstones, _reserved_slots and the reservations

storeVars == <<now, issued, store>>

Entry == [state : HandleStates, consumed : BOOLEAN, expires : Nat]
Tombstone == [expires : Nat]
Reservation == [remaining : Nat, expires : Nat, active : BOOLEAN, inFlight : BOOLEAN]

StoreInit ==
  /\ now = 0
  /\ issued = {}
  /\ store = [entries |-> <<>>, tombstones |-> <<>>, reserved |-> 0, reservations |-> <<>>]

-----------------------------------------------------------------------------
(* Expiry. *)

Live(s) == DOMAIN s.entries

ExpiredIn(f) == {x \in DOMAIN f : now >= f[x].expires}

\* The slots the reservations of rs still hold, one element for each.
Slots(s, rs) == {slot \in rs \X (1..Capacity) : slot[2] <= s.reservations[slot[1]].remaining}

Released(reservation) == [reservation EXCEPT !.remaining = 0, !.active = FALSE]

ActiveReservations(s) == {r \in DOMAIN s.reservations : s.reservations[r].active}

\* A reservation lapses with its TTL, unless its operation has begun.
Lapsed(s) == {r \in ActiveReservations(s) \cap ExpiredIn(s.reservations) :
                ~s.reservations[r].inFlight}

\* Variant: one tombstone fewer than the capacity.
Newest_OneFewer(tombstones) ==
  IF Cardinality(DOMAIN tombstones) < Capacity THEN tombstones
  ELSE LET Keeps(kept) == /\ Cardinality(kept) = Capacity - 1
                          /\ \A h \in kept, g \in DOMAIN tombstones \ kept :
                               tombstones[g].expires <= tombstones[h].expires
       IN  Restrict(tombstones, CHOOSE kept \in SUBSET DOMAIN tombstones : Keeps(kept))

\* More tombstones than the capacity: the oldest are dropped.
Newest(tombstones) ==
  IF Cardinality(DOMAIN tombstones) <= Capacity THEN tombstones
  ELSE LET Keeps(kept) == /\ Cardinality(kept) = Capacity
                          /\ \A h \in kept, g \in DOMAIN tombstones \ kept :
                               tombstones[g].expires <= tombstones[h].expires
       IN  Restrict(tombstones, CHOOSE kept \in SUBSET DOMAIN tombstones : Keeps(kept))

\* An expired entry leaves a tombstone that lives for one more TTL.
Remembered(s) ==
  LET older == DOMAIN s.tombstones \ ExpiredIn(s.tombstones)
      gone  == ExpiredIn(s.entries)
  IN  Newest([h \in older \cup gone |->
                IF h \in gone THEN [expires |-> now + Ttl] ELSE s.tombstones[h]])

Purge(s) ==
  [entries      |-> Restrict(s.entries, Live(s) \ ExpiredIn(s.entries)),
   tombstones   |-> Remembered(s),
   reserved     |-> s.reserved - Cardinality(Slots(s, Lapsed(s))),
   reservations |-> [r \in DOMAIN s.reservations |->
                       IF r \in Lapsed(s) THEN Released(s.reservations[r])
                                          ELSE s.reservations[r]]]

Purged == Purge(store)

-----------------------------------------------------------------------------
(* What an operation finds in a purged store s, and what it makes of it.   *)

\* _resolve_locked raises WRONG_HANDLE_TYPE, CONSUMED_HANDLE, STALE_HANDLE or INVALID_HANDLE
\* when this does not hold.
Resolves(s, h, type, allowConsumed) ==
  /\ h \in Live(s)
  /\ TypeOf[h] = type
  /\ allowConsumed \/ ~s.entries[h].consumed

CanReserve(s, n) == Cardinality(Live(s)) + s.reserved + n <= Capacity

\* Variant: reserved slots are not counted.
HasRoom_Unreserved(s) == Cardinality(Live(s)) < Capacity

HasRoom(s) == Cardinality(Live(s)) + s.reserved < Capacity

CanTake(s, r) ==
  /\ r \in ActiveReservations(s)
  /\ s.reservations[r].remaining > 0

CanBegin(s, r) == r \in ActiveReservations(s)

\* A text that is neither a live handle nor a remembered one; the draw never repeats.
Fresh(h, type) == h \in Handles \ issued /\ TypeOf[h] = type

\* No operation touches the tombstones of a purged store.
Changed(s, entries, reserved, reservations) ==
  [entries |-> entries, tombstones |-> s.tombstones,
   reserved |-> reserved, reservations |-> reservations]

WithReservation(s, r, n) ==
  Changed(s, s.entries, s.reserved + n,
          [q \in DOMAIN s.reservations \cup {r} |->
             IF q = r THEN [remaining |-> n, expires |-> now + Ttl,
                            active |-> TRUE, inFlight |-> FALSE]
                      ELSE s.reservations[q]])

\* Variant: a reservation gives its slots back each time it is released.
Without_Again(s, r) ==
  Changed(s, s.entries, s.reserved - s.reservations[r].remaining,
          [s.reservations EXCEPT ![r].active = FALSE])

Without(s, r) ==
  IF r \in ActiveReservations(s)
  THEN Changed(s, s.entries, s.reserved - s.reservations[r].remaining,
               [s.reservations EXCEPT ![r] = Released(@)])
  ELSE s

Begun(s, r) ==
  Changed(s, s.entries, s.reserved, [s.reservations EXCEPT ![r].inFlight = TRUE])

WithEntry(s, h, state) ==
  Changed(s, [g \in Live(s) \cup {h} |->
                IF g = h THEN [state |-> state, consumed |-> FALSE, expires |-> now + Ttl]
                         ELSE s.entries[g]],
          s.reserved, s.reservations)

TakeFrom(s, r) ==
  Changed(s, s.entries, s.reserved - 1, [s.reservations EXCEPT ![r].remaining = @ - 1])

WithState(s, h, state) ==
  Changed(s, [s.entries EXCEPT ![h].state = state], s.reserved, s.reservations)

Consumed(s, h) ==
  Changed(s, [s.entries EXCEPT ![h].state = "EXECUTING", ![h].consumed = TRUE],
          s.reserved, s.reservations)

-----------------------------------------------------------------------------
(* The operations. An operation that raises has purged the store. *)

Reserve(r, n) ==
  /\ r \notin DOMAIN store.reservations
  /\ store' = IF CanReserve(Purged, n) THEN WithReservation(Purged, r, n) ELSE Purged
  /\ UNCHANGED <<now, issued>>

\* release() does not purge.
Release(r) ==
  /\ store' = Without(store, r)
  /\ UNCHANGED <<now, issued>>

Begin(r) ==
  /\ store' = IF CanBegin(Purged, r) THEN Begun(Purged, r) ELSE Purged
  /\ UNCHANGED <<now, issued>>

IssueReserved(h, type, state, r) ==
  IF CanTake(Purged, r)
  THEN /\ Fresh(h, type)
       /\ store' = WithEntry(TakeFrom(Purged, r), h, state)
       /\ issued' = issued \cup {h}
       /\ UNCHANGED now
  ELSE store' = Purged /\ UNCHANGED <<now, issued>>

Issue(h, type, state) ==
  IF HasRoom(Purged)
  THEN /\ Fresh(h, type)
       /\ store' = WithEntry(Purged, h, state)
       /\ issued' = issued \cup {h}
       /\ UNCHANGED now
  ELSE store' = Purged /\ UNCHANGED <<now, issued>>

\* resolve(), state() and live_entry_count: only the purge changes the store.
Resolve ==
  /\ store' = Purged
  /\ UNCHANGED <<now, issued>>

\* tombstone_count purges only the tombstones.
CountTombstones ==
  /\ store' = [store EXCEPT !.tombstones = Restrict(@, DOMAIN @ \ ExpiredIn(@))]
  /\ UNCHANGED <<now, issued>>

Transition(h, type, state) ==
  /\ store' = IF Resolves(Purged, h, type, FALSE) THEN WithState(Purged, h, state) ELSE Purged
  /\ UNCHANGED <<now, issued>>

Consume(h, type) ==
  /\ store' = IF Resolves(Purged, h, type, FALSE) THEN Consumed(Purged, h) ELSE Purged
  /\ UNCHANGED <<now, issued>>

\* Variant: completing an operation renews the TTL of its handle.
Complete_Renews(h, type, state) ==
  /\ store' = IF Resolves(Purged, h, type, TRUE)
              THEN Changed(Purged,
                           [Purged.entries EXCEPT ![h].state = state, ![h].expires = now + Ttl],
                           Purged.reserved, Purged.reservations)
              ELSE Purged
  /\ UNCHANGED <<now, issued>>

Complete(h, type, state) ==
  /\ store' = IF Resolves(Purged, h, type, TRUE) THEN WithState(Purged, h, state) ELSE Purged
  /\ UNCHANGED <<now, issued>>

Tick ==
  /\ now < MaxTime
  /\ now' = now + 1
  /\ UNCHANGED <<issued, store>>

StoreNext ==
  \/ \E r \in Reservations, n \in 1..Capacity : Reserve(r, n)
  \/ \E r \in DOMAIN store.reservations : Release(r) \/ Begin(r)
  \/ \E h \in Handles, state \in HandleStates, r \in DOMAIN store.reservations :
       IssueReserved(h, TypeOf[h], state, r)
  \/ \E h \in Handles, state \in HandleStates : Issue(h, TypeOf[h], state)
  \/ Resolve \/ CountTombstones
  \/ \E h \in issued, state \in HandleStates :
       Transition(h, TypeOf[h], state) \/ Complete(h, TypeOf[h], state)
  \/ \E h \in issued : Consume(h, TypeOf[h])
  \/ Tick

StoreSpec == StoreInit /\ [][StoreNext]_storeVars

-----------------------------------------------------------------------------
(* What the store promises. *)

\* Every part of the store has its type; a handle is live or remembered but not both.
StoreTypeOK ==
  /\ now \in 0..MaxTime
  /\ issued \subseteq Handles
  /\ store = [entries |-> store.entries, tombstones |-> store.tombstones,
              reserved |-> store.reserved, reservations |-> store.reservations]
  /\ Live(store) \subseteq issued
  /\ store.entries \in [Live(store) -> Entry]
  /\ DOMAIN store.tombstones \subseteq issued \ Live(store)
  /\ store.tombstones \in [DOMAIN store.tombstones -> Tombstone]
  /\ DOMAIN store.reservations \subseteq Reservations
  /\ store.reservations \in [DOMAIN store.reservations -> Reservation]

\* The counter _reserved_slots is what the active reservations still hold, whatever lapsed, was
\* taken or given back, also twice.
ReservedIsExact == store.reserved = Cardinality(Slots(store, ActiveReservations(store)))

\* Live entries and reserved slots together stay within _max_entries: reserve() and issue() never
\* hand out the same room twice.
WithinCapacity == Cardinality(Live(store)) + store.reserved <= Capacity

\* The handles whose tombstones outlive a time, with the handles that expire before it, are no
\* more than the capacity: when the first of these tombstones was made, all of them were live.
StaleFits ==
  \A time \in 0..(MaxTime + Ttl) :
    Cardinality({h \in DOMAIN store.tombstones : store.tombstones[h].expires >= time}
                  \cup {h \in Live(store) : store.entries[h].expires < time}) <= Capacity

\* A tombstone goes only when its time is over: although _remember_stale_locked evicts the oldest
\* beyond the capacity, the capacity of live entries already keeps their number down.
StaleIsRemembered ==
  [][\A h \in DOMAIN store.tombstones \ DOMAIN store'.tombstones :
        now >= store.tombstones[h].expires]_storeVars
=============================================================================
