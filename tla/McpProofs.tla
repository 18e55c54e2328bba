------------------------------- MODULE McpProofs -------------------------------
(***************************************************************************)
(* Theorems about McpService, for any number of threads, handles and plan  *)
(* items, any capacity and any TTL.                                        *)
(*                                                                         *)
(* Every step of the service is a step of the store, or leaves the store   *)
(* alone; so what HandleStoreProofs proves of the store holds here too.    *)
(* The rest is an invariant of the calls under way (CallOK), of the        *)
(* executions (ExecutionOK) and of the reviews (ReviewOK).                 *)
(***************************************************************************)
EXTENDS McpService, HandleStoreProofs

-----------------------------------------------------------------------------
(* What an operation of the store leaves alone. *)

\* No handle comes back, lives longer or loses its mark, and none goes before an older one.
EntriesKept ==
  /\ now' >= now /\ now' \in Nat
  /\ issued \subseteq issued'
  /\ \A h \in Live(store') \cap issued :
       /\ h \in Live(store)
       /\ store'.entries[h].expires = store.entries[h].expires
       /\ store.entries[h].consumed => store'.entries[h].consumed
  /\ \A h \in Live(store') \ issued : store'.entries[h].expires = now' + Ttl
  /\ \A h \in Live(store) \ Live(store'), g \in Live(store) \cap Live(store') :
       store.entries[h].expires < store.entries[g].expires

\* A reservation may lapse, unless its operation is under way, and nothing else.
ReservationKept(q) ==
  store'.reservations[q].active \/ store.reservations[q].inFlight
    => store'.reservations[q] = store.reservations[q]

\* The operation is about the reservations of S and issues at most the handles of new.
StoreKept(S, new) ==
  /\ EntriesKept
  /\ issued' \subseteq issued \cup new
  /\ DOMAIN store.reservations \subseteq DOMAIN store'.reservations
  /\ DOMAIN store'.reservations \subseteq DOMAIN store.reservations \cup S
  /\ \A q \in DOMAIN store.reservations \ S : ReservationKept(q)

\* A purge drops the expired entries and lets reservations lapse.
LEMMA PurgedEntries ==
  ASSUME StoreAssumption, StoreInvariant
  PROVE  /\ Live(Purged) = Live(store) \ ExpiredIn(store.entries)
         /\ Live(Purged) \subseteq issued
         /\ \A h \in Live(Purged) : Purged.entries[h] = store.entries[h]
         /\ \A h \in Live(store) : store.entries[h] \in Entry
         /\ \A h \in Live(store) \ Live(Purged), g \in Live(Purged) :
              store.entries[h].expires < store.entries[g].expires
<1>1. Live(Purged) = Live(store) \ ExpiredIn(store.entries)
  BY PurgeSound DEF StoreInvariant, Purged
<1>2. \A h \in Live(Purged) : Purged.entries[h] = store.entries[h]
  BY <1>1 DEF Purged, Purge, Restrict
<1>3. Live(store) \subseteq issued /\ \A h \in Live(store) : store.entries[h] \in Entry
  BY DEF StoreInvariant, Sound, Typed, Placed
<1>4. \A h \in Live(store) \ Live(Purged), g \in Live(Purged) :
        store.entries[h].expires < store.entries[g].expires
  BY <1>1, <1>3 DEF ExpiredIn, Live, Entry, StoreInvariant, StoreAssumption
<1>5. QED
  BY <1>1, <1>2, <1>3, <1>4

LEMMA PurgedReservations ==
  ASSUME StoreAssumption, StoreInvariant
  PROVE  /\ DOMAIN Purged.reservations = DOMAIN store.reservations
         /\ \A q \in DOMAIN store.reservations :
              /\ store.reservations[q] \in Reservation
              /\ Purged.reservations[q] \in Reservation
              /\ Purged.reservations[q].active \/ store.reservations[q].inFlight
                   => Purged.reservations[q] = store.reservations[q]
<1>1. /\ DOMAIN Purged.reservations = DOMAIN store.reservations
      /\ \A q \in DOMAIN store.reservations :
           Purged.reservations[q] = IF q \in Lapsed(store) THEN Released(store.reservations[q])
                                                           ELSE store.reservations[q]
  BY DEF Purged, Purge
<1>2. \A q \in DOMAIN store.reservations : store.reservations[q] \in Reservation
  BY DEF StoreInvariant, Sound, Typed
<1>3. \A q \in DOMAIN store.reservations : /\ Released(store.reservations[q]) \in Reservation
                                           /\ ~Released(store.reservations[q]).active
  BY <1>2 DEF Released, Reservation
<1>4. \A q \in Lapsed(store) : ~store.reservations[q].inFlight
  BY DEF Lapsed
<1>5. QED
  BY <1>1, <1>2, <1>3, <1>4

\* An operation that leaves the lifetime of the entries alone keeps them.
LEMMA SameEntries ==
  ASSUME StoreAssumption, StoreInvariant, UNCHANGED now, issued \subseteq issued',
         Live(store') = Live(Purged),
         \A h \in Live(Purged) :
           /\ store'.entries[h].expires = Purged.entries[h].expires
           /\ Purged.entries[h].consumed => store'.entries[h].consumed
  PROVE  EntriesKept
  BY PurgedEntries DEF EntriesKept, StoreInvariant, StoreAssumption

LEMMA ResolveLeaves ==
  ASSUME StoreAssumption, StoreInvariant, Resolve
  PROVE  StoreKept({}, {})
<1>1. EntriesKept
  BY SameEntries DEF Resolve
<1>2. QED
  BY <1>1, PurgedReservations DEF Resolve, StoreKept, ReservationKept

\* The entry of h changes in all but its lifetime.
LEMMA UpdateLeaves ==
  ASSUME StoreAssumption, StoreInvariant, UNCHANGED <<now, issued>>,
         NEW h \in Live(Purged), NEW e, e.expires = Purged.entries[h].expires,
         Purged.entries[h].consumed => e.consumed,
         store' = Changed(Purged, [Purged.entries EXCEPT ![h] = e],
                          Purged.reserved, Purged.reservations)
  PROVE  StoreKept({}, {})
<1>1. /\ store'.entries = [Purged.entries EXCEPT ![h] = e]
      /\ store'.reservations = Purged.reservations
  BY DEF Changed
<1>2. EntriesKept
  BY <1>1, SameEntries DEF Live
<1>3. QED
  BY <1>1, <1>2, PurgedReservations DEF StoreKept, ReservationKept

LEMMA WithStateLeaves ==
  ASSUME StoreAssumption, StoreInvariant, UNCHANGED <<now, issued>>,
         NEW h \in Live(Purged), NEW state, store' = WithState(Purged, h, state)
  PROVE  StoreKept({}, {})
<1> DEFINE e == [Purged.entries[h] EXCEPT !.state = state]
<1>1. Purged.entries[h] \in Entry
  BY PurgedEntries
<1>2. e.expires = Purged.entries[h].expires /\ e.consumed = Purged.entries[h].consumed
  BY <1>1 DEF Entry
<1>3. store' = Changed(Purged, [Purged.entries EXCEPT ![h] = e],
                       Purged.reserved, Purged.reservations)
  BY DEF WithState
<1>4. QED
  BY <1>2, <1>3, UpdateLeaves

LEMMA TransitionLeaves ==
  ASSUME StoreAssumption, StoreInvariant, NEW h, NEW type, NEW state, Transition(h, type, state)
  PROVE  StoreKept({}, {})
<1>1. CASE Resolves(Purged, h, type, FALSE)
  BY <1>1, WithStateLeaves DEF Transition, Resolves
<1>2. CASE ~Resolves(Purged, h, type, FALSE)
  BY <1>2, ResolveLeaves DEF Transition, Resolve
<1>3. QED
  BY <1>1, <1>2

LEMMA CompleteLeaves ==
  ASSUME StoreAssumption, StoreInvariant, NEW h, NEW type, NEW state, Complete(h, type, state)
  PROVE  StoreKept({}, {})
<1>1. CASE Resolves(Purged, h, type, TRUE)
  BY <1>1, WithStateLeaves DEF Complete, Resolves
<1>2. CASE ~Resolves(Purged, h, type, TRUE)
  BY <1>2, ResolveLeaves DEF Complete, Resolve
<1>3. QED
  BY <1>1, <1>2

\* The handle that Consume finds usable is spent afterwards.
LEMMA ConsumeLeaves ==
  ASSUME StoreAssumption, StoreInvariant, NEW h, NEW type, Consume(h, type)
  PROVE  /\ StoreKept({}, {})
         /\ Resolves(Purged, h, type, FALSE) => store'.entries[h].consumed
<1>1. CASE Resolves(Purged, h, type, FALSE)
  <2> DEFINE e == [Purged.entries[h] EXCEPT !.state = "EXECUTING", !.consumed = TRUE]
  <2>1. h \in Live(Purged) /\ Purged.entries[h] \in Entry
    BY <1>1, PurgedEntries DEF Resolves
  <2>2. e.expires = Purged.entries[h].expires /\ e.consumed = TRUE
    BY <2>1 DEF Entry
  <2>3. store' = Changed(Purged, [Purged.entries EXCEPT ![h] = e],
                         Purged.reserved, Purged.reservations)
    BY <1>1, <2>1 DEF Consume, Consumed, Live
  <2>4. store'.entries[h].consumed
    BY <2>1, <2>2, <2>3 DEF Changed, Live
  <2>5. QED
    BY <2>1, <2>2, <2>3, <2>4, UpdateLeaves DEF Consume
<1>2. CASE ~Resolves(Purged, h, type, FALSE)
  BY <1>2, ResolveLeaves DEF Consume, Resolve
<1>3. QED
  BY <1>1, <1>2

\* A new entry expires one TTL from now.
LEMMA EntryLeaves ==
  ASSUME StoreAssumption, StoreInvariant, UNCHANGED now, NEW h, h \notin issued,
         issued' = issued \cup {h}, NEW state, NEW s, s.entries = Purged.entries,
         store' = WithEntry(s, h, state)
  PROVE  /\ EntriesKept
         /\ h \in Live(store') /\ store'.entries[h].expires = now + Ttl
         /\ ~store'.entries[h].consumed
         /\ store'.reservations = s.reservations
<1>1. /\ store'.entries = [g \in Live(Purged) \cup {h} |->
            IF g = h THEN [state |-> state, consumed |-> FALSE, expires |-> now + Ttl]
                     ELSE Purged.entries[g]]
      /\ store'.reservations = s.reservations
  BY DEF WithEntry, Changed, Live
<1>2. /\ store'.entries[h].expires = now + Ttl
      /\ ~store'.entries[h].consumed
  BY <1>1
<1>3. h \notin Live(Purged)
  BY PurgedEntries
<1>4. Live(store') = Live(Purged) \cup {h}
      /\ \A g \in Live(Purged) : store'.entries[g] = Purged.entries[g]
  BY <1>1, <1>3 DEF Live
<1>5. EntriesKept
  <2>1. Live(store') \cap issued = Live(Purged) /\ Live(store') \ issued = {h}
    BY <1>4, PurgedEntries
  <2>2. \A g \in Live(Purged) : g \in Live(store) /\ store'.entries[g] = store.entries[g]
    BY <1>4, PurgedEntries
  <2>3. /\ Live(store) \ Live(store') = Live(store) \ Live(Purged)
        /\ Live(store) \cap Live(store') = Live(Purged)
    BY <2>1, PurgedEntries DEF StoreInvariant, Placed
  <2>4. \A g \in Live(store) \ Live(store'), k \in Live(store) \cap Live(store') :
          store.entries[g].expires < store.entries[k].expires
    BY <2>3, PurgedEntries
  <2>5. now' >= now /\ now' \in Nat
    BY DEF StoreInvariant, StoreAssumption
  <2>6. QED
    BY <1>2, <2>1, <2>2, <2>4, <2>5 DEF EntriesKept
<1>6. QED
  BY <1>1, <1>2, <1>4, <1>5

LEMMA IssueLeaves ==
  ASSUME StoreAssumption, StoreInvariant, NEW h, NEW type, NEW state, Issue(h, type, state)
  PROVE  StoreKept({}, {g \in Handles : TypeOf[g] = type}) /\ (HasRoom(Purged) => h \notin issued)
<1>1. CASE HasRoom(Purged)
  <2>1. /\ store' = WithEntry(Purged, h, state) /\ issued' = issued \cup {h} /\ UNCHANGED now
        /\ h \in Handles /\ h \notin issued /\ TypeOf[h] = type
    BY <1>1 DEF Issue, Fresh
  <2>2. EntriesKept /\ store'.reservations = Purged.reservations
    BY <2>1, EntryLeaves
  <2>3. QED
    BY <2>1, <2>2, PurgedReservations DEF StoreKept, ReservationKept
<1>2. CASE ~HasRoom(Purged)
  <2>1. StoreKept({}, {})
    BY <1>2, ResolveLeaves DEF Issue, Resolve
  <2>2. QED
    BY <1>2, <2>1 DEF StoreKept
<1>3. QED
  BY <1>1, <1>2

\* The handle that is issued takes one slot of the reservation, which stays what it was.
LEMMA IssueReservedLeaves ==
  ASSUME StoreAssumption, StoreInvariant,
         NEW h, NEW type, NEW state, NEW r, IssueReserved(h, type, state, r)
  PROVE  /\ StoreKept({r}, {h}) /\ DOMAIN store'.reservations = DOMAIN store.reservations
         /\ CanTake(Purged, r) =>
              /\ h \in Handles \ issued /\ TypeOf[h] = type /\ issued' = issued \cup {h}
              /\ h \in Live(store') /\ store'.entries[h].expires = now' + Ttl
              /\ ~store'.entries[h].consumed
              /\ r \in DOMAIN store.reservations
              /\ store.reservations[r].active /\ store'.reservations[r].active
              /\ store'.reservations[r].inFlight = store.reservations[r].inFlight
              /\ store'.reservations[r].remaining = store.reservations[r].remaining - 1
         /\ ~CanTake(Purged, r) => StoreKept({}, {})
<1>1. CASE CanTake(Purged, r)
  <2> DEFINE s == TakeFrom(Purged, r)
             less == [Purged.reservations[r] EXCEPT !.remaining = @ - 1]
  <2>1. /\ store' = WithEntry(s, h, state) /\ issued' = issued \cup {h} /\ UNCHANGED now
        /\ h \in Handles /\ h \notin issued /\ TypeOf[h] = type
    BY <1>1 DEF IssueReserved, Fresh
  <2>2. s.entries = Purged.entries /\ s.reservations = [Purged.reservations EXCEPT ![r] = less]
    BY DEF TakeFrom, Changed
  <2>3. /\ r \in DOMAIN store.reservations /\ Purged.reservations[r].active
        /\ Purged.reservations[r] = store.reservations[r] /\ store.reservations[r] \in Reservation
    BY <1>1, PurgedReservations DEF CanTake, ActiveReservations
  <2>4. /\ less.active = store.reservations[r].active
        /\ less.inFlight = store.reservations[r].inFlight
        /\ less.remaining = store.reservations[r].remaining - 1
    BY <2>3 DEF Reservation
  <2> HIDE DEF s, less
  <2>5. /\ EntriesKept /\ store'.reservations = s.reservations
        /\ h \in Live(store') /\ store'.entries[h].expires = now + Ttl
        /\ ~store'.entries[h].consumed
    BY <2>1, <2>2, EntryLeaves
  <2>6. /\ DOMAIN store'.reservations = DOMAIN store.reservations
        /\ store'.reservations[r] = less
        /\ \A q \in DOMAIN store.reservations \ {r} :
             store'.reservations[q] = Purged.reservations[q]
    BY <2>2, <2>3, <2>5, PurgedReservations
  <2>7. StoreKept({r}, {h})
    BY <2>1, <2>5, <2>6, PurgedReservations DEF StoreKept, ReservationKept
  <2>8. QED
    BY <1>1, <2>1, <2>3, <2>4, <2>5, <2>6, <2>7
<1>2. CASE ~CanTake(Purged, r)
  <2>1. StoreKept({}, {})
    BY <1>2, ResolveLeaves DEF IssueReserved, Resolve
  <2>2. QED
    BY <1>2, <2>1 DEF StoreKept
<1>3. QED
  BY <1>1, <1>2

LEMMA ReserveLeaves ==
  ASSUME StoreAssumption, StoreInvariant, NEW r, NEW n \in Nat, Reserve(r, n)
  PROVE  /\ StoreKept({r}, {}) /\ r \notin DOMAIN store.reservations
         /\ CanReserve(Purged, n) =>
              /\ r \in DOMAIN store'.reservations
              /\ store'.reservations[r].remaining = n
              /\ ~store'.reservations[r].inFlight
         /\ ~CanReserve(Purged, n) => StoreKept({}, {})
<1>1. r \notin DOMAIN store.reservations /\ UNCHANGED <<now, issued>>
  BY DEF Reserve
<1>2. CASE CanReserve(Purged, n)
  <2> DEFINE held == [remaining |-> n, expires |-> now + Ttl, active |-> TRUE, inFlight |-> FALSE]
  <2>1. store' = WithReservation(Purged, r, n)
    BY <1>2 DEF Reserve
  <2>2. /\ store'.entries = Purged.entries
        /\ store'.reservations = [q \in DOMAIN store.reservations \cup {r} |->
                                    IF q = r THEN held ELSE Purged.reservations[q]]
    BY <2>1, PurgedReservations DEF WithReservation, Changed
  <2>3. EntriesKept
    BY <1>1, <2>2, SameEntries DEF Live
  <2>4. StoreKept({r}, {})
    BY <1>1, <2>2, <2>3, PurgedReservations DEF StoreKept, ReservationKept
  <2>5. store'.reservations[r] = held /\ r \in DOMAIN store'.reservations
    BY <2>2
  <2>6. QED
    BY <1>1, <1>2, <2>4, <2>5
<1>3. CASE ~CanReserve(Purged, n)
  <2>1. StoreKept({}, {})
    BY <1>3, ResolveLeaves DEF Reserve, Resolve
  <2>2. QED
    BY <1>1, <1>3, <2>1 DEF StoreKept
<1>4. QED
  BY <1>2, <1>3

\* A reservation that is released is not active, whatever it was.
LEMMA ReleaseLeaves ==
  ASSUME StoreAssumption, StoreInvariant, NEW r, Release(r)
  PROVE  /\ StoreKept({r}, {}) /\ DOMAIN store'.reservations = DOMAIN store.reservations
         /\ r \notin ActiveReservations(store')
<1>1. \A q \in DOMAIN store.reservations : store.reservations[q] \in Reservation
  BY PurgedReservations
<1>2. EntriesKept /\ store'.entries = store.entries
  <2>1. store'.entries = store.entries /\ UNCHANGED <<now, issued>>
    BY DEF Release, Without, Changed
  <2>2. QED
    BY <2>1 DEF EntriesKept, Live, StoreInvariant, Sound, Placed, StoreAssumption
<1>3. CASE r \in ActiveReservations(store)
  <2>1. store'.reservations = [store.reservations EXCEPT ![r] = Released(store.reservations[r])]
    BY <1>3 DEF Release, Without, Changed
  <2>2. r \in DOMAIN store.reservations /\ ~Released(store.reservations[r]).active
    BY <1>1, <1>3 DEF ActiveReservations, Released, Reservation
  <2>3. ~store'.reservations[r].active
    BY <2>1, <2>2
  <2>4. QED
    BY <1>2, <2>1, <2>3 DEF StoreKept, ReservationKept, Release, ActiveReservations
<1>4. CASE r \notin ActiveReservations(store)
  BY <1>2, <1>4 DEF StoreKept, ReservationKept, Release, Without
<1>5. QED
  BY <1>3, <1>4

LEMMA BeginLeaves ==
  ASSUME StoreAssumption, StoreInvariant, NEW r, Begin(r)
  PROVE  /\ StoreKept({r}, {}) /\ DOMAIN store'.reservations = DOMAIN store.reservations
         /\ CanBegin(Purged, r) =>
              /\ r \in DOMAIN store.reservations
              /\ store.reservations[r].active
              /\ store'.reservations[r].active /\ store'.reservations[r].inFlight
              /\ store'.reservations[r].remaining = store.reservations[r].remaining
         /\ ~CanBegin(Purged, r) => StoreKept({}, {})
<1>1. CASE CanBegin(Purged, r)
  <2> DEFINE begun == [Purged.reservations[r] EXCEPT !.inFlight = TRUE]
  <2>1. /\ store'.entries = Purged.entries
        /\ store'.reservations = [Purged.reservations EXCEPT ![r] = begun]
        /\ UNCHANGED <<now, issued>>
    BY <1>1 DEF Begin, Begun, Changed
  <2>2. /\ r \in DOMAIN store.reservations /\ Purged.reservations[r].active
        /\ Purged.reservations[r] = store.reservations[r] /\ store.reservations[r] \in Reservation
    BY <1>1, PurgedReservations DEF CanBegin, ActiveReservations
  <2>3. begun.inFlight /\ begun.active = store.reservations[r].active
        /\ begun.remaining = store.reservations[r].remaining
    BY <2>2 DEF Reservation
  <2> HIDE DEF begun
  <2>4. /\ DOMAIN store'.reservations = DOMAIN store.reservations
        /\ store'.reservations[r] = begun
        /\ \A q \in DOMAIN store.reservations \ {r} :
             store'.reservations[q] = Purged.reservations[q]
    BY <2>1, <2>2, PurgedReservations
  <2>5. EntriesKept
    BY <2>1, SameEntries DEF Live
  <2>6. StoreKept({r}, {})
    BY <2>1, <2>4, <2>5, PurgedReservations DEF StoreKept, ReservationKept
  <2>7. QED
    BY <1>1, <2>2, <2>3, <2>4, <2>6
<1>2. CASE ~CanBegin(Purged, r)
  <2>1. StoreKept({}, {})
    BY <1>2, ResolveLeaves DEF Begin, Resolve
  <2>2. QED
    BY <1>2, <2>1 DEF StoreKept
<1>3. QED
  BY <1>1, <1>2

LEMMA TickLeaves ==
  ASSUME StoreAssumption, StoreInvariant, Tick
  PROVE  StoreKept({}, {})
  BY DEF Tick, StoreKept, EntriesKept, ReservationKept, Live, StoreInvariant, Sound, Placed,
         StoreAssumption

\* A step that leaves the store alone.
LEMMA StutterLeaves ==
  ASSUME StoreAssumption, StoreInvariant, UNCHANGED storeVars
  PROVE  StoreKept({}, {})
  BY DEF storeVars, StoreKept, EntriesKept, ReservationKept, Live, StoreInvariant, Sound, Placed,
         StoreAssumption

-----------------------------------------------------------------------------
(* The invariant of the service. *)

\* The workflow lock is held at these steps.
Locked == {"transition", "checkExecution", "reserve", "issue", "giveUp"}

\* execute_cleanup has consumed its handle and has not returned.
Executing == {"begin", "engine", "issueRecovery", "complete", "release", "read",
              "failRelease", "failComplete"}

\* The handle x cannot start an execution: it is consumed, or not live any more.
Spent(x) == x \in issued /\ (x \in Live(store) => store.entries[x].consumed)

\* As long as the reservation of x is active, it has n slots left.
Holds(x, n) ==
  /\ x \in DOMAIN store.reservations
  /\ store.reservations[x].active => store.reservations[x].remaining >= n

\* The operation of x is under way and n slots are left for it.
Secured(x, n) ==
  /\ x \in ActiveReservations(store)
  /\ store.reservations[x].inFlight
  /\ store.reservations[x].remaining >= n

\* What the step a call is at says of the handle it is about.
CallOK(t) ==
  /\ pc[t] \in Locked => lock = t
  /\ pc[t] \in {"transition", "checkExecution", "reserve"} => arg[t] \in confirmed
  /\ pc[t] = "reserve" => executionOf[arg[t]] = NoHandle
  /\ pc[t] \in {"issue", "giveUp"} =>
       arg[t] \in (OfType("execution") \cap DOMAIN store.reservations) \ issued
  /\ pc[t] = "issue" =>
       /\ executionOf[reviewOf[arg[t]]] = NoHandle
       /\ Holds(arg[t], 1 + items[reviewOf[arg[t]]])
  /\ pc[t] \in Executing => arg[t] \in OfType("execution") /\ Spent(arg[t])
  /\ pc[t] \in {"begin", "engine"} => entered[reviewOf[arg[t]]] = 0
  /\ pc[t] = "begin" => Holds(arg[t], items[reviewOf[arg[t]]])
  /\ pc[t] = "engine" => Secured(arg[t], items[reviewOf[arg[t]]])
  /\ pc[t] = "issueRecovery" => Secured(arg[t], due[t]) /\ due[t] > 0
  /\ pc[t] = "undo" => arg[t] \in issued \cap OfType("recovery")

\* An execution handle is the one of its review, has the slots it needs until it is consumed, and
\* its recovery handles outlive it.
ExecutionOK(x) ==
  /\ x \in issued => x \in DOMAIN store.reservations /\ executionOf[reviewOf[x]] = x
  /\ x \in DOMAIN store.reservations => reviewOf[x] \in confirmed
  /\ x \in issued /\ ~Spent(x) => Holds(x, items[reviewOf[x]])
  /\ recoveries[x] # {} => x \in issued
  /\ x \in Live(store) =>
       \A r \in recoveries[x] :
         r \in Live(store) /\ store.entries[r].expires >= store.entries[x].expires

\* The engine was entered for a review only once its execution handle was spent.
ReviewOK(v) ==
  entered[v] > 0 =>
    /\ entered[v] = 1
    /\ v \in confirmed
    /\ executionOf[v] \in OfType("execution") /\ Spent(executionOf[v])

\* No two calls execute the same handle.
OneExecutor ==
  \A t, u \in Threads :
    pc[t] \in Executing /\ pc[u] \in Executing /\ arg[t] = arg[u] => t = u

\* No entry lives longer than one TTL from now.
Young == \A h \in Live(store) : store.entries[h].expires <= now + Ttl

ServiceInvariant ==
  /\ StoreInvariant
  /\ ServiceTypeOK
  /\ \A t \in Threads : CallOK(t)
  /\ \A x \in OfType("execution") : ExecutionOK(x)
  /\ \A v \in OfType("review") : ReviewOK(v)
  /\ OneExecutor
  /\ Young
  /\ NothingLeaked

-----------------------------------------------------------------------------
(* What a step of one thread leaves alone. *)

\* Only the call of t goes on.
OnlyMoves(t) ==
  /\ pc' \in [Threads -> Steps] /\ arg' \in [Threads -> Handles \cup {NoHandle}]
  /\ \A u \in Threads \ {t} : pc'[u] = pc[u] /\ arg'[u] = arg[u] /\ due'[u] = due[u]
  /\ lock' # lock => lock \in {t, NoThread}

\* Objects are not taken back: a review keeps its items, its confirmation and its execution, and
\* an execution its review.
ObjectsKept(t) ==
  /\ confirmed \subseteq confirmed'
  /\ \A v \in confirmed : items'[v] = items[v]
  /\ \A v \in OfType("review") : executionOf[v] # NoHandle => executionOf'[v] = executionOf[v]
  /\ executionOf' # executionOf => lock = t
  /\ \A x \in DOMAIN store.reservations : reviewOf'[x] = reviewOf[x]

\* What is spent stays spent.
LEMMA SpentKept ==
  ASSUME EntriesKept, NEW x, Spent(x)
  PROVE  x \in issued' /\ (x \in Live(store') => store'.entries[x].consumed)
  BY DEF EntriesKept, Spent, Live

LEMMA HoldsKept ==
  ASSUME StoreAssumption, StoreInvariant, NEW S, NEW new, StoreKept(S, new),
         NEW x \in DOMAIN store.reservations \ S, NEW n
  PROVE  /\ Holds(x, n) => (x \in DOMAIN store'.reservations /\
              (store'.reservations[x].active => store'.reservations[x].remaining >= n))
         /\ Secured(x, n) => (x \in ActiveReservations(store')
              /\ store'.reservations[x].inFlight /\ store'.reservations[x].remaining >= n)
  BY DEF StoreKept, ReservationKept, Holds, Secured, ActiveReservations
\* A call that does not move keeps what it relies on.
LEMMA OtherCallKept ==
  ASSUME StoreAssumption, ServiceAssumption, ServiceInvariant,
         NEW t, OnlyMoves(t), ObjectsKept(t),
         NEW S, NEW new, StoreKept(S, new),
         NEW u \in Threads, u # t,
         pc[u] \in Executing \cup {"issue"} => arg[u] \notin S,
         pc[u] \in {"issue", "giveUp"} => arg[u] \notin new,
         pc[u] \in {"begin", "engine"} =>
           entered'[reviewOf[arg[u]]] = entered[reviewOf[arg[u]]]
  PROVE  CallOK(u)'
<1>1. CallOK(u) /\ pc'[u] = pc[u] /\ arg'[u] = arg[u] /\ due'[u] = due[u]
  BY DEF ServiceInvariant, OnlyMoves
<1>2. pc[u] \in Locked => lock = u /\ lock' = u /\ executionOf' = executionOf
  BY <1>1, ServiceAssumption DEF CallOK, OnlyMoves, ObjectsKept
<1>3. arg[u] \in OfType("execution") /\ arg[u] \in DOMAIN store.reservations =>
        /\ reviewOf[arg[u]] \in confirmed /\ reviewOf'[arg[u]] = reviewOf[arg[u]]
        /\ items'[reviewOf[arg[u]]] = items[reviewOf[arg[u]]]
  BY DEF ServiceInvariant, ExecutionOK, ObjectsKept
<1>4. (pc[u] \in Executing => arg[u] \in OfType("execution") /\ Spent(arg[u]))'
  BY <1>1, SpentKept DEF CallOK, StoreKept, OfType, Spent, Live
<1>5. pc[u] \in Executing => arg[u] \in DOMAIN store.reservations /\ arg[u] \in OfType("execution")
  BY <1>1 DEF CallOK, ServiceInvariant, ExecutionOK, Spent
<1>6. (pc[u] \in {"issue", "giveUp"} =>
         arg[u] \in (OfType("execution") \cap DOMAIN store.reservations) \ issued)'
  BY <1>1 DEF CallOK, StoreKept, OfType
<1>7. (pc[u] = "issue" =>
         /\ executionOf[reviewOf[arg[u]]] = NoHandle
         /\ Holds(arg[u], 1 + items[reviewOf[arg[u]]]))'
  BY <1>1, <1>2, <1>3, HoldsKept DEF CallOK, Locked, Holds, ServiceInvariant
<1>8. (pc[u] = "begin" => Holds(arg[u], items[reviewOf[arg[u]]]))'
  BY <1>1, <1>3, <1>5, HoldsKept DEF CallOK, Executing, Holds, ServiceInvariant
<1>9. (pc[u] = "engine" => Secured(arg[u], items[reviewOf[arg[u]]]))'
  BY <1>1, <1>3, <1>5, HoldsKept
  DEF CallOK, Executing, Secured, ActiveReservations, ServiceInvariant
<1>10. (pc[u] = "issueRecovery" => Secured(arg[u], due[u]) /\ due[u] > 0)'
  BY <1>1, <1>5, HoldsKept
  DEF CallOK, Executing, Secured, ActiveReservations, ServiceInvariant
<1>11. (pc[u] \in {"begin", "engine"} => entered[reviewOf[arg[u]]] = 0)'
  BY <1>1, <1>3, <1>5 DEF CallOK, Executing
<1>12. (pc[u] \in {"transition", "checkExecution", "reserve"} => arg[u] \in confirmed)'
  BY <1>1 DEF CallOK, ObjectsKept
<1>13. (pc[u] = "reserve" => executionOf[arg[u]] = NoHandle)'
  BY <1>1, <1>2 DEF CallOK, Locked
<1>14. (pc[u] = "undo" => arg[u] \in issued \cap OfType("recovery"))'
  BY <1>1 DEF CallOK, StoreKept, EntriesKept, OfType
<1>15. (pc[u] \in Locked => lock = u)'
  BY <1>1, <1>2
<1>16. QED
  BY <1>4, <1>6, <1>7, <1>8, <1>9, <1>10, <1>11, <1>12, <1>13, <1>14, <1>15 DEF CallOK

\* The recovery handles of an execution still outlive it.
LEMMA RecoveriesOutlive ==
  ASSUME StoreAssumption, ServiceInvariant, EntriesKept,
         NEW x \in OfType("execution"), x \in Live(store'), NEW r \in recoveries[x]
  PROVE  r \in Live(store') /\ store'.entries[r].expires >= store'.entries[x].expires
<1>1. ExecutionOK(x) /\ ServiceTypeOK
  BY DEF ServiceInvariant
<1>2. x \in issued
  BY <1>1 DEF ExecutionOK
<1>3. x \in Live(store) /\ store'.entries[x].expires = store.entries[x].expires
  BY <1>2 DEF EntriesKept
<1>4. r \in Live(store) /\ store.entries[r].expires >= store.entries[x].expires
  BY <1>1, <1>3 DEF ExecutionOK
<1>5. r \in Live(store') => store'.entries[r].expires = store.entries[r].expires
  BY <1>1, <1>4 DEF EntriesKept, ServiceTypeOK, StoreTypeOK
<1>6. store.entries[r].expires \in Nat /\ store.entries[x].expires \in Nat
  BY <1>3, <1>4, PurgedEntries DEF ServiceInvariant, Entry
<1>7. r \in Live(store')
  BY <1>3, <1>4, <1>6 DEF EntriesKept
<1>8. QED
  BY <1>3, <1>4, <1>5, <1>7

\* An execution stays what it is if the step is not about it, or if its handle is spent.
LEMMA ExecutionKept ==
  ASSUME StoreAssumption, ServiceAssumption, ServiceInvariant,
         NEW t, ObjectsKept(t), NEW S, NEW new, StoreKept(S, new),
         NEW x \in OfType("execution"), x \notin S \/ Spent(x), x \notin new,
         recoveries'[x] = recoveries[x]
  PROVE  ExecutionOK(x)'
<1>1. ExecutionOK(x) /\ ServiceTypeOK
  BY DEF ServiceInvariant
<1>2. x \in issued' <=> x \in issued
  BY DEF StoreKept, EntriesKept
<1>3. x \in DOMAIN store'.reservations <=> x \in DOMAIN store.reservations
  BY <1>1 DEF StoreKept, ExecutionOK, Spent
<1>4. x \in DOMAIN store.reservations =>
        /\ reviewOf[x] \in confirmed /\ reviewOf'[x] = reviewOf[x] /\ reviewOf'[x] \in confirmed'
        /\ items'[reviewOf'[x]] = items[reviewOf[x]]
        /\ reviewOf[x] \in OfType("review")
  BY <1>1 DEF ExecutionOK, ObjectsKept, ServiceTypeOK
<1>5. (x \in issued => x \in DOMAIN store.reservations /\ executionOf[reviewOf[x]] = x)'
  <2>1. x # NoHandle
    BY ServiceAssumption DEF OfType
  <2>2. QED
    BY <1>1, <1>2, <1>3, <1>4, <2>1 DEF ExecutionOK, ObjectsKept
<1>6. (x \in issued /\ ~Spent(x) => Holds(x, items[reviewOf[x]]))'
  BY <1>1, <1>2, <1>4, SpentKept, HoldsKept
  DEF ExecutionOK, Holds, ServiceInvariant, StoreKept, Spent, Live
<1>7. (x \in Live(store) =>
         \A r \in recoveries[x] :
           r \in Live(store) /\ store.entries[r].expires >= store.entries[x].expires)'
  BY RecoveriesOutlive DEF StoreKept, Live
<1>8. QED
  BY <1>1, <1>2, <1>3, <1>4, <1>5, <1>6, <1>7 DEF ExecutionOK

LEMMA OtherReviewKept ==
  ASSUME ServiceAssumption, ServiceInvariant, NEW t, ObjectsKept(t), EntriesKept,
         NEW v \in OfType("review"), entered'[v] = entered[v]
  PROVE  ReviewOK(v)'
<1>1. ReviewOK(v)
  BY DEF ServiceInvariant
<1>2. NoHandle \notin OfType("execution")
  BY ServiceAssumption DEF OfType
<1>3. entered[v] > 0 =>
        /\ v \in confirmed' /\ executionOf'[v] = executionOf[v]
        /\ executionOf[v] \in OfType("execution") /\ Spent(executionOf[v])
  BY <1>1, <1>2 DEF ReviewOK, ObjectsKept
<1>4. entered[v] > 0 => (Spent(executionOf[v]))'
  BY <1>3, SpentKept DEF Spent, Live
<1>5. QED
  BY <1>1, <1>3, <1>4 DEF ReviewOK, OfType

\* The steps of a call during which its reservation may be under way.
UnderWay == {"engine", "issueRecovery", "complete", "release", "failRelease"}

\* A step of the call of t about the reservations of S, which issues at most the handles of new,
\* keeps the invariant if what it changes does.
LEMMA StepKept ==
  ASSUME StoreAssumption, ServiceAssumption, ServiceInvariant,
         NEW t \in Threads, OnlyMoves(t), ObjectsKept(t),
         NEW S, NEW new, StoreKept(S, new), StoreInvariant', ServiceTypeOK',
         \A u \in Threads \ {t} :
           /\ pc[u] \in Executing \cup {"issue"} => arg[u] \notin S
           /\ pc[u] \in {"issue", "giveUp"} => arg[u] \notin new
           /\ pc[u] \in {"begin", "engine"} =>
                entered'[reviewOf[arg[u]]] = entered[reviewOf[arg[u]]],
         \A x \in OfType("execution") :
           \/ (x \notin S \/ Spent(x)) /\ x \notin new /\ recoveries'[x] = recoveries[x]
           \/ ExecutionOK(x)',
         \A v \in OfType("review") : entered'[v] = entered[v] \/ ReviewOK(v)',
         CallOK(t)',
         pc'[t] \in Executing => (pc[t] \in Executing /\ arg'[t] = arg[t]) \/ ~Spent(arg'[t]),
         \A r \in S \cap ActiveReservations(store') :
           store'.reservations[r].inFlight => arg'[t] = r /\ pc'[t] \in UnderWay,
         pc[t] \in UnderWay /\ arg[t] \notin S => pc'[t] \in UnderWay /\ arg'[t] = arg[t]
  PROVE  ServiceInvariant'
<1>1. \A u \in Threads : CallOK(u)'
  <2> SUFFICES ASSUME NEW u \in Threads, u # t PROVE CallOK(u)'
    OBVIOUS
  <2>1. QED
    BY OtherCallKept
<1>2. \A x \in OfType("execution") : ExecutionOK(x)'
  BY ExecutionKept
<1>3. \A v \in OfType("review") : ReviewOK(v)'
  BY OtherReviewKept DEF StoreKept
<1>4. OneExecutor'
  <2>1. \A u \in Threads : pc[u] \in Executing => Spent(arg[u])
    BY DEF ServiceInvariant, CallOK
  <2>2. \A u \in Threads \ {t} : pc'[u] = pc[u] /\ arg'[u] = arg[u]
    BY DEF OnlyMoves
  <2>3. \A u \in Threads \ {t} :
          ~(pc'[t] \in Executing /\ pc'[u] \in Executing /\ arg'[t] = arg'[u])
    BY <2>1, <2>2 DEF ServiceInvariant, OneExecutor
  <2>4. QED
    BY <2>2, <2>3 DEF ServiceInvariant, OneExecutor
<1>5. Young'
  <2>1. \A h \in Live(store) : store.entries[h].expires \in Nat
    BY PurgedEntries DEF ServiceInvariant, Entry
  <2>2. \A h \in Live(store') : store'.entries[h].expires <= now' + Ttl
    BY <2>1 DEF ServiceInvariant, StoreInvariant, Young, StoreKept, EntriesKept, StoreAssumption
  <2>3. QED
    BY <2>2 DEF Young, Live
<1>6. NothingLeaked'
  <2> SUFFICES ASSUME NEW r \in ActiveReservations(store'), store'.reservations[r].inFlight
               PROVE  \E u \in Threads : arg'[u] = r /\ pc'[u] \in UnderWay
    BY DEF NothingLeaked, ActiveReservations, UnderWay
  <2>1. CASE r \in S
    BY <2>1
  <2>2. CASE r \notin S
    <3>1. r \in DOMAIN store.reservations /\ store'.reservations[r].active
      BY <2>2 DEF StoreKept, ActiveReservations
    <3>2. store'.reservations[r] = store.reservations[r]
      BY <2>2, <3>1 DEF StoreKept, ReservationKept
    <3>3. r \in ActiveReservations(store) /\ store.reservations[r].inFlight
      BY <3>1, <3>2 DEF ActiveReservations
    <3>4. PICK u \in Threads : arg[u] = r /\ pc[u] \in UnderWay
      BY <3>3 DEF ServiceInvariant, NothingLeaked, UnderWay
    <3>5. QED
      BY <2>2, <3>4 DEF OnlyMoves
  <2>3. QED
    BY <2>1, <2>2
<1>7. QED
  BY <1>1, <1>2, <1>3, <1>4, <1>5, <1>6 DEF ServiceInvariant

\* A step about no reservation, which enters no engine and issues no execution handle.
LEMMA QuietKept ==
  ASSUME StoreAssumption, ServiceAssumption, ServiceInvariant,
         NEW t \in Threads, OnlyMoves(t), ObjectsKept(t),
         NEW new, StoreKept({}, new), new \cap OfType("execution") = {},
         StoreInvariant', ServiceTypeOK', UNCHANGED <<entered, recoveries>>,
         CallOK(t)',
         pc'[t] \in Executing => (pc[t] \in Executing /\ arg'[t] = arg[t]) \/ ~Spent(arg'[t]),
         pc[t] \in UnderWay => pc'[t] \in UnderWay /\ arg'[t] = arg[t]
  PROVE  ServiceInvariant'
<1>1. \A u \in Threads : pc[u] \in {"issue", "giveUp"} => arg[u] \notin new
  BY DEF ServiceInvariant, CallOK
<1>2. QED
  BY <1>1, StepKept

-----------------------------------------------------------------------------
(* Types. *)

ObjectTypes ==
  /\ items \in [OfType("review") -> 0..MaxItems]
  /\ confirmed \subseteq issued \cap OfType("review")
  /\ executionOf \in [OfType("review") -> OfType("execution") \cup {NoHandle}]
  /\ reviewOf \in [OfType("execution") -> OfType("review") \cup {NoHandle}]
  /\ recoveries \in [OfType("execution") -> SUBSET (issued \cap OfType("recovery"))]
  /\ finished \subseteq issued \cap OfType("execution")
  /\ entered \in [OfType("review") -> Nat]

CallTypes ==
  /\ lock \in Threads \cup {NoThread}
  /\ pc \in [Threads -> Steps]
  /\ arg \in [Threads -> Handles \cup {NoHandle}]
  /\ due \in [Threads -> 0..MaxItems]
  /\ left \in [Threads -> SUBSET OfType("recovery")]

LEMMA StoreTypes ==
  ASSUME StoreInvariant
  PROVE  StoreTypeOK
  BY DEF StoreInvariant, Sound, Typed, Placed, StoreTypeOK

LEMMA TypesTogether ==
  ASSUME StoreInvariant', ObjectTypes', CallTypes'
  PROVE  ServiceTypeOK'
<1>1. StoreTypeOK'
  BY DEF StoreInvariant, Sound, Typed, Placed, StoreTypeOK, Live
<1>2. QED
  BY <1>1 DEF ServiceTypeOK, ObjectTypes, CallTypes

\* Objects that do not change keep their types: handles stay issued.
LEMMA SameObjects ==
  ASSUME ServiceTypeOK, UNCHANGED objects, issued \subseteq issued'
  PROVE  ObjectTypes'
<1>1. recoveries \in [OfType("execution") -> SUBSET (issued' \cap OfType("recovery"))]
  <2>1. SUBSET (issued \cap OfType("recovery")) \subseteq SUBSET (issued' \cap OfType("recovery"))
    OBVIOUS
  <2>2. QED
    BY <2>1 DEF ServiceTypeOK
<1>2. QED
  BY <1>1 DEF ServiceTypeOK, ObjectTypes, objects, OfType

LEMMA SameObjectsKept ==
  ASSUME UNCHANGED objects, NEW t
  PROVE  /\ ObjectsKept(t)
         /\ UNCHANGED <<items, confirmed, executionOf, reviewOf, entered, recoveries>>
  BY DEF ObjectsKept, objects

\* The call of t goes on.
LEMMA GotoMoves ==
  ASSUME ServiceAssumption, ServiceTypeOK, NEW t \in Threads, NEW step \in Steps,
         NEW h \in Handles \cup {NoHandle}, NEW number \in 0..MaxItems,
         NEW rest \in SUBSET OfType("recovery"),
         Goto(t, step, h, number, rest),
         lock' = lock \/ (lock \in {t, NoThread} /\ lock' \in {t, NoThread})
  PROVE  /\ OnlyMoves(t) /\ CallTypes'
         /\ pc'[t] = step /\ arg'[t] = h /\ due'[t] = number /\ left'[t] = rest
  BY DEF Goto, ServiceTypeOK, CallTypes, OnlyMoves, OfType

LEMMA WorkMoves ==
  ASSUME ServiceAssumption, ServiceTypeOK, NEW t \in Threads, NEW step \in Steps,
         NEW h \in Handles \cup {NoHandle}, Work(t, step, h)
  PROVE  /\ OnlyMoves(t) /\ CallTypes' /\ UNCHANGED lock
         /\ pc'[t] = step /\ arg'[t] = h
<1>1. 0 \in 0..MaxItems /\ {} \in SUBSET OfType("recovery")
  BY ServiceAssumption
<1>2. Goto(t, step, h, 0, {}) /\ UNCHANGED lock
  BY DEF Work
<1>3. QED
  BY <1>1, <1>2, GotoMoves

LEMMA ReturnMoves ==
  ASSUME ServiceAssumption, ServiceTypeOK, NEW t \in Threads, Return(t)
  PROVE  OnlyMoves(t) /\ CallTypes' /\ UNCHANGED lock /\ pc'[t] = "idle"
<1>1. 0 \in 0..MaxItems /\ {} \in SUBSET OfType("recovery") /\ "idle" \in Steps
  BY ServiceAssumption DEF Steps
<1>2. Goto(t, "idle", NoHandle, 0, {}) /\ UNCHANGED lock
  BY DEF Return
<1>3. QED
  BY <1>1, <1>2, GotoMoves

LEMMA UnlockedMoves ==
  ASSUME ServiceAssumption, ServiceTypeOK, NEW t \in Threads, ReturnUnlocked(t), lock = t
  PROVE  OnlyMoves(t) /\ CallTypes' /\ lock' = NoThread /\ pc'[t] = "idle"
<1>1. 0 \in 0..MaxItems /\ {} \in SUBSET OfType("recovery") /\ "idle" \in Steps
  BY ServiceAssumption DEF Steps
<1>2. Goto(t, "idle", NoHandle, 0, {}) /\ lock' = NoThread
  BY DEF ReturnUnlocked
<1>3. QED
  BY <1>1, <1>2, GotoMoves

\* A call that has returned relies on nothing.
LEMMA IdleCall ==
  ASSUME NEW t, pc'[t] = "idle"
  PROVE  CallOK(t)' /\ pc'[t] \notin Executing
  BY DEF CallOK, Locked, Executing

-----------------------------------------------------------------------------
(* Every step of the service is one of the store, or leaves the store as it is. *)

LEMMA ResolveSteps == Resolve => StoreNext
  BY DEF StoreNext

LEMMA IssueSteps ==
  ASSUME NEW h \in Handles, NEW type, NEW state \in HandleStates, Issue(h, type, state)
  PROVE  StoreNext
<1>1. CASE HasRoom(Purged)
  <2>1. Issue(h, TypeOf[h], state)
    BY <1>1 DEF Issue, Fresh
  <2>2. QED
    BY <2>1 DEF StoreNext
<1>2. CASE ~HasRoom(Purged)
  BY <1>2, ResolveSteps DEF Issue, Resolve
<1>3. QED
  BY <1>1, <1>2

LEMMA IssueReservedSteps ==
  ASSUME NEW h \in Handles, NEW type, NEW state \in HandleStates, NEW r,
         r \in DOMAIN store.reservations, IssueReserved(h, type, state, r)
  PROVE  StoreNext
<1>1. CASE CanTake(Purged, r)
  <2>1. IssueReserved(h, TypeOf[h], state, r)
    BY <1>1 DEF IssueReserved, Fresh
  <2>2. QED
    BY <2>1 DEF StoreNext
<1>2. CASE ~CanTake(Purged, r)
  BY <1>2, ResolveSteps DEF IssueReserved, Resolve
<1>3. QED
  BY <1>1, <1>2

\* More slots than the capacity are never reserved.
LEMMA ReserveSteps ==
  ASSUME StoreAssumption, StoreInvariant, NEW r \in Reservations, NEW n \in Nat \ {0},
         Reserve(r, n)
  PROVE  StoreNext
<1>1. CASE CanReserve(Purged, n)
  <2>1. Sound(Purged)
    BY PurgedStore
  <2>2. Purged.reserved \in Nat /\ Cardinality(Live(Purged)) \in Nat
    BY <2>1, ActiveSlots DEF Sound, Counted
  <2>3. n \in 1..Capacity
    BY <1>1, <2>2 DEF CanReserve, StoreAssumption
  <2>4. QED
    BY <2>3 DEF StoreNext
<1>2. CASE ~CanReserve(Purged, n)
  BY <1>2, ResolveSteps DEF Reserve, Resolve
<1>3. QED
  BY <1>1, <1>2

LEMMA ConsumeSteps ==
  ASSUME NEW h \in issued, NEW type, Consume(h, type)
  PROVE  StoreNext
<1>1. CASE Resolves(Purged, h, type, FALSE)
  <2>1. Consume(h, TypeOf[h])
    BY <1>1 DEF Consume, Resolves
  <2>2. QED
    BY <2>1 DEF StoreNext
<1>2. CASE ~Resolves(Purged, h, type, FALSE)
  BY <1>2, ResolveSteps DEF Consume, Resolve
<1>3. QED
  BY <1>1, <1>2

LEMMA StateSteps ==
  ASSUME NEW h \in issued, NEW state \in HandleStates, NEW type, type = TypeOf[h],
         Transition(h, type, state) \/ Complete(h, type, state)
  PROVE  StoreNext
  BY DEF StoreNext

LEMMA ReservationSteps ==
  ASSUME NEW r, r \in DOMAIN store.reservations, Release(r) \/ Begin(r)
  PROVE  StoreNext
  BY DEF StoreNext

LEMMA ThreadUsesStore ==
  ASSUME StoreAssumption, ServiceAssumption, ServiceInvariant, NEW t \in Threads, ThreadStep(t)
  PROVE  StoreNext \/ UNCHANGED storeVars
<1>1. /\ ServiceTypeOK /\ CallOK(t) /\ StoreInvariant
      /\ \A x \in OfType("execution") : x \in issued => x \in DOMAIN store.reservations
  BY DEF ServiceInvariant, ExecutionOK
<1>2. \A type : OfType(type) \subseteq Handles
  BY DEF OfType
<1>3. /\ {"ACTIVE", "WAITING_FOR_HUMAN_CONFIRMATION", "READY_FOR_EXECUTION", "COMPLETE",
          "RECONCILIATION_REQUIRED", "FAILED"} \subseteq HandleStates
  BY ServiceAssumption
<1>4. Known \subseteq issued
  BY DEF Known
<1>5. pc[t] \in Executing => arg[t] \in issued /\ TypeOf[arg[t]] = "execution"
                             /\ arg[t] \in DOMAIN store.reservations
  BY <1>1 DEF CallOK, Spent, OfType
<1>6. CASE Scan(t)
  BY <1>2, <1>3, <1>6, IssueSteps DEF Scan
<1>7. CASE IssueReview(t)
  BY <1>2, <1>3, <1>7, IssueSteps DEF IssueReview
<1>8. CASE \/ RemapScan(t) \/ CreateReview(t) \/ Confirm(t) \/ RequestExecution(t)
           \/ CheckExecution(t) \/ GetStatus(t)
  BY <1>8, ResolveSteps
  DEF RemapScan, CreateReview, Confirm, RequestExecution, CheckExecution, GetStatus
<1>9. CASE MarkConfirmed(t)
  <2>1. arg[t] \in issued /\ TypeOf[arg[t]] = "review"
    BY <1>1, <1>9 DEF MarkConfirmed, CallOK, ServiceTypeOK, OfType
  <2>2. QED
    BY <1>3, <1>9, <2>1, StateSteps DEF MarkConfirmed
<1>10. CASE ReserveSlots(t)
  <2>1. items[arg[t]] \in Nat
    BY <1>1, <1>10, ServiceAssumption DEF ReserveSlots, CallOK, ServiceTypeOK
  <2>2. 1 + items[arg[t]] \in Nat \ {0} /\ Unused \subseteq Reservations
    BY <2>1, ServiceAssumption DEF Unused
  <2>3. QED
    BY <1>1, <1>10, <2>2, ReserveSteps DEF ReserveSlots
<1>11. CASE IssueExecution(t)
  <2>1. arg[t] \in Handles /\ arg[t] \in DOMAIN store.reservations
    BY <1>1, <1>2, <1>11 DEF IssueExecution, CallOK
  <2>2. QED
    BY <1>3, <1>11, <2>1, IssueReservedSteps DEF IssueExecution
<1>12. CASE GiveUp(t)
  BY <1>1, <1>12, ReservationSteps DEF GiveUp, CallOK
<1>13. CASE Execute(t)
  BY <1>4, <1>13, ConsumeSteps DEF Execute
<1>14. CASE BeginExecution(t) \/ ReleaseSlots(t) \/ FailRelease(t)
  BY <1>5, <1>14, ReservationSteps DEF BeginExecution, ReleaseSlots, FailRelease, Executing
<1>15. CASE RunEngine(t)
  BY <1>15 DEF RunEngine
<1>16. CASE IssueRecovery(t)
  BY <1>2, <1>3, <1>5, <1>16, IssueReservedSteps DEF IssueRecovery, Executing
<1>17. CASE CompleteExecution(t) \/ FailComplete(t)
  BY <1>3, <1>5, <1>17, StateSteps DEF CompleteExecution, FailComplete, Executing
<1>18. CASE ReadResult(t)
  BY <1>18, ResolveSteps DEF ReadResult
<1>19. CASE RequestUndo(t)
  BY <1>4, <1>19, ConsumeSteps DEF RequestUndo
<1>20. CASE FinishUndo(t)
  <2>1. arg[t] \in issued /\ TypeOf[arg[t]] = "recovery"
    BY <1>1, <1>20 DEF FinishUndo, CallOK, OfType
  <2>2. QED
    BY <1>3, <1>20, <2>1, StateSteps DEF FinishUndo
<1>21. QED
  BY <1>6, <1>7, <1>8, <1>9, <1>10, <1>11, <1>12, <1>13, <1>14, <1>15, <1>16, <1>17, <1>18,
     <1>19, <1>20
  DEF ThreadStep

LEMMA NextUsesStore ==
  ASSUME StoreAssumption, ServiceAssumption, ServiceInvariant, [Next]_vars
  PROVE  [StoreNext]_storeVars
<1>1. CASE UNCHANGED vars
  BY <1>1 DEF vars, storeVars
<1>2. CASE ClockTicks
  BY <1>2 DEF ClockTicks, StoreNext
<1>3. ASSUME NEW t \in Threads, ThreadStep(t)
      PROVE  StoreNext \/ UNCHANGED storeVars
  BY <1>3, ThreadUsesStore
<1>4. QED
  BY <1>1, <1>2, <1>3 DEF Next

-----------------------------------------------------------------------------
(* Every step of a call keeps the invariant. *)

\* The step moves the call and uses the store; the objects stay what they are.
LEMMA MoveKept ==
  ASSUME StoreAssumption, ServiceAssumption, ServiceInvariant,
         NEW t \in Threads, OnlyMoves(t), CallTypes', UNCHANGED objects,
         NEW new, StoreKept({}, new), new \cap OfType("execution") = {}, StoreInvariant',
         CallOK(t)',
         pc'[t] \in Executing => (pc[t] \in Executing /\ arg'[t] = arg[t]) \/ ~Spent(arg'[t]),
         pc[t] \in UnderWay => pc'[t] \in UnderWay /\ arg'[t] = arg[t]
  PROVE  ServiceInvariant'
<1>1. ServiceTypeOK /\ issued \subseteq issued'
  BY DEF ServiceInvariant, StoreKept, EntriesKept
<1>2. ServiceTypeOK'
  BY <1>1, SameObjects, TypesTogether
<1>3. ObjectsKept(t) /\ UNCHANGED <<entered, recoveries>>
  BY SameObjectsKept
<1>4. QED
  BY <1>2, <1>3, QuietKept

\* The call returns, and has resolved handles at most.
LEMMA ReturnKept ==
  ASSUME StoreAssumption, ServiceAssumption, ServiceInvariant,
         NEW t \in Threads, Return(t), pc[t] \notin UnderWay, UNCHANGED objects,
         NEW new, StoreKept({}, new), new \cap OfType("execution") = {}, StoreInvariant'
  PROVE  ServiceInvariant'
<1>1. ServiceTypeOK
  BY DEF ServiceInvariant
<1>2. OnlyMoves(t) /\ CallTypes' /\ pc'[t] = "idle"
  BY <1>1, ReturnMoves
<1>3. CallOK(t)' /\ pc'[t] \notin Executing
  BY <1>2, IdleCall
<1>4. QED
  BY <1>2, <1>3, MoveKept

LEMMA UnlockKept ==
  ASSUME StoreAssumption, ServiceAssumption, ServiceInvariant,
         NEW t \in Threads, ReturnUnlocked(t), pc[t] \in Locked, UNCHANGED objects,
         NEW new, StoreKept({}, new), new \cap OfType("execution") = {}, StoreInvariant'
  PROVE  ServiceInvariant'
<1>1. ServiceTypeOK /\ lock = t /\ pc[t] \notin UnderWay
  BY DEF ServiceInvariant, CallOK, Locked, UnderWay
<1>2. OnlyMoves(t) /\ CallTypes' /\ pc'[t] = "idle"
  BY <1>1, UnlockedMoves
<1>3. CallOK(t)' /\ pc'[t] \notin Executing
  BY <1>2, IdleCall
<1>4. QED
  BY <1>1, <1>2, <1>3, MoveKept

\* The call goes on at a step that relies on nothing.
LEMMA WorkKept ==
  ASSUME StoreAssumption, ServiceAssumption, ServiceInvariant,
         NEW t \in Threads, NEW step \in {"remap", "plan"}, NEW h \in Handles, Work(t, step, h),
         pc[t] \notin UnderWay, UNCHANGED objects,
         NEW new, StoreKept({}, new), new \cap OfType("execution") = {}, StoreInvariant'
  PROVE  ServiceInvariant'
<1>1. ServiceTypeOK /\ step \in Steps
  BY DEF ServiceInvariant, Steps
<1>2. OnlyMoves(t) /\ CallTypes' /\ pc'[t] = step
  BY <1>1, WorkMoves
<1>3. CallOK(t)' /\ pc'[t] \notin Executing
  BY <1>2 DEF CallOK, Locked, Executing
<1>4. QED
  BY <1>2, <1>3, MoveKept

LEMMA DifferentTypes ==
  ASSUME NEW a, NEW b, a # b
  PROVE  OfType(a) \cap OfType(b) = {}
  BY DEF OfType

LEMMA ScanKept ==
  ASSUME StoreAssumption, ServiceAssumption, ServiceInvariant, NEW t \in Threads,
         StoreInvariant', Scan(t)
  PROVE  ServiceInvariant'
<1>1. PICK h \in OfType("scan") :
        /\ Issue(h, "scan", "ACTIVE")
        /\ IF HasRoom(Purged) THEN Work(t, "remap", h) ELSE Return(t)
  BY DEF Scan
<1>2. h \in Handles /\ StoreInvariant /\ pc[t] \notin UnderWay /\ UNCHANGED objects
  BY DEF OfType, ServiceInvariant, Scan, UnderWay
<1>3. StoreKept({}, OfType("scan"))
  BY <1>1, <1>2, IssueLeaves DEF OfType
<1>4. OfType("scan") \cap OfType("execution") = {}
  BY DifferentTypes
<1>5. CASE HasRoom(Purged)
  BY <1>1, <1>2, <1>3, <1>4, <1>5, WorkKept
<1>6. CASE ~HasRoom(Purged)
  BY <1>1, <1>2, <1>3, <1>4, <1>6, ReturnKept
<1>7. QED
  BY <1>5, <1>6

LEMMA RemapScanKept ==
  ASSUME StoreAssumption, ServiceAssumption, ServiceInvariant, NEW t \in Threads,
         StoreInvariant', RemapScan(t)
  PROVE  ServiceInvariant'
<1>1. StoreKept({}, {})
  BY ResolveLeaves DEF RemapScan, ServiceInvariant
<1>2. QED
  BY <1>1, ReturnKept DEF RemapScan, UnderWay

LEMMA CreateReviewKept ==
  ASSUME StoreAssumption, ServiceAssumption, ServiceInvariant, NEW t \in Threads,
         StoreInvariant', CreateReview(t)
  PROVE  ServiceInvariant'
<1>1. PICK h \in Known :
        IF Resolves(Purged, h, "scan", FALSE) THEN Work(t, "plan", h) ELSE Return(t)
  BY DEF CreateReview
<1>2. StoreKept({}, {}) /\ UNCHANGED objects /\ pc[t] \notin UnderWay /\ h \in Handles
  BY ResolveLeaves DEF CreateReview, ServiceInvariant, StoreInvariant, Known, UnderWay
<1>3. CASE Resolves(Purged, h, "scan", FALSE)
  BY <1>1, <1>2, <1>3, WorkKept
<1>4. CASE ~Resolves(Purged, h, "scan", FALSE)
  BY <1>1, <1>2, <1>4, ReturnKept
<1>5. QED
  BY <1>3, <1>4

\* A review that is issued is a new one: no confirmed review changes its items.
LEMMA IssueReviewKept ==
  ASSUME StoreAssumption, ServiceAssumption, ServiceInvariant, NEW t \in Threads,
         StoreInvariant', IssueReview(t)
  PROVE  ServiceInvariant'
<1>1. /\ ServiceTypeOK /\ StoreInvariant /\ Return(t) /\ pc[t] \notin UnderWay
      /\ UNCHANGED <<confirmed, executionOf, reviewOf, recoveries, finished, entered>>
  BY DEF ServiceInvariant, IssueReview, UnderWay
<1>2. CASE UNCHANGED <<storeVars, items>>
  <2>1. StoreKept({}, {}) /\ UNCHANGED objects
    BY <1>1, <1>2, StutterLeaves DEF objects
  <2>2. QED
    BY <1>1, <2>1, ReturnKept
<1>3. ASSUME NEW h \in OfType("review"), NEW n \in 1..MaxItems,
             Issue(h, "review", "WAITING_FOR_HUMAN_CONFIRMATION"),
             items' = IF HasRoom(Purged) THEN [items EXCEPT ![h] = n] ELSE items
      PROVE  ServiceInvariant'
  <2>1. StoreKept({}, OfType("review")) /\ (HasRoom(Purged) => h \notin issued)
    BY <1>1, <1>3, IssueLeaves DEF OfType
  <2>2. OfType("review") \cap OfType("execution") = {}
    BY DifferentTypes
  <2>3. issued \subseteq issued' /\ 1..MaxItems \subseteq 0..MaxItems
    BY <2>1, ServiceAssumption DEF StoreKept, EntriesKept
  <2>4. ObjectTypes'
    <3>1. items' \in [OfType("review") -> 0..MaxItems]
      BY <1>1, <1>3, <2>3 DEF ServiceTypeOK
    <3>2. SUBSET (issued \cap OfType("recovery")) \subseteq SUBSET (issued' \cap OfType("recovery"))
      BY <2>3
    <3>3. recoveries' \in [OfType("execution") -> SUBSET (issued' \cap OfType("recovery"))]
      BY <1>1, <3>2 DEF ServiceTypeOK
    <3>4. QED
      BY <1>1, <2>3, <3>1, <3>3 DEF ServiceTypeOK, ObjectTypes, OfType
  <2>5. \A v \in confirmed : items'[v] = items[v]
    BY <1>1, <1>3, <2>1 DEF ServiceTypeOK
  <2>6. ObjectsKept(t)
    BY <1>1, <2>5 DEF ObjectsKept
  <2>7. OnlyMoves(t) /\ CallTypes' /\ pc'[t] = "idle"
    BY <1>1, ReturnMoves
  <2>8. ServiceTypeOK'
    BY <2>4, <2>7, TypesTogether
  <2>9. CallOK(t)' /\ pc'[t] \notin Executing
    BY <2>7, IdleCall
  <2>10. QED
    BY <1>1, <2>1, <2>2, <2>6, <2>7, <2>8, <2>9, QuietKept
<1>4. QED
  BY <1>2, <1>3 DEF IssueReview

LEMMA ConfirmKept ==
  ASSUME StoreAssumption, ServiceAssumption, ServiceInvariant, NEW t \in Threads,
         StoreInvariant', Confirm(t)
  PROVE  ServiceInvariant'
<1>1. /\ ServiceTypeOK /\ StoreInvariant /\ pc[t] \notin UnderWay /\ lock = NoThread
      /\ UNCHANGED <<items, executionOf, reviewOf, recoveries, finished, entered>>
  BY DEF ServiceInvariant, Confirm, UnderWay
<1>2. StoreKept({}, {}) /\ UNCHANGED issued
  BY ResolveLeaves DEF Confirm, ServiceInvariant, Resolve
<1>3. ASSUME NEW v \in Known, Resolves(Purged, v, "review", FALSE),
             confirmed' = confirmed \cup {v}, Goto(t, "transition", v, 0, {}), lock' = t
      PROVE  ServiceInvariant'
  <2>1. v \in issued /\ v \in OfType("review") /\ v \in Handles
    BY <1>1, <1>3 DEF Known, Resolves, OfType, StoreInvariant
  <2>2. /\ OnlyMoves(t) /\ CallTypes'
        /\ pc'[t] = "transition" /\ arg'[t] = v
    <3>1. "transition" \in Steps /\ 0 \in 0..MaxItems /\ {} \in SUBSET OfType("recovery")
      BY ServiceAssumption DEF Steps
    <3>2. QED
      BY <1>1, <1>3, <2>1, <3>1, GotoMoves
  <2>3. ObjectTypes'
    BY <1>1, <1>2, <1>3, <2>1 DEF ServiceTypeOK, ObjectTypes, OfType
  <2>4. ServiceTypeOK'
    BY <2>2, <2>3, TypesTogether
  <2>5. ObjectsKept(t)
    BY <1>1, <1>3 DEF ObjectsKept
  <2>6. CallOK(t)' /\ pc'[t] \notin Executing
    BY <1>3, <2>2 DEF CallOK, Locked, Executing
  <2>7. QED
    BY <1>1, <1>2, <2>2, <2>4, <2>5, <2>6, QuietKept
<1>4. CASE Return(t) /\ UNCHANGED confirmed
  BY <1>1, <1>2, <1>4, ReturnKept DEF objects
<1>5. QED
  BY <1>3, <1>4 DEF Confirm

LEMMA MarkConfirmedKept ==
  ASSUME StoreAssumption, ServiceAssumption, ServiceInvariant, NEW t \in Threads,
         StoreInvariant', MarkConfirmed(t)
  PROVE  ServiceInvariant'
<1>1. StoreKept({}, {})
  BY TransitionLeaves DEF MarkConfirmed, ServiceInvariant
<1>2. QED
  BY <1>1, UnlockKept DEF MarkConfirmed, Locked

LEMMA RequestExecutionKept ==
  ASSUME StoreAssumption, ServiceAssumption, ServiceInvariant, NEW t \in Threads,
         StoreInvariant', RequestExecution(t)
  PROVE  ServiceInvariant'
<1>1. /\ ServiceTypeOK /\ StoreInvariant /\ pc[t] \notin UnderWay /\ lock = NoThread
      /\ UNCHANGED objects
  BY DEF ServiceInvariant, RequestExecution, UnderWay
<1>2. StoreKept({}, {})
  BY ResolveLeaves DEF RequestExecution, ServiceInvariant
<1>3. ASSUME NEW v \in Known, v \in confirmed, lock' = t,
             Goto(t, IF executionOf[v] = NoHandle THEN "reserve" ELSE "checkExecution", v, 0, {})
      PROVE  ServiceInvariant'
  <2> DEFINE step == IF executionOf[v] = NoHandle THEN "reserve" ELSE "checkExecution"
  <2>1. /\ step \in Steps /\ 0 \in 0..MaxItems /\ {} \in SUBSET OfType("recovery")
        /\ v \in Handles \cup {NoHandle}
    BY <1>1, <1>3, ServiceAssumption DEF Steps, Known, StoreInvariant
  <2>2. /\ OnlyMoves(t) /\ CallTypes'
        /\ pc'[t] = step /\ arg'[t] = v
    <3> HIDE DEF step
    <3> QED
      BY <1>1, <1>3, <2>1, GotoMoves DEF step
  <2>3. CallOK(t)' /\ pc'[t] \notin Executing
    BY <1>1, <1>3, <2>2 DEF CallOK, Locked, Executing, objects
  <2>4. QED
    BY <1>1, <1>2, <2>2, <2>3, MoveKept
<1>4. CASE Return(t)
  BY <1>1, <1>2, <1>4, ReturnKept
<1>5. QED
  BY <1>3, <1>4 DEF RequestExecution

LEMMA CheckExecutionKept ==
  ASSUME StoreAssumption, ServiceAssumption, ServiceInvariant, NEW t \in Threads,
         StoreInvariant', CheckExecution(t)
  PROVE  ServiceInvariant'
<1>1. StoreKept({}, {})
  BY ResolveLeaves DEF CheckExecution, ServiceInvariant
<1>2. QED
  BY <1>1, UnlockKept DEF CheckExecution, Locked

\* No other thread executes the handle of a thread that does, or has it reserved.
LEMMA OthersElsewhere ==
  ASSUME ServiceInvariant, NEW t \in Threads, pc[t] \in Executing, NEW u \in Threads \ {t},
         pc[u] \in Executing \cup {"issue"}
  PROVE  arg[u] # arg[t]
<1>1. CallOK(t) /\ CallOK(u)
  BY DEF ServiceInvariant
<1>2. CASE pc[u] \in Executing
  BY <1>2 DEF ServiceInvariant, OneExecutor
<1>3. CASE pc[u] = "issue"
  BY <1>1, <1>3 DEF CallOK, Spent
<1>4. QED
  BY <1>2, <1>3

\* While a thread is under the lock with a handle that is not issued yet, no other has it.
LEMMA OthersWithout ==
  ASSUME ServiceAssumption, ServiceInvariant, NEW t \in Threads, pc[t] \in {"issue", "giveUp"},
         NEW u \in Threads \ {t}
  PROVE  /\ pc[u] \notin {"issue", "giveUp"}
         /\ pc[u] \in Executing => arg[u] # arg[t]
         /\ pc[u] \in {"begin", "engine"} => arg[u] # arg[t]
  BY DEF ServiceInvariant, CallOK, Locked, Spent, Executing

LEMMA ReserveSlotsKept ==
  ASSUME StoreAssumption, ServiceAssumption, ServiceInvariant, NEW t \in Threads,
         StoreInvariant', ReserveSlots(t)
  PROVE  ServiceInvariant'
<1>0. PICK v : v = arg[t]
  OBVIOUS
<1>1. /\ ServiceTypeOK /\ StoreInvariant /\ CallOK(t) /\ pc[t] = "reserve"
      /\ UNCHANGED <<items, confirmed, executionOf, recoveries, finished, entered>>
  BY DEF ServiceInvariant, ReserveSlots
<1>2. lock = t /\ v \in confirmed /\ v \in OfType("review") /\ executionOf[v] = NoHandle
  BY <1>0, <1>1 DEF CallOK, Locked, ServiceTypeOK
<1>3. items[v] \in Nat /\ 1 + items[v] \in Nat
  BY <1>1, <1>2, ServiceAssumption DEF ServiceTypeOK
<1>4. PICK x \in Unused :
        /\ Reserve(x, 1 + items[v])
        /\ IF CanReserve(Purged, 1 + items[v])
           THEN reviewOf' = [reviewOf EXCEPT ![x] = v] /\ Work(t, "issue", x)
           ELSE UNCHANGED reviewOf /\ ReturnUnlocked(t)
  BY <1>0 DEF ReserveSlots
<1>5. /\ StoreKept({x}, {}) /\ x \notin DOMAIN store.reservations
      /\ CanReserve(Purged, 1 + items[v]) =>
           /\ x \in DOMAIN store'.reservations
           /\ store'.reservations[x].remaining = 1 + items[v]
           /\ ~store'.reservations[x].inFlight
      /\ ~CanReserve(Purged, 1 + items[v]) => StoreKept({}, {})
  BY <1>1, <1>3, <1>4, ReserveLeaves
<1>6. UNCHANGED issued /\ x \in OfType("execution") /\ x \notin issued /\ x \in Handles
  BY <1>4, <1>5 DEF Reserve, Unused, ServiceInvariant, ExecutionOK, OfType
<1>7. CASE CanReserve(Purged, 1 + items[v])
  <2>1. reviewOf' = [reviewOf EXCEPT ![x] = v] /\ Work(t, "issue", x)
    BY <1>4, <1>7
  <2>2. OnlyMoves(t) /\ CallTypes' /\ UNCHANGED lock /\ pc'[t] = "issue" /\ arg'[t] = x
    BY <1>1, <1>6, <2>1, WorkMoves DEF Steps
  <2>3. ObjectTypes'
    BY <1>1, <1>2, <1>6, <2>1 DEF ServiceTypeOK, ObjectTypes, OfType
  <2>4. ServiceTypeOK'
    BY <2>2, <2>3, TypesTogether
  <2>5. ObjectsKept(t) /\ reviewOf'[x] = v
    BY <1>1, <1>5, <1>6, <2>1 DEF ObjectsKept, ServiceTypeOK
  <2>6. x \in DOMAIN store'.reservations /\ store'.reservations[x].remaining = 1 + items[v]
        /\ ~store'.reservations[x].inFlight
    BY <1>5, <1>7
  <2>7. CallOK(t)' /\ pc'[t] \notin Executing
    <3>1. (Holds(x, 1 + items[v]))'
      BY <1>1, <1>3, <2>6 DEF Holds
    <3>2. (executionOf[reviewOf[arg[t]]] = NoHandle /\ Holds(arg[t], 1 + items[reviewOf[arg[t]]]))'
      BY <1>1, <1>2, <2>2, <2>5, <2>6, <1>3 DEF Holds
    <3>3. (arg[t] \in (OfType("execution") \cap DOMAIN store.reservations) \ issued)'
      BY <1>6, <2>2, <2>6 DEF OfType
    <3>4. QED
      BY <1>2, <2>2, <3>2, <3>3 DEF CallOK, Locked, Executing
  <2>8. ExecutionOK(x)'
    <3>1. recoveries[x] = {}
      BY <1>6 DEF ServiceInvariant, ExecutionOK
    <3>2. x \notin Live(store')
      BY <1>6 DEF StoreInvariant, Placed, Live
    <3>3. QED
      BY <1>1, <1>2, <1>6, <2>5, <3>1, <3>2 DEF ExecutionOK, Live
  <2>9. \A u \in Threads \ {t} : pc[u] \in Executing \cup {"issue"} => arg[u] \notin {x}
    BY <1>5, <1>6 DEF ServiceInvariant, CallOK, Spent
  <2>10. \A r \in {x} \cap ActiveReservations(store') :
           store'.reservations[r].inFlight => arg'[t] = r /\ pc'[t] \in UnderWay
    BY <2>6
  <2>11. pc[t] \notin UnderWay
    BY <1>1 DEF UnderWay
  <2>12. QED
    BY <1>1, <1>5, <2>2, <2>4, <2>5, <2>7, <2>8, <2>9, <2>10, <2>11, StepKept
<1>8. CASE ~CanReserve(Purged, 1 + items[v])
  <2>1. UNCHANGED objects
    BY <1>1, <1>4, <1>8 DEF objects
  <2>2. QED
    BY <1>1, <1>4, <1>5, <1>8, <2>1, UnlockKept DEF Locked
<1>9. QED
  BY <1>7, <1>8

LEMMA IssueExecutionKept ==
  ASSUME StoreAssumption, ServiceAssumption, ServiceInvariant, NEW t \in Threads,
         StoreInvariant', IssueExecution(t)
  PROVE  ServiceInvariant'
<1>0. PICK x, v : x = arg[t] /\ v = reviewOf[x]
  OBVIOUS
<1>1. /\ ServiceTypeOK /\ StoreInvariant /\ CallOK(t) /\ pc[t] = "issue"
      /\ UNCHANGED <<items, confirmed, reviewOf, recoveries, finished, entered>>
  BY DEF ServiceInvariant, IssueExecution
<1>2. /\ lock = t /\ x \in OfType("execution") /\ x \in DOMAIN store.reservations
      /\ x \notin issued /\ executionOf[v] = NoHandle /\ Holds(x, 1 + items[v]) /\ x \in Handles
  BY <1>0, <1>1 DEF CallOK, Locked, OfType
<1>3. v \in confirmed /\ v \in OfType("review") /\ recoveries[x] = {} /\ items[v] \in Nat
  BY <1>0, <1>1, <1>2, ServiceAssumption DEF ServiceInvariant, ExecutionOK, ServiceTypeOK
<1>4. IssueReserved(x, "execution", "READY_FOR_EXECUTION", x)
  BY <1>0 DEF IssueExecution
<1>5. /\ StoreKept({x}, {x}) /\ DOMAIN store'.reservations = DOMAIN store.reservations
      /\ CanTake(Purged, x) =>
           /\ issued' = issued \cup {x}
           /\ x \in Live(store') /\ ~store'.entries[x].consumed
           /\ store.reservations[x].active /\ store'.reservations[x].active
           /\ store'.reservations[x].inFlight = store.reservations[x].inFlight
           /\ store'.reservations[x].remaining = store.reservations[x].remaining - 1
      /\ ~CanTake(Purged, x) => StoreKept({}, {}) /\ UNCHANGED issued
  <2>1. ~CanTake(Purged, x) => UNCHANGED issued
    BY <1>4 DEF IssueReserved
  <2>2. QED
    BY <1>1, <1>4, <2>1, IssueReservedLeaves
<1>6. CASE CanTake(Purged, x)
  <2>1. executionOf' = [executionOf EXCEPT ![v] = x] /\ ReturnUnlocked(t)
    BY <1>0, <1>6 DEF IssueExecution
  <2>2. OnlyMoves(t) /\ CallTypes' /\ pc'[t] = "idle"
    BY <1>1, <1>2, <2>1, UnlockedMoves
  <2>3. ObjectTypes'
    <3>1. issued \subseteq issued'
      BY <1>5, <1>6
    <3>2. SUBSET (issued \cap OfType("recovery")) \subseteq SUBSET (issued' \cap OfType("recovery"))
      BY <3>1
    <3>3. recoveries' \in [OfType("execution") -> SUBSET (issued' \cap OfType("recovery"))]
      BY <1>1, <3>2 DEF ServiceTypeOK
    <3>4. executionOf' \in [OfType("review") -> OfType("execution") \cup {NoHandle}]
      BY <1>1, <1>2, <2>1 DEF ServiceTypeOK
    <3>5. QED
      BY <1>1, <3>1, <3>3, <3>4 DEF ServiceTypeOK, ObjectTypes, OfType
  <2>4. ServiceTypeOK'
    BY <2>2, <2>3, TypesTogether
  <2>5. ObjectsKept(t) /\ executionOf'[v] = x
    BY <1>1, <1>2, <1>3, <2>1 DEF ObjectsKept, ServiceTypeOK
  <2>6. CallOK(t)' /\ pc'[t] \notin Executing
    BY <2>2, IdleCall
  <2>7. ExecutionOK(x)'
    <3>1. store.reservations[x] \in Reservation
      BY <1>1, <1>2, PurgedReservations
    <3>2. store'.reservations[x].remaining >= items[v]
      BY <1>2, <1>3, <1>5, <1>6, <3>1 DEF Holds, Reservation
    <3>3. Holds(x, items[reviewOf[x]])'
      BY <1>0, <1>1, <1>2, <1>5, <3>2 DEF Holds
    <3>4. QED
      BY <1>0, <1>1, <1>2, <1>3, <1>5, <1>6, <2>5, <3>3 DEF ExecutionOK
  <2>8. \A r \in {x} \cap ActiveReservations(store') :
          store'.reservations[r].inFlight => arg'[t] = r /\ pc'[t] \in UnderWay
    <3>1. ~store.reservations[x].inFlight
      <4>1. \A u \in Threads : pc[u] \in UnderWay => arg[u] \in issued
        BY DEF ServiceInvariant, CallOK, Spent, UnderWay, Executing
      <4>2. x \in ActiveReservations(store)
        BY <1>2, <1>5, <1>6 DEF ActiveReservations
      <4>3. QED
        BY <1>2, <4>1, <4>2 DEF ServiceInvariant, NothingLeaked, UnderWay
    <3>2. QED
      BY <1>5, <1>6, <3>1
  <2>9. \A u \in Threads \ {t} :
          /\ pc[u] \in Executing \cup {"issue"} => arg[u] \notin {x}
          /\ pc[u] \in {"issue", "giveUp"} => arg[u] \notin {x}
    BY <1>0, <1>1, OthersWithout
  <2>10. pc[t] \notin UnderWay
    BY <1>1 DEF UnderWay
  <2>11. \A y \in OfType("execution") :
           (y \notin {x} /\ recoveries'[y] = recoveries[y]) \/ ExecutionOK(y)'
    BY <1>1, <2>7
  <2>12. QED
    BY <1>1, <1>5, <2>2, <2>4, <2>5, <2>6, <2>8, <2>9, <2>10, <2>11, StepKept
<1>7. CASE ~CanTake(Purged, x)
  <2>1. UNCHANGED objects /\ Work(t, "giveUp", x)
    BY <1>0, <1>1, <1>7 DEF IssueExecution, objects
  <2>2. OnlyMoves(t) /\ CallTypes' /\ UNCHANGED lock /\ pc'[t] = "giveUp" /\ arg'[t] = x
    BY <1>1, <1>2, <2>1, WorkMoves DEF Steps
  <2>3. CallOK(t)' /\ pc'[t] \notin Executing /\ pc[t] \notin UnderWay
    BY <1>0, <1>1, <1>2, <1>5, <1>7, <2>2 DEF CallOK, Locked, Executing, UnderWay, OfType
  <2>4. QED
    BY <1>1, <1>5, <1>7, <2>1, <2>2, <2>3, MoveKept
<1>8. QED
  BY <1>6, <1>7

LEMMA GiveUpKept ==
  ASSUME StoreAssumption, ServiceAssumption, ServiceInvariant, NEW t \in Threads,
         StoreInvariant', GiveUp(t)
  PROVE  ServiceInvariant'
<1>0. PICK x : x = arg[t]
  OBVIOUS
<1>1. /\ ServiceTypeOK /\ StoreInvariant /\ CallOK(t) /\ pc[t] = "giveUp" /\ UNCHANGED objects
      /\ Release(x) /\ ReturnUnlocked(t)
  BY <1>0 DEF ServiceInvariant, GiveUp
<1>2. lock = t /\ x \in OfType("execution") /\ x \in DOMAIN store.reservations /\ x \notin issued
  BY <1>0, <1>1 DEF CallOK, Locked
<1>3. /\ StoreKept({x}, {}) /\ DOMAIN store'.reservations = DOMAIN store.reservations
      /\ x \notin ActiveReservations(store') /\ UNCHANGED issued
  BY <1>1, ReleaseLeaves DEF Release
<1>4. OnlyMoves(t) /\ CallTypes' /\ pc'[t] = "idle"
  BY <1>1, <1>2, UnlockedMoves
<1>5. ServiceTypeOK'
  BY <1>1, <1>3, <1>4, SameObjects, TypesTogether
<1>6. ObjectsKept(t) /\ UNCHANGED <<reviewOf, entered, recoveries, confirmed>>
  BY <1>1, SameObjectsKept
<1>7. CallOK(t)' /\ pc'[t] \notin Executing /\ pc[t] \notin UnderWay
  BY <1>1, <1>4, IdleCall DEF UnderWay
<1>8. ExecutionOK(x)'
  <2>1. x \notin Live(store')
    BY <1>2, <1>3 DEF StoreInvariant, Placed, Live
  <2>2. recoveries[x] = {} /\ reviewOf[x] \in confirmed
    BY <1>2 DEF ServiceInvariant, ExecutionOK
  <2>3. QED
    BY <1>2, <1>3, <1>6, <2>1, <2>2 DEF ExecutionOK, Live
<1>9. \A u \in Threads \ {t} : pc[u] \in Executing \cup {"issue"} => arg[u] \notin {x}
  BY <1>0, <1>1, OthersWithout
<1>10. QED
  BY <1>1, <1>3, <1>4, <1>5, <1>6, <1>7, <1>8, <1>9, StepKept

\* What an executing call knows of its handle, now and after the step.
LEMMA ExecutorFacts ==
  ASSUME ServiceAssumption, ServiceInvariant, NEW t \in Threads, pc[t] \in Executing,
         NEW x, x = arg[t], EntriesKept
  PROVE  /\ x \in OfType("execution") /\ x \in Handles /\ x \in issued /\ Spent(x)
         /\ x \in DOMAIN store.reservations /\ executionOf[reviewOf[x]] = x
         /\ reviewOf[x] \in confirmed /\ reviewOf[x] \in OfType("review")
         /\ x \in issued' /\ (x \in Live(store') => store'.entries[x].consumed)
<1>1. x \in OfType("execution") /\ Spent(x)
  BY DEF ServiceInvariant, CallOK
<1>2. x \in issued /\ x \in Handles
  BY <1>1 DEF Spent, OfType
<1>3. /\ x \in DOMAIN store.reservations /\ executionOf[reviewOf[x]] = x
      /\ reviewOf[x] \in confirmed
  BY <1>1, <1>2 DEF ServiceInvariant, ExecutionOK
<1>4. reviewOf[x] \in OfType("review")
  BY <1>3 DEF ServiceInvariant, ServiceTypeOK
<1>5. QED
  BY <1>1, <1>2, <1>3, <1>4, SpentKept

\* An executing call goes on at a step that relies on its handle alone.
LEMMA ExecutorMoves ==
  ASSUME ServiceAssumption, ServiceInvariant, NEW t \in Threads, pc[t] \in Executing,
         EntriesKept, arg'[t] = arg[t],
         pc'[t] \in {"complete", "release", "read", "failRelease", "failComplete"}
  PROVE  CallOK(t)'
<1>1. arg[t] \in OfType("execution") /\ (Spent(arg[t]))'
  <2>1. PICK x : x = arg[t]
    OBVIOUS
  <2>2. /\ x \in OfType("execution") /\ x \in issued'
        /\ x \in Live(store') => store'.entries[x].consumed
    BY <2>1, ExecutorFacts
  <2>3. QED
    BY <2>1, <2>2 DEF Spent, Live
<1>2. QED
  BY <1>1 DEF CallOK, Locked, Executing, OfType

LEMMA ExecuteKept ==
  ASSUME StoreAssumption, ServiceAssumption, ServiceInvariant, NEW t \in Threads,
         StoreInvariant', Execute(t)
  PROVE  ServiceInvariant'
<1>1. /\ ServiceTypeOK /\ StoreInvariant /\ UNCHANGED objects
      /\ pc[t] \notin UnderWay
  BY DEF ServiceInvariant, Execute, UnderWay
<1>2. PICK x \in Known :
        /\ Consume(x, "execution")
        /\ IF Resolves(Purged, x, "execution", FALSE) THEN Work(t, "begin", x) ELSE Return(t)
  BY DEF Execute
<1>3. StoreKept({}, {}) /\ x \in issued /\ x \in Handles /\ UNCHANGED issued
  BY <1>1, <1>2, ConsumeLeaves DEF Known, StoreInvariant, Consume
<1>4. CASE Resolves(Purged, x, "execution", FALSE)
  <2>1. x \in OfType("execution") /\ ~Spent(x)
    BY <1>1, <1>3, <1>4, PurgedEntries DEF Resolves, OfType, Spent
  <2>2. store'.entries[x].consumed
    BY <1>1, <1>2, <1>4, ConsumeLeaves
  <2>3. OnlyMoves(t) /\ CallTypes' /\ UNCHANGED lock /\ pc'[t] = "begin" /\ arg'[t] = x
    BY <1>1, <1>2, <1>3, <1>4, WorkMoves DEF Steps
  <2>4. PICK v : v = reviewOf[x]
    OBVIOUS
  <2>5. /\ x \in DOMAIN store.reservations /\ executionOf[v] = x /\ v \in OfType("review")
        /\ Holds(x, items[v])
    BY <1>1, <1>3, <2>1, <2>4 DEF ServiceInvariant, ExecutionOK, ServiceTypeOK
  <2>6. entered[v] = 0
    BY <1>1, <2>1, <2>5 DEF ServiceInvariant, ReviewOK, ServiceTypeOK
  <2>7. UNCHANGED <<items, reviewOf, entered>>
    BY <1>1 DEF objects
  <2>8. Holds(x, items[v])'
    BY <1>1, <1>3, <2>5, <2>7, HoldsKept DEF Holds
  <2>9. Spent(x)'
    BY <1>3, <2>2 DEF Spent
  <2>10. CallOK(t)'
    BY <2>1, <2>3, <2>4, <2>6, <2>7, <2>8, <2>9 DEF CallOK, Locked, Executing, OfType
  <2>11. QED
    BY <1>1, <1>3, <2>1, <2>3, <2>10, MoveKept
<1>5. CASE ~Resolves(Purged, x, "execution", FALSE)
  BY <1>1, <1>2, <1>3, <1>5, ReturnKept
<1>6. QED
  BY <1>4, <1>5

LEMMA BeginExecutionKept ==
  ASSUME StoreAssumption, ServiceAssumption, ServiceInvariant, NEW t \in Threads,
         StoreInvariant', BeginExecution(t)
  PROVE  ServiceInvariant'
<1>0. PICK x, v : x = arg[t] /\ v = reviewOf[x]
  OBVIOUS
<1>1. /\ ServiceTypeOK /\ StoreInvariant /\ CallOK(t) /\ pc[t] = "begin" /\ UNCHANGED objects
      /\ pc[t] \in Executing /\ pc[t] \notin UnderWay
      /\ Begin(x) /\ Work(t, IF CanBegin(Purged, x) THEN "engine" ELSE "failRelease", x)
  BY <1>0 DEF ServiceInvariant, BeginExecution, Executing, UnderWay
<1>2. /\ StoreKept({x}, {}) /\ DOMAIN store'.reservations = DOMAIN store.reservations
      /\ CanBegin(Purged, x) =>
           /\ store.reservations[x].active
           /\ store'.reservations[x].active /\ store'.reservations[x].inFlight
           /\ store'.reservations[x].remaining = store.reservations[x].remaining
      /\ ~CanBegin(Purged, x) => StoreKept({}, {})
  BY <1>1, BeginLeaves
<1>3. /\ x \in OfType("execution") /\ x \in Handles /\ Spent(x)
      /\ x \in DOMAIN store.reservations /\ Spent(x)'
  BY <1>0, <1>1, <1>2, ExecutorFacts DEF StoreKept, Spent, Live
<1>4. /\ OnlyMoves(t) /\ CallTypes' /\ UNCHANGED lock /\ arg'[t] = x
      /\ pc'[t] = IF CanBegin(Purged, x) THEN "engine" ELSE "failRelease"
  BY <1>1, <1>3, WorkMoves DEF Steps
<1>5. UNCHANGED <<items, confirmed, executionOf, reviewOf, entered, recoveries>> /\ ObjectsKept(t)
  BY <1>1, SameObjectsKept
<1>6. CASE CanBegin(Purged, x)
  <2>1. Secured(x, items[v])'
    BY <1>0, <1>1, <1>2, <1>3, <1>5, <1>6 DEF CallOK, Holds, Secured, ActiveReservations
  <2>2. entered[v] = 0
    BY <1>0, <1>1 DEF CallOK
  <2>3. CallOK(t)'
    BY <1>0, <1>3, <1>4, <1>5, <1>6, <2>1, <2>2 DEF CallOK, Locked, Executing, OfType
  <2>4. ServiceTypeOK'
    BY <1>1, <1>2, <1>4, SameObjects, TypesTogether DEF StoreKept, EntriesKept
  <2>5. \A u \in Threads \ {t} : pc[u] \in Executing \cup {"issue"} => arg[u] \notin {x}
    BY <1>0, <1>1, OthersElsewhere
  <2>6. \A y \in OfType("execution") :
          (y \notin {x} \/ Spent(y)) /\ y \notin {} /\ recoveries'[y] = recoveries[y]
    BY <1>3, <1>5
  <2>7. arg'[t] = x /\ pc'[t] \in UnderWay
    BY <1>4, <1>6 DEF UnderWay
  <2>8. QED
    BY <1>0, <1>1, <1>2, <1>4, <1>5, <2>3, <2>4, <2>5, <2>6, <2>7, StepKept
<1>7. CASE ~CanBegin(Purged, x)
  <2>1. CallOK(t)'
    BY <1>0, <1>1, <1>2, <1>4, <1>7, ExecutorMoves DEF StoreKept
  <2>2. QED
    BY <1>0, <1>1, <1>2, <1>4, <1>7, <2>1, MoveKept
<1>8. QED
  BY <1>6, <1>7

\* A call that enters the engine is the only one for its review, then and later.
LEMMA RunEngineKept ==
  ASSUME StoreAssumption, ServiceAssumption, ServiceInvariant, NEW t \in Threads,
         StoreInvariant', RunEngine(t)
  PROVE  ServiceInvariant'
<1>0. PICK x, v : x = arg[t] /\ v = reviewOf[x]
  OBVIOUS
<1>1. /\ ServiceTypeOK /\ StoreInvariant /\ CallOK(t) /\ pc[t] = "engine"
      /\ pc[t] \in Executing
      /\ UNCHANGED <<storeVars, items, confirmed, executionOf, reviewOf, recoveries, finished>>
      /\ entered' = [entered EXCEPT ![v] = @ + 1]
      /\ Work(t, "failRelease", x) \/ \E n \in 0..items[v] : IssueNext(t, n)
  BY <1>0 DEF ServiceInvariant, RunEngine, Executing
<1>2. StoreKept({}, {}) /\ UNCHANGED store /\ UNCHANGED issued /\ EntriesKept
  BY <1>1, StutterLeaves DEF storeVars, StoreKept
<1>3. /\ x \in OfType("execution") /\ x \in Handles /\ Spent(x)
      /\ executionOf[v] = x /\ v \in confirmed /\ v \in OfType("review") /\ Spent(x)'
  BY <1>0, <1>1, <1>2, ExecutorFacts DEF Spent, Live
<1>4. items[v] \in 0..MaxItems /\ entered[v] = 0 /\ Secured(x, items[v])
  BY <1>0, <1>1, <1>3 DEF CallOK, ServiceTypeOK
<1>5. entered' \in [OfType("review") -> Nat] /\ entered'[v] = 1
      /\ \A w \in OfType("review") \ {v} : entered'[w] = entered[w]
  BY <1>1, <1>3, <1>4 DEF ServiceTypeOK
<1>6. ObjectTypes' /\ ObjectsKept(t)
  BY <1>1, <1>2, <1>5 DEF ServiceTypeOK, ObjectTypes, OfType, ObjectsKept
<1>7. ReviewOK(v)'
  BY <1>1, <1>3, <1>5 DEF ReviewOK, OfType
<1>8. \A u \in Threads \ {t} :
        pc[u] \in {"begin", "engine"} => entered'[reviewOf[arg[u]]] = entered[reviewOf[arg[u]]]
  <2> SUFFICES ASSUME NEW u \in Threads \ {t}, pc[u] \in {"begin", "engine"}
               PROVE  entered'[reviewOf[arg[u]]] = entered[reviewOf[arg[u]]]
    OBVIOUS
  <2>1. pc[u] \in Executing
    BY DEF Executing
  <2>2. PICK y : y = arg[u]
    OBVIOUS
  <2>3. executionOf[reviewOf[y]] = y /\ reviewOf[y] \in OfType("review")
    BY <1>2, <2>1, <2>2, ExecutorFacts
  <2>4. y # x
    BY <1>0, <1>1, <2>1, <2>2 DEF ServiceInvariant, OneExecutor
  <2>5. reviewOf[y] # v
    BY <1>3, <2>3, <2>4
  <2>6. QED
    BY <1>5, <2>2, <2>3, <2>5
<1>9. ASSUME OnlyMoves(t), CallTypes', CallOK(t)', pc'[t] \in UnderWay, arg'[t] = x
      PROVE  ServiceInvariant'
  <2>1. ServiceTypeOK'
    BY <1>6, <1>9, TypesTogether
  <2>2. \A w \in OfType("review") : entered'[w] = entered[w] \/ ReviewOK(w)'
    BY <1>5, <1>7
  <2>3. \A y \in OfType("execution") :
          (y \notin {} \/ Spent(y)) /\ y \notin {} /\ recoveries'[y] = recoveries[y]
    BY <1>1
  <2>4. QED
    BY <1>0, <1>1, <1>2, <1>6, <1>8, <1>9, <2>1, <2>2, <2>3, StepKept
<1>10. CASE Work(t, "failRelease", x)
  <2>1. /\ OnlyMoves(t) /\ CallTypes' /\ UNCHANGED lock /\ pc'[t] = "failRelease" /\ arg'[t] = x
    BY <1>1, <1>3, <1>10, WorkMoves DEF Steps
  <2>2. CallOK(t)'
    BY <1>0, <1>1, <1>2, <2>1, ExecutorMoves
  <2>3. QED
    BY <1>9, <2>1, <2>2 DEF UnderWay
<1>11. ASSUME NEW n \in 0..items[v], IssueNext(t, n)
       PROVE  ServiceInvariant'
  <2> DEFINE step == IF n = 0 THEN "complete" ELSE "issueRecovery"
  <2>1. step \in Steps /\ n \in 0..MaxItems /\ {} \in SUBSET OfType("recovery")
    BY <1>4, ServiceAssumption DEF Steps
  <2>2. Goto(t, step, x, n, {}) /\ UNCHANGED lock
    BY <1>0, <1>11 DEF IssueNext
  <2>3. OnlyMoves(t) /\ CallTypes' /\ pc'[t] = step /\ arg'[t] = x /\ due'[t] = n
    <3> HIDE DEF step
    <3> QED
      BY <1>1, <1>3, <2>1, <2>2, GotoMoves
  <2>4. CASE n = 0
    <3>1. CallOK(t)'
      BY <1>0, <1>1, <1>2, <2>3, <2>4, ExecutorMoves
    <3>2. QED
      BY <1>9, <2>3, <2>4, <3>1 DEF UnderWay
  <2>5. CASE n # 0
    <3>1. store.reservations[x].remaining \in Nat
      BY <1>1, <1>4, PurgedReservations DEF Secured, ActiveReservations, Reservation
    <3>2. store.reservations[x].remaining >= n /\ n > 0
      BY <1>4, <2>1, <2>5, <3>1 DEF Secured
    <3>3. Secured(x, n)'
      BY <1>2, <1>4, <3>2 DEF Secured, ActiveReservations
    <3>4. CallOK(t)'
      BY <1>3, <2>3, <2>5, <3>2, <3>3 DEF CallOK, Locked, Executing, OfType
    <3>5. QED
      BY <1>9, <2>3, <2>5, <3>4 DEF UnderWay
  <2>6. QED
    BY <2>4, <2>5
<1>12. QED
  BY <1>1, <1>10, <1>11

\* The recovery handle that is issued outlives the execution handle, and one slot less is due.
LEMMA IssueRecoveryKept ==
  ASSUME StoreAssumption, ServiceAssumption, ServiceInvariant, NEW t \in Threads,
         StoreInvariant', IssueRecovery(t)
  PROVE  ServiceInvariant'
<1>0. PICK x : x = arg[t]
  OBVIOUS
<1>1. /\ ServiceTypeOK /\ StoreInvariant /\ CallOK(t) /\ pc[t] = "issueRecovery"
      /\ pc[t] \in Executing /\ pc[t] \in UnderWay
      /\ UNCHANGED <<items, confirmed, executionOf, reviewOf, finished, entered>>
  BY DEF ServiceInvariant, IssueRecovery, Executing, UnderWay
<1>2. PICK r \in OfType("recovery") :
        /\ IssueReserved(r, "recovery", "ACTIVE", x)
        /\ IF CanTake(Purged, x)
           THEN recoveries' = [recoveries EXCEPT ![x] = @ \cup {r}] /\ IssueNext(t, due[t] - 1)
           ELSE Work(t, "failRelease", x) /\ UNCHANGED recoveries
  BY <1>0 DEF IssueRecovery
<1>3. /\ StoreKept({x}, {r}) /\ EntriesKept
      /\ DOMAIN store'.reservations = DOMAIN store.reservations
      /\ CanTake(Purged, x) =>
           /\ issued' = issued \cup {r}
           /\ r \in Live(store') /\ store'.entries[r].expires = now' + Ttl
           /\ store.reservations[x].active /\ store'.reservations[x].active
           /\ store'.reservations[x].inFlight = store.reservations[x].inFlight
           /\ store'.reservations[x].remaining = store.reservations[x].remaining - 1
      /\ ~CanTake(Purged, x) => StoreKept({}, {})
  BY <1>1, <1>2, IssueReservedLeaves DEF StoreKept
<1>4. /\ x \in OfType("execution") /\ x \in Handles /\ x \in issued /\ Spent(x)
      /\ x \in DOMAIN store.reservations /\ executionOf[reviewOf[x]] = x
      /\ reviewOf[x] \in confirmed /\ x \in issued' /\ Spent(x)'
  BY <1>0, <1>1, <1>3, ExecutorFacts DEF Spent, Live
<1>5. Secured(x, due[t]) /\ due[t] \in 1..MaxItems
  BY <1>0, <1>1, ServiceAssumption DEF CallOK, ServiceTypeOK
<1>6. CASE CanTake(Purged, x)
  <2> DEFINE n == due[t] - 1
             step == IF n = 0 THEN "complete" ELSE "issueRecovery"
  <2>1. recoveries' = [recoveries EXCEPT ![x] = @ \cup {r}] /\ IssueNext(t, n)
    BY <1>2, <1>6
  <2>2. n \in 0..MaxItems /\ step \in Steps /\ {} \in SUBSET OfType("recovery")
    BY <1>5, ServiceAssumption DEF Steps
  <2>3. Goto(t, step, x, n, {}) /\ UNCHANGED lock
    BY <1>0, <2>1 DEF IssueNext
  <2>4. OnlyMoves(t) /\ CallTypes' /\ pc'[t] = step /\ arg'[t] = x /\ due'[t] = n
    <3> HIDE DEF step, n
    <3> QED
      BY <1>1, <1>4, <2>2, <2>3, GotoMoves
  <2>5. ObjectTypes'
    <3>1. issued \subseteq issued' /\ r \in issued'
      BY <1>3, <1>6
    <3>2. \A y \in OfType("execution") : recoveries[y] \subseteq issued' \cap OfType("recovery")
      BY <1>1, <3>1 DEF ServiceTypeOK
    <3>3. recoveries' = [y \in OfType("execution") |->
                           IF y = x THEN recoveries[x] \cup {r} ELSE recoveries[y]]
      BY <1>1, <1>4, <2>1 DEF ServiceTypeOK
    <3>4. recoveries' \in [OfType("execution") -> SUBSET (issued' \cap OfType("recovery"))]
      BY <3>1, <3>2, <3>3
    <3>5. QED
      BY <1>1, <3>1, <3>4 DEF ServiceTypeOK, ObjectTypes, OfType
  <2>6. ServiceTypeOK'
    BY <2>4, <2>5, TypesTogether
  <2>7. ObjectsKept(t)
    BY <1>1 DEF ObjectsKept
  <2>8. store.reservations[x] \in Reservation
    BY <1>1, <1>4, PurgedReservations
  <2>9. CallOK(t)'
    <3>1. CASE n = 0
      BY <1>0, <1>1, <1>3, <2>4, <3>1, ExecutorMoves
    <3>2. CASE n # 0
      <4>1. store'.reservations[x].remaining >= n /\ n > 0
        BY <1>3, <1>5, <1>6, <2>2, <2>8, <3>2 DEF Secured, Reservation
      <4>2. PICK m : m = n
        OBVIOUS
      <4>3. Secured(x, m)'
        BY <1>3, <1>4, <1>5, <1>6, <4>1, <4>2 DEF Secured, ActiveReservations
      <4>4. pc'[t] = "issueRecovery" /\ due'[t] = m /\ m > 0
        BY <2>4, <3>2, <4>1, <4>2
      <4>5. QED
        BY <1>4, <2>4, <4>3, <4>4 DEF CallOK, Locked, Executing, OfType
    <3>3. QED
      BY <3>1, <3>2
  <2>10. ExecutionOK(x)'
    <3>1. ASSUME x \in Live(store'), NEW q \in recoveries'[x]
          PROVE  q \in Live(store') /\ store'.entries[q].expires >= store'.entries[x].expires
      <4>1. CASE q \in recoveries[x]
        BY <1>3, <1>4, <3>1, <4>1, RecoveriesOutlive
      <4>2. CASE q = r
        <5>1. x \in Live(store) /\ store'.entries[x].expires = store.entries[x].expires
          BY <1>3, <1>4, <3>1 DEF EntriesKept
        <5>2. store.entries[x].expires \in Nat /\ store.entries[x].expires <= now + Ttl
          BY <1>1, <5>1, PurgedEntries DEF ServiceInvariant, Young, Entry
        <5>3. now' >= now /\ now' \in Nat /\ now \in Nat
          BY <1>1, <1>3 DEF EntriesKept, StoreInvariant, StoreAssumption
        <5>4. QED
          BY <1>3, <1>6, <4>2, <5>1, <5>2, <5>3 DEF StoreAssumption
      <4>3. QED
        BY <1>1, <1>4, <2>1, <3>1, <4>1, <4>2 DEF ServiceTypeOK
    <3>2. QED
      BY <1>1, <1>3, <1>4, <3>1 DEF ExecutionOK, Live
  <2>11. \A u \in Threads \ {t} : pc[u] \in Executing \cup {"issue"} => arg[u] \notin {x}
    BY <1>0, <1>1, OthersElsewhere
  <2>12. \A u \in Threads \ {t} : pc[u] \in {"issue", "giveUp"} => arg[u] \notin {r}
    BY <1>2 DEF ServiceInvariant, CallOK, OfType
  <2>13. \A y \in OfType("execution") :
           \/ (y \notin {x} \/ Spent(y)) /\ y \notin {r} /\ recoveries'[y] = recoveries[y]
           \/ ExecutionOK(y)'
    <3>1. \A y \in OfType("execution") \ {x} : recoveries'[y] = recoveries[y] /\ y # r
      BY <1>1, <1>2, <2>1 DEF ServiceTypeOK, OfType
    <3>2. QED
      BY <2>10, <3>1
  <2>14. pc'[t] \in UnderWay
    BY <2>4 DEF UnderWay
  <2>15. QED
    BY <1>0, <1>1, <1>3, <2>4, <2>6, <2>7, <2>9, <2>11, <2>12, <2>13, <2>14, StepKept
<1>7. CASE ~CanTake(Purged, x)
  <2>1. UNCHANGED objects /\ Work(t, "failRelease", x)
    BY <1>1, <1>2, <1>7 DEF objects
  <2>2. /\ OnlyMoves(t) /\ CallTypes' /\ UNCHANGED lock /\ pc'[t] = "failRelease" /\ arg'[t] = x
    BY <1>1, <1>4, <2>1, WorkMoves DEF Steps
  <2>3. CallOK(t)'
    BY <1>0, <1>1, <1>3, <2>2, ExecutorMoves
  <2>4. QED
    BY <1>0, <1>1, <1>3, <1>7, <2>1, <2>2, <2>3, MoveKept DEF UnderWay
<1>8. QED
  BY <1>6, <1>7

LEMMA CompleteExecutionKept ==
  ASSUME StoreAssumption, ServiceAssumption, ServiceInvariant, NEW t \in Threads,
         StoreInvariant', CompleteExecution(t)
  PROVE  ServiceInvariant'
<1>0. PICK x : x = arg[t]
  OBVIOUS
<1>1. /\ ServiceTypeOK /\ StoreInvariant /\ pc[t] = "complete" /\ pc[t] \in Executing
      /\ UNCHANGED <<items, confirmed, executionOf, reviewOf, recoveries, entered>>
      /\ finished' = finished \cup {x} /\ Work(t, "release", x)
  BY <1>0 DEF ServiceInvariant, CompleteExecution, Executing
<1>2. StoreKept({}, {}) /\ EntriesKept
  BY <1>1, CompleteLeaves DEF CompleteExecution, StoreKept
<1>3. x \in OfType("execution") /\ x \in Handles /\ x \in issued'
  BY <1>0, <1>1, <1>2, ExecutorFacts
<1>4. OnlyMoves(t) /\ CallTypes' /\ pc'[t] = "release" /\ arg'[t] = x
  BY <1>1, <1>3, WorkMoves DEF Steps
<1>5. ObjectTypes'
  <2>1. issued' = issued
    BY <1>2 DEF StoreKept, EntriesKept
  <2>2. QED
    BY <1>1, <1>3, <2>1 DEF ServiceTypeOK, ObjectTypes, OfType
<1>6. ServiceTypeOK' /\ ObjectsKept(t)
  BY <1>1, <1>4, <1>5, TypesTogether DEF ObjectsKept
<1>7. CallOK(t)'
  BY <1>0, <1>1, <1>2, <1>4, ExecutorMoves
<1>8. QED
  BY <1>0, <1>1, <1>2, <1>4, <1>6, <1>7, QuietKept DEF UnderWay

\* A release by the call that executes the handle: the reservation is no longer under way.
LEMMA ReleaseKept ==
  ASSUME StoreAssumption, ServiceAssumption, ServiceInvariant, NEW t \in Threads,
         StoreInvariant', pc[t] \in Executing, NEW x, x = arg[t], Release(x), UNCHANGED objects,
         NEW step \in {"read", "failComplete"}, NEW rest \in SUBSET OfType("recovery"),
         Goto(t, step, x, 0, rest), UNCHANGED lock
  PROVE  ServiceInvariant'
<1>1. ServiceTypeOK /\ StoreInvariant
  BY DEF ServiceInvariant
<1>2. /\ StoreKept({x}, {}) /\ EntriesKept /\ x \notin ActiveReservations(store')
  BY <1>1, ReleaseLeaves DEF StoreKept
<1>3. x \in OfType("execution") /\ x \in Handles /\ Spent(x)
  BY <1>2, ExecutorFacts
<1>4. OnlyMoves(t) /\ CallTypes' /\ pc'[t] = step /\ arg'[t] = x
  <2>1. step \in Steps /\ 0 \in 0..MaxItems
    BY ServiceAssumption DEF Steps
  <2>2. QED
    BY <1>1, <1>3, <2>1, GotoMoves
<1>5. CallOK(t)'
  BY <1>2, <1>4, ExecutorMoves
<1>6. ServiceTypeOK'
  BY <1>1, <1>2, <1>4, SameObjects, TypesTogether DEF EntriesKept
<1>7. ObjectsKept(t) /\ UNCHANGED <<reviewOf, entered, recoveries>>
  BY SameObjectsKept
<1>8. \A u \in Threads \ {t} : pc[u] \in Executing \cup {"issue"} => arg[u] \notin {x}
  BY OthersElsewhere
<1>9. \A y \in OfType("execution") :
        (y \notin {x} \/ Spent(y)) /\ y \notin {} /\ recoveries'[y] = recoveries[y]
  BY <1>3, <1>7
<1>10. QED
  BY <1>2, <1>4, <1>5, <1>6, <1>7, <1>8, <1>9, StepKept

LEMMA ReleaseSlotsKept ==
  ASSUME StoreAssumption, ServiceAssumption, ServiceInvariant, NEW t \in Threads,
         StoreInvariant', ReleaseSlots(t)
  PROVE  ServiceInvariant'
<1>0. PICK x : x = arg[t]
  OBVIOUS
<1>1. /\ pc[t] \in Executing /\ Release(x) /\ UNCHANGED objects
      /\ Goto(t, "read", x, 0, recoveries[x]) /\ UNCHANGED lock
  BY <1>0 DEF ReleaseSlots, ReadNext, Executing
<1>2. recoveries[x] \in SUBSET OfType("recovery")
  BY <1>0, <1>1 DEF ServiceInvariant, CallOK, ServiceTypeOK
<1>3. QED
  BY <1>0, <1>1, <1>2, ReleaseKept

LEMMA FailReleaseKept ==
  ASSUME StoreAssumption, ServiceAssumption, ServiceInvariant, NEW t \in Threads,
         StoreInvariant', FailRelease(t)
  PROVE  ServiceInvariant'
<1>0. PICK x : x = arg[t]
  OBVIOUS
<1>1. /\ pc[t] \in Executing /\ Release(x) /\ UNCHANGED objects
      /\ Goto(t, "failComplete", x, 0, {}) /\ UNCHANGED lock
  BY <1>0 DEF FailRelease, Work, Executing
<1>2. {} \in SUBSET OfType("recovery")
  OBVIOUS
<1>3. QED
  BY <1>0, <1>1, <1>2, ReleaseKept

LEMMA ReadResultKept ==
  ASSUME StoreAssumption, ServiceAssumption, ServiceInvariant, NEW t \in Threads,
         StoreInvariant', ReadResult(t)
  PROVE  ServiceInvariant'
<1>0. PICK x : x = arg[t]
  OBVIOUS
<1>1. /\ ServiceTypeOK /\ StoreInvariant /\ pc[t] \in {"read", "status"} /\ UNCHANGED objects
      /\ x \in Handles \cup {NoHandle} /\ left[t] \in SUBSET OfType("recovery")
      /\ pc[t] \notin UnderWay
  BY <1>0 DEF ServiceInvariant, ReadResult, ServiceTypeOK, UnderWay
<1>2. StoreKept({}, {}) /\ EntriesKept
  BY <1>1, ResolveLeaves, StutterLeaves DEF ReadResult, StoreKept
<1>3. CASE Return(t)
  BY <1>1, <1>2, <1>3, ReturnKept
<1>4. ASSUME NEW r \in left[t], ReadNext(t, pc[t], left[t] \ {r})
      PROVE  ServiceInvariant'
  <2>1. /\ pc[t] \in Steps /\ 0 \in 0..MaxItems /\ left[t] \ {r} \in SUBSET OfType("recovery")
        /\ Goto(t, pc[t], x, 0, left[t] \ {r}) /\ UNCHANGED lock
    BY <1>0, <1>1, <1>4, ServiceAssumption DEF Steps, ReadNext
  <2>2. OnlyMoves(t) /\ CallTypes' /\ pc'[t] = pc[t] /\ arg'[t] = x
    BY <1>1, <2>1, GotoMoves
  <2>3. CallOK(t)'
    <3>1. CASE pc[t] = "read"
      BY <1>0, <1>2, <2>2, <3>1, ExecutorMoves DEF Executing
    <3>2. CASE pc[t] = "status"
      BY <2>2, <3>2 DEF CallOK, Locked, Executing
    <3>3. QED
      BY <1>1, <3>1, <3>2
  <2>4. QED
    BY <1>0, <1>1, <1>2, <2>2, <2>3, MoveKept
<1>5. CASE pc[t] = "read" /\ Work(t, "failRelease", x)
  <2>1. OnlyMoves(t) /\ CallTypes' /\ pc'[t] = "failRelease" /\ arg'[t] = x
    BY <1>1, <1>5, WorkMoves DEF Steps
  <2>2. CallOK(t)' /\ pc[t] \in Executing
    BY <1>0, <1>2, <1>5, <2>1, ExecutorMoves DEF Executing
  <2>3. QED
    BY <1>0, <1>1, <1>2, <2>1, <2>2, MoveKept
<1>6. QED
  BY <1>0, <1>3, <1>4, <1>5 DEF ReadResult

LEMMA FailCompleteKept ==
  ASSUME StoreAssumption, ServiceAssumption, ServiceInvariant, NEW t \in Threads,
         StoreInvariant', FailComplete(t)
  PROVE  ServiceInvariant'
<1>1. StoreKept({}, {})
  BY CompleteLeaves DEF FailComplete, ServiceInvariant
<1>2. QED
  BY <1>1, ReturnKept DEF FailComplete, UnderWay

LEMMA GetStatusKept ==
  ASSUME StoreAssumption, ServiceAssumption, ServiceInvariant, NEW t \in Threads,
         StoreInvariant', GetStatus(t)
  PROVE  ServiceInvariant'
<1>1. /\ ServiceTypeOK /\ StoreInvariant /\ UNCHANGED objects /\ pc[t] \notin UnderWay
  BY DEF ServiceInvariant, GetStatus, UnderWay
<1>2. StoreKept({}, {})
  BY <1>1, ResolveLeaves DEF GetStatus
<1>3. ASSUME NEW x \in Known, Resolves(Purged, x, "execution", TRUE),
             NEW page \in SUBSET recoveries[x], Goto(t, "status", x, 0, page), UNCHANGED lock
      PROVE  ServiceInvariant'
  <2>1. x \in Handles /\ x \in OfType("execution")
    BY <1>1, <1>3 DEF Known, StoreInvariant, Resolves, OfType
  <2>2. "status" \in Steps /\ 0 \in 0..MaxItems /\ page \in SUBSET OfType("recovery")
    BY <1>1, <2>1, ServiceAssumption DEF Steps, ServiceTypeOK
  <2>3. OnlyMoves(t) /\ CallTypes' /\ pc'[t] = "status"
    BY <1>1, <1>3, <2>1, <2>2, GotoMoves
  <2>4. CallOK(t)' /\ pc'[t] \notin Executing
    BY <2>3 DEF CallOK, Locked, Executing
  <2>5. QED
    BY <1>1, <1>2, <2>3, <2>4, MoveKept
<1>4. CASE Return(t)
  BY <1>1, <1>2, <1>4, ReturnKept
<1>5. QED
  BY <1>3, <1>4 DEF GetStatus

LEMMA RequestUndoKept ==
  ASSUME StoreAssumption, ServiceAssumption, ServiceInvariant, NEW t \in Threads,
         StoreInvariant', RequestUndo(t)
  PROVE  ServiceInvariant'
<1>1. /\ ServiceTypeOK /\ StoreInvariant /\ UNCHANGED objects /\ pc[t] \notin UnderWay
  BY DEF ServiceInvariant, RequestUndo, UnderWay
<1>2. PICK r \in Known :
        /\ Consume(r, "recovery")
        /\ IF Resolves(Purged, r, "recovery", FALSE) THEN Work(t, "undo", r) ELSE Return(t)
  BY DEF RequestUndo
<1>3. StoreKept({}, {}) /\ r \in issued /\ r \in Handles /\ UNCHANGED issued
  BY <1>1, <1>2, ConsumeLeaves DEF Known, StoreInvariant, Consume
<1>4. CASE Resolves(Purged, r, "recovery", FALSE)
  <2>1. r \in OfType("recovery")
    BY <1>3, <1>4 DEF Resolves, OfType
  <2>2. OnlyMoves(t) /\ CallTypes' /\ pc'[t] = "undo" /\ arg'[t] = r
    BY <1>1, <1>2, <1>3, <1>4, WorkMoves DEF Steps
  <2>3. CallOK(t)' /\ pc'[t] \notin Executing
    BY <1>3, <2>1, <2>2 DEF CallOK, Locked, Executing, OfType
  <2>4. QED
    BY <1>1, <1>3, <2>2, <2>3, MoveKept
<1>5. CASE ~Resolves(Purged, r, "recovery", FALSE)
  BY <1>1, <1>2, <1>3, <1>5, ReturnKept
<1>6. QED
  BY <1>4, <1>5

LEMMA FinishUndoKept ==
  ASSUME StoreAssumption, ServiceAssumption, ServiceInvariant, NEW t \in Threads,
         StoreInvariant', FinishUndo(t)
  PROVE  ServiceInvariant'
<1>1. StoreKept({}, {})
  BY CompleteLeaves DEF FinishUndo, ServiceInvariant
<1>2. QED
  BY <1>1, ReturnKept DEF FinishUndo, UnderWay

-----------------------------------------------------------------------------
(* Steps of no thread, and the initial state. *)

\* When only the store changes, and no reservation is begun or taken from.
LEMMA StoreMoves ==
  ASSUME StoreAssumption, ServiceAssumption, ServiceInvariant, StoreInvariant',
         StoreKept({}, {}), UNCHANGED <<objects, lock, pc, arg, due, left>>
  PROVE  ServiceInvariant'
<1>1. ServiceTypeOK'
  <2>1. ServiceTypeOK /\ issued \subseteq issued'
    BY DEF ServiceInvariant, StoreKept, EntriesKept
  <2>2. ObjectTypes'
    BY <2>1, SameObjects
  <2>3. CallTypes'
    BY <2>1 DEF ServiceTypeOK, CallTypes, OfType
  <2>4. QED
    BY <2>2, <2>3, TypesTogether
<1>2. \A t : ObjectsKept(t)
  BY SameObjectsKept
<1>3. UNCHANGED <<recoveries, entered>>
  BY DEF objects
<1>4. \A x \in OfType("execution") : ExecutionOK(x)'
  <2> SUFFICES ASSUME NEW x \in OfType("execution") PROVE ExecutionOK(x)'
    OBVIOUS
  <2>1. QED
    BY <1>2, <1>3, ExecutionKept
<1>5. \A v \in OfType("review") : ReviewOK(v)'
  BY <1>2, <1>3, OtherReviewKept DEF StoreKept
<1>6. Young' /\ OneExecutor'
  <2>1. \A h \in Live(store) : store.entries[h].expires \in Nat
    BY PurgedEntries DEF ServiceInvariant, Entry
  <2>2. \A h \in Live(store') : store'.entries[h].expires <= now' + Ttl
    BY <2>1 DEF ServiceInvariant, StoreInvariant, Young, StoreKept, EntriesKept, StoreAssumption
  <2>3. QED
    BY <2>2 DEF ServiceInvariant, Young, OneExecutor, Live
<1>7. NothingLeaked'
  <2> SUFFICES ASSUME NEW r \in ActiveReservations(store'), store'.reservations[r].inFlight
               PROVE  \E u \in Threads : arg[u] = r /\ pc[u] \in UnderWay
    BY DEF NothingLeaked, ActiveReservations, UnderWay
  <2>1. r \in ActiveReservations(store) /\ store.reservations[r].inFlight
    BY DEF StoreKept, ReservationKept, ActiveReservations
  <2>2. QED
    BY <2>1 DEF ServiceInvariant, NothingLeaked, UnderWay
<1>8. \A u \in Threads : CallOK(u)'
  <2> SUFFICES ASSUME NEW u \in Threads PROVE CallOK(u)'
    OBVIOUS
  <2>1. OnlyMoves(NoThread) /\ u # NoThread
    BY ServiceAssumption DEF OnlyMoves, ServiceInvariant, ServiceTypeOK
  <2>2. QED
    BY <1>2, <1>3, <2>1, OtherCallKept
<1>9. QED
  BY <1>1, <1>4, <1>5, <1>6, <1>7, <1>8 DEF ServiceInvariant

LEMMA ServiceInit ==
  ASSUME StoreAssumption, ServiceAssumption, Init
  PROVE  ServiceInvariant
<1>1. StoreInvariant
  BY InitKeeps DEF Init
<1>2. /\ issued = {} /\ now = 0 /\ store.entries = <<>> /\ store.reservations = <<>>
      /\ Live(store) = {} /\ DOMAIN store.reservations = {} /\ ActiveReservations(store) = {}
  BY DEF Init, StoreInit, Live, ActiveReservations
<1>3. 0 \in 0..MaxItems /\ "idle" \in Steps /\ {} \in SUBSET OfType("recovery")
  BY ServiceAssumption DEF Steps
<1>4. ServiceTypeOK
  BY <1>1, <1>3, StoreTypes DEF Init, ServiceTypeOK
<1>5. \A t \in Threads : CallOK(t)
  BY DEF Init, CallOK, Locked, Executing
<1>6. \A x \in OfType("execution") : ExecutionOK(x)
  BY <1>2 DEF Init, ExecutionOK
<1>7. \A v \in OfType("review") : ReviewOK(v)
  BY DEF Init, ReviewOK
<1>8. OneExecutor
  BY DEF Init, OneExecutor, Executing
<1>9. QED
  BY <1>1, <1>2, <1>4, <1>5, <1>6, <1>7, <1>8 DEF ServiceInvariant, Young, NothingLeaked

LEMMA ServiceNext ==
  ASSUME StoreAssumption, ServiceAssumption, ServiceInvariant, [Next]_vars
  PROVE  ServiceInvariant'
<1>1. StoreInvariant'
  BY NextUsesStore, NextKeeps DEF ServiceInvariant
<1>2. CASE UNCHANGED vars
  <2>1. StoreKept({}, {})
    BY <1>2, StutterLeaves DEF vars, ServiceInvariant
  <2>2. QED
    BY <1>1, <1>2, <2>1, StoreMoves DEF vars
<1>3. CASE ClockTicks
  BY <1>1, <1>3, TickLeaves, StoreMoves DEF ClockTicks, ServiceInvariant
<1>4. ASSUME NEW t \in Threads, ThreadStep(t)
      PROVE  ServiceInvariant'
  BY <1>1, <1>4, ScanKept, RemapScanKept, CreateReviewKept, IssueReviewKept, ConfirmKept,
     MarkConfirmedKept, RequestExecutionKept, CheckExecutionKept, ReserveSlotsKept,
     IssueExecutionKept, GiveUpKept, ExecuteKept, BeginExecutionKept, RunEngineKept,
     IssueRecoveryKept, CompleteExecutionKept, ReleaseSlotsKept, ReadResultKept,
     FailReleaseKept, FailCompleteKept, GetStatusKept, RequestUndoKept, FinishUndoKept
  DEF ThreadStep
<1>5. QED
  BY <1>2, <1>3, <1>4 DEF Next

-----------------------------------------------------------------------------
(* The theorems. StoreAssumption and ServiceAssumption are assumptions of the modules. *)

\* The invariant of calls, executions and reviews holds in every state of the service.
THEOREM ServiceInvariantHolds == Spec => []ServiceInvariant
<1>1. Init => ServiceInvariant
  BY StoreAssumption, ServiceAssumption, ServiceInit
<1>2. ServiceInvariant /\ [Next]_vars => ServiceInvariant'
  BY StoreAssumption, ServiceAssumption, ServiceNext
<1>3. QED
  BY <1>1, <1>2, PTL DEF Spec

\* Every step of the service is an operation of the registry or leaves it alone: what the registry
\* promises to its callers holds whatever the workflow does.
THEOREM ServiceUsesStore == Spec => StoreSpec
<1>1. Init => StoreInit
  BY DEF Init
<1>2. ServiceInvariant /\ [Next]_vars => [StoreNext]_storeVars
  BY StoreAssumption, ServiceAssumption, NextUsesStore
<1>3. QED
  BY <1>1, <1>2, ServiceInvariantHolds, PTL DEF Spec, StoreSpec

\* The registry's own promises, for the workflow.
THEOREM ServiceKeepsCapacity == Spec => [](ReservedIsExact /\ WithinCapacity) /\ StaleIsRemembered
  BY ServiceUsesStore, ReservedAlwaysExact, AlwaysWithinCapacity, StaleAlwaysRemembered, PTL

\* Every part of the workflow has its type.
THEOREM ServiceTypeCorrect == Spec => []ServiceTypeOK
<1>1. ServiceInvariant => ServiceTypeOK
  BY DEF ServiceInvariant
<1>2. QED
  BY <1>1, ServiceInvariantHolds, PTL

\* A confirmed review enters the engine at most once, for any number of callers and requests:
\* request_cleanup_execution hands out one execution handle, and execute_cleanup consumes it.
THEOREM OnlyOneExecution == Spec => []OneExecution
<1>1. ServiceInvariant => OneExecution
  BY DEF ServiceInvariant, ReviewOK, OneExecution, ServiceTypeOK
<1>2. QED
  BY <1>1, ServiceInvariantHolds, PTL

\* The engine never runs for a review without a HumanConfirmation.
THEOREM AlwaysConfirmedFirst == Spec => []ConfirmedFirst
<1>1. ServiceInvariant => ConfirmedFirst
  BY DEF ServiceInvariant, ReviewOK, ConfirmedFirst
<1>2. QED
  BY <1>1, ServiceInvariantHolds, PTL

\* While the engine runs and its recovery handles are issued, their slots are there.
THEOREM RecoveriesAlwaysCovered == Spec => []RecoveriesCovered
<1>1. ServiceInvariant => RecoveriesCovered
  BY DEF ServiceInvariant, CallOK, Secured, RecoveriesCovered
<1>2. QED
  BY <1>1, ServiceInvariantHolds, PTL

\* Whoever can resolve an execution handle with a result can resolve all its recovery handles.
THEOREM ResultAlwaysReadable == Spec => []ResultReadable
<1>1. ServiceInvariant => ResultReadable
  <2> SUFFICES ASSUME ServiceInvariant, NEW x \in finished,
                      x \in Live(store) \ ExpiredIn(store.entries), NEW r \in recoveries[x]
               PROVE  r \in Live(store) \ ExpiredIn(store.entries)
    BY DEF ResultReadable, ServiceInvariant, ServiceTypeOK
  <2>1. x \in OfType("execution") /\ now \in Nat
    BY StoreAssumption DEF ServiceInvariant, ServiceTypeOK, StoreTypeOK
  <2>2. r \in Live(store) /\ store.entries[r].expires >= store.entries[x].expires
    BY <2>1 DEF ServiceInvariant, ExecutionOK
  <2>3. store.entries[r].expires \in Nat /\ store.entries[x].expires \in Nat
    BY <2>2, StoreAssumption, PurgedEntries DEF ServiceInvariant, Entry
  <2>4. QED
    BY <2>1, <2>2, <2>3 DEF ExpiredIn, Live
<1>2. QED
  BY <1>1, ServiceInvariantHolds, PTL

\* Slots are held past their TTL only while a call is executing their handle.
THEOREM NeverLeaked == Spec => []NothingLeaked
<1>1. ServiceInvariant => NothingLeaked
  BY DEF ServiceInvariant
<1>2. QED
  BY <1>1, ServiceInvariantHolds, PTL
=============================================================================
