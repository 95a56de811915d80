----------------------------- MODULE StartupProofs -----------------------------
(***************************************************************************)
(* For every number of instances and faults and every venue: there is one  *)
(* event with all its seats, it stays, and whoever serves, serves it.  So  *)
(* the instances together implement OneVenue, a venue that opens once.     *)
(***************************************************************************)
EXTENDS Startup, TLAPS

-----------------------------------------------------------------------------
(* The inductive invariant.                                                *)

\* An open seeding transaction is somebody's and shuts out all others.
SeedingIsExclusive ==
    /\ \A i \in Instances : pc[i] = "insertSeats" <=> seeder = i
    /\ seeder # Nobody => events = {} /\ draft.id \in 1 .. lastId

\* Whoever inserts has drawn an id, and its transaction has that id.
IdsDrawn ==
    \A i \in Instances :
        /\ pc[i] = "insertEvent" => eventID[i] \in 1 .. lastId
        /\ seeder = i => draft.id = eventID[i]

\* Past the seeding an instance has the id of the event.
KnowsEvent ==
    \A i \in Instances :
        /\ pc[i] \in {"loadEvent", "loadSeats", "up"} => \E e \in events : e.id = eventID[i]
        /\ pc[i] \in {"loadSeats", "up"} => \E e \in events : e.id = event[i]

\* An open migration is somebody's, and its tables are not there yet.
MigrationIsExclusive ==
    /\ \A i \in Instances : pc[i] = "migrating" <=> migrator = i
    /\ migrator # Nobody => ~migrated

Inv == TypeOK /\ OneEvent /\ ServesVenue /\ SeedingIsExclusive /\ IdsDrawn /\ KnowsEvent

\* The SHARE lock is that of the migrations in the middle of it, or of orphans.
LocksAreOwned == \A i \in Instances : pc[i] = "indexing" <=> i \in sharing

\* No statement of SeedIfEmpty, PrimaryEvent or Seats meets a database without
\* its tables, whoever was creating them when another process died or lost.
TablesFirst ==
    ~migrated => /\ events = {}
                 /\ seeder = Nobody
                 /\ \A i \in Instances :
                       pc[i] \in {"down", "migrate", "create", "migrating"}

LEMMA InitStartup == Init => Inv
  <1> SUFFICES ASSUME Init PROVE Inv
    OBVIOUS
  <1>1. TypeOK
    <2>1. 0 \in 0 .. 0 /\ 0 \in 0 .. MaxFaults /\ 0 \in Nat
      BY StartupAssumption
    <2>2. draft \in [id : 0 .. lastId, seats : SUBSET Venue]
      BY <2>1 DEF Init, NoDraft
    <2>3. seats \in [Instances -> SUBSET Venue] /\ pc \in [Instances -> Places]
      BY DEF Init, Places
    <2>4. QED
      BY <2>1, <2>2, <2>3 DEF Init, TypeOK, Owners
  <1>2. OneEvent /\ ServesVenue /\ KnowsEvent
    BY DEF Init, OneEvent, ServesVenue, KnowsEvent
  <1>3. SeedingIsExclusive /\ IdsDrawn
    BY StartupAssumption DEF Init, SeedingIsExclusive, IdsDrawn
  <1>4. QED BY <1>1, <1>2, <1>3 DEF Inv

\* While there is an event, PrimaryEvent is it.
LEMMA PrimaryIsTheEvent ==
    ASSUME Inv, events # {}
    PROVE  /\ PrimaryEvent \in events
           /\ PrimaryEvent.id \in 1 .. lastId
           /\ PrimaryEvent.seats = Venue
           /\ \A e \in events : e = PrimaryEvent
  <1>1. PICK e \in events : TRUE
    OBVIOUS
  <1>2. \A f \in events : f = e
    BY DEF Inv, OneEvent
  <1>3. e.id \in 1 .. lastId /\ e.seats = Venue
    BY DEF Inv, TypeOK, OneEvent
  <1>4. \A f \in events : e.id <= f.id
    BY <1>2, <1>3
  <1>5. PrimaryEvent = e
    BY <1>2, <1>4 DEF PrimaryEvent
  <1>6. QED BY <1>2, <1>3, <1>5

\* Steps in which an instance goes to a place where nothing is asked of it.
LEMMA MovesKeep ==
    ASSUME Inv, NEW i \in Instances, NEW here \in Places, NEW next \in Places,
           At(i, here, next), here # "insertSeats",
           next \notin {"insertEvent", "insertSeats", "loadEvent", "loadSeats", "up"},
           migrated' \in BOOLEAN, migrator' \in Owners,
           sharing' \subseteq Instances \cup {Orphan},
           UNCHANGED <<tables, transaction, locals, faults>>
    PROVE  Inv'
  <1> USE DEF Inv, TypeOK, At, tables, transaction, locals
  <1>1. TypeOK'
    OBVIOUS
  <1>2. OneEvent' /\ ServesVenue'
    BY DEF OneEvent, ServesVenue
  <1>3. SeedingIsExclusive'
    BY DEF SeedingIsExclusive
  <1>4. IdsDrawn' /\ KnowsEvent'
    BY DEF IdsDrawn, KnowsEvent
  <1>5. QED BY <1>1, <1>2, <1>3, <1>4

\* A transaction that ends by committing the whole venue.
LEMMA CommitKeeps ==
    ASSUME Inv, Commit, seeder # Nobody, draft.seats = Venue,
           UNCHANGED <<schema, lastId, locals, faults>>,
           pc' \in [Instances -> Places],
           \A j \in Instances : pc'[j] # "insertSeats",
           \A j \in Instances : \/ pc'[j] = pc[j]
                                \/ seeder = j /\ pc'[j] = "loadEvent"
    PROVE  Inv'
  <1> USE DEF Inv, Commit, schema, locals
  <1>1. /\ events' = {draft}
        /\ draft.id \in 1 .. lastId
    BY DEF SeedingIsExclusive
  <1>2. TypeOK'
    <2>1. draft \in [id : 1 .. lastId, seats : SUBSET Venue]
      BY <1>1 DEF TypeOK
    <2>2. NoDraft \in [id : 0 .. lastId, seats : SUBSET Venue]
      BY DEF TypeOK, NoDraft
    <2>3. QED BY <1>1, <2>1, <2>2 DEF TypeOK, Owners
  <1>3. OneEvent'
    BY <1>1 DEF OneEvent
  <1>4. \A j \in Instances : pc[j] \notin {"loadEvent", "loadSeats", "up"}
    BY DEF KnowsEvent, SeedingIsExclusive
  <1>5. \A j \in Instances : pc'[j] \notin {"loadSeats", "up"}
    BY <1>4
  <1>6. ServesVenue'
    BY <1>5 DEF ServesVenue
  <1>7. SeedingIsExclusive'
    BY StartupAssumption DEF SeedingIsExclusive
  <1>8. IdsDrawn'
    BY StartupAssumption DEF IdsDrawn
  <1>9. KnowsEvent'
    BY <1>1, <1>4, <1>5 DEF KnowsEvent, IdsDrawn
  <1>10. QED BY <1>2, <1>3, <1>6, <1>7, <1>8, <1>9

LEMMA BootStepKeeps ==
    ASSUME Inv, NEW i \in Instances, BootStep(i)
    PROVE  Inv'
  <1> USE DEF Inv
  <1>1. CASE Start(i)
    <2> USE <1>1 DEF Start, At, schema, tables, transaction
    <2>1. TypeOK'
      BY DEF TypeOK, Places
    <2>2. OneEvent' /\ ServesVenue'
      BY DEF OneEvent, ServesVenue, TypeOK
    <2>3. SeedingIsExclusive'
      BY DEF SeedingIsExclusive, TypeOK
    <2>4. IdsDrawn' /\ KnowsEvent'
      BY DEF IdsDrawn, KnowsEvent, SeedingIsExclusive, TypeOK
    <2>5. QED BY <2>1, <2>2, <2>3, <2>4
  <1>2. CASE LockSeats(i) \/ FindTables(i)
    BY <1>2, MovesKeep DEF LockSeats, FindTables, TypeOK, Places
  <1>3. CASE FindNoTables(i)
    BY <1>3, MovesKeep DEF FindNoTables, TypeOK, Places, schema
  <1>4. CASE CreateTables(i)
    BY <1>4, MovesKeep DEF CreateTables, TypeOK, Places, Owners
  <1>5. CASE CreateConflicts(i)
    BY <1>5, MovesKeep DEF CreateConflicts, TypeOK, Places, schema
  <1>6. CASE CommitTables(i)
    BY <1>6, MovesKeep DEF CommitTables, TypeOK, Places, Owners
  <1>7. CASE FindEvent(i)
    <2> USE <1>7, PrimaryIsTheEvent DEF FindEvent, At, schema, tables, transaction
    <2>1. TypeOK'
      BY DEF TypeOK, Places
    <2>2. OneEvent' /\ ServesVenue'
      BY DEF OneEvent, ServesVenue, TypeOK
    <2>3. SeedingIsExclusive'
      BY DEF SeedingIsExclusive, TypeOK
    <2>4. IdsDrawn' /\ KnowsEvent'
      BY DEF IdsDrawn, KnowsEvent, SeedingIsExclusive, TypeOK
    <2>5. QED BY <2>1, <2>2, <2>3, <2>4
  <1>8. CASE FindNoEvent(i)
    <2> USE <1>8 DEF FindNoEvent, At, schema, transaction
    <2>1. TypeOK'
      <3>1. lastId' \in Nat /\ 0 .. lastId \subseteq 0 .. lastId'
            /\ 1 .. lastId \subseteq 1 .. lastId' /\ lastId + 1 \in 0 .. lastId'
        BY DEF TypeOK
      <3>2. QED BY <3>1 DEF TypeOK, Places
    <2>2. OneEvent' /\ ServesVenue'
      BY DEF OneEvent, ServesVenue, TypeOK
    <2>3. SeedingIsExclusive'
      BY DEF SeedingIsExclusive, TypeOK
    <2>4. IdsDrawn'
      BY DEF IdsDrawn, SeedingIsExclusive, TypeOK
    <2>5. KnowsEvent'
      BY DEF KnowsEvent, TypeOK
    <2>6. QED BY <2>1, <2>2, <2>3, <2>4, <2>5
  <1>9. CASE InsertEvent(i)
    <2> USE <1>9 DEF InsertEvent, At, schema, tables, locals
    <2>1. TypeOK'
      BY DEF TypeOK, Places, Owners
    <2>2. OneEvent' /\ ServesVenue'
      BY DEF OneEvent, ServesVenue, TypeOK
    <2>3. SeedingIsExclusive'
      BY StartupAssumption DEF SeedingIsExclusive, IdsDrawn, TypeOK
    <2>4. IdsDrawn' /\ KnowsEvent'
      BY DEF IdsDrawn, KnowsEvent, TypeOK
    <2>5. QED BY <2>1, <2>2, <2>3, <2>4
  <1>10. CASE SlugConflicts(i)
    BY <1>10, MovesKeep DEF SlugConflicts, TypeOK, Places, schema
  <1>11. CASE InsertSeat(i)
    <2> USE <1>11 DEF InsertSeat, schema, tables, locals
    <2>1. draft' \in [id : 0 .. lastId, seats : SUBSET Venue] /\ draft'.id = draft.id
      BY DEF TypeOK
    <2>2. TypeOK'
      BY <2>1 DEF TypeOK
    <2>3. OneEvent' /\ ServesVenue' /\ KnowsEvent'
      BY DEF OneEvent, ServesVenue, KnowsEvent
    <2>4. SeedingIsExclusive' /\ IdsDrawn'
      BY <2>1 DEF SeedingIsExclusive, IdsDrawn
    <2>5. QED BY <2>2, <2>3, <2>4
  <1>12. CASE CommitSeed(i)
    <2>1. seeder = i /\ seeder # Nobody
      BY <1>12, StartupAssumption DEF CommitSeed, At, SeedingIsExclusive
    <2>2. \A j \in Instances : j # i => pc[j] # "insertSeats"
      BY <2>1 DEF SeedingIsExclusive
    <2>3. QED
      BY <1>12, <2>1, <2>2, CommitKeeps DEF CommitSeed, At, TypeOK, Places
  <1>13. CASE LoadEvent(i)
    <2> USE <1>13, PrimaryIsTheEvent DEF LoadEvent, At, schema, tables, transaction
    <2>1. TypeOK'
      BY DEF TypeOK, Places
    <2>2. OneEvent' /\ ServesVenue'
      BY DEF OneEvent, ServesVenue, TypeOK
    <2>3. SeedingIsExclusive'
      BY DEF SeedingIsExclusive, TypeOK
    <2>4. IdsDrawn' /\ KnowsEvent'
      BY DEF IdsDrawn, KnowsEvent, TypeOK
    <2>5. QED BY <2>1, <2>2, <2>3, <2>4
  <1>14. CASE LoadSeats(i)
    <2> USE <1>14 DEF LoadSeats, At, schema, tables, transaction
    <2>1. PICK e \in events : e.id = eventID[i]
      BY DEF KnowsEvent
    <2>2. \A f \in events : f = e /\ f.seats = Venue
      BY DEF OneEvent
    <2>3. event[i] = eventID[i] /\ e = [id |-> event[i], seats |-> Venue]
      BY <2>1, <2>2 DEF KnowsEvent, TypeOK
    <2>4. UNION {f.seats : f \in {g \in events : g.id = eventID[i]}} = Venue
      BY <2>1, <2>2
    <2>5. TypeOK'
      BY <2>4 DEF TypeOK, Places
    <2>6. OneEvent' /\ SeedingIsExclusive' /\ IdsDrawn' /\ KnowsEvent'
      BY DEF OneEvent, SeedingIsExclusive, IdsDrawn, KnowsEvent, TypeOK
    <2>7. ServesVenue'
      BY <2>3, <2>4 DEF ServesVenue, TypeOK
    <2>8. QED BY <2>5, <2>6, <2>7
  <1>15. QED
    BY <1>1, <1>2, <1>3, <1>4, <1>5, <1>6, <1>7, <1>8, <1>9, <1>10, <1>11, <1>12,
       <1>13, <1>14 DEF BootStep

LEMMA DiesKeeps ==
    ASSUME Inv, NEW i \in Instances, Dies(i)
    PROVE  Inv'
  <1> USE DEF Inv, Dies, tables, locals
  <1>1. TypeOK'
    BY StartupAssumption DEF TypeOK, Places, Owners
  <1>2. OneEvent' /\ ServesVenue'
    BY DEF OneEvent, ServesVenue, TypeOK
  <1>3. SeedingIsExclusive'
    BY StartupAssumption DEF SeedingIsExclusive, TypeOK
  <1>4. IdsDrawn' /\ KnowsEvent'
    BY StartupAssumption DEF IdsDrawn, KnowsEvent, TypeOK
  <1>5. QED BY <1>1, <1>2, <1>3, <1>4

LEMMA EndOfMigrationKeeps ==
    ASSUME Inv, EndMigration
    PROVE  Inv'
  BY DEF Inv, EndMigration, TypeOK, OneEvent, ServesVenue, SeedingIsExclusive, IdsDrawn,
         KnowsEvent, Owners, tables, transaction, locals

LEMMA EndOfIndexingKeeps ==
    ASSUME Inv, EndIndexing
    PROVE  Inv'
  BY DEF Inv, EndIndexing, TypeOK, OneEvent, ServesVenue, SeedingIsExclusive, IdsDrawn,
         KnowsEvent, tables, transaction, locals

LEMMA EndOfSeedingKeeps ==
    ASSUME Inv, EndSeeding
    PROVE  Inv'
  <1> USE DEF EndSeeding
  <1>1. CASE draft.seats = Venue /\ Commit
    <2>1. \A j \in Instances : pc[j] # "insertSeats"
      BY StartupAssumption DEF Inv, SeedingIsExclusive
    <2>2. QED
      BY <1>1, <2>1, CommitKeeps, StartupAssumption DEF Inv, TypeOK
  <1>2. CASE seeder' = Nobody /\ draft' = NoDraft /\ UNCHANGED events
    BY <1>2, StartupAssumption
    DEF Inv, TypeOK, NoDraft, OneEvent, ServesVenue, SeedingIsExclusive, IdsDrawn,
        KnowsEvent, Owners, schema, locals
  <1>3. QED BY <1>1, <1>2

LEMMA NextStartup == Inv /\ [Next]_vars => Inv'
  <1> SUFFICES ASSUME Inv, [Next]_vars PROVE Inv'
    OBVIOUS
  <1>1. CASE \E i \in Instances : BootStep(i) \/ Dies(i)
    BY <1>1, BootStepKeeps, DiesKeeps
  <1>2. CASE EndMigration \/ EndIndexing \/ EndSeeding
    BY <1>2, EndOfMigrationKeeps, EndOfIndexingKeeps, EndOfSeedingKeeps
  <1>3. CASE UNCHANGED vars
    BY <1>3 DEF vars, schema, tables, transaction, locals, Inv, TypeOK, OneEvent,
                ServesVenue, SeedingIsExclusive, IdsDrawn, KnowsEvent
  <1>4. QED BY <1>1, <1>2, <1>3 DEF Next

\* The inductive invariant.
THEOREM StartupInvariance == Spec => []Inv
  BY InitStartup, NextStartup, PTL DEF Spec

\* The tables, the transactions and the processes keep their form.
THEOREM StartupTypes == Spec => []TypeOK
  BY StartupInvariance, PTL DEF Inv

\* SeedIfEmpty and RunMigrations, run by any number of processes that fail at
\* any moment, leave at most one event, with the whole venue.
THEOREM OneEventTheorem == Spec => []OneEvent
  BY StartupInvariance, PTL DEF Inv

\* An instance that serves has the event in the table and all its seats.
THEOREM ServesVenueTheorem == Spec => []ServesVenue
  BY StartupInvariance, PTL DEF Inv

\* Ids handed out to browsers stay valid: the event is never replaced.
EventStays == [][events # {} => events' = events]_vars

\* Nothing replaces the event or adds another: who inserts finds none.
THEOREM EventNeverChanges == Spec => EventStays
  <1>1. Inv /\ [Next]_vars => [events # {} => events' = events]_vars
    <2> SUFFICES ASSUME Inv, Next, events # {} PROVE events' = events
      OBVIOUS
    <2>1. seeder = Nobody
      BY DEF Inv, SeedingIsExclusive
    <2>2. \A i \in Instances : ~CommitSeed(i)
      BY <2>1, StartupAssumption DEF CommitSeed, At, Inv, SeedingIsExclusive
    <2>3. ~EndSeeding
      BY <2>1, StartupAssumption DEF EndSeeding
    <2>4. QED
      BY <2>2, <2>3
      DEF Next, BootStep, Start, LockSeats, FindTables, FindNoTables, CreateTables,
          CreateConflicts, CommitTables, FindEvent, FindNoEvent, InsertEvent, SlugConflicts,
          InsertSeat, LoadEvent, LoadSeats, Dies, EndMigration, EndIndexing, tables
  <1>2. QED BY <1>1, StartupInvariance, PTL DEF Spec, EventStays

-----------------------------------------------------------------------------
(* Who waits for whom.                                                     *)

SchemaInv == MigrationIsExclusive /\ LocksAreOwned /\ TablesFirst

LEMMA BootKeepsSchema ==
    ASSUME Inv, SchemaInv, NEW i \in Instances, BootStep(i)
    PROVE  SchemaInv'
  <1> USE StartupAssumption
      DEF Inv, TypeOK, At, SchemaInv, MigrationIsExclusive, LocksAreOwned, TablesFirst
  <1>1. CASE Start(i) \/ FindNoTables(i) \/ CreateConflicts(i)
    BY <1>1 DEF Start, FindNoTables, CreateConflicts, schema, tables, transaction
  <1>2. CASE LockSeats(i)
    BY <1>2 DEF LockSeats, tables, transaction
  <1>3. CASE FindTables(i)
    BY <1>3 DEF FindTables, tables, transaction
  <1>4. CASE CreateTables(i)
    BY <1>4 DEF CreateTables, tables, transaction
  <1>5. CASE CommitTables(i)
    BY <1>5 DEF CommitTables, tables, transaction
  <1>6. CASE \/ FindEvent(i) \/ FindNoEvent(i) \/ InsertEvent(i) \/ SlugConflicts(i)
             \/ InsertSeat(i) \/ CommitSeed(i) \/ LoadEvent(i) \/ LoadSeats(i)
    <2>1. /\ UNCHANGED schema
          /\ pc[i] \in {"count", "insertEvent", "insertSeats", "loadEvent", "loadSeats"}
          /\ \A j \in Instances : pc'[j] = "migrating" <=> pc[j] = "migrating"
          /\ \A j \in Instances : pc'[j] = "indexing" <=> pc[j] = "indexing"
      BY <1>6 DEF FindEvent, FindNoEvent, InsertEvent, SlugConflicts, InsertSeat, CommitSeed,
                  LoadEvent, LoadSeats, schema
    <2>2. migrated /\ migrated'
      BY <2>1 DEF schema
    <2>3. QED BY <2>1, <2>2 DEF schema
  <1>7. QED BY <1>1, <1>2, <1>3, <1>4, <1>5, <1>6 DEF BootStep

LEMMA NextKeepsSchema == Inv /\ SchemaInv /\ [Next]_vars => SchemaInv'
  <1> SUFFICES ASSUME Inv, SchemaInv, [Next]_vars
               PROVE  SchemaInv'
    OBVIOUS
  <1> USE StartupAssumption
      DEF Inv, TypeOK, SchemaInv, MigrationIsExclusive, LocksAreOwned, TablesFirst
  <1>1. CASE \E i \in Instances : BootStep(i)
    BY <1>1, BootKeepsSchema
  <1>2. ASSUME NEW i \in Instances, Dies(i) PROVE SchemaInv'
    <2>1. /\ UNCHANGED <<migrated, events>>
          /\ seeder = Nobody => seeder' = Nobody
          /\ migrator' # Nobody => migrator # Nobody
          /\ \A j \in Instances : pc'[j] = (IF j = i THEN "down" ELSE pc[j])
          /\ \A j \in Instances : migrator' = j <=> migrator = j /\ j # i
          /\ \A j \in Instances : j \in sharing' <=> j \in sharing /\ j # i
      BY <1>2 DEF Dies, tables
    <2>2. QED BY <2>1
  <1>3. CASE EndMigration
    BY <1>3 DEF EndMigration, tables, transaction
  <1>4. CASE EndIndexing
    BY <1>4 DEF EndIndexing, tables, transaction
  <1>5. CASE EndSeeding
    <2>1. /\ UNCHANGED <<schema, pc>>
          /\ seeder # Nobody
      BY <1>5 DEF EndSeeding
    <2>2. QED BY <2>1 DEF schema
  <1>6. CASE UNCHANGED vars
    BY <1>6 DEF vars, schema, tables, transaction
  <1>7. QED BY <1>1, <1>2, <1>3, <1>4, <1>5, <1>6 DEF Next

LEMMA SchemaInvariance == Spec => []SchemaInv
  <1>1. Init => SchemaInv
    BY StartupAssumption
       DEF Init, SchemaInv, MigrationIsExclusive, LocksAreOwned, TablesFirst
  <1>2. QED BY <1>1, StartupInvariance, NextKeepsSchema, PTL DEF Spec

\* Nobody reads or seeds before the tables are committed, however the creation
\* of the tables was repeated, lost to another process or cut short.
THEOREM TablesComeFirst == Spec => []TablesFirst
  <1>1. SchemaInv => TablesFirst
    BY DEF SchemaInv
  <1>2. QED BY <1>1, SchemaInvariance, PTL

\* Who has a lock that others wait for is in the middle of its transaction.
LEMMA WaitedForAreBusy ==
    ASSUME Inv, SchemaInv, NEW i \in Instances, NEW o \in Instances, WaitsFor(i, o)
    PROVE  \/ pc[o] \in {"migrating", "indexing"}
           \/ pc[i] \in {"migrate", "insertEvent"} /\ pc[o] = "insertSeats"
  BY DEF WaitsFor, Inv, SeedingIsExclusive, SchemaInv, MigrationIsExclusive, LocksAreOwned

\* Every wait is for a process that is in the middle of its transaction, or for
\* a transaction Postgres ends; and whoever such a process waits for in turn
\* (the SHARE locks of CREATE INDEX against the seats of SeedIfEmpty), waits for
\* nobody.  So the waits of any number of startups never close a ring.
THEOREM WaitsHaveAnEnd == Spec => []WaitsEnd
  <1>1. Inv /\ SchemaInv => WaitsEnd
    <2> SUFFICES ASSUME Inv, SchemaInv, NEW i \in Instances, NEW o \in Instances,
                        WaitsFor(i, o)
                 PROVE  /\ pc[o] \in {"migrating", "indexing", "insertSeats"}
                        /\ \A p \in Instances : WaitsFor(o, p) =>
                              \A q \in Instances \cup {Orphan} : ~WaitsFor(p, q)
      BY DEF WaitsEnd
    <2>1. pc[o] \in {"migrating", "indexing", "insertSeats"}
      BY WaitedForAreBusy
    <2>2. ASSUME NEW p \in Instances, WaitsFor(o, p),
                 NEW q \in Instances \cup {Orphan}
          PROVE  ~WaitsFor(p, q)
      <3>1. pc[o] = "insertSeats"
        BY <2>1, <2>2 DEF WaitsFor
      <3>2. pc[p] \in {"migrating", "indexing"}
        BY <2>2, <3>1, WaitedForAreBusy
      <3>3. QED BY <3>2 DEF WaitsFor
    <2>3. QED BY <2>1, <2>2
  <1>2. QED BY <1>1, StartupInvariance, SchemaInvariance, PTL

-----------------------------------------------------------------------------
(* Startup implements OneVenue.                                            *)

\* What is published is the event there is, with the whole venue.
PublishedSound ==
    /\ events = {} => Published = NoDraft
    /\ events # {} => /\ Published \in events
                     /\ Published \in [id : Nat \ {0}, seats : {Venue}]
                     /\ Published # NoDraft

LEMMA PublishedFacts == Inv => PublishedSound
  <1> SUFFICES ASSUME Inv PROVE PublishedSound
    OBVIOUS
  <1> USE DEF PublishedSound
  <1>1. CASE events = {}
    BY <1>1 DEF Published
  <1>2. CASE events # {}
    <2>1. PrimaryEvent \in events /\ PrimaryEvent.seats = Venue
          /\ PrimaryEvent.id \in 1 .. lastId
      BY <1>2, PrimaryIsTheEvent
    <2>2. lastId \in Nat /\ PrimaryEvent \in [id : 1 .. lastId, seats : SUBSET Venue]
      BY <2>1 DEF Inv, TypeOK
    <2>3. PrimaryEvent = [id |-> PrimaryEvent.id, seats |-> Venue]
      BY <2>1, <2>2
    <2>4. PrimaryEvent.id \in Nat \ {0}
      BY <2>1, <2>2
    <2>5. QED BY <1>2, <2>1, <2>3, <2>4 DEF Published, NoDraft
  <1>3. QED BY <1>1, <1>2

\* Nobody serves before there is an event; who serves, serves the published one.
ServesPublished ==
    \A i \in Instances : Serving[i] = IF pc[i] = "up" THEN Published ELSE NoDraft

LEMMA ServingFacts == Inv => ServesPublished
  <1> SUFFICES ASSUME Inv, NEW i \in Instances, pc[i] = "up" PROVE Serving[i] = Published
    BY DEF ServesPublished, Serving
  <1>1. [id |-> event[i], seats |-> seats[i]] \in events
    BY DEF Inv, ServesVenue
  <1>2. Published \in events
    BY <1>1, PublishedFacts DEF PublishedSound
  <1>3. QED BY <1>1, <1>2 DEF Inv, OneEvent, Serving

LEMMA InitVenue == Init => Opened!Init
  BY DEF Init, Opened!Init, Published, Serving

\* A step of one instance that does not make it serve leaves the event alone,
\* and what the others serve.
LEMMA NotServing ==
    ASSUME ServesPublished, ServesPublished', NEW i \in Instances, events' = events, pc'[i] # "up",
           \A j \in Instances : j # i => (pc'[j] = "up") = (pc[j] = "up")
    PROVE  Opened!End(i)
  <1>1. Published' = Published
    BY DEF Published, PrimaryEvent
  <1>2. \A j \in Instances : Serving'[j] = IF j = i THEN NoDraft ELSE Serving[j]
    BY <1>1 DEF ServesPublished, NoDraft
  <1>3. Serving' = [Serving EXCEPT ![i] = NoDraft]
    BY <1>2 DEF Serving
  <1>4. QED BY <1>1, <1>3 DEF Opened!End

LEMMA PublishedKept == events' = events => Published' = Published
  BY DEF Published, PrimaryEvent, NoDraft

\* The commit of a running instance, or of an orphan.
LEMMA CommitPublishes ==
    ASSUME Inv, PublishedSound', ServesPublished, ServesPublished', seeder # Nobody, Commit,
           \A i \in Instances : pc'[i] = "up" => pc[i] = "up"
    PROVE  Opened!Publish
  <1>1. events = {} /\ events' # {}
    BY DEF Inv, SeedingIsExclusive, Commit
  <1>2. \A i \in Instances : pc[i] # "up"
    BY <1>1 DEF Inv, ServesVenue
  <1>3. \A i \in Instances : Serving[i] = NoDraft /\ Serving'[i] = NoDraft
    BY <1>2 DEF ServesPublished, NoDraft
  <1>4. Serving' = Serving
    BY <1>3 DEF Serving
  <1>5. Published = NoDraft
    BY <1>1, PublishedFacts DEF PublishedSound
  <1>6. Published' \in [id : Nat \ {0}, seats : {Venue}]
    BY <1>1 DEF PublishedSound
  <1>7. QED BY <1>4, <1>5, <1>6 DEF Opened!Publish

LEMMA LoadSeatsServes ==
    ASSUME Inv, ServesPublished, ServesPublished', NEW i \in Instances, LoadSeats(i)
    PROVE  Opened!Serve(i)
  <1>1. /\ events' = events /\ events # {}
        /\ \A j \in Instances : pc'[j] = IF j = i THEN "up" ELSE pc[j]
        /\ pc[i] # "up"
    BY DEF LoadSeats, At, tables, Inv, TypeOK, KnowsEvent
  <1>2. Published' = Published /\ Published # NoDraft
    BY <1>1, PublishedFacts, PublishedKept DEF PublishedSound
  <1>3. \A j \in Instances : Serving'[j] = IF j = i THEN Published ELSE Serving[j]
    BY <1>1, <1>2 DEF ServesPublished, NoDraft
  <1>4. Serving' = [Serving EXCEPT ![i] = Published]
    BY <1>3 DEF Serving
  <1>5. QED BY <1>1, <1>2, <1>4 DEF Opened!Serve, ServesPublished

LEMMA NextVenue ==
    ASSUME Inv, PublishedSound', ServesPublished, ServesPublished', [Next]_vars
    PROVE  [Opened!Next]_(Opened!vars)
  <1> USE DEF Opened!Next
  <1>1. ASSUME NEW i \in Instances, CommitSeed(i) PROVE Opened!Publish
    BY <1>1, CommitPublishes, StartupAssumption
       DEF CommitSeed, At, Inv, TypeOK, SeedingIsExclusive
  <1>2. ASSUME NEW i \in Instances, BootStep(i), ~CommitSeed(i), ~LoadSeats(i)
        PROVE  Opened!End(i)
    <2>1. /\ events' = events /\ pc'[i] # "up"
          /\ \A j \in Instances : j # i => pc'[j] = pc[j]
      BY <1>2 DEF BootStep, Start, LockSeats, FindTables, FindNoTables, CreateTables,
                  CreateConflicts, CommitTables, FindEvent, FindNoEvent, InsertEvent,
                  SlugConflicts, InsertSeat, LoadEvent, At, tables, Inv, TypeOK
    <2>2. QED BY <2>1, NotServing
  <1>3. ASSUME NEW i \in Instances, Dies(i) PROVE Opened!End(i)
    BY <1>3, NotServing DEF Dies, tables, Inv, TypeOK
  <1>4. CASE EndSeeding /\ Commit
    BY <1>4, CommitPublishes, StartupAssumption DEF EndSeeding
  <1>5. CASE UNCHANGED <<events, pc, event, seats>>
    BY <1>5, PublishedKept DEF Serving, NoDraft, Opened!vars
  <1>6. EndMigration \/ EndIndexing \/ UNCHANGED vars \/ (EndSeeding /\ ~Commit)
            => UNCHANGED <<events, pc, event, seats>>
    BY DEF EndMigration, EndIndexing, EndSeeding, vars, tables, locals
  <1>7. QED BY <1>1, <1>2, <1>3, <1>4, <1>5, <1>6, LoadSeatsServes DEF Next

\* However many instances start, lose races and die: the venue is published once,
\* whole and for ever, and whoever serves, serves it from its first request on.
THEOREM VenueOpensOnce == Spec => VenueSpec
  <1>1. Spec => [](Inv /\ PublishedSound /\ ServesPublished)
    BY StartupInvariance, PublishedFacts, ServingFacts, PTL
  <1>2. QED BY <1>1, InitVenue, NextVenue, PTL DEF Spec, VenueSpec, Opened!Spec
=============================================================================
