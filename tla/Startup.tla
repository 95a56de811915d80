-------------------------------- MODULE Startup --------------------------------
(***************************************************************************)
(* Several instances start on one database, which may be empty: each       *)
(* creates the tables if they are not there, and the event with its seats  *)
(* if there is none, and reads both before it serves.                      *)
(*                                                                         *)
(* The schema is one transaction and the seeding another.  Postgres lets   *)
(* one transaction at a time create the tables, or insert the slug of the  *)
(* event: the others wait until it ends, and fail if it has committed.     *)
(* Where the tables are there, CREATE INDEX IF NOT EXISTS still locks them *)
(* (SHARE) until its batch is over, which keeps others from inserting      *)
(* (ROW EXCLUSIVE), and waits for those who do.  A process that fails      *)
(* exits and is started again (restart: unless-stopped).                   *)
(***************************************************************************)
EXTENDS Naturals

CONSTANTS
    Instances,    \* the backend processes
    Venue,        \* the seats of the venue, as seed.go lists them
    Nobody,       \* no transaction is open
    Orphan,       \* its process is gone, and Postgres has not noticed yet
    MaxFaults     \* bound: how many times a process fails or is killed

ASSUME StartupAssumption ==
    /\ Nobody \notin Instances
    /\ Orphan \notin Instances
    /\ Nobody # Orphan
    /\ MaxFaults \in Nat

VARIABLES
    migrated,     \* whether the tables are there
    migrator,     \* who is creating them
    sharing,      \* who has the table of seats locked with SHARE
    events,       \* the committed events, with their seats
    lastId,       \* the sequence of event ids
    seeder,       \* who has inserted an event and not committed it
    draft,        \* that event, with the seats inserted so far
    pc,           \* where each instance is in main()
    eventID,      \* the id SeedIfEmpty returns or, before that, inserts
    event,        \* Server.Event
    seats,        \* Server.Seats
    faults        \* how many faults there were

schema == <<migrated, migrator, sharing>>
tables == <<events, lastId>>
transaction == <<seeder, draft>>
locals == <<eventID, event, seats>>
vars == <<schema, tables, transaction, pc, locals, faults>>

-----------------------------------------------------------------------------
NoDraft == [id |-> 0, seats |-> {}]

Init ==
    /\ migrated = FALSE
    /\ migrator = Nobody
    /\ sharing = {}
    /\ events = {}
    /\ lastId = 0
    /\ seeder = Nobody
    /\ draft = NoDraft
    /\ pc = [i \in Instances |-> "down"]
    /\ eventID = [i \in Instances |-> 0]
    /\ event = [i \in Instances |-> 0]
    /\ seats = [i \in Instances |-> {}]
    /\ faults = 0

At(i, here, next) ==
    /\ pc[i] = here
    /\ pc' = [pc EXCEPT ![i] = next]

\* main() reaches Postgres.
Start(i) ==
    /\ At(i, "down", "migrate")
    /\ eventID' = [eventID EXCEPT ![i] = 0]
    /\ event' = [event EXCEPT ![i] = 0]
    /\ seats' = [seats EXCEPT ![i] = {}]
    /\ UNCHANGED <<schema, tables, transaction, faults>>

\* Who has inserted a seat has the table locked until its transaction ends.
SeatsBeingWritten == seeder # Nobody /\ draft.seats # {}

\* RunMigrations: IF NOT EXISTS looks at what is committed.  CREATE INDEX locks
\* its table before it looks for the index ...
LockSeats(i) ==
    /\ migrated
    /\ ~SeatsBeingWritten
    /\ At(i, "migrate", "indexing")
    /\ sharing' = sharing \cup {i}
    /\ UNCHANGED <<migrated, migrator, tables, transaction, locals, faults>>

\* Variant: the lock is kept, as if the seeding were in the same transaction.
FindTablesKeepingLock(i) ==
    /\ At(i, "indexing", "count")
    /\ UNCHANGED <<schema, tables, transaction, locals, faults>>

\* ... and the lock goes when the batch, one transaction, is over.
FindTables(i) ==
    /\ At(i, "indexing", "count")
    /\ sharing' = sharing \ {i}
    /\ UNCHANGED <<migrated, migrator, tables, transaction, locals, faults>>

FindNoTables(i) ==
    /\ ~migrated
    /\ At(i, "migrate", "create")
    /\ UNCHANGED <<schema, tables, transaction, locals, faults>>

\* No tables: CREATE waits for whoever is creating the same ones.
CreateTables(i) ==
    /\ migrator = Nobody
    /\ ~migrated
    /\ At(i, "create", "migrating")
    /\ migrator' = i
    /\ UNCHANGED <<migrated, sharing, tables, transaction, locals, faults>>

CreateConflicts(i) ==
    /\ migrated
    /\ At(i, "create", "down")
    /\ UNCHANGED <<schema, tables, transaction, locals, faults>>

CommitTables(i) ==
    /\ At(i, "migrating", "count")
    /\ migrated' = TRUE
    /\ migrator' = Nobody
    /\ UNCHANGED <<sharing, tables, transaction, locals, faults>>

-----------------------------------------------------------------------------
(* SeedIfEmpty                                                             *)

\* PrimaryEvent: ORDER BY id LIMIT 1.
PrimaryEvent == CHOOSE e \in events : \A f \in events : e.id <= f.id

FindEvent(i) ==
    /\ events # {}
    /\ At(i, "count", "loadEvent")
    /\ eventID' = [eventID EXCEPT ![i] = PrimaryEvent.id]
    /\ UNCHANGED <<schema, tables, transaction, event, seats, faults>>

\* Variant: the id is not drawn from a sequence that moves on.
FindNoEventStuckSequence(i) ==
    /\ events = {}
    /\ At(i, "count", "insertEvent")
    /\ eventID' = [eventID EXCEPT ![i] = lastId + 1]
    /\ UNCHANGED <<schema, tables, transaction, event, seats, faults>>

\* No event: the id is drawn, and nothing gives it back.
FindNoEvent(i) ==
    /\ events = {}
    /\ At(i, "count", "insertEvent")
    /\ lastId' = lastId + 1
    /\ eventID' = [eventID EXCEPT ![i] = lastId + 1]
    /\ UNCHANGED <<schema, events, transaction, event, seats, faults>>

\* Variant: the slug need not be unique.
InsertEventAgain(i) ==
    /\ seeder = Nobody
    /\ At(i, "insertEvent", "insertSeats")
    /\ seeder' = i
    /\ draft' = [id |-> eventID[i], seats |-> {}]
    /\ UNCHANGED <<schema, tables, locals, faults>>

\* Variant: no transaction around the event and its seats.
InsertEventAlone(i) ==
    /\ seeder = Nobody
    /\ events = {}
    /\ At(i, "insertEvent", "insertSeats")
    /\ seeder' = i
    /\ draft' = [id |-> eventID[i], seats |-> {}]
    /\ events' = {draft'}
    /\ UNCHANGED <<schema, lastId, locals, faults>>

\* The slug is unique: the insert waits for whoever has inserted it.
InsertEvent(i) ==
    /\ seeder = Nobody
    /\ events = {}
    /\ At(i, "insertEvent", "insertSeats")
    /\ seeder' = i
    /\ draft' = [id |-> eventID[i], seats |-> {}]
    /\ UNCHANGED <<schema, tables, locals, faults>>

\* Variant: the loser of the race waits instead of exiting.
SlugConflictsForGood(i) ==
    /\ events # {}
    /\ At(i, "insertEvent", "insertEvent")
    /\ UNCHANGED <<schema, tables, transaction, locals, faults>>

SlugConflicts(i) ==
    /\ events # {}
    /\ At(i, "insertEvent", "down")
    /\ UNCHANGED <<schema, tables, transaction, locals, faults>>

\* The first seat waits until nobody has the table locked with SHARE.
InsertSeat(i) ==
    /\ pc[i] = "insertSeats"
    /\ SeatsBeingWritten \/ sharing = {}
    /\ \E s \in Venue \ draft.seats : draft' = [draft EXCEPT !.seats = @ \cup {s}]
    /\ UNCHANGED <<schema, tables, seeder, pc, locals, faults>>

Commit ==
    /\ events' = events \cup {draft}
    /\ seeder' = Nobody
    /\ draft' = NoDraft

CommitSeed(i) ==
    /\ draft.seats = Venue
    /\ At(i, "insertSeats", "loadEvent")
    /\ Commit
    /\ UNCHANGED <<schema, lastId, locals, faults>>

-----------------------------------------------------------------------------
\* main() reads the event again, and the seats of the id SeedIfEmpty gave it.
LoadEvent(i) ==
    /\ events # {}
    /\ At(i, "loadEvent", "loadSeats")
    /\ event' = [event EXCEPT ![i] = PrimaryEvent.id]
    /\ UNCHANGED <<schema, tables, transaction, eventID, seats, faults>>

LoadSeats(i) ==
    /\ At(i, "loadSeats", "up")
    /\ seats' = [seats EXCEPT ![i] = UNION {e.seats : e \in {f \in events : f.id = eventID[i]}}]
    /\ UNCHANGED <<schema, tables, transaction, eventID, event, faults>>

-----------------------------------------------------------------------------
(* Faults                                                                  *)

\* Any call fails, or the process is killed: it exits, and the transaction it
\* has open is Postgres's to end.
Dies(i) ==
    /\ pc[i] # "down"
    /\ faults < MaxFaults
    /\ faults' = faults + 1
    /\ pc' = [pc EXCEPT ![i] = "down"]
    /\ migrator' = IF migrator = i THEN Orphan ELSE migrator
    /\ sharing' = IF i \in sharing THEN (sharing \ {i}) \cup {Orphan} ELSE sharing
    /\ seeder' = IF seeder = i THEN Orphan ELSE seeder
    /\ UNCHANGED <<migrated, tables, draft, locals>>

\* Postgres rolls an orphan back, or its commit had been sent.
EndMigration ==
    /\ migrator = Orphan
    /\ migrator' = Nobody
    /\ migrated' \in {migrated, TRUE}
    /\ UNCHANGED <<sharing, tables, transaction, pc, locals, faults>>

\* The batches of processes that died while they had the lock are over.
EndIndexing ==
    /\ Orphan \in sharing
    /\ sharing' = sharing \ {Orphan}
    /\ UNCHANGED <<migrated, migrator, tables, transaction, pc, locals, faults>>

\* Variant: Postgres keeps what an orphan has inserted.
EndSeedingKeeps ==
    /\ seeder = Orphan
    /\ Commit
    /\ UNCHANGED <<schema, lastId, pc, locals, faults>>

EndSeeding ==
    /\ seeder = Orphan
    /\ \/ /\ draft.seats = Venue
          /\ Commit
       \/ /\ seeder' = Nobody
          /\ draft' = NoDraft
          /\ UNCHANGED events
    /\ UNCHANGED <<schema, lastId, pc, locals, faults>>

-----------------------------------------------------------------------------
BootStep(i) ==
    \/ Start(i)
    \/ LockSeats(i) \/ FindTables(i) \/ FindNoTables(i)
    \/ CreateTables(i) \/ CreateConflicts(i) \/ CommitTables(i)
    \/ FindEvent(i) \/ FindNoEvent(i)
    \/ InsertEvent(i) \/ SlugConflicts(i) \/ InsertSeat(i) \/ CommitSeed(i)
    \/ LoadEvent(i) \/ LoadSeats(i)

Next ==
    \/ \E i \in Instances : BootStep(i) \/ Dies(i)
    \/ EndMigration
    \/ EndIndexing
    \/ EndSeeding

Spec == Init /\ [][Next]_vars

\* A process that runs goes on, one that exited is started again, and Postgres
\* notices a broken connection.
Fairness ==
    /\ \A i \in Instances : WF_vars(BootStep(i))
    /\ WF_vars(EndMigration)
    /\ WF_vars(EndIndexing)
    /\ WF_vars(EndSeeding)

FairSpec == Spec /\ Fairness

-----------------------------------------------------------------------------
(* Properties                                                              *)

Places == {"down", "migrate", "indexing", "create", "migrating", "count",
           "insertEvent", "insertSeats", "loadEvent", "loadSeats", "up"}

Owners == Instances \cup {Nobody, Orphan}

TypeOK ==
    /\ migrated \in BOOLEAN
    /\ migrator \in Owners
    /\ sharing \subseteq Instances \cup {Orphan}
    /\ lastId \in Nat
    /\ events \subseteq [id : 1 .. lastId, seats : SUBSET Venue]
    /\ seeder \in Owners
    /\ draft \in [id : 0 .. lastId, seats : SUBSET Venue]
    /\ pc \in [Instances -> Places]
    /\ eventID \in [Instances -> 0 .. lastId]
    /\ event \in [Instances -> 0 .. lastId]
    /\ seats \in [Instances -> SUBSET Venue]
    /\ faults \in 0 .. MaxFaults

\* However many instances count no events before one of them inserts it, there
\* is one event in the end, with all its seats.
OneEvent ==
    /\ \A e, f \in events : e = f
    /\ \A e \in events : e.seats = Venue

\* An instance that serves has the venue, all of it, of the event it books for,
\* and it is the event every other instance serves.
ServesVenue ==
    \A i \in Instances : pc[i] = "up" =>
        /\ [id |-> event[i], seats |-> seats[i]] \in events
        /\ event[i] = eventID[i]
        /\ seats[i] = Venue

\* The statement instance i is at waits for a transaction of o to end.
WaitsFor(i, o) ==
    \/ pc[i] = "migrate" /\ migrated /\ SeatsBeingWritten /\ seeder = o
    \/ pc[i] = "create" /\ ~migrated /\ migrator = o
    \/ pc[i] = "insertEvent" /\ events = {} /\ seeder = o
    \/ pc[i] = "insertSeats" /\ ~SeatsBeingWritten /\ o \in sharing

\* Startups do not lock each other out.  Who waits, waits for a transaction that
\* Postgres is about to end, or for a process in the middle of it: one that goes
\* on, or one that waits itself, but then for somebody who does not, so that
\* the locks of a migration and of a seeding never close a ring.
WaitsEnd ==
    \A i, o \in Instances : WaitsFor(i, o) =>
        /\ pc[o] \in {"migrating", "indexing", "insertSeats"}
        /\ \A p \in Instances : WaitsFor(o, p) =>
              \A q \in Instances \cup {Orphan} : ~WaitsFor(p, q)

\* What everybody else may know of all this: as if the venue had been put there
\* once, by nobody in particular, before any instance serves.
Published == IF events = {} THEN NoDraft ELSE PrimaryEvent

Serving ==
    [i \in Instances |->
        IF pc[i] = "up" THEN [id |-> event[i], seats |-> seats[i]] ELSE NoDraft]

Opened == INSTANCE OneVenue
            WITH Seats <- Venue, NoEvent <- NoDraft, published <- Published, serving <- Serving

VenueSpec == Opened!Spec

\* Whatever races were lost and processes killed on the way, all instances
\* serve in the end, and go on serving.
AllComeUp == <>[](\A i \in Instances : pc[i] = "up")
=============================================================================
