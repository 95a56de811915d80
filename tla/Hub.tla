--------------------------------- MODULE Hub ---------------------------------
(***************************************************************************)
(* The real-time fan-out of one instance: ws.Hub and the three goroutines  *)
(* of every connection (Serve, readPump, writePump).  Two goroutines of    *)
(* main() call Broadcast, one for published seat events and one for        *)
(* expired holds, so two broadcasts may run at once.                       *)
(*                                                                         *)
(* A broadcast holds the read lock while it offers its message to the      *)
(* clients one after the other, lets it go, and removes the clients whose  *)
(* buffer was full; add and remove take the write lock.  What a message    *)
(* says does not matter here, so a channel is the number of messages in    *)
(* it, and whether it was closed.                                          *)
(***************************************************************************)
EXTENDS Naturals, FiniteSets

CONSTANTS
    Clients,          \* connections, each made once
    Broadcasters,     \* the goroutines that call Broadcast
    BufferSize,       \* sendBufferSize
    MaxBroadcasts,    \* bound: how many broadcasts are made
    SnapshotMayFail   \* whether building a snapshot may fail

ASSUME HubAssumption ==
    /\ BufferSize \in Nat \ {0}
    /\ MaxBroadcasts \in Nat
    /\ SnapshotMayFail \in BOOLEAN

VARIABLES
    clients,    \* the hub's map
    queued,     \* messages in the client's send channel
    closed,     \* whether the send channel was closed
    conn,       \* the websocket: "none", "open", "broken", "closed"
    serve,      \* where Serve is with the snapshot, or how that ended
    reader,     \* readPump: "off", "reading", "removing", "done"
    writer,     \* writePump: "off", "writing", "done"
    phase,      \* a broadcaster: "idle", "sending" (read lock), "removing"
    todo,       \* the clients its loop has still to offer the message to
    stuck,      \* the clients it found full
    sent,       \* how many broadcasts were started
    missed,     \* history: the clients a message was withheld from
    panicked    \* a goroutine nobody recovers has panicked: the process is gone

pumps == <<reader, writer>>
broadcasts == <<phase, todo, stuck, sent>>
vars == <<clients, queued, closed, conn, serve, reader, writer,
          phase, todo, stuck, sent, missed, panicked>>

-----------------------------------------------------------------------------
Init ==
    /\ clients = {}
    /\ queued = [c \in Clients |-> 0]
    /\ closed = [c \in Clients |-> FALSE]
    /\ conn = [c \in Clients |-> "none"]
    /\ serve = [c \in Clients |-> "idle"]
    /\ reader = [c \in Clients |-> "off"]
    /\ writer = [c \in Clients |-> "off"]
    /\ phase = [b \in Broadcasters |-> "idle"]
    /\ todo = [b \in Broadcasters |-> {}]
    /\ stuck = [b \in Broadcasters |-> {}]
    /\ sent = 0
    /\ missed = {}
    /\ panicked = FALSE

\* The write lock can be had: nobody reads under the read lock.
LockFree == \A b \in Broadcasters : phase[b] # "sending"

\* Variant: off by one.
HasRoomAtLimit(c) == queued[c] <= BufferSize

HasRoom(c) == queued[c] < BufferSize

\* Variant: the channel is closed whether or not the client is registered.
RemoveUnguarded(c) ==
    /\ LockFree
    /\ clients' = clients \ {c}
    /\ closed' = [closed EXCEPT ![c] = TRUE]
    /\ panicked' = (panicked \/ closed[c])

\* Variant: the client is deleted and its channel left open.
RemoveOpen(c) ==
    /\ LockFree
    /\ clients' = clients \ {c}
    /\ UNCHANGED <<closed, panicked>>

\* Hub.remove: only a client still in the map is deleted and closed.  Closing
\* a closed channel panics.
Remove(c) ==
    /\ LockFree
    /\ IF c \in clients
       THEN /\ clients' = clients \ {c}
            /\ closed' = [closed EXCEPT ![c] = TRUE]
            /\ panicked' = (panicked \/ closed[c])
       ELSE UNCHANGED <<clients, closed, panicked>>

-----------------------------------------------------------------------------
(* Serve                                                                   *)

\* Upgrade, Hub.add, and the two pumps are started.
Connect(c) ==
    /\ serve[c] = "idle"
    /\ LockFree
    /\ clients' = clients \cup {c}
    /\ conn' = [conn EXCEPT ![c] = "open"]
    /\ serve' = [serve EXCEPT ![c] = "building"]
    /\ reader' = [reader EXCEPT ![c] = "reading"]
    /\ writer' = [writer EXCEPT ![c] = "writing"]
    /\ UNCHANGED <<queued, closed, broadcasts, missed, panicked>>

\* The snapshot is enqueued without the lock: a channel that was closed in the
\* meantime panics (net/http recovers this goroutine), a full one drops it.
SendSnapshot(c) ==
    /\ serve[c] = "building"
    /\ \/ /\ closed[c]
          /\ serve' = [serve EXCEPT ![c] = "panicked"]
          /\ UNCHANGED queued
       \/ /\ ~closed[c]
          /\ HasRoom(c)
          /\ serve' = [serve EXCEPT ![c] = "sent"]
          /\ queued' = [queued EXCEPT ![c] = @ + 1]
       \/ /\ ~closed[c]
          /\ ~HasRoom(c)
          /\ serve' = [serve EXCEPT ![c] = "without"]
          /\ UNCHANGED queued
    /\ UNCHANGED <<clients, closed, conn, pumps, broadcasts, missed, panicked>>

SnapshotFails(c) ==
    /\ SnapshotMayFail
    /\ serve[c] = "building"
    /\ serve' = [serve EXCEPT ![c] = "without"]
    /\ UNCHANGED <<clients, queued, closed, conn, pumps, broadcasts, missed, panicked>>

-----------------------------------------------------------------------------
(* Broadcast                                                               *)

StartBroadcast(b) ==
    /\ phase[b] = "idle"
    /\ sent < MaxBroadcasts
    /\ phase' = [phase EXCEPT ![b] = "sending"]
    /\ todo' = [todo EXCEPT ![b] = clients]
    /\ sent' = sent + 1
    /\ UNCHANGED <<clients, queued, closed, conn, serve, pumps, stuck, missed, panicked>>

\* Variant: the send waits for room in the buffer.
OfferBlocking(b, c) ==
    /\ phase[b] = "sending"
    /\ c \in todo[b]
    /\ HasRoom(c)
    /\ todo' = [todo EXCEPT ![b] = @ \ {c}]
    /\ panicked' = (panicked \/ closed[c])
    /\ queued' = [queued EXCEPT ![c] = @ + 1]
    /\ UNCHANGED <<clients, closed, conn, serve, pumps, phase, stuck, sent, missed>>

\* Variant: a full buffer only costs the client the message.
OfferLossy(b, c) ==
    /\ phase[b] = "sending"
    /\ c \in todo[b]
    /\ todo' = [todo EXCEPT ![b] = @ \ {c}]
    /\ panicked' = (panicked \/ closed[c])
    /\ queued' = [queued EXCEPT ![c] = IF HasRoom(c) THEN @ + 1 ELSE @]
    /\ missed' = IF HasRoom(c) THEN missed ELSE missed \cup {c}
    /\ UNCHANGED <<clients, closed, conn, serve, pumps, phase, stuck, sent>>

\* One turn of the loop, a send that never waits: a client with a full buffer
\* misses the message and is remembered.  A send on a closed channel panics.
Offer(b, c) ==
    /\ phase[b] = "sending"
    /\ c \in todo[b]
    /\ todo' = [todo EXCEPT ![b] = @ \ {c}]
    /\ panicked' = (panicked \/ closed[c])
    /\ \/ /\ HasRoom(c)
          /\ queued' = [queued EXCEPT ![c] = @ + 1]
          /\ UNCHANGED <<stuck, missed>>
       \/ /\ ~HasRoom(c)
          /\ stuck' = [stuck EXCEPT ![b] = @ \cup {c}]
          /\ missed' = missed \cup {c}
          /\ UNCHANGED queued
    /\ UNCHANGED <<clients, closed, conn, serve, pumps, phase, sent>>

\* RUnlock
Unlock(b) ==
    /\ phase[b] = "sending"
    /\ todo[b] = {}
    /\ phase' = [phase EXCEPT ![b] = "removing"]
    /\ UNCHANGED <<clients, queued, closed, conn, serve, pumps, todo, stuck, sent,
                   missed, panicked>>

DropStuck(b, c) ==
    /\ phase[b] = "removing"
    /\ c \in stuck[b]
    /\ Remove(c)
    /\ stuck' = [stuck EXCEPT ![b] = @ \ {c}]
    /\ UNCHANGED <<queued, conn, serve, pumps, phase, todo, sent, missed>>

EndBroadcast(b) ==
    /\ phase[b] = "removing"
    /\ stuck[b] = {}
    /\ phase' = [phase EXCEPT ![b] = "idle"]
    /\ UNCHANGED <<clients, queued, closed, conn, serve, pumps, todo, stuck, sent,
                   missed, panicked>>

-----------------------------------------------------------------------------
(* The pumps                                                               *)

\* The browser goes away, or its pongs stop and the read deadline passes.
PeerLeaves(c) ==
    /\ conn[c] = "open"
    /\ conn' = [conn EXCEPT ![c] = "broken"]
    /\ UNCHANGED <<clients, queued, closed, serve, pumps, broadcasts, missed, panicked>>

\* ReadMessage returns an error: the deferred remove is next.
ReadFails(c) ==
    /\ reader[c] = "reading"
    /\ conn[c] \in {"broken", "closed"}
    /\ reader' = [reader EXCEPT ![c] = "removing"]
    /\ UNCHANGED <<clients, queued, closed, conn, serve, writer, broadcasts, missed,
                   panicked>>

ReaderRemoves(c) ==
    /\ reader[c] = "removing"
    /\ Remove(c)
    /\ reader' = [reader EXCEPT ![c] = "done"]
    /\ UNCHANGED <<queued, conn, serve, writer, broadcasts, missed>>

\* A message is taken off the channel and written; what is left in a closed
\* channel is still written.
WriteMessage(c) ==
    /\ writer[c] = "writing"
    /\ queued[c] > 0
    /\ queued' = [queued EXCEPT ![c] = @ - 1]
    /\ UNCHANGED <<clients, closed, conn, serve, pumps, broadcasts, missed, panicked>>

\* Variant: the writer returns without closing the connection.
FinishWritingOpen(c) ==
    /\ writer' = [writer EXCEPT ![c] = "done"]
    /\ UNCHANGED conn

\* The deferred conn.Close.
FinishWriting(c) ==
    /\ writer' = [writer EXCEPT ![c] = "done"]
    /\ conn' = [conn EXCEPT ![c] = "closed"]

\* A closed and empty channel: the close frame, and the pump is done.
WriteClose(c) ==
    /\ writer[c] = "writing"
    /\ closed[c]
    /\ queued[c] = 0
    /\ FinishWriting(c)
    /\ UNCHANGED <<clients, queued, closed, serve, reader, broadcasts, missed, panicked>>

\* The write of a message or of a ping fails, or takes longer than writeWait.
WriteFails(c) ==
    /\ writer[c] = "writing"
    /\ queued' \in {queued, [queued EXCEPT ![c] = IF @ > 0 THEN @ - 1 ELSE 0]}
    /\ FinishWriting(c)
    /\ UNCHANGED <<clients, closed, serve, reader, broadcasts, missed, panicked>>

-----------------------------------------------------------------------------
SendingStep(b) == (\E c \in Clients : Offer(b, c)) \/ Unlock(b)

BroadcastStep(b) ==
    \/ SendingStep(b)
    \/ \E c \in Clients : DropStuck(b, c)
    \/ EndBroadcast(b)

ReaderStep(c) == ReadFails(c) \/ ReaderRemoves(c)

WriterStep(c) == WriteMessage(c) \/ WriteClose(c)

Next ==
    \/ \E b \in Broadcasters : StartBroadcast(b) \/ BroadcastStep(b)
    \/ \E c \in Clients :
          \/ Connect(c) \/ SendSnapshot(c) \/ SnapshotFails(c)
          \/ ReaderStep(c) \/ WriterStep(c)
          \/ PeerLeaves(c) \/ WriteFails(c)

Spec == Init /\ [][Next]_vars

\* Every broadcast and every pump that can go on does.  A waiting writer of a
\* sync.RWMutex is not starved by readers, and a write ends after writeWait at
\* the latest.  Nothing is assumed of browsers, of how long a snapshot takes to
\* build, or of the events that are broadcast.
Fairness ==
    /\ \A b \in Broadcasters : WF_vars(BroadcastStep(b))
    /\ \A c \in Clients : WF_vars(ReaderStep(c)) /\ WF_vars(WriterStep(c))

FairSpec == Spec /\ Fairness

-----------------------------------------------------------------------------
(* Properties                                                              *)

TypeOK ==
    /\ clients \subseteq Clients
    /\ queued \in [Clients -> 0 .. BufferSize]
    /\ closed \in [Clients -> BOOLEAN]
    /\ conn \in [Clients -> {"none", "open", "broken", "closed"}]
    /\ serve \in [Clients -> {"idle", "building", "sent", "without", "panicked"}]
    /\ reader \in [Clients -> {"off", "reading", "removing", "done"}]
    /\ writer \in [Clients -> {"off", "writing", "done"}]
    /\ phase \in [Broadcasters -> {"idle", "sending", "removing"}]
    /\ todo \in [Broadcasters -> SUBSET Clients]
    /\ stuck \in [Broadcasters -> SUBSET Clients]
    /\ sent \in 0 .. MaxBroadcasts
    /\ missed \subseteq Clients
    /\ panicked \in BOOLEAN

\* The process survives: however a disconnect, two broadcasts and two removals
\* of one client interleave, no channel is closed twice and Broadcast never
\* sends on a closed one.
NoPanic == ~panicked

\* A client a message was withheld from does not go on as if nothing happened:
\* as long as it is registered some broadcast has still to remove it, so that
\* its browser reconnects and resyncs (comment of Broadcast).
NoSilentGap ==
    \A c \in missed \cap clients : \E b \in Broadcasters : c \in stuck[b]

\* A stuck client blocks nobody: a broadcast that holds the lock always has a
\* step of its own to take, whatever the clients do (comment of Broadcast).
BroadcastNeverWaits ==
    \A b \in Broadcasters : phase[b] = "sending" => ENABLED SendingStep(b)

Over(c) ==
    /\ c \notin clients
    /\ conn[c] = "closed"
    /\ reader[c] = "done"
    /\ writer[c] = "done"

\* One of the things that make up the connection has ended, or has to.
Ending(c) ==
    \/ conn[c] \in {"broken", "closed"}
    \/ closed[c]
    \/ reader[c] \in {"removing", "done"}
    \/ writer[c] = "done"
    \/ c \in missed
    \/ serve[c] = "panicked"

\* Somebody is about to go on with its end: a broadcast has it on its list, the
\* reader sees the connection fail or is at its removal, or the writer drains
\* the closed channel.
EndInHand(c) ==
    \/ \E b \in Broadcasters : c \in stuck[b]
    \/ reader[c] = "removing"
    \/ reader[c] = "reading" /\ conn[c] \in {"broken", "closed"}
    \/ writer[c] = "writing" /\ closed[c]

\* Nothing of a connection leaks: in whatever order its reader, its writer, its
\* Serve and the broadcasts get to know that it ends, no part is left behind
\* with nobody to end it (the deferred remove of readPump, the deferred Close of
\* writePump and the close of the channel in Hub.remove set each other off).
NothingLeaks == \A c \in Clients : Ending(c) => Over(c) \/ EndInHand(c)

\* A browser that left, one that was too slow, and one whose Serve panicked and
\* was recovered, is in the end out of the hub, its connection closed and both
\* its goroutines gone.
SlowOrGoneClientsEnd ==
    \A c \in Clients :
        (conn[c] = "broken" \/ c \in missed \/ serve[c] = "panicked") ~> Over(c)

\* client.go:18 the snapshot is the message "sent to a client the moment it
\* connects": whoever is connected and no longer waits for one has got one.
ServedWithSnapshot ==
    \A c \in clients : serve[c] # "building" => serve[c] = "sent"
=============================================================================
