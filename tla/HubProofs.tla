------------------------------ MODULE HubProofs ------------------------------
(***************************************************************************)
(* For every number of connections, broadcasters and broadcasts and every  *)
(* buffer size: no goroutine of the hub panics, no client that missed a    *)
(* message stays registered unnoticed, no part of a connection is left     *)
(* behind, and a connection that begins to end gets nearer to its end with *)
(* each step of those who have it in hand.                                 *)
(***************************************************************************)
EXTENDS Hub, TLAPS

-----------------------------------------------------------------------------
(* The inductive invariant.                                                *)

\* A channel is closed only by the removal of its client, a broadcast that holds
\* the lock offers to registered clients only, and a connection not yet made has
\* no past.
ClosedAreGone == \A c \in Clients : closed[c] => c \notin clients

OffersToRegistered ==
    \A b \in Broadcasters : phase[b] = "sending" => todo[b] \subseteq clients

FreshUntilConnected ==
    \A c \in Clients : serve[c] = "idle" => ~closed[c] /\ c \notin clients \cup missed

HubInv == /\ TypeOK /\ NoPanic /\ NoSilentGap
          /\ ClosedAreGone /\ OffersToRegistered /\ FreshUntilConnected

LEMMA InitHub == Init => HubInv
  <1> SUFFICES ASSUME Init PROVE HubInv
    OBVIOUS
  <1>1. TypeOK
    <2>1. 0 \in 0 .. BufferSize /\ 0 \in 0 .. MaxBroadcasts
      BY HubAssumption
    <2>2. panicked \in BOOLEAN /\ closed \in [Clients -> BOOLEAN]
      BY DEF Init
    <2>3. QED BY <2>1, <2>2 DEF Init, TypeOK
  <1>2. NoPanic /\ NoSilentGap /\ ClosedAreGone /\ OffersToRegistered /\ FreshUntilConnected
    BY DEF Init, NoPanic, NoSilentGap, ClosedAreGone, OffersToRegistered,
           FreshUntilConnected
  <1>3. QED BY <1>1, <1>2 DEF HubInv

\* What Hub.remove does to the parts of the invariant it touches.
LEMMA RemoveFacts ==
    ASSUME HubInv, NEW c \in Clients, Remove(c)
    PROVE  /\ clients' \subseteq clients
           /\ clients' = clients \ {c}
           /\ closed' \in [Clients -> BOOLEAN]
           /\ \A d \in Clients : closed'[d] => closed[d] \/ d = c
           /\ closed'[c] => closed[c] \/ c \in clients
           /\ panicked' = FALSE
           /\ LockFree
  <1> USE DEF HubInv, TypeOK, NoPanic, ClosedAreGone
  <1>1. CASE c \in clients
    BY <1>1 DEF Remove
  <1>2. CASE c \notin clients
    BY <1>2 DEF Remove
  <1>3. QED BY <1>1, <1>2

\* A removal, with whatever its caller does to its own state.
LEMMA RemoveKeeps ==
    ASSUME HubInv, NEW c \in Clients, Remove(c), TypeOK',
           UNCHANGED <<serve, phase, todo, missed>>,
           \A b \in Broadcasters : stuck[b] \ {c} \subseteq stuck'[b]
    PROVE  HubInv'
  <1> USE RemoveFacts DEF HubInv
  <1>1. NoPanic'
    BY DEF NoPanic
  <1>2. NoSilentGap'
    <2> SUFFICES ASSUME NEW d \in missed, d \in clients, d # c
                 PROVE  \E b \in Broadcasters : d \in stuck'[b]
      BY DEF NoSilentGap
    <2>1. PICK b \in Broadcasters : d \in stuck[b]
      BY DEF NoSilentGap
    <2>2. QED BY <2>1
  <1>3. ClosedAreGone'
    BY DEF ClosedAreGone
  <1>4. OffersToRegistered'
    BY DEF OffersToRegistered, LockFree
  <1>5. FreshUntilConnected'
    BY DEF FreshUntilConnected
  <1>6. QED BY <1>1, <1>2, <1>3, <1>4, <1>5

\* A step that leaves the map, the channels' ends and the broadcasts alone.
LEMMA QuietKeeps ==
    ASSUME HubInv, TypeOK',
           UNCHANGED <<clients, closed, broadcasts, missed, panicked>>,
           \A c \in Clients : serve'[c] = "idle" => serve[c] = "idle"
    PROVE  HubInv'
  BY DEF HubInv, broadcasts, NoPanic, NoSilentGap, ClosedAreGone, OffersToRegistered,
         FreshUntilConnected

LEMMA ServeKeeps ==
    ASSUME HubInv, NEW c \in Clients, Connect(c) \/ SendSnapshot(c) \/ SnapshotFails(c)
    PROVE  HubInv'
  <1>1. CASE Connect(c)
    <2>1. TypeOK'
      BY <1>1 DEF Connect, HubInv, TypeOK, broadcasts
    <2>2. /\ clients' = clients \cup {c} /\ ~closed[c] /\ c \notin missed
          /\ serve' = [serve EXCEPT ![c] = "building"]
          /\ UNCHANGED <<closed, phase, todo, stuck, missed, panicked>>
      BY <1>1 DEF Connect, HubInv, FreshUntilConnected, broadcasts
    <2>3. QED
      BY <2>1, <2>2 DEF HubInv, TypeOK, NoPanic, NoSilentGap, ClosedAreGone,
                        OffersToRegistered, FreshUntilConnected
  <1>2. CASE SendSnapshot(c)
    <2>1. TypeOK'
      BY <1>2, HubAssumption DEF SendSnapshot, HasRoom, HubInv, TypeOK, pumps, broadcasts
    <2>2. QED BY <1>2, <2>1, QuietKeeps DEF SendSnapshot, HubInv, TypeOK
  <1>3. CASE SnapshotFails(c)
    <2>1. TypeOK'
      BY <1>3 DEF SnapshotFails, HubInv, TypeOK, pumps, broadcasts
    <2>2. QED BY <1>3, <2>1, QuietKeeps DEF SnapshotFails, HubInv, TypeOK
  <1>4. QED BY <1>1, <1>2, <1>3

LEMMA BroadcastKeeps ==
    ASSUME HubInv, NEW b \in Broadcasters, StartBroadcast(b) \/ BroadcastStep(b)
    PROVE  HubInv'
  <1> USE DEF pumps
  <1>1. CASE StartBroadcast(b)
    BY <1>1, HubAssumption
       DEF StartBroadcast, HubInv, TypeOK, NoPanic, NoSilentGap, ClosedAreGone,
           OffersToRegistered, FreshUntilConnected
  <1>2. ASSUME NEW c \in Clients, Offer(b, c) PROVE HubInv'
    <2>1. c \in clients /\ ~closed[c] /\ serve[c] # "idle"
      BY <1>2 DEF Offer, HubInv, OffersToRegistered, ClosedAreGone, FreshUntilConnected
    <2>2. TypeOK'
      BY <1>2, HubAssumption DEF Offer, HasRoom, HubInv, TypeOK
    <2>3. NoPanic'
      BY <1>2, <2>1 DEF Offer, HubInv, NoPanic
    <2>4. NoSilentGap'
      BY <1>2 DEF Offer, HubInv, NoSilentGap, TypeOK
    <2>5. ClosedAreGone' /\ OffersToRegistered'
      BY <1>2 DEF Offer, HubInv, ClosedAreGone, OffersToRegistered, TypeOK
    <2>6. FreshUntilConnected'
      BY <1>2, <2>1 DEF Offer, HubInv, FreshUntilConnected
    <2>7. QED BY <2>2, <2>3, <2>4, <2>5, <2>6 DEF HubInv
  <1>3. CASE Unlock(b)
    BY <1>3 DEF Unlock, HubInv, TypeOK, NoPanic, NoSilentGap, ClosedAreGone,
                OffersToRegistered, FreshUntilConnected
  <1>4. ASSUME NEW c \in Clients, DropStuck(b, c) PROVE HubInv'
    <2>1. TypeOK'
      BY <1>4, RemoveFacts DEF DropStuck, HubInv, TypeOK
    <2>2. \A d \in Broadcasters : stuck[d] \ {c} \subseteq stuck'[d]
      BY <1>4 DEF DropStuck, HubInv, TypeOK
    <2>3. QED BY <1>4, <2>1, <2>2, RemoveKeeps DEF DropStuck
  <1>5. CASE EndBroadcast(b)
    BY <1>5 DEF EndBroadcast, HubInv, TypeOK, NoPanic, NoSilentGap, ClosedAreGone,
                OffersToRegistered, FreshUntilConnected
  <1>6. QED BY <1>1, <1>2, <1>3, <1>4, <1>5 DEF BroadcastStep, SendingStep

LEMMA PumpsKeep ==
    ASSUME HubInv, NEW c \in Clients,
           ReaderStep(c) \/ WriterStep(c) \/ PeerLeaves(c) \/ WriteFails(c)
    PROVE  HubInv'
  <1> USE DEF pumps, broadcasts
  <1>1. CASE ReaderRemoves(c)
    <2>1. TypeOK'
      BY <1>1, RemoveFacts DEF ReaderRemoves, HubInv, TypeOK
    <2>2. QED BY <1>1, <2>1, RemoveKeeps DEF ReaderRemoves
  <1>2. CASE ReadFails(c) \/ WriterStep(c) \/ PeerLeaves(c) \/ WriteFails(c)
    <2>1. /\ UNCHANGED <<clients, closed, serve, broadcasts, missed, panicked>>
      BY <1>2 DEF ReadFails, WriterStep, WriteMessage, WriteClose, PeerLeaves, WriteFails
    <2>2. TypeOK'
      <3>1. CASE ReadFails(c)
        BY <3>1 DEF ReadFails, HubInv, TypeOK
      <3>2. CASE WriteMessage(c)
        BY <3>2, HubAssumption DEF WriteMessage, HubInv, TypeOK
      <3>3. CASE WriteClose(c)
        BY <3>3 DEF WriteClose, FinishWriting, HubInv, TypeOK
      <3>4. CASE PeerLeaves(c)
        BY <3>4 DEF PeerLeaves, HubInv, TypeOK
      <3>5. CASE WriteFails(c)
        BY <3>5, HubAssumption DEF WriteFails, FinishWriting, HubInv, TypeOK
      <3>6. QED BY <1>2, <3>1, <3>2, <3>3, <3>4, <3>5 DEF WriterStep
    <2>3. QED BY <2>1, <2>2, QuietKeeps
  <1>3. QED BY <1>1, <1>2 DEF ReaderStep

LEMMA NextHub == HubInv /\ [Next]_vars => HubInv'
  <1> SUFFICES ASSUME HubInv, [Next]_vars PROVE HubInv'
    OBVIOUS
  <1>1. CASE UNCHANGED vars
    BY <1>1 DEF vars, HubInv, TypeOK, NoPanic, NoSilentGap, ClosedAreGone,
                OffersToRegistered, FreshUntilConnected
  <1>2. QED BY <1>1, ServeKeeps, BroadcastKeeps, PumpsKeep DEF Next

THEOREM HubInvariance == Spec => []HubInv
  BY InitHub, NextHub, PTL DEF Spec

\* No buffer holds more than it can, and no goroutine is in a state it has not.
THEOREM HubTypes == Spec => []TypeOK
  BY HubInvariance, PTL DEF HubInv

\* Neither a send on a closed channel in Broadcast nor a second close ever
\* takes the process down.
THEOREM HubNeverPanics == Spec => []NoPanic
  BY HubInvariance, PTL DEF HubInv

\* Who missed a message is registered only as long as a broadcast has it on
\* the list of clients to remove.
THEOREM GapsAreNoticed == Spec => []NoSilentGap
  BY HubInvariance, PTL DEF HubInv

-----------------------------------------------------------------------------
(* How a connection ends.  One lemma for each of the things that may happen to *)
(* it; what happens to another connection leaves it as it is.              *)

\* The parts of a connection go one after the other: who is no longer in the
\* map has its channel closed, the reader ends with the removal and the writer
\* with the connection.
Parts(c) ==
    /\ (serve[c] = "idle") = (conn[c] = "none")
    /\ (serve[c] = "idle") = (reader[c] = "off")
    /\ (serve[c] = "idle") = (writer[c] = "off")
    /\ (serve[c] = "panicked" \/ (serve[c] # "idle" /\ c \notin clients)) => closed[c]
    /\ reader[c] = "done" => c \notin clients
    /\ writer[c] = "done" <=> conn[c] = "closed"

PartsFollow == \A c \in Clients : Parts(c)

LEMMA PartsStay ==
    ASSUME NEW c \in Clients, Parts(c),
           UNCHANGED <<serve[c], conn[c], reader[c], writer[c], closed[c], c \in clients>>
    PROVE  Parts(c)'
  BY DEF Parts

\* Hub.remove closes the channel of the client it takes out of the map.
LEMMA PartsRemove ==
    ASSUME HubInv, NEW d \in Clients, Remove(d), NEW c \in Clients, Parts(c),
           UNCHANGED <<serve, conn, writer>>,
           reader'[c] = reader[c] \/ (c = d /\ reader[c] = "removing" /\ reader'[c] = "done")
    PROVE  Parts(c)'
  <1>1. c # d => (closed'[c] <=> closed[c]) /\ (c \in clients' <=> c \in clients)
    BY DEF Remove, HubInv, TypeOK
  <1>2. /\ c \notin clients' => c \notin clients \/ closed'[c]
        /\ closed[c] => closed'[c]
        /\ c \in clients' => c \in clients
    BY DEF Remove, HubInv, TypeOK
  <1>3. c = d => c \notin clients'
    BY DEF Remove
  <1>4. QED BY <1>1, <1>2, <1>3 DEF Parts

LEMMA PartsServe ==
    ASSUME HubInv, NEW d \in Clients, Connect(d) \/ SendSnapshot(d) \/ SnapshotFails(d),
           NEW c \in Clients, Parts(c)
    PROVE  Parts(c)'
  <1> USE DEF HubInv, TypeOK, pumps
  <1>1. CASE Connect(d)
    <2>1. CASE c = d
      BY <1>1, <2>1 DEF Connect, Parts
    <2>2. CASE c # d
      BY <1>1, <2>2 DEF Connect, Parts
    <2>3. QED BY <2>1, <2>2
  <1>2. CASE SendSnapshot(d)
    <2>1. /\ UNCHANGED <<clients, closed, conn, reader, writer>>
          /\ serve'[c] = serve[c] \/ (serve[c] = "building" /\ serve'[c] # "idle")
          /\ serve'[c] = "panicked" => serve[c] = "panicked" \/ closed[c]
      BY <1>2 DEF SendSnapshot
    <2>2. QED BY <2>1 DEF Parts
  <1>3. CASE SnapshotFails(d)
    BY <1>3 DEF SnapshotFails, Parts
  <1>4. QED BY <1>1, <1>2, <1>3

LEMMA PartsBroadcast ==
    ASSUME HubInv, NEW b \in Broadcasters, StartBroadcast(b) \/ BroadcastStep(b),
           NEW c \in Clients, Parts(c)
    PROVE  Parts(c)'
  <1> USE DEF pumps
  <1>1. CASE StartBroadcast(b) \/ SendingStep(b) \/ EndBroadcast(b)
    <2>1. UNCHANGED <<clients, closed, conn, serve, reader, writer>>
      BY <1>1 DEF StartBroadcast, SendingStep, Offer, Unlock, EndBroadcast
    <2>2. QED BY <2>1, PartsStay
  <1>2. ASSUME NEW d \in Clients, DropStuck(b, d) PROVE Parts(c)'
    BY <1>2, PartsRemove DEF DropStuck
  <1>3. QED BY <1>1, <1>2 DEF BroadcastStep

LEMMA PartsPumps ==
    ASSUME HubInv, NEW d \in Clients,
           ReaderStep(d) \/ WriterStep(d) \/ PeerLeaves(d) \/ WriteFails(d),
           NEW c \in Clients, Parts(c)
    PROVE  Parts(c)'
  <1> USE DEF HubInv, TypeOK, pumps
  <1>1. CASE ReadFails(d)
    BY <1>1 DEF ReadFails, Parts
  <1>2. CASE ReaderRemoves(d)
    <2>1. reader'[c] = reader[c] \/ (c = d /\ reader[c] = "removing" /\ reader'[c] = "done")
      BY <1>2 DEF ReaderRemoves
    <2>2. QED BY <1>2, <2>1, PartsRemove DEF ReaderRemoves
  <1>3. CASE WriteMessage(d)
    BY <1>3, PartsStay DEF WriteMessage
  <1>4. CASE WriteClose(d) \/ WriteFails(d)
    BY <1>4 DEF WriteClose, WriteFails, FinishWriting, Parts
  <1>5. CASE PeerLeaves(d)
    BY <1>5 DEF PeerLeaves, Parts
  <1>6. QED BY <1>1, <1>2, <1>3, <1>4, <1>5 DEF ReaderStep, WriterStep

LEMMA InitParts == Init => PartsFollow
  BY DEF Init, PartsFollow, Parts

LEMMA NextParts == HubInv /\ PartsFollow /\ [Next]_vars => PartsFollow'
  <1> SUFFICES ASSUME HubInv, [Next]_vars, NEW c \in Clients, Parts(c) PROVE Parts(c)'
    BY DEF PartsFollow
  <1>1. CASE UNCHANGED vars
    BY <1>1, PartsStay DEF vars
  <1>2. QED BY <1>1, PartsServe, PartsBroadcast, PartsPumps DEF Next

\* Every connection that has begun to end has somebody who goes on with it.  Who
\* missed a message is registered and on a list, or no longer registered; who is
\* not registered has a closed channel, which ends the writer, which closes the
\* connection, which ends the reader; and a reader that ended was at its removal.
LEMMA EndsAreInHand == HubInv /\ PartsFollow => NothingLeaks
  <1> SUFFICES ASSUME HubInv, PartsFollow, NEW c \in Clients, Ending(c), ~EndInHand(c)
               PROVE  Over(c)
    BY DEF NothingLeaks
  <1> USE DEF HubInv, TypeOK
  <1>1. Parts(c)
    BY DEF PartsFollow
  <1>2. serve[c] # "idle"
    BY <1>1 DEF Ending, Parts, FreshUntilConnected
  <1>3. c \notin clients
    <2>1. c \in missed => c \notin clients
      BY DEF NoSilentGap, EndInHand
    <2>2. closed[c] => c \notin clients
      BY DEF ClosedAreGone
    <2>3. conn[c] \in {"broken", "closed"} => reader[c] = "done"
      BY <1>1, <1>2 DEF Parts, EndInHand
    <2>4. QED BY <1>1, <2>1, <2>2, <2>3 DEF Ending, EndInHand, Parts
  <1>4. closed[c]
    BY <1>1, <1>2, <1>3 DEF Parts
  <1>5. writer[c] = "done"
    BY <1>1, <1>2, <1>4 DEF Parts, EndInHand
  <1>6. conn[c] = "closed"
    BY <1>1, <1>5 DEF Parts
  <1>7. reader[c] = "done"
    BY <1>1, <1>2, <1>6 DEF Parts, EndInHand
  <1>8. QED BY <1>3, <1>5, <1>6, <1>7 DEF Over

\* Whatever part of a connection ends first, and in whatever order the others
\* learn of it, none is left with nobody to end it.
THEOREM ConnectionsNeverLeak == Spec => []NothingLeaks
  <1>1. Spec => []PartsFollow
    BY HubInvariance, InitParts, NextParts, PTL DEF Spec
  <1>2. QED BY <1>1, HubInvariance, EndsAreInHand, PTL

-----------------------------------------------------------------------------
(* How long a connection may take to end.                                  *)

\* What is left of a connection, apart from its queue.
Left(c) ==
    (IF c \in clients THEN 1 ELSE 0)
  + (IF reader[c] = "done" THEN 0 ELSE IF reader[c] = "removing" THEN 1 ELSE 2)
  + (IF conn[c] = "closed" THEN 0 ELSE IF conn[c] = "broken" THEN 1 ELSE 2)
  + (IF writer[c] = "done" THEN 0 ELSE 1)

\* The steps of those who have the end of a connection in hand.
EndStep(c) ==
    \/ ReaderStep(c)
    \/ closed[c] /\ WriterStep(c)
    \/ c \in clients /\ \E b \in Broadcasters : DropStuck(b, c)

\* An end that has begun is not taken back, nothing anybody does puts it off (a
\* closed channel is never filled again, nobody is registered twice), and each
\* step of those who have it in hand brings it nearer.  With NothingLeaks, this is
\* what SlowOrGoneClientsEnd asks of the code; the rest is fairness.
EndsGoForward ==
    [][\A c \in Clients : Ending(c) =>
          /\ Ending(c)'
          /\ Left(c)' <= Left(c)
          /\ closed[c] => queued'[c] <= queued[c]
          /\ EndStep(c) => Left(c)' < Left(c) \/ (closed[c] /\ queued'[c] < queued[c])]_vars

\* What a step may do to a connection that was made: go forward, in each part.
Forward(c) ==
    /\ c \in clients' => c \in clients
    /\ closed[c] => closed'[c] /\ queued'[c] <= queued[c]
    /\ c \in missed => c \in missed'
    /\ serve[c] = "panicked" => serve'[c] = "panicked"
    /\ <<reader[c], reader'[c]>> \in {<<"reading", "removing">>, <<"removing", "done">>}
           \/ reader'[c] = reader[c]
    /\ <<conn[c], conn'[c]>> \in {<<"open", "broken">>, <<"open", "closed">>, <<"broken", "closed">>}
           \/ conn'[c] = conn[c]
    /\ <<writer[c], writer'[c]>> = <<"writing", "done">> \/ writer'[c] = writer[c]

LEMMA ForwardRemove ==
    ASSUME HubInv, NEW d \in Clients, Remove(d), NEW c \in Clients
    PROVE  /\ c \in clients' => c \in clients
           /\ closed[c] => closed'[c]
           /\ d \in clients => d \notin clients'
  BY DEF HubInv, TypeOK, Remove

LEMMA AllForward ==
    ASSUME HubInv, NEW c \in Clients, Parts(c), serve[c] # "idle", Next
    PROVE  Forward(c)
  <1> USE DEF HubInv, TypeOK, Forward
  <1>0. conn[c] # "none"
    BY DEF Parts
  <1>1. ASSUME NEW d \in Clients, Connect(d) PROVE Forward(c)
    <2>1. d # c
      BY <1>1 DEF Connect
    <2>2. QED BY <1>1, <2>1 DEF Connect, broadcasts
  <1>2. ASSUME NEW d \in Clients, SendSnapshot(d) \/ SnapshotFails(d) PROVE Forward(c)
    BY <1>2 DEF SendSnapshot, SnapshotFails, pumps, broadcasts
  <1>3. ASSUME NEW b \in Broadcasters, NEW d \in Clients, Offer(b, d) PROVE Forward(c)
    <2>1. ~closed[d]
      BY <1>3 DEF Offer, OffersToRegistered, ClosedAreGone
    <2>2. QED BY <1>3, <2>1 DEF Offer, pumps
  <1>4. ASSUME NEW b \in Broadcasters, StartBroadcast(b) \/ Unlock(b) \/ EndBroadcast(b)
        PROVE  Forward(c)
    BY <1>4 DEF StartBroadcast, Unlock, EndBroadcast, pumps
  <1>5. ASSUME NEW b \in Broadcasters, NEW d \in Clients, DropStuck(b, d) PROVE Forward(c)
    BY <1>5, ForwardRemove DEF DropStuck, pumps
  <1>6. ASSUME NEW d \in Clients, ReaderRemoves(d) PROVE Forward(c)
    BY <1>6, ForwardRemove DEF ReaderRemoves
  <1>7. ASSUME NEW d \in Clients, ReadFails(d) \/ PeerLeaves(d) PROVE Forward(c)
    BY <1>7 DEF ReadFails, PeerLeaves, pumps
  <1>8. ASSUME NEW d \in Clients, WriterStep(d) \/ WriteFails(d) PROVE Forward(c)
    <2>1. CASE WriteMessage(d)
      <3>1. queued[c] \in Nat /\ queued'[c] <= queued[c]
        BY <2>1, HubAssumption DEF WriteMessage
      <3>2. QED BY <2>1, <3>1 DEF WriteMessage, pumps, broadcasts
    <2>2. CASE WriteClose(d)
      <3>1. queued[c] \in Nat
        BY HubAssumption
      <3>2. QED BY <1>0, <2>2, <3>1 DEF WriteClose, FinishWriting, broadcasts
    <2>3. CASE WriteFails(d)
      <3>1. queued[c] \in Nat /\ queued'[c] <= queued[c]
        BY <2>3, HubAssumption DEF WriteFails
      <3>2. QED BY <1>0, <2>3, <3>1 DEF WriteFails, FinishWriting, broadcasts
    <2>4. QED BY <1>8, <2>1, <2>2, <2>3 DEF WriterStep
  <1>9. QED
    BY <1>1, <1>2, <1>3, <1>4, <1>5, <1>6, <1>7, <1>8
    DEF Next, BroadcastStep, SendingStep, ReaderStep

LEMMA ForwardEnds ==
    ASSUME HubInv, HubInv', NEW c \in Clients, Ending(c), Forward(c)
    PROVE  /\ Ending(c)'
           /\ Left(c)' <= Left(c)
           /\ closed[c] => queued'[c] <= queued[c]
  <1>1. Ending(c)'
    BY DEF Ending, Forward
  <1>2. Left(c)' <= Left(c)
    BY DEF Left, Forward
  <1>3. QED BY <1>1, <1>2 DEF Forward

\* Each of them takes something away, and the others give nothing back.
LEMMA EndStepsCount ==
    ASSUME HubInv, HubInv', NEW c \in Clients, Forward(c), EndStep(c)
    PROVE  Left(c)' < Left(c) \/ (closed[c] /\ queued'[c] < queued[c])
  <1> USE DEF HubInv, TypeOK
  <1>1. CASE ReaderStep(c)
    <2>1. \/ reader[c] = "reading" /\ reader'[c] = "removing"
          \/ reader[c] = "removing" /\ reader'[c] = "done"
      BY <1>1 DEF ReaderStep, ReadFails, ReaderRemoves
    <2>2. QED BY <2>1 DEF Left, Forward
  <1>2. CASE closed[c] /\ WriteMessage(c)
    <2>1. queued[c] \in Nat /\ queued'[c] = queued[c] - 1
      BY <1>2, HubAssumption DEF WriteMessage
    <2>2. QED BY <1>2, <2>1
  <1>3. CASE WriteClose(c)
    <2>1. writer[c] = "writing" /\ writer'[c] = "done"
      BY <1>3 DEF WriteClose, FinishWriting
    <2>2. QED BY <2>1 DEF Left, Forward
  <1>4. CASE c \in clients /\ \E b \in Broadcasters : DropStuck(b, c)
    <2>1. c \in clients /\ c \notin clients'
      BY <1>4, ForwardRemove DEF DropStuck
    <2>2. QED BY <2>1 DEF Left, Forward
  <1>5. QED BY <1>1, <1>2, <1>3, <1>4 DEF EndStep, WriterStep

\* Whatever happens meanwhile, a connection whose end has begun ends after as many
\* steps of its own goroutines and its broadcasts as it has parts and messages.
THEOREM ConnectionsEndInBoundedSteps == Spec => EndsGoForward
  <1> DEFINE Advances ==
        \A c \in Clients : Ending(c) =>
          /\ Ending(c)'
          /\ Left(c)' <= Left(c)
          /\ closed[c] => queued'[c] <= queued[c]
          /\ EndStep(c) => Left(c)' < Left(c) \/ (closed[c] /\ queued'[c] < queued[c])
  <1>1. ASSUME HubInv, HubInv', PartsFollow, [Next]_vars PROVE [Advances]_vars
    <2> SUFFICES ASSUME Next, NEW c \in Clients, Ending(c)
                 PROVE  /\ Ending(c)'
                        /\ Left(c)' <= Left(c)
                        /\ closed[c] => queued'[c] <= queued[c]
                        /\ EndStep(c) => \/ Left(c)' < Left(c)
                                         \/ closed[c] /\ queued'[c] < queued[c]
      BY <1>1
    <2>1. Parts(c) /\ serve[c] # "idle"
      BY <1>1 DEF PartsFollow, Parts, Ending, HubInv, FreshUntilConnected
    <2>2. Forward(c)
      BY <1>1, <2>1, AllForward
    <2>3. QED BY <1>1, <2>2, ForwardEnds, EndStepsCount
  <1>2. Spec => []PartsFollow
    BY HubInvariance, InitParts, NextParts, PTL DEF Spec
  <1>3. QED BY <1>1, <1>2, HubInvariance, PTL DEF Spec, EndsGoForward
=============================================================================
