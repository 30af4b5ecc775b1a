--------------------------- MODULE PortPool_proofs ---------------------------
(* Proofs about PortPool for any instances, products and range of ports. *)
EXTENDS PortPool, Integers, TLAPS

\* The invariant of a pool whose ports.txt was never lost.
PoolSound == Typed /\ PortsGivenOnce /\ HostFollows /\ RowsFollow

\* With this backend the allocator looks no further back than its cursor.
LEMMA OffersAreNew ==
  ASSUME Backend = "postgres", PoolSound, NEW p \in Port, Allocates(p)
  PROVE  /\ p + 1 \in PortStart..PortEnd + 1 /\ cursor < p + 1
         /\ \A i \in Instance : port[i] # p
         /\ \A i \in Instance : listens[i] # p
         /\ p \notin mapped
<1>1. p \in cursor..PortEnd
  BY DEF Allocates, Offers
<1>2. cursor \in Int /\ p \in Int /\ PortEnd \in Int /\ PortStart \in Int /\ NoPort # p
  BY PoolAssumption DEF PoolSound, Typed, PoolTypeOK, Port
<1>3. p + 1 \in PortStart..PortEnd + 1 /\ cursor < p + 1
  BY <1>1, <1>2 DEF PoolSound, Typed, PoolTypeOK
<1>4. \A i \in Instance : port[i] # p
  BY <1>1, <1>2 DEF PoolSound, Typed, PortsGivenOnce
<1>5. \A i \in Instance : listens[i] # p
  BY <1>2, <1>4 DEF PoolSound, Typed, HostFollows
<1> QED
  BY <1>3, <1>4, <1>5 DEF PoolSound, Typed, HostFollows

LEMMA InitPool == Init => PoolSound
<1> SUFFICES ASSUME Init PROVE PoolSound
  OBVIOUS
<1>1. lost \in BOOLEAN
  BY DEF Init
<1>2. PoolTypeOK
  BY <1>1, PoolAssumption DEF Init, PoolTypeOK
<1>3. Typed
  BY <1>2 DEF Init, Typed
<1>4. PortsGivenOnce /\ HostFollows /\ RowsFollow
  BY DEF Init, PortsGivenOnce, HostFollows, RowsFollow
<1> QED
  BY <1>3, <1>4 DEF PoolSound

LEMMA CreateKeeps ==
  ASSUME Backend = "postgres", PoolSound, UNCHANGED lost, NEW i \in Instance, NEW p \in Port, Create(i, p)
  PROVE  PoolSound'
<1>1. /\ p + 1 \in PortStart..PortEnd + 1 /\ cursor < p + 1
      /\ \A j \in Instance : port[j] # p
      /\ \A j \in Instance : listens[j] # p
  BY OffersAreNew DEF Create
<1>2. /\ cursor' = p + 1
      /\ status' = [status EXCEPT ![i] = "active"]
      /\ port' = [port EXCEPT ![i] = p]
      /\ owner' = [owner EXCEPT ![p] = i]
      /\ released' = released \ {p}
      /\ listens' = [listens EXCEPT ![i] = p]
      /\ mapped' = IF Own(i) THEN mapped ELSE mapped \cup {p}
      /\ listens[i] = NoPort /\ p # NoPort
  BY PoolAssumption DEF Create, MayCreate, NextCursor, RecordPort, Published
<1>3. PoolTypeOK'
  BY <1>1, <1>2, PoolAssumption DEF PoolSound, Typed, PoolTypeOK
<1>4. (\A j \in Instance : status[j] = "none" <=> port[j] = NoPort)'
  BY <1>2 DEF PoolSound, Typed, PoolTypeOK
<1>5. PortsGivenOnce'
  <2>1. cursor \in Int /\ \A j \in Instance : port[j] = NoPort \/ port[j] \in Int
    BY PoolAssumption DEF PoolSound, Typed, PoolTypeOK, Port
  <2>2. p \in Int
    BY PoolAssumption DEF Port
  <2>3. \A j \in Instance : port'[j] = IF j = i THEN p ELSE port[j]
    BY <1>2 DEF PoolSound, Typed, PoolTypeOK
  <2>4. \A j \in Instance : port'[j] = NoPort \/ port'[j] < cursor'
    BY <1>1, <1>2, <2>1, <2>2, <2>3 DEF PoolSound, Typed, PortsGivenOnce
  <2>5. \A j, k \in Instance : j # k /\ port'[j] # NoPort => port'[k] # port'[j]
    BY <1>1, <2>3 DEF PoolSound, Typed, PortsGivenOnce
  <2> QED
    BY <2>4, <2>5 DEF PortsGivenOnce
<1>6. HostFollows'
  <2>1. \A j \in Instance :
          /\ listens'[j] = IF j = i THEN p ELSE listens[j]
          /\ port'[j] = IF j = i THEN p ELSE port[j]
          /\ status'[j] = IF j = i THEN "active" ELSE status[j]
    BY <1>2 DEF PoolSound, Typed, PoolTypeOK
  <2>2. \A j \in Instance : listens'[j] = IF status'[j] = "active" THEN port'[j] ELSE NoPort
    BY <2>1 DEF PoolSound, Typed, HostFollows
  <2>3. \A q \in mapped' : \E j \in Instance : ~Own(j) /\ listens'[j] = q
    BY <1>2, <2>1, PoolAssumption DEF PoolSound, Typed, PoolTypeOK, HostFollows
  <2>4. \A j \in Instance : ~Own(j) /\ status'[j] = "active" => port'[j] \in mapped'
    BY <1>2, <2>1 DEF PoolSound, Typed, HostFollows
  <2> QED
    BY <2>2, <2>3, <2>4 DEF HostFollows, Own
<1>7. RowsFollow'
  BY <1>1, <1>2 DEF PoolSound, Typed, PoolTypeOK, RowsFollow, Booked
<1> QED
  BY <1>3, <1>4, <1>5, <1>6, <1>7 DEF PoolSound, Typed

LEMMA CreateFailsKeeps ==
  ASSUME Backend = "postgres", PoolSound, UNCHANGED lost, NEW i \in Instance, NEW p \in Port,
         NEW undone \in BOOLEAN, CreateFails(i, p, undone)
  PROVE  PoolSound'
<1>1. /\ p + 1 \in PortStart..PortEnd + 1 /\ cursor < p + 1
      /\ p \notin mapped
  BY OffersAreNew DEF CreateFails
<1>2. cursor' = p + 1 /\ UNCHANGED metadata /\ listens[i] = NoPort
  BY DEF CreateFails, MayCreate, NextCursor
<1>3. UNCHANGED <<listens, mapped>>
  BY <1>1, <1>2 DEF CreateFails, Unpublished, PoolSound, Typed, PoolTypeOK
<1>4. PortsGivenOnce'
  <2>1. cursor \in Int /\ \A j \in Instance : port[j] = NoPort \/ port[j] \in Int
    BY PoolAssumption DEF PoolSound, Typed, PoolTypeOK, Port
  <2>2. p \in Int
    BY PoolAssumption DEF Port
  <2> QED
    BY <1>1, <1>2, <2>1, <2>2 DEF PoolSound, Typed, PortsGivenOnce, metadata
<1> QED
  BY <1>1, <1>2, <1>3, <1>4 DEF PoolSound, Typed, PoolTypeOK, HostFollows, RowsFollow, Booked, metadata, Own

\* What both ways of deleting an active instance do to the host and its status.
LEMMA UnpublishedKeeps ==
  ASSUME PoolSound, UNCHANGED lost, NEW i \in Instance, status[i] = "active",
         Unpublished(i, port[i]),
         status' = [status EXCEPT ![i] = "deleted"],
         UNCHANGED <<cursor, port>>,
         owner' \in [Port -> Instance \cup {NoInst}], released' \in SUBSET Port,
         \A p \in Port \ {port[i]} : owner'[p] = owner[p] /\ (p \in released' => p \in released)
  PROVE  PoolSound'
<1>1. /\ listens' = [listens EXCEPT ![i] = NoPort]
      /\ mapped' = IF Own(i) THEN mapped ELSE mapped \ {port[i]}
  BY DEF Unpublished
<1>2. port[i] \in Port /\ NoPort \notin Port
  BY PoolAssumption DEF PoolSound, Typed, PoolTypeOK
<1>3. PoolTypeOK'
  BY <1>1 DEF PoolSound, Typed, PoolTypeOK
<1>4. \A j \in Instance \ {i} : port[j] # port[i]
  BY <1>2 DEF PoolSound, Typed, PortsGivenOnce
<1>5. HostFollows'
  BY <1>1, <1>2, <1>4 DEF PoolSound, Typed, PoolTypeOK, HostFollows, Own
<1>6. RowsFollow'
  <2> SUFFICES ASSUME NEW j \in Instance, status'[j] = "active"
               PROVE  owner'[port[j]] = j /\ port[j] \notin released'
    BY DEF RowsFollow, Booked
  <2>1. j # i /\ status[j] = "active"
    BY DEF PoolSound, Typed, PoolTypeOK
  <2>2. port[j] \in Port \ {port[i]}
    BY <1>4, <2>1 DEF PoolSound, Typed, PoolTypeOK
  <2> QED
    BY <2>1, <2>2 DEF PoolSound, Typed, RowsFollow, Booked
<1> QED
  BY <1>3, <1>5, <1>6 DEF PoolSound, Typed, PoolTypeOK, PortsGivenOnce

LEMMA DeleteKeeps ==
  ASSUME PoolSound, UNCHANGED lost, NEW i \in Instance, Delete(i) \/ DeleteUnreported(i)
  PROVE  PoolSound'
<1>1. CASE Delete(i)
  <2>1. port[i] \in Port
    BY <1>1, PoolAssumption DEF Delete, PoolSound, Typed, PoolTypeOK
  <2> QED
    BY <1>1, <2>1, UnpublishedKeeps DEF Delete, RecordPort, PoolSound, Typed, PoolTypeOK
<1>2. CASE DeleteUnreported(i)
  <2>1. port[i] \in Port
    BY <1>2, PoolAssumption DEF DeleteUnreported, PoolSound, Typed, PoolTypeOK
  <2> QED
    BY <1>2, <2>1, UnpublishedKeeps DEF DeleteUnreported, Release, PoolSound, Typed, PoolTypeOK
<1> QED
  BY <1>1, <1>2

LEMMA RestoreKeeps ==
  ASSUME PoolSound, UNCHANGED lost, NEW i \in Instance, Restore(i)
  PROVE  PoolSound'
<1>1. port[i] \in Port /\ NoPort \notin Port /\ status[i] = "deleted" /\ listens[i] = NoPort
  BY PoolAssumption DEF Restore, MayRestore, PoolSound, Typed, PoolTypeOK
<1>2. \A j \in Instance \ {i} : port[j] # port[i]
  BY <1>1 DEF PoolSound, Typed, PortsGivenOnce
<1>3. /\ status' = [status EXCEPT ![i] = "active"]
      /\ owner' = [owner EXCEPT ![port[i]] = i]
      /\ released' = released \ {port[i]}
  BY <1>2 DEF Restore, Restored, LivePortFree, RecordPort
<1>4. /\ listens' = [listens EXCEPT ![i] = port[i]]
      /\ mapped' = IF Own(i) THEN mapped ELSE mapped \cup {port[i]}
      /\ UNCHANGED <<cursor, port>>
  BY DEF Restore, Published
<1>5. PoolTypeOK'
  BY <1>1, <1>3, <1>4 DEF PoolSound, Typed, PoolTypeOK
<1>6. HostFollows'
  BY <1>1, <1>2, <1>3, <1>4 DEF PoolSound, Typed, PoolTypeOK, HostFollows, Own
<1>7. RowsFollow'
  BY <1>1, <1>2, <1>3, <1>4 DEF PoolSound, Typed, PoolTypeOK, RowsFollow, Booked
<1> QED
  BY <1>1, <1>3, <1>4, <1>5, <1>6, <1>7 DEF PoolSound, Typed, PoolTypeOK, PortsGivenOnce

\* No restore finds the port of another's container, so none stops the Nginx.
LEMMA NeverStopsNginx ==
  ASSUME PoolSound, UNCHANGED lost, NEW i \in Instance, RestoreStopsNginx(i)
  PROVE  FALSE
<1>1. port[i] \in Port /\ NoPort \notin Port
  BY PoolAssumption DEF RestoreStopsNginx, MayRestore, PoolSound, Typed, PoolTypeOK
<1>2. PICK p \in mapped \cup {port[i]}, j \in Instance : Own(j) /\ listens[j] = p
  BY DEF RestoreStopsNginx, NginxUp, OwnPorts
<1>3. p \in Port /\ port[j] = p /\ status[j] = "active"
  BY <1>1, <1>2 DEF PoolSound, Typed, PoolTypeOK, HostFollows
<1>4. CASE p = port[i]
  BY <1>1, <1>3, <1>4 DEF RestoreStopsNginx, MayRestore, PoolSound, Typed, PortsGivenOnce
<1>5. CASE p \in mapped
  <2>1. PICK k \in Instance : ~Own(k) /\ listens[k] = p
    BY <1>5 DEF PoolSound, Typed, HostFollows
  <2>2. port[k] = p
    BY <1>1, <1>3, <2>1 DEF PoolSound, Typed, HostFollows
  <2> QED
    BY <1>1, <1>2, <1>3, <2>1, <2>2 DEF PoolSound, Typed, PortsGivenOnce
<1> QED
  BY <1>2, <1>4, <1>5

LEMMA PurgeKeeps ==
  ASSUME PoolSound, UNCHANGED lost, NEW i \in Instance, Purge(i)
  PROVE  PoolSound'
<1> DEFINE rows == {p \in Port : owner[p] = i} \cup {port[i]}
<1>1. port[i] \in Port /\ NoPort \notin Port /\ status[i] = "deleted"
  BY PoolAssumption DEF Purge, PoolSound, Typed, PoolTypeOK
<1>2. /\ status' = [status EXCEPT ![i] = "none"]
      /\ port' = [port EXCEPT ![i] = NoPort]
      /\ owner' = [p \in Port |-> IF p \in rows THEN NoInst ELSE owner[p]]
      /\ released' = released \cup rows
      /\ UNCHANGED <<cursor, listens, mapped>>
  BY DEF Purge, Release
<1>3. PoolTypeOK'
  BY <1>1, <1>2 DEF PoolSound, Typed, PoolTypeOK
<1>4. PortsGivenOnce'
  BY <1>1, <1>2 DEF PoolSound, Typed, PoolTypeOK, PortsGivenOnce
<1>5. HostFollows'
  BY <1>1, <1>2 DEF PoolSound, Typed, PoolTypeOK, HostFollows, Own
<1>6. RowsFollow'
  <2> SUFFICES ASSUME NEW j \in Instance, status'[j] = "active"
               PROVE  owner'[port'[j]] = j /\ port'[j] \notin released'
    BY DEF RowsFollow, Booked
  <2>1. j # i /\ status[j] = "active" /\ port'[j] = port[j]
    BY <1>2 DEF PoolSound, Typed, PoolTypeOK
  <2>2. port[j] \in Port /\ owner[port[j]] = j /\ port[j] \notin released
    BY <2>1, <1>1 DEF PoolSound, Typed, PoolTypeOK, RowsFollow, Booked
  <2>3. port[j] \notin rows
    BY <1>1, <2>1, <2>2 DEF PoolSound, Typed, PortsGivenOnce
  <2> HIDE DEF rows
  <2> QED
    BY <1>2, <2>1, <2>2, <2>3
<1>7. (\A j \in Instance : status[j] = "none" <=> port[j] = NoPort)'
  BY <1>1, <1>2 DEF PoolSound, Typed, PoolTypeOK
<1> QED
  BY <1>3, <1>4, <1>5, <1>6, <1>7 DEF PoolSound, Typed

\* Types, and a port for every row, need no more than that ports.txt is begun
\* anew within the range.
LEMMA TypedKept ==
  ASSUME Typed, [Next]_pvars
  PROVE  Typed'
<1>1. PortStart \in Nat /\ PortEnd \in Nat /\ PortStart <= PortEnd /\ NoPort \notin Port
  BY PoolAssumption
<1>2. CASE UNCHANGED pvars
  BY <1>2 DEF Typed, PoolTypeOK, pvars
<1>3. CASE LosePortsFile
  BY <1>1, <1>3 DEF Typed, PoolTypeOK, LosePortsFile, metadata
<1>4. ASSUME NEW i \in Instance, Operation(i), UNCHANGED lost PROVE Typed'
  <2>1. \A p \in Port : Allocates(p) => p + 1 \in PortStart..PortEnd + 1
    BY <1>1 DEF Port
  <2>2. ASSUME NEW p \in Port, Create(i, p) PROVE Typed'
    BY <1>1, <1>4, <2>1, <2>2 DEF Typed, PoolTypeOK, Create, NextCursor, RecordPort, Published
  <2>3. ASSUME NEW p \in Port, NEW undone \in BOOLEAN, CreateFails(i, p, undone) PROVE Typed'
    BY <1>1, <1>4, <2>1, <2>3 DEF Typed, PoolTypeOK, CreateFails, NextCursor, Unpublished, metadata
  <2>4. CASE Delete(i)
    BY <1>1, <1>4, <2>4 DEF Typed, PoolTypeOK, Delete, RecordPort, Unpublished
  <2>5. CASE DeleteUnreported(i)
    BY <1>1, <1>4, <2>5 DEF Typed, PoolTypeOK, DeleteUnreported, Release, Unpublished
  <2>6. CASE Restore(i)
    BY <1>1, <1>4, <2>6 DEF Typed, PoolTypeOK, Restore, MayRestore, Restored, RecordPort, Published
  <2>7. CASE RestoreStopsNginx(i)
    BY <1>1, <1>4, <2>7 DEF Typed, PoolTypeOK, RestoreStopsNginx, MayRestore, Published, metadata
  <2>8. CASE Purge(i)
    <3> DEFINE rows == {p \in Port : owner[p] = i} \cup {port[i]}
    <3>1. rows \in SUBSET Port
      BY <1>1, <2>8 DEF Typed, PoolTypeOK, Purge
    <3>2. /\ owner' = [p \in Port |-> IF p \in rows THEN NoInst ELSE owner[p]]
          /\ released' = released \cup rows
          /\ status' = [status EXCEPT ![i] = "none"]
          /\ port' = [port EXCEPT ![i] = NoPort]
          /\ UNCHANGED <<cursor, listens, mapped>>
      BY <2>8 DEF Purge, Release
    <3> HIDE DEF rows
    <3> QED
      BY <1>4, <3>1, <3>2 DEF Typed, PoolTypeOK
  <2> QED
    BY <1>4, <2>2, <2>3, <2>4, <2>5, <2>6, <2>7, <2>8 DEF Operation
<1> QED
  BY <1>2, <1>3, <1>4 DEF Next

LEMMA StandsStill ==
  ASSUME PoolInv, UNCHANGED pvars
  PROVE  PoolInv'
<1>1. Typed' <=> Typed
  BY DEF pvars, Typed, PoolTypeOK
<1>2. PortsGivenOnce' <=> PortsGivenOnce
  BY DEF pvars, PortsGivenOnce
<1>3. HostFollows' <=> HostFollows
  BY DEF pvars, HostFollows, Own
<1>4. RowsFollow' <=> RowsFollow
  BY DEF pvars, RowsFollow, Booked
<1>5. lost' <=> lost
  BY DEF pvars
<1> QED
  BY <1>1, <1>2, <1>3, <1>4, <1>5 DEF PoolInv

LEMMA OperationKeeps ==
  ASSUME Backend = "postgres", PoolSound, UNCHANGED lost, NEW i \in Instance, Operation(i)
  PROVE  PoolSound'
<1>1. CASE \E p \in Port : Create(i, p)
  BY <1>1, CreateKeeps
<1>2. CASE \E p \in Port, undone \in BOOLEAN : CreateFails(i, p, undone)
  BY <1>2, CreateFailsKeeps
<1>3. CASE Delete(i) \/ DeleteUnreported(i)
  BY <1>3, DeleteKeeps
<1>4. CASE Restore(i)
  BY <1>4, RestoreKeeps
<1>5. CASE RestoreStopsNginx(i)
  BY <1>5, NeverStopsNginx
<1>6. CASE Purge(i)
  BY <1>6, PurgeKeeps
<1> QED
  BY <1>1, <1>2, <1>3, <1>4, <1>5, <1>6 DEF Operation

\* One step of the pool keeps the whole invariant: after a loss the types are
\* all that it promises, and nothing undoes a loss.
LEMMA StepPool ==
  ASSUME Backend = "postgres", PoolInv, [Next]_pvars
  PROVE  PoolInv'
<1>1. Typed'
  BY TypedKept DEF PoolInv
<1>2. CASE UNCHANGED pvars
  BY <1>2, StandsStill
<1>3. CASE LosePortsFile
  BY <1>1, <1>3 DEF LosePortsFile, PoolInv
<1>4. ASSUME NEW i \in Instance, Operation(i), UNCHANGED lost PROVE PoolInv'
  <2>1. CASE lost
    BY <1>1, <1>4, <2>1 DEF PoolInv
  <2>2. CASE ~lost
    <3>1. PoolSound
      BY <2>2 DEF PoolInv, PoolSound
    <3>2. PoolSound'
      BY <1>4, <3>1, OperationKeeps
    <3> QED
      BY <3>2 DEF PoolSound, PoolInv
  <2> QED
    BY <2>1, <2>2
<1> QED
  BY <1>2, <1>3, <1>4 DEF Next

\* Where PostgreSQL is the backend lib_port_allocator.sh gives out a port once,
\* and host and ports rows follow, as long as ports.txt survives.
THEOREM PortsGivenInOrder ==
  ASSUME Backend = "postgres"
  PROVE  Spec => []PoolInv
<1>1. Init => PoolInv
  BY InitPool DEF PoolInv, PoolSound
<1>2. PoolInv /\ [Next]_pvars => PoolInv'
  BY StepPool
<1> QED
  BY <1>1, <1>2, PTL DEF Spec

\* There every active instance is the one its port reaches: no creation, undo,
\* deletion or restore of another one takes its site, mapping or container away.
THEOREM ActiveStaysReached ==
  ASSUME Backend = "postgres"
  PROVE  Spec => []ActiveReached
<1>1. PoolInv => ActiveReached
  <2> SUFFICES ASSUME PoolSound, NEW i \in Instance, status[i] = "active"
               PROVE  Reached(i)
    BY DEF ActiveReached, PoolInv, PoolSound
  <2>1. port[i] \in Port /\ NoPort \notin Port /\ listens[i] = port[i]
    BY PoolAssumption DEF PoolSound, Typed, PoolTypeOK, HostFollows
  <2>2. \A j \in Instance \ {i} : listens[j] # port[i]
    BY <2>1 DEF PoolSound, HostFollows, PortsGivenOnce
  <2>3. IF Own(i) THEN port[i] \notin OwnPorts(i) ELSE port[i] \in mapped
    BY <2>2 DEF PoolSound, HostFollows, OwnPorts
  <2>4. NginxUp(mapped)
    <3> SUFFICES ASSUME NEW p \in mapped, NEW j \in Instance, Own(j), listens[j] = p
                 PROVE  FALSE
      BY DEF NginxUp, OwnPorts
    <3>1. PICK k \in Instance : ~Own(k) /\ listens[k] = p
      BY DEF PoolSound, HostFollows
    <3>2. p # NoPort /\ port[j] = p /\ port[k] = p
      BY <2>1, <3>1 DEF PoolSound, Typed, PoolTypeOK, HostFollows
    <3> QED
      BY <3>1, <3>2 DEF PoolSound, PortsGivenOnce
  <2> QED
    BY <2>1, <2>2, <2>3, <2>4 DEF Reached
<1>2. Spec => []PoolInv
  BY PortsGivenInOrder
<1> QED
  BY <1>1, <1>2, PTL

\* There a deleted instance's port waits for its restore.
THEOREM RestorableKeepsPort ==
  ASSUME Backend = "postgres"
  PROVE  Spec => []RestorablePortKept
<1>1. PoolInv => RestorablePortKept
  BY DEF PoolInv, Typed, PortsGivenOnce, RestorablePortKept
<1>2. Spec => []PoolInv
  BY PortsGivenInOrder
<1> QED
  BY <1>1, <1>2, PTL

\* There the ports row of an active instance's port is allocated to it.
THEOREM ActiveRowsAgree ==
  ASSUME Backend = "postgres"
  PROVE  Spec => []ActivePortsBooked
<1>1. PoolInv => ActivePortsBooked
  BY DEF PoolInv, RowsFollow, ActivePortsBooked
<1>2. Spec => []PoolInv
  BY PortsGivenInOrder
<1> QED
  BY <1>1, <1>2, PTL

------------------------------------------------------------------------------
(* After a loss of ports.txt *)

\* What idx_instances_live_port keeps true of the live instances.
LivePortsDiffer ==
  \A i, j \in Instance : status[i] = "active" /\ status[j] = "active" /\ i # j => port[i] # port[j]

\* The invariant behind SitesKept: it never mentions the cursor.
SitesInv == Typed /\ LivePortsDiffer /\ SitesKept

\* A step that publishes i on p, where no live instance has p, and i is live
\* afterwards or not, leaves every other site alone.
LEMMA PublishedKeepsSites ==
  ASSUME SitesInv, Typed', NEW i \in Instance, NEW p \in Port, Published(i, p),
         Own(i) => \A j \in Instance \ {i} : Own(j) => listens[j] # p,
         port'[i] = p,
         \A j \in Instance \ {i} : port'[j] = port[j] /\ status'[j] = status[j],
         status'[i] = "active" => LivePortFree(i, p)
  PROVE  SitesInv'
<1>1. \A j \in Instance : listens'[j] = IF j = i THEN p ELSE listens[j]
  BY DEF Published, SitesInv, Typed, PoolTypeOK
<1>2. mapped \subseteq mapped' /\ (~Own(i) => p \in mapped')
  BY DEF Published
<1>3. LivePortsDiffer'
  BY DEF SitesInv, LivePortsDiffer, LivePortFree
<1>4. ASSUME NEW j \in Instance, status'[j] = "active"
      PROVE  /\ listens'[j] = port'[j]
             /\ IF Own(j) THEN \A k \in Instance \ {j} : Own(k) => listens'[k] # port'[j]
                ELSE port'[j] \in mapped'
  <2>1. CASE j = i
    BY <1>1, <1>2, <2>1
  <2>2. CASE j # i
    <3>1. status[j] = "active" /\ port'[j] = port[j] /\ listens[j] = port[j]
      BY <1>4, <2>2 DEF SitesInv, SitesKept
    <3>2. Own(j) => \A k \in Instance \ {j} : Own(k) => listens[k] # port[j]
      BY <3>1 DEF SitesInv, SitesKept, OwnPorts
    <3>3. Own(j) /\ Own(i) => p # port[j]
      BY <3>1, <2>2
    <3>4. ~Own(j) => port[j] \in mapped
      BY <3>1 DEF SitesInv, SitesKept
    <3> QED
      BY <1>1, <1>2, <2>2, <3>1, <3>2, <3>3, <3>4
  <2> QED
    BY <2>1, <2>2
<1>5. SitesKept'
  BY <1>4 DEF SitesKept, OwnPorts, Own
<1> QED
  BY <1>3, <1>5 DEF SitesInv

\* A step that takes i off p, where no other live instance has p.
LEMMA UnpublishedKeepsSites ==
  ASSUME SitesInv, Typed', NEW i \in Instance, NEW p \in Port, Unpublished(i, p),
         port' = port, status'[i] # "active",
         \A j \in Instance \ {i} : status'[j] = status[j],
         LivePortFree(i, p)
  PROVE  SitesInv'
<1>1. \A j \in Instance : listens'[j] = IF j = i THEN NoPort ELSE listens[j]
  BY DEF Unpublished, SitesInv, Typed, PoolTypeOK
<1>2. \A q \in mapped : q # p => q \in mapped'
  BY DEF Unpublished
<1>3. LivePortsDiffer'
  BY DEF SitesInv, LivePortsDiffer
<1>4. ASSUME NEW j \in Instance, status'[j] = "active"
      PROVE  /\ listens'[j] = port'[j]
             /\ IF Own(j) THEN \A k \in Instance \ {j} : Own(k) => listens'[k] # port'[j]
                ELSE port'[j] \in mapped'
  <2>1. j # i /\ status[j] = "active" /\ port'[j] = port[j] /\ port[j] # p
    BY <1>4 DEF LivePortFree
  <2>2. port[j] # NoPort
    BY <2>1 DEF SitesInv, Typed
  <2>3. /\ listens[j] = port[j]
        /\ IF Own(j) THEN \A k \in Instance \ {j} : Own(k) => listens[k] # port[j]
           ELSE port[j] \in mapped
    BY <2>1 DEF SitesInv, SitesKept, OwnPorts
  <2> QED
    BY <1>1, <1>2, <2>1, <2>2, <2>3
<1>5. SitesKept'
  BY <1>4 DEF SitesKept, OwnPorts, Own
<1> QED
  BY <1>3, <1>5 DEF SitesInv

\* A live instance's port is its own, which is why delete_user.sh may remove the
\* mapping of that number.
LEMMA LivePortIsFree ==
  ASSUME SitesInv, NEW i \in Instance, status[i] = "active"
  PROVE  port[i] \in Port /\ LivePortFree(i, port[i])
BY PoolAssumption DEF SitesInv, Typed, PoolTypeOK, LivePortsDiffer, LivePortFree

LEMMA OperationKeepsSites ==
  ASSUME Backend = "postgres", SitesInv, Typed', NEW i \in Instance, Operation(i)
  PROVE  SitesInv'
<1>1. ASSUME NEW p \in Port, Create(i, p) PROVE SitesInv'
  <2>1. /\ Published(i, p) /\ Publishes(i, p) /\ LivePortFree(i, p)
        /\ status' = [status EXCEPT ![i] = "active"] /\ port' = [port EXCEPT ![i] = p]
    BY <1>1 DEF Create
  <2>2. Own(i) => \A j \in Instance \ {i} : Own(j) => listens[j] # p
    BY <2>1 DEF Publishes, OwnPorts
  <2>3. /\ port'[i] = p
        /\ \A j \in Instance \ {i} : port'[j] = port[j] /\ status'[j] = status[j]
    BY <2>1 DEF SitesInv, Typed, PoolTypeOK
  <2> QED
    BY <2>1, <2>2, <2>3, PublishedKeepsSites
<1>2. ASSUME NEW p \in Port, NEW undone \in BOOLEAN, CreateFails(i, p, undone) PROVE SitesInv'
  <2>1. status[i] # "active" /\ UNCHANGED <<status, port>> /\ Allocates(p)
    BY <1>2 DEF CreateFails, MayCreate, metadata
  <2>2. LivePortFree(i, p)
    BY <2>1 DEF Allocates, Offers, Occupied, LivePortFree
  <2>3. CASE undone
    BY <1>2, <2>1, <2>2, <2>3, UnpublishedKeepsSites DEF CreateFails
  <2>4. CASE ~undone
    BY <1>2, <2>1, <2>4 DEF CreateFails, SitesInv, LivePortsDiffer, SitesKept, OwnPorts, Own
  <2> QED
    BY <2>3, <2>4
<1>3. CASE Delete(i) \/ DeleteUnreported(i)
  <2>1. /\ status[i] = "active" /\ Unpublished(i, port[i]) /\ port' = port
        /\ status' = [status EXCEPT ![i] = "deleted"]
    BY <1>3 DEF Delete, DeleteUnreported
  <2>2. status'[i] # "active" /\ \A j \in Instance \ {i} : status'[j] = status[j]
    BY <2>1 DEF SitesInv, Typed, PoolTypeOK
  <2> QED
    BY <2>1, <2>2, LivePortIsFree, UnpublishedKeepsSites
<1>4. CASE Restore(i) \/ RestoreStopsNginx(i)
  <2>1. /\ status[i] = "deleted" /\ Published(i, port[i]) /\ port' = port
        /\ Restored(i) \/ status' = status
        /\ Publishes(i, port[i]) \/ ~Own(i)
    BY <1>4 DEF Restore, RestoreStopsNginx, MayRestore, metadata, Own
  <2>2. port[i] \in Port
    BY <2>1, PoolAssumption DEF SitesInv, Typed, PoolTypeOK
  <2>3. Own(i) => \A j \in Instance \ {i} : Own(j) => listens[j] # port[i]
    BY <2>1 DEF Publishes, OwnPorts
  <2>4. /\ \A j \in Instance \ {i} : status'[j] = status[j]
        /\ status'[i] = "active" => LivePortFree(i, port[i])
    BY <2>1 DEF Restored, SitesInv, Typed, PoolTypeOK
  <2> QED
    BY <2>1, <2>2, <2>3, <2>4, PublishedKeepsSites
<1>5. CASE Purge(i)
  <2>1. /\ \A j \in Instance : status'[j] = "active" => j # i /\ status[j] = "active"
        /\ \A j \in Instance \ {i} : port'[j] = port[j]
        /\ UNCHANGED <<listens, mapped>>
    BY <1>5 DEF Purge, SitesInv, Typed, PoolTypeOK
  <2> QED
    BY <2>1 DEF SitesInv, LivePortsDiffer, SitesKept, OwnPorts, Own
<1> QED
  BY <1>1, <1>2, <1>3, <1>4, <1>5 DEF Operation

\* With PostgreSQL nothing done on a port, even one given out again because
\* ports.txt was lost, takes the site of an active instance, its mapping or the
\* port of its container.
THEOREM SitesStay ==
  ASSUME Backend = "postgres"
  PROVE  Spec => []SitesKept
<1>1. Init => SitesInv
  BY InitPool DEF PoolSound, Init, SitesInv, LivePortsDiffer, SitesKept
<1>2. SitesInv /\ [Next]_pvars => SitesInv'
  <2> SUFFICES ASSUME SitesInv, [Next]_pvars PROVE SitesInv'
    OBVIOUS
  <2>1. Typed'
    BY TypedKept DEF SitesInv
  <2>2. CASE UNCHANGED pvars \/ LosePortsFile
    <3>1. UNCHANGED <<status, port, listens, mapped>>
      BY <2>2 DEF pvars, LosePortsFile, metadata
    <3> QED
      BY <2>1, <3>1 DEF SitesInv, LivePortsDiffer, SitesKept, OwnPorts, Own
  <2>3. CASE \E i \in Instance : Operation(i)
    BY <2>1, <2>3, OperationKeepsSites
  <2> QED
    BY <2>2, <2>3 DEF Next
<1>3. SitesInv => SitesKept
  BY DEF SitesInv
<1> QED
  BY <1>1, <1>2, <1>3, PTL DEF Spec
=============================================================================
