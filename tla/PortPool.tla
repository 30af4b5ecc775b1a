------------------------------ MODULE PortPool ------------------------------
(***************************************************************************)
(* The ports of the platform's instances: the allocator that every product *)
(* shares (scripts/lib_port_allocator.sh), the ports rows of the metadata, *)
(* and the ingress on the host, where OpenClaw and Hermes instances are    *)
(* published by one Nginx and each EvoScientist instance by a container of *)
(* its own.                                                                *)
(*                                                                         *)
(* The one executor carries out one operation at a time, so an operation   *)
(* is one action, with the report that follows it; ManagerSystem has the   *)
(* steps between them.  Here an operation fails where a port makes it      *)
(* fail, and a creation and the report of a deletion for any reason.       *)
(***************************************************************************)
EXTENDS Naturals, FiniteSets

CONSTANTS
  Instance, NoInst,
  Product,             \* [Instance -> products]
  PortStart, PortEnd,  \* PORT_START, PORT_END
  NoPort,
  Backend              \* METADATA_DB_BACKEND

Port == PortStart..PortEnd

ASSUME PoolAssumption ==
  /\ NoInst \notin Instance
  /\ Product \in [Instance -> {"openclaw", "hermes", "evoscientist"}]
  /\ PortStart \in Nat \ {0} /\ PortEnd \in Nat /\ PortStart <= PortEnd
  /\ NoPort \notin Port
  /\ Backend \in {"sqlite", "postgres"}

VARIABLES
  cursor,    \* the number in ports.txt
  status,    \* instances.status; "none": no row, or one that has no port
  port,      \* instances.port
  owner,     \* the instance a ports row is allocated to; NoInst: none
  released,  \* the ports rows with status 'released'
  listens,   \* the port the ingress configuration of an instance listens on
  mapped,    \* the ports of the shared Nginx's compose file
  lost       \* whether ports.txt was ever lost

metadata == <<status, port, owner, released>>
pvars    == <<cursor, status, port, owner, released, listens, mapped, lost>>

Own(i) == Product[i] = "evoscientist"

------------------------------------------------------------------------------
(* The host *)

\* ports bound by the ingress containers of their own
OwnPorts(but) == {listens[j] : j \in {j \in Instance \ {but} : Own(j)}}

\* docker starts the shared Nginx with these ports: all of them or none
NginxUp(ports) == ports \cap OwnPorts(NoInst) = {}

\* nginx -t: two sites of one product on a port define one upstream twice
Duplicates(i, p) == \E j \in Instance \ {i} : Product[j] = Product[i] /\ listens[j] = p

\* docker run -p, or adding the site and the mapping to the shared Nginx, works
Publishes(i, p) ==
  IF Own(i) THEN p \notin OwnPorts(i) /\ ~(NginxUp(mapped) /\ p \in mapped)
  ELSE NginxUp(mapped \cup {p}) /\ ~Duplicates(i, p)

Published(i, p) ==
  /\ listens' = [listens EXCEPT ![i] = p]
  /\ mapped' = IF Own(i) THEN mapped ELSE mapped \cup {p}

\* The mapping of the port goes whoever else uses it.
Unpublished(i, p) ==
  /\ listens' = [listens EXCEPT ![i] = NoPort]
  /\ mapped' = IF Own(i) THEN mapped ELSE mapped \ {p}

------------------------------------------------------------------------------
(* The allocator *)

MutIgnoresMetadata == {}

\* the ports of live instances, which only PostgreSQL is asked for
Occupied == {port[i] : i \in {j \in Instance : status[j] = "active"}}

\* The probe binds the port in the executor's container, where none is taken.
Offers ==
  IF Backend = "postgres" THEN (cursor..PortEnd) \ Occupied
  ELSE IF released # {} THEN released
  ELSE {cursor} \cap Port

Allocates(p) == p \in Offers /\ \A q \in Offers : p <= q

MutCursorStays(p) == p

\* what is left in ports.txt, whether p came from it or from a released row
NextCursor(p) == p + 1

\* A missing or unreadable ports.txt is begun anew.
LosePortsFile ==
  /\ cursor' = PortStart /\ lost' = TRUE
  /\ UNCHANGED <<metadata, listens, mapped>>

------------------------------------------------------------------------------
(* The metadata *)

\* idx_instances_live_port
LivePortFree(i, p) == \A j \in Instance \ {i} : port[j] = p => status[j] # "active"

MutForgetsRow(i, p) == UNCHANGED <<owner, released>>

RecordPort(i, p) ==
  /\ owner' = [owner EXCEPT ![p] = i]
  /\ released' = released \ {p}

\* the rows given back: all of i, and the one with its number
Release(rows) ==
  /\ owner' = [p \in Port |-> IF p \in rows THEN NoInst ELSE owner[p]]
  /\ released' = released \cup rows

------------------------------------------------------------------------------
(* Operations *)

\* A directory or site left over from before makes the creation fail.
MayCreate(i) == status[i] = "none" /\ listens[i] = NoPort

Create(i, p) ==
  /\ MayCreate(i) /\ Allocates(p)
  /\ Publishes(i, p) /\ LivePortFree(i, p)
  /\ cursor' = NextCursor(p)
  /\ status' = [status EXCEPT ![i] = "active"]
  /\ port' = [port EXCEPT ![i] = p]
  /\ RecordPort(i, p)
  /\ Published(i, p)

\* The adapter fails and leaves nothing, or all is up but publishing it or the
\* report fails and delete_user.sh or the adapter's delete undoes it.
CreateFails(i, p, undone) ==
  /\ MayCreate(i) /\ Allocates(p)
  /\ cursor' = NextCursor(p)
  /\ IF undone THEN Unpublished(i, p) ELSE UNCHANGED <<listens, mapped>>
  /\ UNCHANGED metadata

Delete(i) ==
  /\ status[i] = "active"
  /\ Unpublished(i, port[i])
  /\ status' = [status EXCEPT ![i] = "deleted"]
  /\ RecordPort(i, port[i])
  /\ UNCHANGED <<cursor, port>>

\* delete_user.sh has written the metadata, the executor dies before it reports
DeleteUnreported(i) ==
  /\ Product[i] = "openclaw" /\ status[i] = "active"
  /\ Unpublished(i, port[i])
  /\ status' = [status EXCEPT ![i] = "deleted"]
  /\ Release({port[i]})
  /\ UNCHANGED <<cursor, port>>

MayRestore(i) == status[i] = "deleted" /\ listens[i] = NoPort

\* the report of a restore; the unique index may refuse it
Restored(i) ==
  IF LivePortFree(i, port[i])
  THEN /\ status' = [status EXCEPT ![i] = "active"]
       /\ RecordPort(i, port[i])
  ELSE UNCHANGED <<status, owner, released>>

\* Only restore_user.sh looks whether the port is mapped already.
Restore(i) ==
  /\ MayRestore(i)
  /\ Product[i] = "openclaw" => port[i] \notin mapped
  /\ Publishes(i, port[i])
  /\ Published(i, port[i])
  /\ Restored(i)
  /\ UNCHANGED <<cursor, port>>

\* restore_user.sh runs under set -e and stops where the Nginx cannot start,
\* with site and mapping in place.  The adapters put theirs back.
RestoreStopsNginx(i) ==
  /\ MayRestore(i) /\ Product[i] = "openclaw"
  /\ port[i] \notin mapped /\ ~NginxUp(mapped \cup {port[i]})
  /\ Published(i, port[i])
  /\ UNCHANGED <<cursor, metadata>>

\* purge_deleted needs the data in the recycle bin: a restore that was carried
\* out took them away, except that delete_user.sh's entries stay
Purge(i) ==
  /\ status[i] = "deleted"
  /\ listens[i] = NoPort \/ Product[i] = "openclaw"
  /\ status' = [status EXCEPT ![i] = "none"]
  /\ port' = [port EXCEPT ![i] = NoPort]
  /\ Release({p \in Port : owner[p] = i} \cup {port[i]})
  /\ UNCHANGED <<cursor, listens, mapped>>

------------------------------------------------------------------------------
Init ==
  /\ cursor = PortStart
  /\ status = [i \in Instance |-> "none"]
  /\ port = [i \in Instance |-> NoPort]
  /\ owner = [p \in Port |-> NoInst]
  /\ released = {}
  /\ listens = [i \in Instance |-> NoPort]
  /\ mapped = {}
  /\ lost = FALSE

Operation(i) ==
  \/ \E p \in Port : Create(i, p) \/ \E undone \in BOOLEAN : CreateFails(i, p, undone)
  \/ Delete(i) \/ DeleteUnreported(i)
  \/ Restore(i) \/ RestoreStopsNginx(i)
  \/ Purge(i)

Next == LosePortsFile \/ \E i \in Instance : Operation(i) /\ UNCHANGED lost

Spec == Init /\ [][Next]_pvars

------------------------------------------------------------------------------
(* Properties *)

PoolTypeOK ==
  /\ cursor \in PortStart..PortEnd + 1
  /\ status \in [Instance -> {"none", "active", "deleted"}]
  /\ port \in [Instance -> Port \cup {NoPort}]
  /\ owner \in [Port -> Instance \cup {NoInst}]
  /\ released \in SUBSET Port
  /\ listens \in [Instance -> Port \cup {NoPort}]
  /\ mapped \in SUBSET Port
  /\ lost \in BOOLEAN

\* What publishes an active instance on its port stays, whatever was created,
\* undone, deleted or restored meanwhile on this port or another, even after
\* ports.txt was lost: its site and mapping, or the port its own container holds.
SitesKept ==
  \A i \in Instance : status[i] = "active" =>
    listens[i] = port[i] /\ (IF Own(i) THEN port[i] \notin OwnPorts(i) ELSE port[i] \in mapped)

Reached(i) ==
  /\ listens[i] = port[i]
  /\ IF Own(i) THEN port[i] \notin OwnPorts(i) ELSE port[i] \in mapped /\ NginxUp(mapped)
  /\ \A j \in Instance \ {i} : listens[j] # port[i]

\* More, as long as ports.txt was never lost: who connects to the port of an
\* active instance reaches that instance and no other.
ActiveReached == ~lost => \A i \in Instance : status[i] = "active" => Reached(i)

\* Then too the port of a deleted instance that can still be restored is not
\* given to another one (hermes-adapter.md: a restore recreates the same port).
RestorablePortKept ==
  ~lost => \A i, j \in Instance : status[i] = "deleted" /\ i # j => port[j] # port[i]

Booked(i) == owner[port[i]] = i /\ port[i] \notin released

\* Then too the ports row of an active instance is allocated to it, what
\* check_metadata_consistency.py reports as metadata_port_row_mismatch otherwise.
ActivePortsBooked == ~lost => \A i \in Instance : status[i] = "active" => Booked(i)

\* The inductive invariant behind them where PostgreSQL is the backend and
\* ports.txt survives: ports are given out in ascending order, once each.
PortsGivenOnce ==
  /\ \A i \in Instance : port[i] = NoPort \/ port[i] < cursor
  /\ \A i, j \in Instance : i # j /\ port[i] # NoPort => port[j] # port[i]

HostFollows ==
  /\ \A i \in Instance : listens[i] = IF status[i] = "active" THEN port[i] ELSE NoPort
  /\ \A p \in mapped : \E i \in Instance : ~Own(i) /\ listens[i] = p
  /\ \A i \in Instance : ~Own(i) /\ status[i] = "active" => port[i] \in mapped

RowsFollow == \A i \in Instance : status[i] = "active" => Booked(i)

Typed == PoolTypeOK /\ \A i \in Instance : status[i] = "none" <=> port[i] = NoPort

PoolInv == Typed /\ (lost \/ (PortsGivenOnce /\ HostFollows /\ RowsFollow))
=============================================================================
