--------------------------- MODULE TenantNetworks ---------------------------
(***************************************************************************)
(* scripts/tenant_network_allocator.py: a Docker network per tenant, cut   *)
(* from one pool of subnets.  The executor's adapters prepare one network  *)
(* at a time, migrate_tenant_networks.sh all it needs in one run, and both *)
(* may run at once.  A run plans and creates under a file lock; networks   *)
(* are attached, detached and removed without it, and Docker has networks  *)
(* that are not the platform's.                                            *)
(*                                                                         *)
(* Subnets of the pool are the numbers 1..PoolSize in the order of their   *)
(* addresses.  Docker's commands of one kind in a row are one step, except *)
(* where they create or remove.                                            *)
(***************************************************************************)
EXTENDS Naturals, Functions

CONSTANTS
  Network,    \* names of tenant networks
  Process,    \* runs of the allocator
  PoolSize,
  Excluded,   \* subnets in the CIDRs that must not be used
  Foreign,    \* other networks of the host's Docker
  Covers,     \* the subnets each of them overlaps
  NoProcess

Subnet  == 1..PoolSize
None    == 0
\* a subnet, or several, that are not one of the pool's
Outside == PoolSize + 1

ASSUME NetworksAssumption ==
  /\ PoolSize \in Nat
  /\ Excluded \subseteq Subnet
  /\ Covers \in [Foreign -> SUBSET Subnet]
  /\ NoProcess \notin Process

VARIABLES
  subnet,    \* of each tenant network; None if there is no network of the name
  owned,     \* networks with the platform's label
  attached,  \* networks that running containers are in
  present,   \* the foreign networks that are there
  lock,      \* who has the lock on the lock file
  pc, wanted,
  found,     \* existing_by_name, existing_subnets
  plan,      \* the subnet of each wanted network
  created, stuck,  \* created, and rollback_errors
  arrived,   \* foreign networks that came since a run made its plan
  gone       \* networks others removed since a run looked them up

nvars == <<subnet, owned, attached, present, lock, pc, wanted, found, plan, created, stuck,
           arrived, gone>>
docker == <<subnet, owned, attached, present>>

Nowhere == [n \in Network |-> None]
Working == {"locked", "surveying", "creating", "undoing"}
Over    == {"succeeded", "failed", "dead"}

\* what load_docker_subnets collects, and what is left of the pool
Used == {subnet[n] : n \in Network} \cup UNION {Covers[f] : f \in present}
Free == (Subnet \ Excluded) \ Used

\* the wanted networks that have to be made
New(p)      == {n \in wanted[p] : found[p][n] = None}
ToCreate(p) == New(p) \ created[p]

------------------------------------------------------------------------------
(* prepare_networks *)

Start(p, N) ==
  /\ pc[p] \in {"idle"} \cup Over
  /\ pc' = [pc EXCEPT ![p] = "waiting"]
  /\ wanted' = [wanted EXCEPT ![p] = N]
  /\ found' = [found EXCEPT ![p] = Nowhere] /\ plan' = [plan EXCEPT ![p] = Nowhere]
  /\ created' = [created EXCEPT ![p] = {}] /\ stuck' = [stuck EXCEPT ![p] = {}]
  /\ arrived' = [arrived EXCEPT ![p] = {}] /\ gone' = [gone EXCEPT ![p] = {}]
  /\ UNCHANGED <<docker, lock>>

\* A changed version of LockFree: nobody waits.
MutNoLock == TRUE

LockFree == lock = NoProcess

\* fcntl.flock
Lock(p) ==
  /\ pc[p] = "waiting" /\ LockFree
  /\ lock' = p
  /\ pc' = [pc EXCEPT ![p] = "locked"]
  /\ UNCHANGED <<docker, wanted, found, plan, created, stuck, arrived, gone>>

\* The run ends, and with it its lock.
Ends(p, result) ==
  /\ pc' = [pc EXCEPT ![p] = result]
  /\ lock' = IF lock = p THEN NoProcess ELSE lock

\* validate_existing
Fits(n) == n \in owned /\ subnet[n] \in Subnet \ Excluded

\* build_plan looks the wanted networks up; it refuses those that do not fit, and
\* a pool that overlaps a route of the host
Inspect(p) ==
  /\ pc[p] = "locked"
  /\ found' = [found EXCEPT ![p] = [n \in Network |-> IF n \in wanted[p] THEN subnet[n] ELSE None]]
  /\ gone' = [gone EXCEPT ![p] = {}]
  /\ \/ /\ \A n \in wanted[p] : subnet[n] = None \/ Fits(n)
        /\ pc' = [pc EXCEPT ![p] = "surveying"] /\ UNCHANGED lock
     \/ Ends(p, "failed")
  /\ UNCHANGED <<docker, wanted, plan, created, stuck, arrived>>

\* A changed version of Plans: subnets planned for others of the run are not
\* reserved.
MutReservesNone(N) ==
  {s \in [N -> Free] : \A b \in Free, n \in N : b < s[n] => b \in Range(s)}

\* the lowest free subnets, one for each of N in the order they are named
Plans(N) ==
  {s \in [N -> Free] : IsInjective(s) /\ \A b \in Free, n \in N : b < s[n] => b \in Range(s)}

\* load_docker_subnets, and a subnet for each network
Survey(p) ==
  /\ pc[p] = "surveying"
  /\ arrived' = [arrived EXCEPT ![p] = {}]
  /\ \/ \E s \in Plans(New(p)) :
          /\ plan' = [plan EXCEPT ![p] = [n \in Network |-> IF n \in New(p) THEN s[n] ELSE found[p][n]]]
          /\ pc' = [pc EXCEPT ![p] = "creating"] /\ UNCHANGED lock
     \/ Plans(New(p)) = {} /\ Ends(p, "failed") /\ UNCHANGED plan
  /\ UNCHANGED <<docker, wanted, found, created, stuck, gone>>

\* A changed version of Made: the network is not noted.
MutForgetsMade(p, n) == created[p]

\* created.append
Made(p, n) == created[p] \cup {n}

\* docker network create, which Docker refuses when the name or a part of the
\* subnet is taken, and which may fail
Create(p, n) ==
  /\ pc[p] = "creating" /\ n \in ToCreate(p)
  /\ \/ /\ subnet[n] = None /\ plan[p][n] \notin Used
        /\ subnet' = [subnet EXCEPT ![n] = plan[p][n]]
        /\ owned' = owned \cup {n}
        /\ created' = [created EXCEPT ![p] = Made(p, n)]
        /\ UNCHANGED pc
     \/ pc' = [pc EXCEPT ![p] = "undoing"] /\ UNCHANGED <<subnet, owned, created>>
  /\ UNCHANGED <<attached, present, lock, wanted, found, plan, stuck, arrived, gone>>

Prepare(p) ==
  /\ pc[p] = "creating" /\ ToCreate(p) = {}
  /\ Ends(p, "succeeded")
  /\ UNCHANGED <<docker, wanted, found, plan, created, stuck, arrived, gone>>

\* A changed version of ToUndo: every network of the run is removed.
MutUndoesAll(p) == wanted[p] \ stuck[p]

ToUndo(p) == created[p] \ stuck[p]

\* docker network rm of the roll-back, which fails for a network in use
Undo(p, n) ==
  /\ pc[p] = "undoing" /\ n \in ToUndo(p) /\ subnet[n] # None
  /\ \/ /\ n \notin attached
        /\ subnet' = [subnet EXCEPT ![n] = None] /\ owned' = owned \ {n}
        /\ created' = [created EXCEPT ![p] = @ \ {n}]
        /\ UNCHANGED stuck
     \/ stuck' = [stuck EXCEPT ![p] = @ \cup {n}] /\ UNCHANGED <<subnet, owned, created>>
  /\ UNCHANGED <<attached, present, lock, pc, wanted, found, plan, arrived, gone>>

\* AllocationError; a network that somebody else removed is reported, too
GiveUp(p) ==
  /\ pc[p] = "undoing" /\ \A n \in ToUndo(p) : subnet[n] = None
  /\ Ends(p, "failed")
  /\ stuck' = [stuck EXCEPT ![p] = @ \cup ToUndo(p)]
  /\ UNCHANGED <<docker, wanted, found, plan, created, arrived, gone>>

\* The process is killed; the kernel releases its lock.
Die(p) ==
  /\ pc[p] \in Working \cup {"waiting"}
  /\ Ends(p, "dead")
  /\ UNCHANGED <<docker, wanted, found, plan, created, stuck, arrived, gone>>

------------------------------------------------------------------------------
(* Around it *)

\* connect_container_to_network, docker compose up; a container stops or leaves
Attach(n) ==
  /\ subnet[n] # None
  /\ attached' \in {attached \cup {n}, attached \ {n}} /\ attached' # attached
  /\ UNCHANGED <<subnet, owned, present, lock, pc, wanted, found, plan, created, stuck, arrived, gone>>

\* remove_tenant_network_if_unused, which takes no lock
RemoveIfUnused(n) ==
  /\ n \in owned /\ n \notin attached
  /\ subnet' = [subnet EXCEPT ![n] = None] /\ owned' = owned \ {n}
  /\ gone' = [p \in Process |-> IF n \in wanted[p] THEN gone[p] \cup {n} ELSE gone[p]]
  /\ UNCHANGED <<attached, present, lock, pc, wanted, found, plan, created, stuck, arrived>>

ForeignComes(f) ==
  /\ f \notin present /\ Covers[f] \cap Used = {}
  /\ present' = present \cup {f}
  /\ arrived' = [p \in Process |-> IF pc[p] = "creating" THEN arrived[p] \cup {f} ELSE arrived[p]]
  /\ UNCHANGED <<subnet, owned, attached, lock, pc, wanted, found, plan, created, stuck, gone>>

ForeignGoes(f) ==
  /\ f \in present
  /\ present' = present \ {f}
  /\ UNCHANGED <<subnet, owned, attached, lock, pc, wanted, found, plan, created, stuck, arrived, gone>>

------------------------------------------------------------------------------
\* There may be networks of the names already, made by earlier releases or by
\* hand: without the label, or outside the pool.
NetworksInit ==
  /\ subnet \in [Network -> Subnet \cup {None, Outside}]
  /\ \A n, m \in Network : subnet[n] = subnet[m] /\ subnet[n] \in Subnet => n = m
  /\ owned \in SUBSET {n \in Network : subnet[n] # None}
  /\ attached = {}
  /\ present = {f \in Foreign : \A n \in Network : subnet[n] \notin Covers[f]}
  /\ lock = NoProcess
  /\ pc = [p \in Process |-> "idle"]
  /\ wanted = [p \in Process |-> {}]
  /\ found = [p \in Process |-> Nowhere] /\ plan = [p \in Process |-> Nowhere]
  /\ created = [p \in Process |-> {}] /\ stuck = [p \in Process |-> {}]
  /\ arrived = [p \in Process |-> {}] /\ gone = [p \in Process |-> {}]

NetworksNext ==
  \/ \E p \in Process :
       \/ \E N \in (SUBSET Network) \ {{}} : Start(p, N)
       \/ Lock(p) \/ Inspect(p) \/ Survey(p)
       \/ \E n \in Network : Create(p, n) \/ Undo(p, n)
       \/ Prepare(p) \/ GiveUp(p) \/ Die(p)
  \/ \E n \in Network : Attach(n) \/ RemoveIfUnused(n)
  \/ \E f \in Foreign : ForeignComes(f) \/ ForeignGoes(f)

NetworksSpec == NetworksInit /\ [][NetworksNext]_nvars

------------------------------------------------------------------------------
(* Properties *)

NetworksTypeOK ==
  /\ subnet \in [Network -> Subnet \cup {None, Outside}]
  /\ owned \subseteq Network /\ attached \subseteq Network /\ present \subseteq Foreign
  /\ lock \in Process \cup {NoProcess}
  /\ pc \in [Process -> {"idle", "waiting"} \cup Working \cup Over]
  /\ wanted \in [Process -> SUBSET Network]
  /\ found \in [Process -> [Network -> Subnet \cup {None, Outside}]]
  /\ plan \in [Process -> [Network -> Subnet \cup {None, Outside}]]
  /\ created \in [Process -> SUBSET Network] /\ stuck \in [Process -> SUBSET Network]
  /\ arrived \in [Process -> SUBSET Foreign] /\ gone \in [Process -> SUBSET Network]

\* While a run makes its networks, no other tenant network takes a name or a
\* subnet it has planned, whoever else runs, removes or dies: only a network that
\* is not the platform's can make Docker refuse.
PlansHold ==
  \A p \in Process : pc[p] = "creating" =>
    \A n \in ToCreate(p) :
      /\ subnet[n] = None
      /\ plan[p][n] \in Subnet \ Excluded
      /\ \A m \in Network : subnet[m] # plan[p][n]
      /\ \A m \in ToCreate(p) : plan[p][m] = plan[p][n] => m = n
      /\ \A f \in present \ arrived[p] : plan[p][n] \notin Covers[f]

\* A run that has succeeded has each of its networks, on the subnet it printed and
\* outside the excluded ranges, until somebody removes it: no roll-back of another
\* run takes it away.
Prepared ==
  \A p \in Process : pc[p] = "succeeded" =>
    \A n \in wanted[p] : \/ n \in gone[p]
                         \/ subnet[n] = plan[p][n] /\ plan[p][n] \in Subnet \ Excluded

\* A run that fails leaves the wanted networks as it found them: those it made are
\* gone but for the ones it names, and those that were there are still there.
FailureUndone ==
  [][\A p \in Process : pc[p] \in Working /\ pc'[p] = "failed" =>
       \A n \in wanted[p] :
         IF found'[p][n] = None THEN subnet'[n] = None \/ n \in stuck'[p]
         ELSE subnet'[n] = found'[p][n] \/ n \in gone'[p]]_nvars

\* What makes them inductive: who works has the lock; what a run found stays as it
\* is until it is removed or the run itself makes it; and no run makes a network
\* that a successful one still has.
LockHeld   == \A p \in Process : pc[p] \in Working <=> lock = p
FoundStays ==
  \A p \in Process :
    /\ pc[p] \in {"waiting", "locked", "surveying"} => created[p] = {} /\ stuck[p] = {}
    /\ pc[p] \in {"surveying", "creating", "undoing"} =>
         /\ created[p] \subseteq New(p) /\ stuck[p] \subseteq created[p]
         /\ \A n \in wanted[p] :
              IF n \in New(p) \ created[p] THEN subnet[n] = None
              ELSE n \in gone[p] \/ (subnet[n] \in Subnet \ Excluded
                     /\ subnet[n] = IF n \in created[p] THEN plan[p][n] ELSE found[p][n])
    /\ pc[p] \in {"creating", "undoing"} =>
         \A n \in wanted[p] : found[p][n] # None => plan[p][n] = found[p][n]
MadeAnew ==
  \A p, q \in Process :
    pc[p] \in {"creating", "undoing"} /\ pc[q] = "succeeded" =>
      \A n \in created[p] \cap wanted[q] : n \in gone[q]

NetworksInv == NetworksTypeOK /\ LockHeld /\ FoundStays /\ MadeAnew /\ PlansHold /\ Prepared
=============================================================================
