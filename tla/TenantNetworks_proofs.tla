----------------------- MODULE TenantNetworks_proofs -----------------------
(***************************************************************************)
(* Proofs about TenantNetworks, for any networks, runs, pool and foreign   *)
(* networks: the invariant that makes PlansHold and Prepared inductive,    *)
(* and from it that a failed run leaves the wanted networks as it found    *)
(* them.                                                                   *)
(***************************************************************************)
EXTENDS TenantNetworks, TLAPS

\* Networks and foreign ones in use take their subnets out of the free ones.
LEMMA FreeFacts ==
  ASSUME NetworksTypeOK
  PROVE  /\ Free \subseteq Subnet \ Excluded
         /\ \A b \in Free : /\ \A m \in Network : subnet[m] # b
                            /\ \A f \in present : b \notin Covers[f]
BY DEF Free, Used

\* Subnets are neither None nor Outside.
LEMMA SubnetFacts == None \notin Subnet /\ Outside \notin Subnet
BY NetworksAssumption DEF None, Outside, Subnet

\* Who works has the lock, so nobody else does.
LEMMA OneWorks ==
  ASSUME NetworksInv, NEW p \in Process, NEW q \in Process,
         pc[p] \in Working, pc[q] \in Working
  PROVE  p = q
BY DEF NetworksInv, LockHeld

LEMMA StartInv ==
  ASSUME NetworksInv, NEW p \in Process, NEW N \in SUBSET Network, Start(p, N)
  PROVE  NetworksInv'
<1> USE NetworksAssumption, SubnetFacts DEF NetworksInv, Start, docker, Working, Over
<1>1. NetworksTypeOK'
  BY DEF NetworksTypeOK, Nowhere
<1>2. LockHeld'
  BY DEF NetworksTypeOK, LockHeld
<1>3. FoundStays'
  BY OneWorks DEF NetworksTypeOK, FoundStays, New
<1>4. MadeAnew'
  BY OneWorks DEF NetworksTypeOK, MadeAnew
<1>5. PlansHold'
  BY OneWorks DEF NetworksTypeOK, PlansHold, ToCreate, New
<1>6. Prepared'
  BY OneWorks DEF NetworksTypeOK, Prepared
<1> QED BY <1>1, <1>2, <1>3, <1>4, <1>5, <1>6

LEMMA LockInv ==
  ASSUME NetworksInv, NEW p \in Process, Lock(p)
  PROVE  NetworksInv'
<1> USE NetworksAssumption, SubnetFacts DEF NetworksInv, Lock, LockFree, docker, Working, Over
<1>1. NetworksTypeOK'
  BY DEF NetworksTypeOK, Nowhere
<1>2. LockHeld'
  BY DEF NetworksTypeOK, LockHeld
<1>3. FoundStays'
  BY OneWorks DEF NetworksTypeOK, FoundStays, New
<1>4. MadeAnew'
  BY OneWorks DEF NetworksTypeOK, MadeAnew
<1>5. PlansHold'
  BY OneWorks DEF NetworksTypeOK, PlansHold, ToCreate, New
<1>6. Prepared'
  BY OneWorks DEF NetworksTypeOK, Prepared
<1> QED BY <1>1, <1>2, <1>3, <1>4, <1>5, <1>6

LEMMA InspectInv ==
  ASSUME NetworksInv, NEW p \in Process, Inspect(p)
  PROVE  NetworksInv'
<1> USE NetworksAssumption, SubnetFacts DEF NetworksInv, Inspect, Ends, Fits, docker, Working, Over
<1>1. NetworksTypeOK'
  BY DEF NetworksTypeOK, Nowhere
<1>2. LockHeld'
  BY DEF NetworksTypeOK, LockHeld
<1>3. FoundStays'
  BY OneWorks DEF NetworksTypeOK, FoundStays, New
<1>4. MadeAnew'
  BY OneWorks DEF NetworksTypeOK, MadeAnew
<1>5. PlansHold'
  BY OneWorks DEF NetworksTypeOK, PlansHold, ToCreate, New
<1>6. Prepared'
  BY OneWorks DEF NetworksTypeOK, Prepared
<1> QED BY <1>1, <1>2, <1>3, <1>4, <1>5, <1>6

LEMMA SurveyInv ==
  ASSUME NetworksInv, NEW p \in Process, Survey(p)
  PROVE  NetworksInv'
<1> USE NetworksAssumption, SubnetFacts DEF NetworksInv, Survey, Ends, docker, Working, Over
<1>1. CASE Ends(p, "failed") /\ UNCHANGED plan
  <2>1. NetworksTypeOK' /\ LockHeld'
    BY <1>1 DEF NetworksTypeOK, LockHeld
  <2>2. FoundStays' /\ MadeAnew' /\ PlansHold' /\ Prepared'
    BY <1>1 DEF NetworksTypeOK, FoundStays, MadeAnew, PlansHold, Prepared, ToCreate, New
  <2> QED BY <2>1, <2>2
<1>2. ASSUME NEW s \in Plans(New(p)),
             plan' = [plan EXCEPT ![p] = [n \in Network |-> IF n \in New(p) THEN s[n] ELSE found[p][n]]],
             pc' = [pc EXCEPT ![p] = "creating"], UNCHANGED lock
      PROVE  NetworksInv'
  <2>1. /\ s \in [New(p) -> Free]
        /\ \A n, m \in New(p) : s[n] = s[m] => n = m
    BY DEF Plans, IsInjective
  <2>2. New(p) \subseteq wanted[p] /\ wanted[p] \subseteq Network
    BY DEF New, NetworksTypeOK
  <2>3. \A n \in New(p) : /\ s[n] \in Subnet \ Excluded
                          /\ \A m \in Network : subnet[m] # s[n]
                          /\ \A f \in present : s[n] \notin Covers[f]
    BY <2>1, FreeFacts
  <2>4. /\ pc'[p] = "creating" /\ arrived'[p] = {}
        /\ \A n \in Network : plan'[p][n] = IF n \in New(p) THEN s[n] ELSE found[p][n]
        /\ \A q \in Process \ {p} : pc'[q] = pc[q] /\ plan'[q] = plan[q] /\ arrived'[q] = arrived[q]
    BY <1>2 DEF NetworksTypeOK
  <2>5. plan' \in [Process -> [Network -> Subnet \cup {None, Outside}]]
    <3>1. \A n \in Network : (IF n \in New(p) THEN s[n] ELSE found[p][n]) \in Subnet \cup {None, Outside}
      BY <2>3 DEF NetworksTypeOK
    <3> QED BY <1>2, <3>1 DEF NetworksTypeOK
  <2>6. NetworksTypeOK'
    BY <1>2, <2>5 DEF NetworksTypeOK
  <2>7. LockHeld'
    BY <1>2, <2>4 DEF LockHeld
  <2>8. FoundStays'
    BY <2>2, <2>4 DEF FoundStays, New
  <2>9. MadeAnew'
    BY <2>4 DEF MadeAnew, FoundStays
  <2>10. PlansHold'
    <3>1. \A n \in New(p) : subnet[n] = None
      BY DEF FoundStays, New
    <3>2. ASSUME NEW q \in Process, pc'[q] = "creating" PROVE q = p
      BY <2>4, <3>2, OneWorks
    <3>3. ToCreate(p)' \subseteq New(p)
      BY DEF ToCreate, New
    <3> QED BY <2>1, <2>2, <2>3, <2>4, <3>1, <3>2, <3>3 DEF PlansHold
  <2>11. Prepared'
    BY <2>4 DEF Prepared
  <2> QED BY <2>6, <2>7, <2>8, <2>9, <2>10, <2>11
<1> QED BY <1>1, <1>2

LEMMA CreateInv ==
  ASSUME NetworksInv, NEW p \in Process, NEW n \in Network, Create(p, n)
  PROVE  NetworksInv'
<1> USE NetworksAssumption, SubnetFacts DEF NetworksInv, docker, Working, Over
<1>1. /\ pc[p] = "creating" /\ n \in New(p) /\ n \in ToCreate(p)
      /\ plan[p][n] \in Subnet \ Excluded
      /\ UNCHANGED <<attached, present, lock, wanted, found, plan, stuck, arrived, gone>>
  BY DEF Create, ToCreate, PlansHold
<1>2. \A q \in Process : New(q)' = New(q) /\ New(q) \subseteq wanted[q] /\ wanted[q] \subseteq Network
  BY <1>1 DEF New, NetworksTypeOK
<1>3. CASE /\ subnet[n] = None /\ plan[p][n] \notin Used
           /\ subnet' = [subnet EXCEPT ![n] = plan[p][n]]
           /\ owned' = owned \cup {n}
           /\ created' = [created EXCEPT ![p] = Made(p, n)]
           /\ UNCHANGED pc
  <2>1. /\ created'[p] = created[p] \cup {n}
        /\ \A q \in Process \ {p} : created'[q] = created[q]
        /\ subnet'[n] = plan[p][n]
        /\ \A m \in Network \ {n} : subnet'[m] = subnet[m]
    BY <1>3 DEF NetworksTypeOK, Made
  <2>2. NetworksTypeOK'
    BY <1>1, <1>3 DEF NetworksTypeOK, Made
  <2>3. LockHeld'
    BY <1>1, <1>3 DEF LockHeld
  <2>4. FoundStays'
    <3>1. ASSUME NEW q \in Process, pc[q] \in {"surveying", "creating", "undoing"} PROVE q = p
      BY <1>1, <3>1, OneWorks
    <3> QED BY <1>1, <1>2, <1>3, <2>1, <3>1 DEF FoundStays
  <2>5. MadeAnew'
    <3>1. ASSUME NEW q \in Process, pc[q] = "succeeded", n \in wanted[q] PROVE n \in gone[q]
      BY <1>3, <3>1 DEF Prepared
    <3> QED BY <1>1, <1>3, <2>1, <3>1 DEF MadeAnew
  <2>6. PlansHold'
    <3>1. ASSUME NEW q \in Process, pc[q] = "creating" PROVE q = p
      BY <1>1, <3>1, OneWorks
    <3>2. ToCreate(p)' = ToCreate(p) \ {n}
      BY <1>2, <2>1 DEF ToCreate
    <3>3. ToCreate(p) \subseteq Network
      BY <1>2 DEF ToCreate
    <3> QED BY <1>1, <1>3, <2>1, <3>1, <3>2, <3>3 DEF PlansHold
  <2>7. Prepared'
    BY <1>1, <1>3, <2>1 DEF Prepared
  <2> QED BY <2>2, <2>3, <2>4, <2>5, <2>6, <2>7
<1>4. CASE pc' = [pc EXCEPT ![p] = "undoing"] /\ UNCHANGED <<subnet, owned, created>>
  <2>1. NetworksTypeOK' /\ LockHeld'
    BY <1>1, <1>4 DEF NetworksTypeOK, LockHeld
  <2>2. FoundStays' /\ MadeAnew' /\ PlansHold' /\ Prepared'
    BY <1>1, <1>2, <1>4 DEF NetworksTypeOK, FoundStays, MadeAnew, PlansHold, Prepared, ToCreate
  <2> QED BY <2>1, <2>2
<1> QED BY <1>3, <1>4 DEF Create

LEMMA PrepareInv ==
  ASSUME NetworksInv, NEW p \in Process, Prepare(p)
  PROVE  NetworksInv'
<1> USE NetworksAssumption, SubnetFacts DEF NetworksInv, Prepare, Ends, docker, Working, Over
<1>1. NetworksTypeOK'
  BY DEF NetworksTypeOK, Nowhere
<1>2. LockHeld'
  BY DEF NetworksTypeOK, LockHeld
<1>3. FoundStays'
  BY OneWorks DEF NetworksTypeOK, FoundStays, New
<1>4. MadeAnew'
  BY OneWorks DEF NetworksTypeOK, MadeAnew
<1>5. PlansHold'
  BY OneWorks DEF NetworksTypeOK, PlansHold, ToCreate, New
<1>6. Prepared'
  <2>1. pc[p] = "creating" /\ \A n \in New(p) : n \in created[p]
    BY DEF ToCreate
  <2>2. ASSUME NEW n \in wanted[p], n \notin gone[p]
        PROVE  subnet[n] = plan[p][n] /\ plan[p][n] \in Subnet \ Excluded
    BY <2>1, <2>2 DEF FoundStays, New
  <2>3. \A q \in Process \ {p} : pc'[q] = pc[q]
    BY DEF NetworksTypeOK
  <2> QED BY <2>2, <2>3 DEF Prepared
<1> QED BY <1>1, <1>2, <1>3, <1>4, <1>5, <1>6

LEMMA UndoInv ==
  ASSUME NetworksInv, NEW p \in Process, NEW n \in Network, Undo(p, n)
  PROVE  NetworksInv'
<1> USE NetworksAssumption, SubnetFacts DEF NetworksInv, docker, Working, Over
<1>1. /\ pc[p] = "undoing" /\ n \in created[p] /\ n \notin stuck[p]
      /\ UNCHANGED <<attached, present, lock, pc, wanted, found, plan, arrived, gone>>
  BY DEF Undo, ToUndo
<1>2. ASSUME NEW q \in Process, pc[q] \in Working PROVE q = p
  BY <1>1, <1>2, OneWorks
<1>3. CASE /\ subnet' = [subnet EXCEPT ![n] = None] /\ owned' = owned \ {n}
           /\ created' = [created EXCEPT ![p] = @ \ {n}]
           /\ UNCHANGED stuck
  <2>1. /\ created'[p] = created[p] \ {n}
        /\ \A q \in Process \ {p} : created'[q] = created[q]
        /\ subnet'[n] = None
        /\ \A m \in Network \ {n} : subnet'[m] = subnet[m]
    BY <1>3 DEF NetworksTypeOK
  <2>2. NetworksTypeOK'
    <3>1. created' \in [Process -> SUBSET Network]
      BY <1>3 DEF NetworksTypeOK
    <3>2. subnet' \in [Network -> Subnet \cup {None, Outside}] /\ owned' \subseteq Network
      BY <1>3 DEF NetworksTypeOK
    <3> QED BY <1>1, <1>3, <3>1, <3>2 DEF NetworksTypeOK
  <2>3. LockHeld'
    BY <1>1, <1>3 DEF LockHeld
  <2>4. FoundStays'
    BY <1>1, <1>2, <1>3, <2>1 DEF FoundStays, New, NetworksTypeOK
  <2>5. MadeAnew'
    BY <1>1, <1>3, <2>1 DEF MadeAnew
  <2>6. PlansHold'
    BY <1>1, <1>2 DEF PlansHold
  <2>7. Prepared'
    <3>1. ASSUME NEW q \in Process, pc[q] = "succeeded", n \in wanted[q] PROVE n \in gone[q]
      BY <1>1, <3>1 DEF MadeAnew
    <3>2. \A q \in Process : wanted[q] \subseteq Network
      BY DEF NetworksTypeOK
    <3> QED BY <1>1, <2>1, <3>1, <3>2 DEF Prepared
  <2> QED BY <2>2, <2>3, <2>4, <2>5, <2>6, <2>7
<1>4. CASE stuck' = [stuck EXCEPT ![p] = @ \cup {n}] /\ UNCHANGED <<subnet, owned, created>>
  <2>1. NetworksTypeOK' /\ LockHeld'
    BY <1>1, <1>4 DEF NetworksTypeOK, LockHeld
  <2>2. FoundStays'
    BY <1>1, <1>2, <1>4 DEF FoundStays, New, NetworksTypeOK
  <2>3. MadeAnew' /\ PlansHold' /\ Prepared'
    BY <1>1, <1>4 DEF MadeAnew, PlansHold, Prepared, ToCreate, New
  <2> QED BY <2>1, <2>2, <2>3
<1> QED BY <1>3, <1>4 DEF Undo

LEMMA GiveUpInv ==
  ASSUME NetworksInv, NEW p \in Process, GiveUp(p)
  PROVE  NetworksInv'
<1> USE NetworksAssumption, SubnetFacts DEF NetworksInv, GiveUp, Ends, ToUndo, docker, Working, Over
<1>1. NetworksTypeOK'
  BY DEF NetworksTypeOK, Nowhere
<1>2. LockHeld'
  BY DEF NetworksTypeOK, LockHeld
<1>3. FoundStays'
  BY OneWorks DEF NetworksTypeOK, FoundStays, New
<1>4. MadeAnew'
  BY OneWorks DEF NetworksTypeOK, MadeAnew
<1>5. PlansHold'
  BY OneWorks DEF NetworksTypeOK, PlansHold, ToCreate, New
<1>6. Prepared'
  BY OneWorks DEF NetworksTypeOK, Prepared
<1> QED BY <1>1, <1>2, <1>3, <1>4, <1>5, <1>6

LEMMA DieInv ==
  ASSUME NetworksInv, NEW p \in Process, Die(p)
  PROVE  NetworksInv'
<1> USE NetworksAssumption, SubnetFacts DEF NetworksInv, Die, Ends, docker, Working, Over
<1>1. NetworksTypeOK'
  BY DEF NetworksTypeOK, Nowhere
<1>2. LockHeld'
  BY DEF NetworksTypeOK, LockHeld
<1>3. FoundStays'
  BY OneWorks DEF NetworksTypeOK, FoundStays, New
<1>4. MadeAnew'
  BY OneWorks DEF NetworksTypeOK, MadeAnew
<1>5. PlansHold'
  BY OneWorks DEF NetworksTypeOK, PlansHold, ToCreate, New
<1>6. Prepared'
  BY OneWorks DEF NetworksTypeOK, Prepared
<1> QED BY <1>1, <1>2, <1>3, <1>4, <1>5, <1>6

LEMMA AttachInv ==
  ASSUME NetworksInv, NEW n \in Network, Attach(n)
  PROVE  NetworksInv'
<1> USE NetworksAssumption, SubnetFacts DEF NetworksInv, Attach, docker, Working, Over
<1>1. NetworksTypeOK'
  BY DEF NetworksTypeOK, Nowhere
<1>2. LockHeld'
  BY DEF NetworksTypeOK, LockHeld
<1>3. FoundStays'
  BY OneWorks DEF NetworksTypeOK, FoundStays, New
<1>4. MadeAnew'
  BY OneWorks DEF NetworksTypeOK, MadeAnew
<1>5. PlansHold'
  BY OneWorks DEF NetworksTypeOK, PlansHold, ToCreate, New
<1>6. Prepared'
  BY OneWorks DEF NetworksTypeOK, Prepared
<1> QED BY <1>1, <1>2, <1>3, <1>4, <1>5, <1>6

LEMMA RemoveIfUnusedInv ==
  ASSUME NetworksInv, NEW n \in Network, RemoveIfUnused(n)
  PROVE  NetworksInv'
<1> USE NetworksAssumption, SubnetFacts DEF NetworksInv, RemoveIfUnused, docker, Working, Over
<1>1. NetworksTypeOK'
  BY DEF NetworksTypeOK, Nowhere
<1>2. LockHeld'
  BY DEF NetworksTypeOK, LockHeld
<1>3. FoundStays'
  BY OneWorks DEF NetworksTypeOK, FoundStays, New
<1>4. MadeAnew'
  BY OneWorks DEF NetworksTypeOK, MadeAnew
<1>5. PlansHold'
  BY OneWorks DEF NetworksTypeOK, PlansHold, ToCreate, New
<1>6. Prepared'
  BY OneWorks DEF NetworksTypeOK, Prepared
<1> QED BY <1>1, <1>2, <1>3, <1>4, <1>5, <1>6

LEMMA ForeignComesInv ==
  ASSUME NetworksInv, NEW f \in Foreign, ForeignComes(f)
  PROVE  NetworksInv'
<1> USE NetworksAssumption, SubnetFacts DEF NetworksInv, ForeignComes, docker, Working, Over
<1>1. NetworksTypeOK'
  BY DEF NetworksTypeOK, Nowhere
<1>2. LockHeld'
  BY DEF NetworksTypeOK, LockHeld
<1>3. FoundStays'
  BY OneWorks DEF NetworksTypeOK, FoundStays, New
<1>4. MadeAnew'
  BY OneWorks DEF NetworksTypeOK, MadeAnew
<1>5. PlansHold'
  BY OneWorks DEF NetworksTypeOK, PlansHold, ToCreate, New
<1>6. Prepared'
  BY OneWorks DEF NetworksTypeOK, Prepared
<1> QED BY <1>1, <1>2, <1>3, <1>4, <1>5, <1>6

LEMMA ForeignGoesInv ==
  ASSUME NetworksInv, NEW f \in Foreign, ForeignGoes(f)
  PROVE  NetworksInv'
<1> USE NetworksAssumption, SubnetFacts DEF NetworksInv, ForeignGoes, docker, Working, Over
<1>1. NetworksTypeOK'
  BY DEF NetworksTypeOK, Nowhere
<1>2. LockHeld'
  BY DEF NetworksTypeOK, LockHeld
<1>3. FoundStays'
  BY OneWorks DEF NetworksTypeOK, FoundStays, New
<1>4. MadeAnew'
  BY OneWorks DEF NetworksTypeOK, MadeAnew
<1>5. PlansHold'
  BY OneWorks DEF NetworksTypeOK, PlansHold, ToCreate, New
<1>6. Prepared'
  BY OneWorks DEF NetworksTypeOK, Prepared
<1> QED BY <1>1, <1>2, <1>3, <1>4, <1>5, <1>6

\* Docker may have any networks of the names, but no run is under way.
LEMMA InitInv ==
  ASSUME NetworksInit
  PROVE  NetworksInv
<1> USE NetworksAssumption DEF NetworksInit, Working, Over
<1>1. NetworksTypeOK
  BY DEF NetworksTypeOK, Nowhere
<1>2. LockHeld /\ FoundStays /\ MadeAnew /\ PlansHold /\ Prepared
  BY DEF LockHeld, FoundStays, MadeAnew, PlansHold, Prepared
<1> QED BY <1>1, <1>2 DEF NetworksInv

LEMMA StutterInv ==
  ASSUME NetworksInv, UNCHANGED nvars
  PROVE  NetworksInv'
BY DEF NetworksInv, nvars, NetworksTypeOK, LockHeld, FoundStays, MadeAnew, PlansHold, Prepared,
       ToCreate, New

\* Whatever runs there are and however they interleave, die or meet networks that
\* come and go, who works has the lock of prepare_networks and what it found stays.
THEOREM NetworksSafe == NetworksSpec => []NetworksInv
<1>1. NetworksInit => NetworksInv
  BY InitInv
<1>2. NetworksInv /\ [NetworksNext]_nvars => NetworksInv'
  <2> SUFFICES ASSUME NetworksInv, [NetworksNext]_nvars PROVE NetworksInv'
    OBVIOUS
  <2>1. CASE UNCHANGED nvars
    BY <2>1, StutterInv
  <2>2. ASSUME NEW p \in Process, NEW N \in SUBSET Network, Start(p, N) PROVE NetworksInv'
    BY <2>2, StartInv
  <2>3. ASSUME NEW p \in Process,
               Lock(p) \/ Inspect(p) \/ Survey(p) \/ Prepare(p) \/ GiveUp(p) \/ Die(p)
        PROVE  NetworksInv'
    BY <2>3, LockInv, InspectInv, SurveyInv, PrepareInv, GiveUpInv, DieInv
  <2>4. ASSUME NEW p \in Process, NEW n \in Network, Create(p, n) \/ Undo(p, n)
        PROVE  NetworksInv'
    BY <2>4, CreateInv, UndoInv
  <2>5. ASSUME NEW n \in Network, Attach(n) \/ RemoveIfUnused(n) PROVE NetworksInv'
    BY <2>5, AttachInv, RemoveIfUnusedInv
  <2>6. ASSUME NEW f \in Foreign, ForeignComes(f) \/ ForeignGoes(f) PROVE NetworksInv'
    BY <2>6, ForeignComesInv, ForeignGoesInv
  <2> QED BY <2>1, <2>2, <2>3, <2>4, <2>5, <2>6 DEF NetworksNext
<1> QED BY <1>1, <1>2, PTL DEF NetworksSpec

\* Nothing of the platform takes what build_plan has chosen before docker network
\* create is called for it.
THEOREM PlansNeverTaken == NetworksSpec => []PlansHold
<1>1. NetworksInv => PlansHold
  BY DEF NetworksInv
<1> QED BY <1>1, NetworksSafe, PTL

\* What prepare_networks has returned is there until it is removed on purpose.
THEOREM PreparedStays == NetworksSpec => []Prepared
<1>1. NetworksInv => Prepared
  BY DEF NetworksInv
<1> QED BY <1>1, NetworksSafe, PTL

\* A run of prepare_networks that ends in an AllocationError has removed what it
\* made, or names it, and has removed nothing else.
THEOREM FailuresUndone == NetworksSpec => FailureUndone
<1>1. ASSUME NetworksInv, [NetworksNext]_nvars, NEW p \in Process,
             pc[p] \in Working, pc'[p] = "failed", NEW n \in wanted[p]
      PROVE  IF found'[p][n] = None THEN subnet'[n] = None \/ n \in stuck'[p]
             ELSE subnet'[n] = found'[p][n] \/ n \in gone'[p]
  <2> USE SubnetFacts DEF NetworksInv, Working, Over, Ends, docker
  <2>1. n \in Network
    BY <1>1 DEF NetworksTypeOK
  <2>2. CASE Inspect(p)
    BY <1>1, <2>1, <2>2 DEF Inspect, NetworksTypeOK
  <2>3. CASE Survey(p)
    BY <1>1, <2>3 DEF Survey, FoundStays, New
  <2>4. CASE GiveUp(p)
    <3>1. ToUndo(p) \subseteq stuck'[p] /\ stuck[p] \subseteq stuck'[p]
      BY <1>1, <2>4 DEF GiveUp, NetworksTypeOK
    <3>2. n \in created[p] => n \in stuck'[p]
      BY <3>1 DEF ToUndo
    <3>3. subnet' = subnet /\ found' = found /\ gone' = gone
      BY <2>4 DEF GiveUp
    <3> QED BY <1>1, <2>4, <3>2, <3>3 DEF GiveUp, FoundStays, New
  <2>5. Inspect(p) \/ Survey(p) \/ GiveUp(p)
    <3>1. ASSUME NEW q \in Process,
                 \/ \E N \in (SUBSET Network) \ {{}} : Start(q, N)
                 \/ Lock(q) \/ Prepare(q) \/ Die(q)
                 \/ \E m \in Network : Create(q, m) \/ Undo(q, m)
          PROVE  FALSE
      BY <1>1, <3>1 DEF Start, Lock, Prepare, Die, Create, Undo, NetworksTypeOK
    <3>2. ASSUME NEW q \in Process, Inspect(q) \/ Survey(q) \/ GiveUp(q)
          PROVE  q = p
      BY <1>1, <3>2 DEF Inspect, Survey, GiveUp, NetworksTypeOK
    <3>3. ASSUME pc' = pc PROVE FALSE
      BY <1>1, <3>3
    <3> QED BY <1>1, <3>1, <3>2, <3>3
        DEF NetworksNext, Attach, RemoveIfUnused, ForeignComes, ForeignGoes, nvars
  <2> QED BY <2>2, <2>3, <2>4, <2>5
<1>2. NetworksInv /\ [NetworksNext]_nvars =>
        [\A p \in Process : pc[p] \in Working /\ pc'[p] = "failed" =>
           \A n \in wanted[p] :
             IF found'[p][n] = None THEN subnet'[n] = None \/ n \in stuck'[p]
             ELSE subnet'[n] = found'[p][n] \/ n \in gone'[p]]_nvars
  BY <1>1
<1> QED BY <1>2, NetworksSafe, PTL DEF NetworksSpec, FailureUndone
=============================================================================
