-------------------------- MODULE AdaptersPromise_proofs --------------------------
(***************************************************************************)
(* The refinement: what the adapters of OpenClaw and EvoScientist do,      *)
(* command by command, keeps the promise of HostPromise; with Hermes, of   *)
(* which Adapters_proofs shows it, the theorem about all three.  For each  *)
(* operation a predicate says where the running operation may stand, with  *)
(* which callers and local variables, and what of the instance is then     *)
(* still as it was; a lemma per function shows that its steps keep to it   *)
(* or end in one of the ends that HostEnds has for the outcome.  Then what *)
(* Hermes delivers, and what it puts back of an operation that has failed. *)
(***************************************************************************)
EXTENDS Adapters_proofs

------------------------------------------------------------------------------
(* OpenClaw: what a running operation may have made of the instance *)

ClawServes(h) ==
  /\ DataAs(h) /\ h.proxy = Was.proxy /\ h.main \in Container
  /\ (h.main = "none") <=> (Was.main = "none")

ClawUpdates(h) == DataAs(h) /\ h.home = Parts /\ h.main \in Container

\* what a deletion starts from: of a creation that is taken back, the new instance
Doomed == IF op = "create" THEN [home |-> Parts, bin |-> {}, older |-> {}, recycle |-> "none", main |-> "running"]
          ELSE Was
DoomedOlder == Doomed.older \cup (IF Doomed.recycle = "none" THEN {}
                                  ELSE IF Doomed.bin = Parts THEN {"data"} ELSE {"empty"})

\* before and after the new entry is made
ClawDooms(h) ==
  /\ h.home = Doomed.home /\ h.bin = Doomed.bin /\ h.older = Doomed.older /\ h.recycle = Doomed.recycle
  /\ h.main \in {Doomed.main, "none"} /\ (Doomed.home # Parts => h.main = Doomed.main)
ClawBuries(h) ==
  /\ h.home \cup h.bin = Doomed.home /\ h.home \cap h.bin = {} /\ h.older = DoomedOlder /\ h.recycle = "dir"
  /\ h.main \in {Doomed.main, "none"} /\ (Doomed.home # Parts => h.main = Doomed.main)
ClawDeletes(h) == ClawDooms(h) \/ ClawBuries(h)

ClawCreates(h) ==
  h.older = {} /\ h.main \in Container /\ h.home \in {{}, Parts} /\ h.bin = {} /\ h.recycle = "none"

ClawRestores(h) ==
  /\ Was.home = {} /\ Was.bin = Parts /\ Was.recycle # "none"
  /\ h.older = Was.older /\ h.recycle = Was.recycle /\ h.main \in Container
  /\ \/ h.home = Parts /\ h.bin = {}
     \/ h.home = {} /\ h.bin = Parts /\ h.main = Was.main

\* the newest entry is empty
ClawEmpties(h) ==
  /\ Was.recycle # "none" /\ h.bin = {}
  /\ h.home = Was.home /\ h.older = Was.older /\ h.recycle = Was.recycle /\ h.main = Was.main
\* it has gone, and an older one may be the newest
ClawPurges(h) ==
  /\ Was.recycle # "none" /\ h.home = Was.home /\ h.main = Was.main
  /\ \/ Was.older = {} /\ h.older = {} /\ h.bin = {} /\ h.recycle = "none"
     \/ \E k \in Was.older : /\ h.older \in {Was.older, Was.older \ {k}} /\ h.recycle = "dir"
                             /\ h.bin = IF k = "data" THEN Parts ELSE {}

ClawLeaves(h) ==
  CASE op \in {"start", "stop", "restart"} -> ClawServes(h)
    [] op = "update_version"               -> CoreAs(h) \/ ClawUpdates(h)
    [] op \in {"set_model_provider", "install_skill", "set_basic_auth"} -> CoreAs(h)
    [] op = "delete"        -> ClawDeletes(h)
    [] op = "create"        -> ClawCreates(h) \/ ClawDeletes(h)
    [] op = "restore"       -> CoreAs(h) \/ ClawRestores(h)
    [] op = "purge_deleted" -> CoreAs(h) \/ ClawEmpties(h)

ClawDone(h) ==
  CASE op \in {"start", "restart"} -> ClawServes(h) /\ h.main = "running"
    [] op = "stop"                 -> ClawServes(h) /\ h.main = "stopped"
    [] op = "update_version"       -> DataAs(h) /\ h.home = Parts /\ h.main = Was.main
    [] op \in {"set_model_provider", "install_skill"} -> CoreAs(h) /\ h.main = "running"
    [] op = "set_basic_auth" -> CoreAs(h)
    [] op = "delete"  -> ClawBuries(h) /\ h.home = {}
    [] op = "create"  -> ClawCreates(h) /\ h.home = Parts /\ h.main = "running"
    [] op = "restore" -> ClawRestores(h) /\ h.home = Parts /\ h.main = "running"
    [] op = "purge_deleted" -> ClawPurges(h)

ClawRequest == {"create", "delete", "restore", "purge_deleted", "update_version", "start", "stop", "restart",
                "set_model_provider", "install_skill", "set_basic_auth"}

\* what holds of an instance, and what between two operations by its row
ClawFit(h) ==
  /\ h.main \in Container /\ h.home \in {{}, Parts} /\ h.bin \in {{}, Parts}
  /\ h.older \subseteq {"data", "empty"} /\ h.recycle \in {"none", "dir"}
ClawApart(h) ==
  /\ h.home = {} \/ h.bin = {}
  /\ "data" \in h.older => h.home = {} /\ h.bin = {}
  /\ h.older # {} \/ h.bin # {} => h.recycle # "none"
ClawRested(h, r) ==
  /\ r = "new" => h = BareHost
  /\ r \in {"live", "deleted"} => ClawApart(h)
  /\ r = "live" => h.home = Parts \/ h.bin = Parts \/ "data" \in h.older

LEMMA ClawSame ==
  ASSUME product = "openclaw", ~CleanedUp, NEW h, NEW g, h.recycle # "listed", g.recycle # "listed",
         h.home = g.home, h.bin = g.bin, h.older = g.older, h.recycle = g.recycle, h.main = g.main
  PROVE  RuntimeOf(h) = RuntimeOf(g) /\ HuskOf(h) = HuskOf(g)
BY ClawLooks

LEMMA ClawUnchanged ==
  ASSUME product = "openclaw", ~CleanedUp, NEW h, h.recycle # "listed", Was.recycle # "listed",
         h.home = Was.home, h.bin = Was.bin, h.older = Was.older, h.recycle = Was.recycle, h.main = Was.main,
         op = "delete" => RuntimeOf(Was) \notin {"none", "buried"} \/ HuskOf(Was)
  PROVE  EndsBadly(h)
<1> USE DEF Found
<1>1. RuntimeOf(h) = RuntimeOf(Was) /\ HuskOf(h) = HuskOf(Was)
  BY ClawSame
<1>2. RuntimeOf(h) \in Promised!Fails(Found, op)
  BY <1>1 DEF Promised!Fails
<1>3. HuskOf(Was) \in BOOLEAN
  BY ClawLooks
<1>4. HuskOf(Was) \in Promised!HuskAfter(Found, op, RuntimeOf(Was), FALSE)
  BY <1>3 DEF Promised!HuskAfter, Promised!Script, Promised!Deployed, Promised!Archived, Promised!Remains
<1> QED BY <1>1, <1>2, <1>4, Fairly

\* the deletion of g
LEMMA ClawDeleteEnds ==
  ASSUME product = "openclaw", ~CleanedUp, ClawFit(Doomed), ClawApart(Doomed),
         Doomed.home = Parts \/ Doomed.bin = Parts \/ "data" \in Doomed.older,
         NEW s, s.product = "openclaw", s.husk = HuskOf(Doomed), s.runtime = RuntimeOf(Doomed),
         NEW h, ClawDeletes(h)
  PROVE  /\ \E e \in Promised!BadEnds(s, "delete") : e.runtime = RuntimeOf(h) /\ e.husk = HuskOf(h)
         /\ ClawBuries(h) /\ h.home = {} =>
              /\ RuntimeOf(h) \in Promised!Succeeds(s, "delete") \/ RuntimeOf(h) \in Promised!Slackens(s, "delete")
              /\ HuskOf(h) \in Promised!HuskAfter(s, "delete", RuntimeOf(h), TRUE)
<1> DEFINE x == RuntimeOf(h)
           g == Doomed
<1>0. g.recycle # "listed" /\ h.recycle # "listed" /\ Parts = {"user"}
  BY ClawLooks DEF ClawFit, ClawDeletes, ClawDooms, ClawBuries, Parts, PartsOf
<1>1. /\ s.runtime =
              IF g.main = "running" /\ g.home = Parts THEN "up"
              ELSE IF g.main = "stopped" /\ g.home = Parts THEN "stopped"
              ELSE IF g.main = "none" /\ g.home = {} /\ g.bin = Parts THEN "archived"
              ELSE IF g.main = "none" /\ g.home = {} /\ "data" \in g.older THEN "buried"
              ELSE IF g.main = "none" /\ g.home \cup g.bin = {} THEN "none" ELSE "broken"
      /\ s.husk = ((g.recycle # "none" /\ g.bin = {}) \/ "empty" \in g.older)
  BY <1>0, ClawLooks
<1>2. /\ x =
              IF h.main = "running" /\ h.home = Parts THEN "up"
              ELSE IF h.main = "stopped" /\ h.home = Parts THEN "stopped"
              ELSE IF h.main = "none" /\ h.home = {} /\ h.bin = Parts THEN "archived"
              ELSE IF h.main = "none" /\ h.home = {} /\ "data" \in h.older THEN "buried"
              ELSE IF h.main = "none" /\ h.home \cup h.bin = {} THEN "none" ELSE "broken"
      /\ HuskOf(h) = ((h.recycle # "none" /\ h.bin = {}) \/ "empty" \in h.older)
  BY <1>0, ClawLooks
<1> HIDE DEF g, x
<1>3. /\ g.main \in Container /\ g.home \in {{}, Parts} /\ g.bin \in {{}, Parts}
      /\ g.older \subseteq {"data", "empty"} /\ g.recycle \in {"none", "dir"}
      /\ g.home = {} \/ g.bin = {}
      /\ "data" \in g.older => g.home = {} /\ g.bin = {}
      /\ g.older # {} \/ g.bin # {} => g.recycle # "none"
      /\ g.home = Parts \/ g.bin = Parts \/ "data" \in g.older
  BY DEF ClawFit, ClawApart, g
<1>4. /\ h.main \in {g.main, "none"} /\ (g.home # Parts => h.main = g.main)
      /\ \/ h.home = g.home /\ h.bin = g.bin /\ h.older = g.older /\ h.recycle = g.recycle
         \/ h.home \cup h.bin = g.home /\ h.home \cap h.bin = {} /\ h.recycle = "dir" /\
            h.older = g.older \cup (IF g.recycle = "none" THEN {} ELSE IF g.bin = Parts THEN {"data"} ELSE {"empty"})
  BY DEF ClawDeletes, ClawDooms, ClawBuries, DoomedOlder, g
<1>5. ClawBuries(h) => h.home \cup h.bin = g.home /\ h.home \cap h.bin = {} /\ h.recycle = "dir" /\
            h.older = g.older \cup (IF g.recycle = "none" THEN {} ELSE IF g.bin = Parts THEN {"data"} ELSE {"empty"})
  BY DEF ClawBuries, DoomedOlder, g
<1>8. ASSUME NEW X, NEW won, x \in X, HuskOf(h) \in Promised!HuskAfter(s, "delete", x, won)
      PROVE  \E e \in Promised!Ends(s, "delete", X, won) : e.runtime = x /\ e.husk = HuskOf(h)
  BY <1>8, EndWith
<1>6. CASE g.home = Parts
  <2>1. s.runtime \in {"up", "stopped", "broken"} /\ g.bin = {} /\ "data" \notin g.older
    BY <1>0, <1>1, <1>3, <1>6 DEF Container
  <2>2. \/ x \in {"up", "stopped", "broken"} /\ HuskOf(h) \in {s.husk, TRUE}
        \/ x = "archived" /\ HuskOf(h) = s.husk
    BY <1>0, <1>1, <1>2, <1>3, <1>4, <1>6, <2>1 DEF Container
  <2>3. ClawBuries(h) /\ h.home = {} => x \in {"archived", "broken"}
    BY <1>0, <1>2, <1>3, <1>4, <1>5, <1>6, <2>1 DEF Container
  <2>4. x \in Promised!Fails(s, "delete")
    BY <2>1, <2>2 DEF Promised!Fails, Promised!DeleteFails, Promised!DeleteEnds, Promised!ScriptDeletes, Promised!Script, Promised!Deployed
  <2>5. HuskOf(h) \in Promised!HuskAfter(s, "delete", x, FALSE) /\ HuskOf(h) \in Promised!HuskAfter(s, "delete", x, TRUE)
    BY <2>2 DEF Promised!HuskAfter, Promised!Script, Promised!Deployed
  <2>6. ClawBuries(h) /\ h.home = {} => x \in Promised!Succeeds(s, "delete") \/ x \in Promised!Slackens(s, "delete")
    BY <2>1, <2>3 DEF Promised!Succeeds, Promised!Slackens, Promised!DeleteEnds, Promised!ScriptDeletes, Promised!Script, Promised!Deployed
  <2>7. \E e \in Promised!BadEnds(s, "delete") : e.runtime = x /\ e.husk = HuskOf(h)
    BY <1>8, <2>4, <2>5 DEF Promised!BadEnds
  <2> QED BY <2>5, <2>6, <2>7 DEF x
<1>7. CASE g.home = {}
  <2>1. g.recycle # "none" /\ h.home = {} /\ h.main = g.main
    BY <1>0, <1>3, <1>4, <1>7
  <2>2. \/ s.runtime = "archived" /\ x = "archived" /\ HuskOf(h) = s.husk /\ ~ClawBuries(h)
        \/ s.runtime \in {"archived", "buried"} /\ x = "buried" /\ HuskOf(h) = TRUE
        \/ s.runtime = "broken" /\ x = "broken" /\ HuskOf(h) \in {s.husk, TRUE}
    <3>1. CASE h.bin = g.bin /\ h.older = g.older /\ h.recycle = g.recycle
      BY <1>0, <1>1, <1>2, <1>3, <1>5, <1>7, <2>1, <3>1 DEF Container
    <3>2. CASE h.bin = {} /\ h.recycle = "dir" /\ h.older = g.older \cup (IF g.bin = Parts THEN {"data"} ELSE {"empty"})
      BY <1>0, <1>1, <1>2, <1>3, <1>7, <2>1, <3>2 DEF Container
    <3> QED BY <1>4, <1>7, <2>1, <3>1, <3>2
  <2>4. x \in Promised!Fails(s, "delete")
    BY <2>2 DEF Promised!Fails, Promised!DeleteFails, Promised!DeleteEnds, Promised!ScriptDeletes, Promised!Script, Promised!Deployed
  <2>5. HuskOf(h) \in Promised!HuskAfter(s, "delete", x, FALSE) /\ HuskOf(h) \in Promised!HuskAfter(s, "delete", x, TRUE)
    BY <2>2 DEF Promised!HuskAfter, Promised!Script, Promised!Deployed
  <2>6. ClawBuries(h) /\ h.home = {} => x \in Promised!Succeeds(s, "delete") \/ x \in Promised!Slackens(s, "delete")
    BY <2>2 DEF Promised!Succeeds, Promised!Slackens, Promised!DeleteEnds, Promised!ScriptDeletes, Promised!Script, Promised!Deployed
  <2>7. \E e \in Promised!BadEnds(s, "delete") : e.runtime = x /\ e.husk = HuskOf(h)
    BY <1>8, <2>4, <2>5 DEF Promised!BadEnds
  <2> QED BY <2>5, <2>6, <2>7 DEF x
<1> QED BY <1>3, <1>6, <1>7

LEMMA ScriptRestoreLeaves ==
  ASSUME NEW s, s.product = "openclaw", NEW x \in {"up", "stopped", "broken"}, NEW won, NEW k, k = TRUE
  PROVE  k \in Promised!HuskAfter(s, "restore", x, won)
<1>0. x \in Promised!Deployed /\ x \notin Promised!Archived /\ Promised!Script(s)
  BY DEF Promised!Script, Promised!Deployed, Promised!Archived
<1>1. Promised!HuskAfter(s, "restore", x, won) = {TRUE} \cup (IF won THEN {} ELSE {s.husk})
  BY <1>0 DEF Promised!HuskAfter
<1>2. k \in {TRUE} \cup (IF won THEN {} ELSE {s.husk})
  BY Zenon
<1> QED BY <1>1, <1>2, Zenon

LEMMA ClawTaken ==
  ASSUME product = "openclaw", ~CleanedUp, op \in {"delete", "create"}, ClawFit(Was), ClawRested(Was, row), Admitted(op)
  PROVE  /\ ClawFit(Doomed) /\ ClawApart(Doomed)
         /\ Doomed.home = Parts \/ Doomed.bin = Parts \/ "data" \in Doomed.older
         /\ op = "delete" => Found.runtime = RuntimeOf(Doomed) /\ Found.husk = HuskOf(Doomed) /\ Found.product = "openclaw"
         /\ op = "create" => /\ RuntimeOf(Doomed) = "up" /\ HuskOf(Doomed) = FALSE
                             /\ Found.product = "openclaw" /\ Found.husk = FALSE /\ Found.runtime = "none"
<1>1. CASE op = "delete"
  <2>1. Doomed = Was /\ row = "live"
    BY <1>1 DEF Doomed, Admitted
  <2> QED BY <1>1, <2>1 DEF ClawRested, Found
<1>2. CASE op = "create"
  <2>1. Was = BareHost
    BY <1>2 DEF Admitted, ClawRested
  <2>2. /\ Doomed.home = Parts /\ Doomed.bin = {} /\ Doomed.older = {} /\ Doomed.recycle = "none" /\ Doomed.main = "running"
    BY <1>2 DEF Doomed
  <2>3. RuntimeOf(Doomed) = "up" /\ HuskOf(Doomed) = FALSE
    BY <2>2, ClawLooks
  <2>4. RuntimeOf(Was) = "none" /\ HuskOf(Was) = FALSE
    <3>1. Was.main = "none" /\ Was.home = {} /\ Was.bin = {} /\ Was.older = {} /\ Was.recycle = "none"
      BY <2>1 DEF BareHost
    <3>2. Parts = {"user"}
      BY DEF Parts, PartsOf
    <3> QED BY <3>1, <3>2, ClawLooks
  <2> QED BY <1>2, <2>2, <2>3, <2>4 DEF ClawFit, ClawApart, Found, Container
<1> QED BY <1>1, <1>2

LEMMA ClawBad ==
  ASSUME product = "openclaw", ~CleanedUp, ClawFit(Was), ClawRested(Was, row), Admitted(op), op \in ClawRequest,
         NEW h, ClawLeaves(h)
  PROVE  EndsBadly(h)
<1>0. Was.recycle # "listed" /\ Parts = {"user"}
  BY DEF ClawFit, Parts, PartsOf
<1>1. CASE CoreAs(h) /\ op # "delete"
  BY <1>0, <1>1, ClawUnchanged DEF CoreAs, DataAs
<1>2. CASE op \in {"start", "stop", "restart"} /\ ClawServes(h)
  <2>1. CASE Was.main = "none"
    <3>1. CoreAs(h)
      BY <1>2, <2>1 DEF ClawServes, CoreAs
    <3> QED BY <1>1, <1>2, <3>1
  <2>2. CASE Was.main # "none"
    <3>1. RuntimeOf(Was) \in {"up", "stopped", "broken"} /\ RuntimeOf(h) \in {"up", "stopped", "broken"} /\ HuskOf(h) = HuskOf(Was)
      BY <1>0, <1>2, <2>2, ClawLooks DEF ClawServes, DataAs, Container, ClawFit
    <3>2. RuntimeOf(h) \in Promised!Fails(Found, op)
      BY <1>2, <3>1 DEF Found, Promised!Fails, Promised!OthersFail, Promised!Deployed
    <3>3. HuskOf(h) \in Promised!HuskAfter(Found, op, RuntimeOf(h), FALSE)
      BY <1>2, <3>1 DEF Found, Promised!HuskAfter
    <3> QED BY <3>2, <3>3, Fairly
  <2> QED BY <2>1, <2>2
<1>3. CASE op = "update_version" /\ ClawUpdates(h)
  <2>1. RuntimeOf(Was) \in {"up", "stopped", "broken"} /\ RuntimeOf(h) \in {"up", "stopped", "broken"} /\ HuskOf(h) = HuskOf(Was)
    BY <1>0, <1>3, ClawLooks DEF ClawUpdates, DataAs, Container, ClawFit
  <2>2. RuntimeOf(h) \in Promised!Fails(Found, op)
    BY <1>3, <2>1 DEF Found, Promised!Fails, Promised!OthersFail, Promised!Deployed
  <2>3. HuskOf(h) \in Promised!HuskAfter(Found, op, RuntimeOf(h), FALSE)
    BY <1>3, <2>1 DEF Found, Promised!HuskAfter
  <2> QED BY <2>2, <2>3, Fairly
<1>4. CASE op = "delete" /\ ClawDeletes(h)
  <2>1. \E e \in Promised!BadEnds(Found, "delete") : e.runtime = RuntimeOf(h) /\ e.husk = HuskOf(h)
    BY <1>4, ClawTaken, ClawDeleteEnds
  <2> QED BY <1>4, <2>1 DEF EndsBadly, Comes
<1>5. CASE op = "create" /\ ClawDeletes(h)
  <2> DEFINE s == [Found EXCEPT !.runtime = "up"]
  <2>1. s.product = "openclaw" /\ s.husk = HuskOf(Doomed) /\ s.runtime = RuntimeOf(Doomed)
    BY <1>5, ClawTaken DEF Found
  <2>2. \E e \in Promised!BadEnds(s, "delete") : e.runtime = RuntimeOf(h) /\ e.husk = HuskOf(h)
    BY <1>5, <2>1, ClawTaken, ClawDeleteEnds
  <2> QED BY <1>5, <2>2 DEF EndsBadly, Comes, Retracted, Promised!CutEnds
<1>6. CASE op = "create" /\ ClawCreates(h)
  <2>1. Found.runtime = "none" /\ Found.husk = FALSE
    BY <1>6, ClawTaken
  <2>2. RuntimeOf(h) \in {"none", "up", "stopped", "broken"} /\ HuskOf(h) = FALSE
    BY <1>6, ClawLooks DEF ClawCreates
  <2>3. RuntimeOf(h) \in Promised!Fails(Found, op)
    BY <1>6, <2>1, <2>2 DEF Promised!Fails, Promised!Deployed
  <2>4. HuskOf(h) \in Promised!HuskAfter(Found, op, RuntimeOf(h), FALSE)
    BY <1>6, <2>1, <2>2 DEF Promised!HuskAfter
  <2> QED BY <2>3, <2>4, Fairly
<1>7. CASE op = "restore" /\ ClawRestores(h)
  <2>0. h.recycle # "listed" /\ ("data" \notin Was.older)
    BY <1>0, <1>7 DEF ClawRestores, ClawRested, ClawApart, Admitted
  <2>1. CASE h.home = {}
    BY <1>7, <2>0, <2>1, <1>0, ClawUnchanged DEF ClawRestores
  <2>2. CASE h.home = Parts
    <3>1. Found.product = "openclaw" /\ Found.runtime \in {"archived", "broken"}
      BY <1>0, <1>7, <2>0, ClawLooks DEF Found, ClawRestores, ClawFit, Container
    <3>2. RuntimeOf(h) \in {"up", "stopped", "broken"} /\ HuskOf(h) = TRUE
      BY <1>0, <1>7, <2>0, <2>2, ClawLooks DEF ClawRestores, Container
    <3>3. RuntimeOf(h) \in Promised!Fails(Found, op)
      BY <1>7, <3>1, <3>2 DEF Promised!Fails, Promised!RestoreFails, Promised!Deployed, Promised!Archived, Promised!Remains, Promised!Script
    <3>5. HuskOf(h) \in Promised!HuskAfter(Found, op, RuntimeOf(h), FALSE)
      BY <1>7, <3>1, <3>2, ScriptRestoreLeaves, Zenon
    <3> QED BY <3>3, <3>5, Fairly
  <2> QED BY <1>0, <1>7, <2>1, <2>2 DEF ClawRestores
<1>8. CASE op = "purge_deleted" /\ ClawEmpties(h)
  <2>0. h.recycle # "listed" /\ row = "deleted" /\ ClawApart(Was)
    BY <1>0, <1>8 DEF ClawEmpties, ClawRested, Admitted
  <2>1. CASE Was.bin = {}
    BY <1>0, <1>8, <2>0, <2>1, ClawUnchanged DEF ClawEmpties
  <2>2. CASE Was.bin = Parts
    <3>1. /\ Found.product = "openclaw" /\ HuskOf(h) = TRUE /\ Found.husk \in BOOLEAN
          /\ \/ Found.runtime = "archived" /\ RuntimeOf(h) = "none"
             \/ Found.runtime = "broken" /\ RuntimeOf(h) = "broken"
      BY <1>0, <1>8, <2>0, <2>2, ClawLooks DEF Found, ClawEmpties, ClawApart, ClawFit, Container
    <3>3. RuntimeOf(h) \in Promised!Fails(Found, op)
      BY <1>8, <3>1 DEF Promised!Fails, Promised!Archived
    <3>4. HuskOf(h) \in Promised!HuskAfter(Found, op, RuntimeOf(h), FALSE)
      BY <1>8, <3>1 DEF Promised!HuskAfter, Promised!Script, Promised!Remains
    <3> QED BY <3>3, <3>4, Fairly
  <2> QED BY <2>1, <2>2 DEF ClawFit
<1> QED BY <1>1, <1>2, <1>3, <1>4, <1>5, <1>6, <1>7, <1>8 DEF ClawLeaves, ClawRequest

LEMMA ClawGood ==
  ASSUME product = "openclaw", ~CleanedUp, ClawFit(Was), ClawRested(Was, row), Admitted(op), op \in ClawRequest,
         NEW h, ClawDone(h)
  PROVE  EndsWell(h)
<1>0. Was.recycle # "listed" /\ Parts = {"user"} /\ Found.product = "openclaw"
  BY DEF ClawFit, Parts, PartsOf, Found
<1>1. CASE op \in {"start", "stop", "restart", "update_version", "set_model_provider", "install_skill", "set_basic_auth"}
  <2>1. DataAs(h) /\ h.recycle # "listed"
    BY <1>0, <1>1 DEF ClawDone, ClawServes, CoreAs, DataAs
  <2>2. HuskOf(h) = HuskOf(Was)
    BY <1>0, <2>1, ClawLooks DEF DataAs
  <2>3. /\ op # "set_basic_auth" => RuntimeOf(Was) \in {"up", "stopped", "broken"}
        /\ op \in {"start", "restart"} => RuntimeOf(h) \in IF RuntimeOf(Was) = "broken" THEN {"up", "broken"} ELSE {"up"}
        /\ op = "stop" => RuntimeOf(h) \in IF RuntimeOf(Was) = "broken" THEN {"stopped", "broken"} ELSE {"stopped"}
        /\ op \in {"update_version", "set_model_provider", "install_skill", "set_basic_auth"} => RuntimeOf(h) = RuntimeOf(Was)
    BY <1>0, <1>1, <2>1, ClawLooks DEF ClawDone, ClawServes, CoreAs, DataAs, Container, ClawFit
  <2>4. RuntimeOf(h) \in Promised!Succeeds(Found, op)
    BY <1>0, <1>1, <2>3 DEF Found, Promised!Succeeds, Promised!Serves, Promised!Deployed, Promised!Remains, Promised!Script
  <2>5. HuskOf(h) \in Promised!HuskAfter(Found, op, RuntimeOf(h), TRUE)
    BY <1>1, <2>2 DEF Found, Promised!HuskAfter
  <2> QED BY <2>4, <2>5, Fairly
<1>2. CASE op = "delete"
  <2>1. ClawBuries(h) /\ h.home = {} /\ ClawDeletes(h)
    BY <1>2 DEF ClawDone, ClawDeletes
  <2>2. /\ RuntimeOf(h) \in Promised!Succeeds(Found, "delete") \/ RuntimeOf(h) \in Promised!Slackens(Found, "delete")
        /\ HuskOf(h) \in Promised!HuskAfter(Found, "delete", RuntimeOf(h), TRUE)
    BY <1>2, <2>1, ClawTaken, ClawDeleteEnds
  <2> QED BY <1>2, <2>2, Fairly
<1>3. CASE op = "create"
  <2>1. Found.runtime = "none" /\ Found.husk = FALSE
    BY <1>3, ClawTaken
  <2>2. RuntimeOf(h) = "up" /\ HuskOf(h) = FALSE
    BY <1>3, ClawLooks DEF ClawDone, ClawCreates
  <2>3. RuntimeOf(h) \in Promised!Succeeds(Found, op)
    BY <1>3, <2>1, <2>2 DEF Promised!Succeeds, Promised!CreateEnds
  <2>4. HuskOf(h) \in Promised!HuskAfter(Found, op, RuntimeOf(h), TRUE)
    BY <1>3, <2>1, <2>2 DEF Promised!HuskAfter
  <2> QED BY <2>3, <2>4, Fairly
<1>4. CASE op = "restore"
  <2>1. ClawRestores(h) /\ h.home = Parts /\ h.main = "running" /\ h.recycle # "listed" /\ "data" \notin Was.older
    BY <1>0, <1>4 DEF ClawDone, ClawRestores, ClawRested, ClawApart, Admitted
  <2>2. Found.runtime \in {"archived", "broken"}
    BY <1>0, <2>1, ClawLooks DEF Found, ClawRestores, ClawFit, Container
  <2>3. RuntimeOf(h) = "up" /\ HuskOf(h) = TRUE
    BY <1>0, <2>1, ClawLooks DEF ClawRestores
  <2>4. RuntimeOf(h) \in Promised!Succeeds(Found, op)
    BY <1>0, <1>4, <2>2, <2>3 DEF Found, Promised!Succeeds, Promised!RestoreEnds, Promised!Remains, Promised!Script, Promised!Halfway
  <2>5. HuskOf(h) \in Promised!HuskAfter(Found, op, RuntimeOf(h), TRUE)
    <3>1. RuntimeOf(h) \in {"up", "stopped", "broken"}
      BY <2>3
    <3> QED BY <1>0, <1>4, <2>3, <3>1, ScriptRestoreLeaves, Zenon
  <2> QED BY <2>4, <2>5, Fairly
<1>5. CASE op = "purge_deleted"
  <2>1. ClawPurges(h) /\ ClawApart(Was)
    BY <1>5 DEF ClawDone, ClawRested, Admitted
  <2>2. h.recycle # "listed"
    BY <2>1 DEF ClawPurges
  <2>3. /\ Found.husk \in BOOLEAN /\ HuskOf(h) \in BOOLEAN
        /\ \/ Found.runtime = "archived" /\ RuntimeOf(h) = "none" /\ HuskOf(h) = Found.husk
           \/ Found.runtime = "buried" /\ RuntimeOf(h) \in {"archived", "buried"} /\ Found.husk = TRUE
           \/ Found.runtime \in {"up", "stopped", "none", "broken"} /\ RuntimeOf(h) = Found.runtime /\ Found.husk = TRUE
           \/ Found.runtime = "broken" /\ RuntimeOf(h) = "broken" /\ HuskOf(h) = Found.husk
    <3>1. CASE Was.older = {} /\ h.older = {} /\ h.bin = {} /\ h.recycle = "none"
      BY <1>0, <2>1, <2>2, <3>1, ClawLooks DEF Found, ClawPurges, ClawApart, ClawFit, Container
    <3>2. ASSUME NEW k \in Was.older, h.older \in {Was.older, Was.older \ {k}}, h.recycle = "dir", h.bin = IF k = "data" THEN Parts ELSE {}
          PROVE  \/ Found.runtime = "archived" /\ RuntimeOf(h) = "none" /\ HuskOf(h) = Found.husk
                 \/ Found.runtime = "buried" /\ RuntimeOf(h) \in {"archived", "buried"} /\ Found.husk = TRUE
                 \/ Found.runtime \in {"up", "stopped", "none", "broken"} /\ RuntimeOf(h) = Found.runtime /\ Found.husk = TRUE
                 \/ Found.runtime = "broken" /\ RuntimeOf(h) = "broken" /\ HuskOf(h) = Found.husk
      <4>1. k \in {"data", "empty"}
        BY <3>2 DEF ClawFit
      <4>2. CASE k = "data"
        BY <1>0, <2>1, <2>2, <3>2, <4>2, ClawLooks DEF Found, ClawPurges, ClawApart, ClawFit, Container
      <4>3. CASE k = "empty"
        <5>1. /\ h.bin = {} /\ h.recycle = "dir" /\ "empty" \in Was.older /\ Was.recycle # "none" /\ h.home = Was.home /\ h.main = Was.main
              /\ "data" \in h.older <=> "data" \in Was.older
          BY <2>1, <3>2, <4>3 DEF ClawPurges
        <5>2. HuskOf(h) = TRUE /\ Found.husk = TRUE
          BY <1>0, <2>2, <5>1, ClawLooks DEF Found
        <5> QED BY <1>0, <2>1, <2>2, <5>1, <5>2, ClawLooks DEF Found, ClawApart, ClawFit, Container
      <4> QED BY <4>1, <4>2, <4>3
    <3>3. Found.husk \in BOOLEAN /\ HuskOf(h) \in BOOLEAN
      BY <1>0, <2>2, ClawLooks DEF Found
    <3> QED BY <2>1, <3>1, <3>2, <3>3 DEF ClawPurges
  <2>4. RuntimeOf(h) \in Promised!Succeeds(Found, op)
    BY <1>0, <1>5, <2>3 DEF Promised!Succeeds, Promised!PurgeEnds, Promised!Archived, Promised!Script
  <2>5. HuskOf(h) \in Promised!HuskAfter(Found, op, RuntimeOf(h), TRUE)
    BY <1>5, <2>3 DEF Promised!HuskAfter, Promised!Archived
  <2> QED BY <2>4, <2>5, Fairly
<1> QED BY <1>1, <1>2, <1>3, <1>4, <1>5 DEF ClawRequest

------------------------------------------------------------------------------
(* OpenClaw: where a running operation stands *)

CEnable  == {"enable", "enable.reload", "enable.undo", "enable.again"}
CDisable == {"disable", "disable.reload", "disable.undo", "disable.again"}
CSkills  == {"skills", "skills.aside", "skills.put", "skills.back"}
CStart   == {"start", "start.link", "start.enable", "start.stop"}
CStop    == {"stop", "stop.main", "stop.enable"}
CUpdate  == {"update.file", "update.run", "update.wait", "update.undo", "update.undo.data", "update.undo.run"}
CDelete  == {"delete", "delete.unlink", "delete.down", "delete.net", "delete.entry"}
CDelete2 == {"delete.move", "delete.conf", "delete.mapping", "delete.apply", "delete.reload", "delete.row",
             "delete.written"}
CCreate  == {"create", "create.port", "create.files", "create.conf", "create.mapping", "create.run", "create.link",
             "create.publish", "create.reload", "create.retract"}
CCreateUndo == {"create.undo", "create.undo.run", "create.undo.net", "create.undo.mapping", "create.undo.conf",
                "create.undo.files"}
CRestore == {"restore.move", "restore.net", "restore.conf", "restore.mapping", "restore.run", "restore.link",
             "restore.apply", "restore.test", "restore.reload", "restore.undo", "restore.undo.conf",
             "restore.undo.apply", "restore.row", "restore.written"}
CInstall == {"skills.check", "skills.snap", "skills.again", "skills.run", "skills.end", "skills.failed",
             "skills.stop", "skills.stopped"}
CAuth    == {"set_basic_auth", "auth.script", "auth.reload", "auth.undo.script", "auth.raised.script", "auth.undo",
             "auth.undo.reload", "auth.raised", "auth.raised.reload"}

\* which function a step belongs to
LEMMA ClawFunctions ==
  /\ EnableConf => pc \in CEnable
  /\ DisableConf => pc \in CDisable
  /\ ClawStart => pc \in CStart
  /\ ClawStop => pc \in CStop
  /\ ClawRestart => pc = "restart"
  /\ ClawCreate => pc \in CCreate
  /\ ClawCreateUndo => pc \in CCreateUndo
  /\ ClawDelete => pc \in CDelete \cup CDelete2
  /\ ClawRestore => pc \in CRestore \cup {"restore"}
  /\ ClawPurge => pc \in {"purge_deleted", "purge.tree"}
  /\ ClawUpdate => pc \in CUpdate \cup {"update_version", "update.look"}
  /\ InstallSkill => pc \in CInstall \cup {"install_skill"}
  /\ RestoreSkills => pc \in CSkills
  /\ BasicAuth => pc \in CAuth
<1> USE DEF Runs, Tries, Reads, Writes, Decides, Calls, Moves
<1>1. (EnableConf => pc \in CEnable) /\ (DisableConf => pc \in CDisable)
  BY DEF EnableConf, DisableConf, CEnable, CDisable
<1>2. (ClawStart => pc \in CStart) /\ (ClawStop => pc \in CStop) /\ (ClawRestart => pc = "restart")
  BY DEF ClawStart, ClawStop, ClawRestart, CStart, CStop
<1>3. (ClawCreate => pc \in CCreate) /\ (ClawCreateUndo => pc \in CCreateUndo)
  BY DEF ClawCreate, ClawCreateUndo, CCreate, CCreateUndo
<1>4. ClawDelete => pc \in CDelete \cup CDelete2
  BY DEF ClawDelete, CDelete, CDelete2
<1>5. ClawRestore => pc \in CRestore \cup {"restore"}
  BY DEF ClawRestore, CRestore
<1>6. (ClawPurge => pc \in {"purge_deleted", "purge.tree"}) /\ (ClawUpdate => pc \in CUpdate \cup {"update_version", "update.look"})
  BY DEF ClawPurge, ClawUpdate, CUpdate
<1>7. (InstallSkill => pc \in CInstall \cup {"install_skill"}) /\ (RestoreSkills => pc \in CSkills)
  BY DEF InstallSkill, Verified, RestoreSkills, CInstall, CSkills
<1>8. BasicAuth => pc \in CAuth
  BY DEF BasicAuth, CAuth
<1> QED BY <1>1, <1>2, <1>3, <1>4, <1>5, <1>6, <1>7, <1>8

\* the site, whoever enables or disables it
LEMMA ClawEnabling ==
  ASSUME DOMAIN host = Fields, EnableConf
  PROVE  /\ Aside(host')
         /\ \E t \in CEnable \cup {"ok", "fail", "raise"} : To(t, kept)
<1> USE DEF CEnable
<1>1. CASE "active" \in host.conf /\ Decides("enable", "ok", kept)
  BY <1>1, Effects DEF Decides
<1>2. CASE host.conf = {} /\ Decides("enable", "fail", kept)
  BY <1>2, Effects DEF Decides
<1>3. CASE Writes("enable", [host EXCEPT !.conf = {"active"}], {}, "enable.reload", "raise")
  BY <1>3 DEF Writes, Fields, Aside, Beside
<1>4. CASE Runs("enable.reload", Reloaded, {}, "ok", "enable.undo", "raise")
  BY <1>4, Effects DEF Runs
<1>5. CASE Writes("enable.undo", [host EXCEPT !.conf = {"disabled"}], {}, "enable.again", "raise")
  BY <1>5 DEF Writes, Fields, Aside, Beside
<1>6. CASE Tries("enable.again", Reloaded, kept, "fail", "raise")
  BY <1>6, Effects DEF Tries
<1> QED BY <1>1, <1>2, <1>3, <1>4, <1>5, <1>6 DEF EnableConf

LEMMA ClawDisabling ==
  ASSUME DOMAIN host = Fields, DisableConf
  PROVE  /\ Aside(host')
         /\ \E t \in CDisable \cup {"ok", "fail", "raise"} : To(t, kept)
<1> USE DEF CDisable
<1>1. CASE "active" \notin host.conf /\ Decides("disable", "ok", kept)
  BY <1>1, Effects DEF Decides
<1>2. CASE host.conf = {"active", "disabled"} /\ Decides("disable", "fail", kept)
  BY <1>2, Effects DEF Decides
<1>3. CASE Writes("disable", [host EXCEPT !.conf = {"disabled"}], {}, "disable.reload", "raise")
  BY <1>3 DEF Writes, Fields, Aside, Beside
<1>4. CASE Runs("disable.reload", Reloaded, {}, "ok", "disable.undo", "raise")
  BY <1>4, Effects DEF Runs
<1>5. CASE Writes("disable.undo", [host EXCEPT !.conf = {"active"}], {}, "disable.again", "raise")
  BY <1>5 DEF Writes, Fields, Aside, Beside
<1>6. CASE Tries("disable.again", Reloaded, kept, "fail", "raise")
  BY <1>6, Effects DEF Tries
<1> QED BY <1>1, <1>2, <1>3, <1>4, <1>5, <1>6 DEF DisableConf

LEMMA ClawServesOn ==
  ASSUME ClawServes(host), NEW h, Aside(h)
  PROVE  ClawServes(h) /\ h.main = host.main
BY DEF ClawServes, DataAs, Aside, Beside

Stops(c) == Caller(c, "start.stop", "raise")
CStarts ==
  \/ pc \in {"start", "start.stop"} /\ stack = <<>>
  \/ pc \in {"start.link", "start.enable"} /\ stack = <<>> /\ host.main = "running"
  \/ pc \in CEnable /\ stack = <<Stops("ok")>> /\ host.main = "running"

LEMMA ClawStarting ==
  ASSUME DOMAIN host = Fields, ClawServes(host), CStarts, ClawStart \/ EnableConf
  PROVE  ClawServes(host') /\ ((CStarts' /\ Onward) \/ Closes(host'.main = "running"))
<1> USE DEF Results, Onward, Closes, Container
<1>1. CASE EnableConf
  <2>1. pc \in CEnable /\ stack = <<Stops("ok")>> /\ host.main = "running"
    BY <1>1, ClawFunctions DEF CStarts, CEnable
  <2>2. ClawServes(host') /\ host'.main = "running"
    BY <1>1, <2>1, ClawEnabling, ClawServesOn
  <2>3. PICK t \in CEnable \cup {"ok", "fail", "raise"} : To(t, kept)
    BY <1>1, ClawEnabling
  <2>4. CASE t \in CEnable
    <3>1. Went(t, stack, kept)
      BY <2>3, <2>4, Within DEF CEnable
    <3> QED BY <2>1, <2>2, <2>4, <3>1 DEF CStarts, Went, CEnable, Stops, Caller
  <2>5. CASE t \in {"ok", "fail", "raise"}
    <3>1. Answer(Stops("ok"), t) = IF t = "ok" THEN "ok" ELSE IF t = "fail" THEN "start.stop" ELSE "raise"
      BY <2>5, Answers DEF Stops
    <3>2. IF t = "fail" THEN Went("start.stop", <<>>, kept) ELSE Ended(t)
      BY <2>1, <2>3, <2>5, <3>1, OneCaller
    <3> QED BY <2>2, <2>5, <3>2 DEF CStarts, Went
  <2> QED BY <2>3, <2>4, <2>5
<1>2. CASE ClawStart
  <2>0. stack = <<>> /\ (pc \in {"start.link", "start.enable"} => host.main = "running")
    BY <1>2, ClawFunctions DEF CStarts, CEnable, CStart
  <2>1. \A t, k : To(t, k) => IF t \in Results THEN Ended(t) ELSE Went(t, <<>>, k)
    BY <2>0, Alone
  <2> USE DEF ClawServes, DataAs, Aside, Beside, CStarts, Went
  <2>2. CASE Runs("start", Started("main"), {}, "start.link", "fail", "raise")
    BY <2>1, <2>2, MainEffects, Effects DEF Runs
  <2>3. CASE Runs("start.link", {[host EXCEPT !.linked = TRUE]}, {}, "start.enable", "start.stop", "raise")
    BY <2>0, <2>1, <2>3 DEF Runs, Fields
  <2>4. CASE Calls("start.enable", "enable", kept, "ok", "start.stop", "raise")
    <3>1. host' = host /\ Went("enable", <<Stops("ok")>>, kept) /\ pc = "start.enable"
      BY <2>0, <2>4, CallsFrom DEF Stops
    <3> QED BY <2>0, <3>1 DEF CEnable, Stops, Caller
  <2>5. CASE Tries("start.stop", Stopped("main"), kept, "fail", "raise")
    BY <2>1, <2>5, MainEffects, Effects DEF Tries
  <2> QED BY <1>2, <2>2, <2>3, <2>4, <2>5 DEF ClawStart
<1> QED BY <1>1, <1>2

CStops ==
  \/ pc \in CStop /\ stack = <<>>
  \/ pc \in CDisable /\ stack = <<Caller("stop.main", "fail", "raise")>>
  \/ pc \in CEnable /\ stack = <<Caller("fail", "fail", "raise")>>

LEMMA ClawStopping ==
  ASSUME DOMAIN host = Fields, ClawServes(host), CStops, ClawStop \/ EnableConf \/ DisableConf
  PROVE  ClawServes(host') /\ ((CStops' /\ Onward) \/ Closes(host'.main = "stopped"))
<1> USE DEF Results, Onward, Closes, Container
<1>1. CASE EnableConf
  <2>1. pc \in CEnable /\ stack = <<Caller("fail", "fail", "raise")>>
    BY <1>1, ClawFunctions DEF CStops, CEnable, CDisable, CStop
  <2>2. ClawServes(host')
    BY <1>1, <2>1, ClawEnabling, ClawServesOn
  <2>3. PICK t \in CEnable \cup {"ok", "fail", "raise"} : To(t, kept)
    BY <1>1, ClawEnabling
  <2>4. CASE t \in CEnable
    <3>1. Went(t, stack, kept)
      BY <2>3, <2>4, Within DEF CEnable
    <3> QED BY <2>1, <2>2, <2>4, <3>1 DEF CStops, Went, CEnable, Caller
  <2>5. CASE t \in {"ok", "fail", "raise"}
    <3>1. Answer(Caller("fail", "fail", "raise"), t) \in {"fail", "raise"}
      BY <2>5, Answers
    <3>2. \E r \in {"fail", "raise"} : Ended(r)
      BY <2>1, <2>3, <2>5, <3>1, OneCaller
    <3> QED BY <2>2, <2>5, <3>2
  <2> QED BY <2>3, <2>4, <2>5
<1>2. CASE DisableConf
  <2>1. pc \in CDisable /\ stack = <<Caller("stop.main", "fail", "raise")>>
    BY <1>2, ClawFunctions DEF CStops, CEnable, CDisable, CStop
  <2>2. ClawServes(host')
    BY <1>2, <2>1, ClawDisabling, ClawServesOn
  <2>3. PICK t \in CDisable \cup {"ok", "fail", "raise"} : To(t, kept)
    BY <1>2, ClawDisabling
  <2>4. CASE t \in CDisable
    <3>1. Went(t, stack, kept)
      BY <2>3, <2>4, Within DEF CDisable
    <3> QED BY <2>1, <2>2, <2>4, <3>1 DEF CStops, Went, CDisable, Caller
  <2>5. CASE t \in {"ok", "fail", "raise"}
    <3>1. Answer(Caller("stop.main", "fail", "raise"), t) = IF t = "ok" THEN "stop.main" ELSE t
      BY <2>5, Answers
    <3>2. IF t = "ok" THEN Went("stop.main", <<>>, kept) ELSE Ended(t)
      BY <2>1, <2>3, <2>5, <3>1, OneCaller
    <3> QED BY <2>2, <2>5, <3>2 DEF CStops, CStop, Went
  <2> QED BY <2>3, <2>4, <2>5
<1>3. CASE ClawStop
  <2>0. stack = <<>>
    BY <1>3, ClawFunctions DEF CStops, CEnable, CDisable, CStop
  <2>1. \A t, k : To(t, k) => IF t \in Results THEN Ended(t) ELSE Went(t, <<>>, k)
    BY <2>0, Alone
  <2> USE DEF ClawServes, DataAs, Aside, Beside, CStops, Went
  <2>2. CASE Calls("stop", "disable", kept, "stop.main", "fail", "raise")
    <3>1. host' = host /\ Went("disable", <<Caller("stop.main", "fail", "raise")>>, kept)
      BY <2>0, <2>2, CallsFrom
    <3> QED BY <2>0, <3>1 DEF CDisable, Caller
  <2>3. CASE Runs("stop.main", Stopped("main"), {}, "ok", "stop.enable", "raise")
    BY <2>0, <2>1, <2>3, MainEffects, Effects DEF Runs, CStop
  <2>4. CASE Calls("stop.enable", "enable", kept, "fail", "fail", "raise")
    <3>1. host' = host /\ Went("enable", <<Caller("fail", "fail", "raise")>>, kept)
      BY <2>0, <2>4, CallsFrom
    <3> QED BY <2>0, <3>1 DEF CEnable, Caller
  <2> QED BY <1>3, <2>2, <2>3, <2>4 DEF ClawStop
<1> QED BY <1>1, <1>2, <1>3

\* restart, by the request or by a change of the model provider
LEMMA ClawRestarting ==
  ASSUME DOMAIN host = Fields, ClawServes(host), pc = "restart", stack = <<>>, ClawRestart
  PROVE  ClawServes(host') /\ Closes(host'.main = "running")
<1> USE DEF ClawServes, DataAs, Aside, Beside, Container, Results, Closes
<1>1. \A t, k : To(t, k) => IF t \in Results THEN Ended(t) ELSE Went(t, <<>>, k)
  BY Alone
<1>2. Runs("restart", Started("main"), {}, "ok", "fail", "raise")
  BY DEF ClawRestart
<1> QED BY <1>1, <1>2, MainEffects, Effects DEF Runs

CSets ==
  \/ Sets
  \/ pc = "restart" /\ stack = <<Passing>> /\ host.main = "running"

LEMMA ClawSetting ==
  ASSUME product = "openclaw", DOMAIN host = Fields, CoreAs(host), CSets, ClawProvider \/ ClawRestart
  PROVE  CoreAs(host') /\ ((CSets' /\ Onward) \/ Closes(host'.main = "running"))
<1>1. CASE ClawProvider
  <2>1. pc \in Providing
    <3>1. Calls("provider.restart", "restart", kept, "ok", "fail", "raise") => pc \in Providing
      BY DEF Calls, Providing
    <3> QED BY <1>1, <3>1, ClawProvides DEF Provides
  <2>2. Sets
    BY <2>1 DEF CSets, Providing
  <2>3. CASE Provides(ProvideSteps)
    <3>1. CoreAs(host') /\ ((Sets' /\ Onward) \/ Closes(Up'))
      BY <2>2, <2>3, ProvidesOn
    <3>2. Closes(Up') => Closes(host'.main = "running")
      BY DEF Closes, Up
    <3> QED BY <3>1, <3>2 DEF CSets
  <2>4. CASE Calls("provider.restart", "restart", kept, "ok", "fail", "raise")
    <3>1. host' = host /\ Went("restart", <<Passing>>, kept) /\ pc = "provider.restart"
      BY <2>2, <2>4, CallsFrom DEF Sets, Passing
    <3>2. host.main = "running"
      BY <2>2, <3>1 DEF Sets, Up
    <3>3. CoreAs(host') /\ CSets'
      BY <3>1, <3>2 DEF CoreAs, DataAs, CSets, Went, Passing, Caller
    <3> QED BY <3>1, <3>3 DEF Onward, Went
  <2> QED BY <1>1, <2>3, <2>4, ClawProvides
<1>2. CASE ClawRestart
  <2>1. pc = "restart" /\ stack = <<Passing>> /\ host.main = "running"
    BY <1>2, ClawFunctions DEF CSets, Sets, Providing
  <2>2. Runs("restart", Started("main"), {}, "ok", "fail", "raise")
    BY <1>2 DEF ClawRestart
  <2>3. CoreAs(host') /\ host'.main = "running"
    BY <2>1, <2>2, MainEffects, Effects DEF Runs, CoreAs, DataAs, Aside, Beside
  <2>4. \A t \in {"ok", "fail", "raise"} : Answer(Passing, t) = t
    BY Answers DEF Passing
  <2>5. \A t \in {"ok", "fail", "raise"} : \A k : To(t, k) => Ended(t)
    BY <2>1, <2>4, OneCaller DEF Results
  <2> QED BY <2>2, <2>3, <2>5 DEF Runs, Closes, Results
<1> QED BY <1>1, <1>2

------------------------------------------------------------------------------
(* OpenClaw: skills and Basic Auth, which are changed on what is there *)

LEMMA SkillEffects ==
  ASSUME DOMAIN host = Fields
  PROVE  /\ Aside(host) /\ Aside(Snapshot) /\ Aside(AuthBack)
         /\ \A x : Aside([host EXCEPT !.skills = x]) /\ Aside([host EXCEPT !.auth = x]) /\ Aside([host EXCEPT !.snap = x])
<1> USE DEF Aside, Beside, Fields
<1>1. Aside(host) /\ \A x : Aside([host EXCEPT !.skills = x]) /\ Aside([host EXCEPT !.auth = x]) /\ Aside([host EXCEPT !.snap = x])
  OBVIOUS
<1>2. Aside(Snapshot) /\ Aside(AuthBack)
  BY DEF Snapshot, AuthBack
<1> QED BY <1>1, <1>2

LEMMA SkillsRestoring ==
  ASSUME DOMAIN host = Fields, RestoreSkills
  PROVE  /\ Aside(host')
         /\ \E k : \E t \in CSkills \cup {"ok", "raise"} : To(t, k)
<1> USE DEF CSkills
<1>1. CASE Decides("skills", "skills.aside", Locals([was |-> host]))
  BY <1>1, Effects DEF Decides
<1>2. CASE Writes("skills.aside", [host EXCEPT !.skills = "none"], {}, "skills.put", "raise")
  BY <1>2 DEF Writes, Fields, Aside, Beside
<1>3. CASE Writes("skills.put", [host EXCEPT !.skills = host.snap], {}, "ok", "skills.back")
  BY <1>3 DEF Writes, Fields, Aside, Beside
<1>4. CASE Writes("skills.back", [host EXCEPT !.skills = kept.was.skills], {}, "raise", "raise")
  BY <1>4 DEF Writes, Fields, Aside, Beside
<1> QED BY <1>1, <1>2, <1>3, <1>4 DEF RestoreSkills

LEMMA CoreOn ==
  ASSUME CoreAs(host), NEW h, Aside(h)
  PROVE  CoreAs(h) /\ h.main = host.main
BY DEF CoreAs, DataAs, Aside, Beside

Restores(c) == Caller(c, "raise", "raise")
CInstalls ==
  \/ pc = "install_skill" /\ stack = <<>>
  \/ pc \in CInstall /\ stack = <<>> /\ host.main = "running"
  \/ pc \in CSkills /\ (\E c \in {"skills.run", "rolledback", "raise"} : stack = <<Restores(c)>>) /\ host.main = "running"

LEMMA SkillsInstalling ==
  ASSUME DOMAIN host = Fields, CoreAs(host), CInstalls, InstallSkill
  PROVE  CoreAs(host') /\ ((CInstalls' /\ Onward) \/ Closes(host'.main = "running"))
<1>0. stack = <<>> /\ (pc # "install_skill" => host.main = "running")
  BY ClawFunctions DEF CInstalls, CInstall, CSkills
<1>1. \A t, k : To(t, k) => IF t \in Results THEN Ended(t) ELSE Went(t, <<>>, k)
  BY <1>0, Alone
<1>2. ASSUME Aside(host'), NEW k, NEW t \in CInstall \cup {"ok", "fail", "raise"}, To(t, k),
             t # "fail" => host.main = "running"
      PROVE  CoreAs(host') /\ ((CInstalls' /\ Onward) \/ Closes(host'.main = "running"))
  <2>1. CoreAs(host') /\ host'.main = host.main
    BY <1>2, CoreOn
  <2>2. CASE t \in {"ok", "fail", "raise"}
    BY <1>1, <1>2, <2>1, <2>2 DEF Closes, Results
  <2>3. CASE t \in CInstall
    <3>1. Went(t, <<>>, k) /\ t # "idle"
      BY <1>1, <1>2, <2>3 DEF CInstall, Results
    <3> QED BY <1>2, <2>1, <2>3, <3>1 DEF CInstalls, CInstall, Went, Onward
  <2> QED BY <1>2, <2>2, <2>3
<1>3. ASSUME NEW at \in CInstall, NEW c \in {"skills.run", "rolledback", "raise"}, Calls(at, "skills", kept, c, "raise", "raise")
      PROVE  CoreAs(host') /\ CInstalls' /\ Onward
  <2>1. host' = host /\ Went("skills", <<Restores(c)>>, kept) /\ pc = at
    BY <1>0, <1>3, CallsFrom DEF Restores
  <2>2. host.main = "running"
    BY <1>0, <1>3, <2>1 DEF CInstall
  <2> QED BY <2>1, <2>2 DEF CoreAs, DataAs, CInstalls, CSkills, Went, Onward, Restores, Caller
<1>4. CASE Decides("install_skill", IF Up THEN "skills.check" ELSE "fail", kept)
  BY <1>2, <1>4, Effects DEF Decides, CInstall, Up
<1>5. CASE Verified("skills.snap")
  BY <1>0, <1>2, <1>5, Effects DEF Verified, Reads, CInstall
<1>6. CASE Writes("skills.snap", Snapshot, {}, IF host.snap = "unset" THEN "skills.run" ELSE "skills.again", "raise")
  BY <1>0, <1>2, <1>6, SkillEffects DEF Writes, CInstall
<1>7. CASE Calls("skills.again", "skills", kept, "skills.run", "raise", "raise")
  BY <1>3, <1>7 DEF CInstall
<1>8. CASE Runs("skills.run", {[host EXCEPT !.skills = "torn"]}, {}, "skills.end", "skills.failed", "skills.stop")
  <2>1. Aside(host')
    BY <1>8 DEF Runs, Fields, Aside, Beside
  <2> QED BY <1>0, <1>2, <1>8, <2>1 DEF Runs, CInstall
<1>9. CASE Runs("skills.end", {[host EXCEPT !.skills = Extended]}, {}, "ok", "skills.failed", "skills.stop")
  <2>1. Aside(host')
    BY <1>9 DEF Runs, Fields, Aside, Beside
  <2> QED BY <1>0, <1>2, <1>9, <2>1 DEF Runs, CInstall
<1>10. CASE Calls("skills.failed", "skills", kept, "rolledback", "raise", "raise")
  BY <1>3, <1>10 DEF CInstall
<1>11. CASE Runs("skills.stop", {host}, {}, "skills.stopped", "raise", "raise")
  BY <1>0, <1>2, <1>11, Effects DEF Runs, CInstall
<1>12. CASE Calls("skills.stopped", "skills", kept, "raise", "raise", "raise")
  BY <1>3, <1>12 DEF CInstall
<1> QED BY <1>4, <1>5, <1>6, <1>7, <1>8, <1>9, <1>10, <1>11, <1>12 DEF InstallSkill

LEMMA SkillsRestoringOn ==
  ASSUME DOMAIN host = Fields, CoreAs(host), CInstalls, RestoreSkills
  PROVE  CoreAs(host') /\ ((CInstalls' /\ Onward) \/ Closes(host'.main = "running"))
<1>1. pc \in CSkills /\ host.main = "running"
  BY ClawFunctions DEF CInstalls, CInstall, CSkills
<1>2. PICK c \in {"skills.run", "rolledback", "raise"} : stack = <<Restores(c)>>
  BY <1>1 DEF CInstalls, CInstall, CSkills
<1>3. CoreAs(host') /\ host'.main = "running"
  BY <1>1, SkillsRestoring, CoreOn
<1>4. PICK k, t : t \in CSkills \cup {"ok", "raise"} /\ To(t, k)
  BY SkillsRestoring
<1>5. CASE t \in CSkills
  <2>1. Went(t, stack, k) /\ t # "idle"
    BY <1>4, <1>5, Within DEF CSkills, Results
  <2>2. \E d \in {"skills.run", "rolledback", "raise"} : stack' = <<Restores(d)>>'
    BY <1>2, <2>1 DEF Went, Restores, Caller
  <2>3. CInstalls'
    BY <1>3, <1>5, <2>1, <2>2 DEF CInstalls, Went
  <2> QED BY <1>3, <2>1, <2>3 DEF Onward, Went
<1>6. CASE t \in {"ok", "raise"}
  <2>1. Answer(Restores(c), t) = IF t = "ok" THEN c ELSE "raise"
    BY <1>6, Answers DEF Restores
  <2>2. (IF t = "ok" THEN c ELSE "raise") \in {"skills.run", "rolledback", "raise"}
    BY <1>2
  <2>3. Went("skills.run", <<>>, k) \/ \E r \in {"rolledback", "raise"} : Ended(r)
    BY <1>2, <1>4, <1>6, <2>1, <2>2, OneCaller DEF Results
  <2> QED BY <1>3, <2>3 DEF CInstalls, CInstall, Went, Onward, Closes, Results
<1> QED BY <1>4, <1>5, <1>6

CAuths == pc \in CAuth /\ stack = <<>>

LEMMA ClawAuthorizing ==
  ASSUME DOMAIN host = Fields, CoreAs(host), CAuths, BasicAuth
  PROVE  CoreAs(host') /\ ((CAuths' /\ Onward) \/ Closes(TRUE))
<1>1. \A t, k : To(t, k) => IF t \in Results THEN Ended(t) ELSE Went(t, <<>>, k)
  BY Alone DEF CAuths
<1>2. ASSUME Aside(host'), NEW k, NEW t \in CAuth \cup Results, To(t, k)
      PROVE  CoreAs(host') /\ ((CAuths' /\ Onward) \/ Closes(TRUE))
  <2>1. CoreAs(host')
    BY <1>2, CoreOn
  <2>2. CASE t \in Results
    BY <1>1, <1>2, <2>1, <2>2 DEF Closes
  <2>3. CASE t \in CAuth
    <3>1. Went(t, <<>>, k) /\ t # "idle"
      BY <1>1, <1>2, <2>3 DEF CAuth, Results
    <3> QED BY <1>2, <2>1, <2>3, <3>1 DEF CAuths, Went, Onward
  <2> QED BY <1>2, <2>2, <2>3
<1> USE DEF CAuth, Results
<1>3. CASE Decides("set_basic_auth", IF "active" \in host.conf THEN "auth.script" ELSE "fail",
             Locals([was |-> host]))
  BY <1>2, <1>3, Effects DEF Decides
<1>4. CASE Runs("auth.script", {[host EXCEPT !.auth = ~@]}, {}, "auth.reload", "auth.undo.script", "auth.raised.script")
  <2>1. Aside(host')
    BY <1>4 DEF Runs, Fields, Aside, Beside
  <2> QED BY <1>2, <1>4, <2>1 DEF Runs
<1>5. CASE Runs("auth.reload", Reloaded, {}, "ok", "auth.undo", "auth.raised")
  BY <1>2, <1>5, Effects DEF Runs
<1>6. CASE Writes("auth.undo.script", AuthBack, {}, "rolledback", "raise")
  BY <1>2, <1>6, SkillEffects DEF Writes
<1>7. CASE Writes("auth.raised.script", AuthBack, {}, "raise", "raise")
  BY <1>2, <1>7, SkillEffects DEF Writes
<1>8. CASE Writes("auth.undo", AuthBack, {}, "auth.undo.reload", "raise")
  BY <1>2, <1>8, SkillEffects DEF Writes
<1>9. CASE Tries("auth.undo.reload", Reloaded, kept, "rolledback", "raise")
  BY <1>2, <1>9, Effects DEF Tries
<1>10. CASE Writes("auth.raised", AuthBack, {}, "auth.raised.reload", "raise")
  BY <1>2, <1>10, SkillEffects DEF Writes
<1>11. CASE Tries("auth.raised.reload", Reloaded, kept, "raise", "raise")
  BY <1>2, <1>11, Effects DEF Tries
<1> QED BY <1>3, <1>4, <1>5, <1>6, <1>7, <1>8, <1>9, <1>10, <1>11 DEF BasicAuth

------------------------------------------------------------------------------
(* OpenClaw: permanent deletion, and update *)

CPurges == pc \in {"purge_deleted", "purge.tree"} /\ stack = <<>> /\ (pc = "purge.tree" => host.recycle # "none")

LEMMA ClawPurging ==
  ASSUME DOMAIN host = Fields, CoreAs(host), CPurges, ClawPurge
  PROVE  \/ CoreAs(host') /\ CPurges' /\ Onward
         \/ \E r \in Results : Ended(r) /\ IF r = "ok" THEN ClawPurges(host') ELSE CoreAs(host') \/ ClawEmpties(host')
<1> USE DEF CPurges, Results, Onward
<1>1. \A t, k : To(t, k) => IF t \in Results THEN Ended(t) ELSE Went(t, <<>>, k)
  BY Alone
<1>2. CASE Decides("purge_deleted", IF host.recycle = "none" THEN "fail" ELSE "purge.tree", kept)
  BY <1>1, <1>2 DEF Decides, CoreAs, DataAs, Went
<1>3. CASE pc = "purge.tree" /\ host' \in Purged /\ To("ok", kept)
  <2>1. Ended("ok") /\ host.recycle # "none"
    BY <1>1, <1>3
  <2>2. CASE host.older = {}
    <3>1. host' = [host EXCEPT !.recycle = "none", !.bin = {}, !.site = FALSE]
      BY <1>3, <2>2 DEF Purged
    <3> QED BY <2>1, <2>2, <3>1 DEF ClawPurges, CoreAs, DataAs, Fields
  <2>3. CASE host.older # {}
    <3>1. PICK k \in host.older : host' \in {[Uncovered(k) EXCEPT !.older = @ \ gone] : gone \in {{}, {k}}}
      BY <1>3, <2>3 DEF Purged
    <3>2. PICK gone \in {{}, {k}} : host' = [Uncovered(k) EXCEPT !.older = @ \ gone]
      BY <3>1
    <3>3. /\ host'.older = host.older \ gone /\ host'.home = host.home /\ host'.main = host.main
          /\ host'.recycle = "dir" /\ host'.bin = IF k = "data" THEN Parts ELSE {}
      BY <3>2 DEF Uncovered, Fields
    <3>4. host'.older \in {host.older, host.older \ {k}}
      BY <3>2, <3>3
    <3> QED BY <2>1, <3>3, <3>4 DEF ClawPurges, CoreAs, DataAs
  <2> QED BY <2>2, <2>3
<1>4. CASE pc = "purge.tree" /\ host' \in {host, [host EXCEPT !.bin = {}, !.site = FALSE]} /\ To("fail", kept)
  <2>1. Ended("fail") /\ host.recycle # "none"
    BY <1>1, <1>4
  <2>2. CASE host' = host
    BY <2>1, <2>2 DEF CoreAs, DataAs
  <2>3. CASE host' = [host EXCEPT !.bin = {}, !.site = FALSE]
    BY <2>1, <2>3 DEF CoreAs, DataAs, ClawEmpties, Fields
  <2> QED BY <1>4, <2>2, <2>3
<1> QED BY <1>2, <1>3, <1>4 DEF ClawPurge

\* docker compose up
LEMMA ComposeEffects ==
  ASSUME DOMAIN host = Fields
  PROVE  /\ \A h \in Composed : Beside(h) /\ h.proxy = host.proxy /\ h.main = "running" /\ host.home = Parts
         /\ \A h \in HalfComposed : Beside(h) /\ h.proxy = host.proxy /\ h.main \in {"none", "stopped"}
<1> USE DEF Beside, Fields
<1>1. \A h \in Composed : Beside(h) /\ h.proxy = host.proxy /\ h.main = "running" /\ host.home = Parts
  BY DEF Composed
<1>2. \A h \in HalfComposed : Beside(h) /\ h.proxy = host.proxy /\ h.main \in {"none", "stopped"}
  BY DEF HalfComposed
<1> QED BY <1>1, <1>2

CUpdates ==
  /\ stack = <<>>
  /\ \/ pc = "update_version" /\ CoreAs(host)
     \/ pc = "update.look" /\ CoreAs(host) /\ host.home = Parts
     \/ pc \in CUpdate /\ ClawUpdates(host) /\ Was.main = "running"

LEMMA ClawUpdating ==
  ASSUME product = "openclaw", DOMAIN host = Fields, host.home \in {{}, Parts}, host.main \in Container, CUpdates, ClawUpdate
  PROVE  \/ CUpdates' /\ Onward /\ (CoreAs(host') \/ ClawUpdates(host'))
         \/ /\ CoreAs(host') \/ ClawUpdates(host')
            /\ Closes(DataAs(host') /\ host'.home = Parts /\ host'.main = Was.main)
<1> DEFINE Q == DataAs(host') /\ host'.home = Parts /\ host'.main = Was.main
<1>1. \A t, k : To(t, k) => IF t \in Results THEN Ended(t) ELSE Went(t, <<>>, k)
  BY Alone DEF CUpdates
<1>2. ASSUME CoreAs(host'), NEW k, NEW t \in {"fail", "ok", "raise", "update.look"}, To(t, k),
             t \in {"ok", "update.look"} => host'.home = Parts
      PROVE  (CUpdates' /\ Onward) \/ Closes(Q)
  <2>1. CASE t \in Results
    BY <1>1, <1>2, <2>1 DEF Closes, CoreAs
  <2>2. CASE t = "update.look"
    <3>1. Went(t, <<>>, k)
      BY <1>1, <1>2, <2>2 DEF Results
    <3>2. Parts' = Parts /\ CoreAs(host)' /\ Onward
      BY <1>2, <2>2, <3>1 DEF Went, Parts, CoreAs, DataAs, Was, Onward
    <3> QED BY <1>2, <2>2, <3>1, <3>2 DEF CUpdates, Went
  <2> QED BY <1>2, <2>1, <2>2 DEF Results
<1>3. ASSUME ClawUpdates(host'), Was.main = "running", NEW k, NEW t \in CUpdate \cup Results, To(t, k), t = "ok" => host'.main = "running"
      PROVE  (CUpdates' /\ Onward) \/ Closes(Q)
  <2>1. CASE t \in Results
    BY <1>1, <1>3, <2>1 DEF Closes, ClawUpdates
  <2>2. CASE t \in CUpdate
    <3>1. Went(t, <<>>, k) /\ t # "idle"
      BY <1>1, <1>3, <2>2 DEF Results, CUpdate
    <3>2. Parts' = Parts /\ Was' = Was /\ Onward
      BY <1>3, <2>2, <3>1 DEF Went, Parts, Was, Onward
    <3>3. ClawUpdates(host)'
      BY <1>3, <3>2 DEF ClawUpdates, DataAs
    <3> QED BY <1>3, <2>2, <3>1, <3>2, <3>3 DEF CUpdates, Went
  <2> QED BY <1>3, <2>1, <2>2
<1>4. pc \in CUpdate => ClawUpdates(host) /\ Was.main = "running"
  BY DEF CUpdates, CUpdate
<1>5. ASSUME pc \in CUpdate, NEW h, Beside(h), h.main \in Container
      PROVE  ClawUpdates(h)
  BY <1>4, <1>5 DEF ClawUpdates, DataAs, Beside
<1>6. CASE Decides("update_version", IF host.home = {} THEN "fail"
                               ELSE IF host.file = "new" THEN "ok" ELSE "update.look", kept)
  <2>1. CoreAs(host') /\ host' = host
    BY <1>6 DEF CUpdates, CUpdate, Decides
  <2> QED BY <1>2, <1>6, <2>1 DEF Decides
<1>7. CASE Reads("update.look", host.main = "running", Old, "update.file", "fail", "raise")
  <2>1. CoreAs(host') /\ host' = host /\ host.home = Parts /\ CoreAs(host)
    BY <1>7 DEF CUpdates, CUpdate, Reads
  <2>2. CASE host.main = "running" /\ To("update.file", Old)
    <3>1. ClawUpdates(host') /\ Was.main = "running"
      BY <2>1, <2>2 DEF ClawUpdates, CoreAs, DataAs
    <3> QED BY <1>3, <2>2, <3>1 DEF CUpdate
  <2>3. CASE \E k : \E t \in {"fail", "raise"} : To(t, k)
    BY <1>2, <2>1, <2>3
  <2> QED BY <1>7, <2>2, <2>3 DEF Reads
<1> USE DEF Results, Container, CUpdate
<1>8. CASE Writes("update.file", [host EXCEPT !.file = "new"], {}, "update.run", "update.undo")
  <2>1. Beside(host') /\ host'.main \in Container
    BY <1>8 DEF Writes, Fields, Beside
  <2> QED BY <1>3, <1>4, <1>5, <1>8, <2>1 DEF Writes
<1>9. CASE Runs("update.run", Composed, HalfComposed, "update.wait", "update.undo", "update.undo")
  <2>1. Beside(host') /\ host'.main \in Container
    BY <1>9, ComposeEffects, Effects DEF Runs, Aside
  <2> QED BY <1>3, <1>4, <1>5, <1>9, <2>1 DEF Runs
<1>10. CASE Reads("update.wait", AllUp({"main"}), kept, "ok", "update.undo", "update.undo")
  <2>1. Beside(host') /\ host' = host
    BY <1>10, Effects DEF Reads, Aside
  <2>2. AllUp({"main"}) => host.main = "running"
    BY DEF AllUp
  <2> QED BY <1>3, <1>4, <1>5, <1>10, <2>1, <2>2 DEF Reads
<1>11. CASE Writes("update.undo", [host EXCEPT !.file = kept.image], {}, "update.undo.data", "fail")
  <2>1. Beside(host') /\ host'.main \in Container
    BY <1>11 DEF Writes, Fields, Beside
  <2> QED BY <1>3, <1>4, <1>5, <1>11, <2>1 DEF Writes
<1>12. CASE Runs("update.undo.data", {host}, {}, "update.undo.run", "fail", "raise")
  <2>1. Beside(host') /\ host' = host
    BY <1>12, Effects DEF Runs, Aside
  <2> QED BY <1>3, <1>4, <1>5, <1>12, <2>1 DEF Runs
<1>13. CASE Runs("update.undo.run", Composed, HalfComposed, "rolledback", "fail", "raise")
  <2>1. Beside(host') /\ host'.main \in Container
    BY <1>13, ComposeEffects, Effects DEF Runs, Aside
  <2> QED BY <1>3, <1>4, <1>5, <1>13, <2>1 DEF Runs
<1>14. CoreAs(host') \/ ClawUpdates(host')
  <2>1. CASE pc \in CUpdate
    <3>1. Beside(host') /\ host'.main \in Container
      <4>0. ~Decides("update_version", IF host.home = {} THEN "fail"
                               ELSE IF host.file = "new" THEN "ok" ELSE "update.look", kept)
            /\ ~Reads("update.look", host.main = "running", Old, "update.file", "fail", "raise")
        BY <2>1 DEF Decides, Reads
      <4>1. CASE Writes("update.file", [host EXCEPT !.file = "new"], {}, "update.run", "update.undo")
        BY <4>1 DEF Writes, Fields, Beside
      <4>2. CASE \E a, b, c, d : Runs(a, Composed, HalfComposed, b, c, d)
        BY <4>2, ComposeEffects, Effects DEF Runs, Aside
      <4>3. CASE Reads("update.wait", AllUp({"main"}), kept, "ok", "update.undo", "update.undo")
        BY <4>3, Effects DEF Reads, Aside
      <4>4. CASE Writes("update.undo", [host EXCEPT !.file = kept.image], {}, "update.undo.data", "fail")
        BY <4>4 DEF Writes, Fields, Beside
      <4>5. CASE Runs("update.undo.data", {host}, {}, "update.undo.run", "fail", "raise")
        BY <4>5, Effects DEF Runs, Aside
      <4> QED BY <4>0, <4>1, <4>2, <4>3, <4>4, <4>5 DEF ClawUpdate
    <3> QED BY <1>5, <2>1, <3>1
  <2>2. CASE pc \notin CUpdate
    <3>1. CoreAs(host) /\ pc \in {"update_version", "update.look"}
      BY <2>2 DEF CUpdates
    <3>2. host' = host
      BY <3>1 DEF ClawUpdate, Decides, Reads, Writes, Runs
    <3> QED BY <3>1, <3>2 DEF CoreAs, DataAs
  <2> QED BY <2>1, <2>2
<1>15. (CUpdates' /\ Onward) \/ Closes(Q)
  BY <1>6, <1>7, <1>8, <1>9, <1>10, <1>11, <1>12, <1>13 DEF ClawUpdate
<1> QED BY <1>14, <1>15

------------------------------------------------------------------------------
(* OpenClaw: deletion, by the request or of what could not be published *)

DoomAt(p, h) ==
  \/ /\ p \in CDelete /\ ClawDooms(h)
     /\ p = "delete" => h.main = Doomed.main
     /\ p \in {"delete.unlink", "delete.down", "delete.net"} => h.home = Parts
  \/ /\ p \in CDelete2 /\ ClawBuries(h)
     /\ p # "delete.move" => h.home = {}
     /\ p = "delete.written" => op = "delete"
CDeletes == stack = Above /\ DoomAt(pc, host)

LEMMA ClawDoomed ==
  ASSUME Onward
  PROVE  /\ Was' = Was /\ Parts' = Parts /\ op' = op /\ pc' # "idle" /\ product' = product /\ Above' = Above /\ row' = row
         /\ Doomed' = Doomed /\ DoomedOlder' = DoomedOlder
         /\ ClawDeletes(host') => ClawDeletes(host)'
         /\ \A p : DoomAt(p, host') => DoomAt(p, host)'
<1>0. op' = op /\ before' = before /\ pc' # "idle" /\ product' = product /\ row' = row
  BY DEF Onward
<1>1. Was' = Was /\ Parts' = Parts /\ Above' = Above
  BY <1>0 DEF Was, Parts, Above, Retracting, Caller
<1>2. Doomed' = Doomed
  BY <1>0, <1>1 DEF Doomed
<1>3. DoomedOlder' = DoomedOlder
  BY <1>1, <1>2 DEF DoomedOlder
<1>4. (ClawDooms(host)' <=> ClawDooms(host')) /\ (ClawBuries(host)' <=> ClawBuries(host'))
  BY <1>1, <1>2, <1>3 DEF ClawDooms, ClawBuries
<1>5. \A p : DoomAt(p, host') => DoomAt(p, host)'
  BY <1>0, <1>1, <1>2, <1>4 DEF DoomAt
<1>6. ClawDeletes(host') => ClawDeletes(host)'
  BY <1>4 DEF ClawDeletes
<1> QED BY <1>0, <1>1, <1>2, <1>3, <1>5, <1>6

\* the steps of delete_user.sh
LEMMA ClawDoomSteps ==
  ASSUME product = "openclaw", DOMAIN host = Fields, host.bin \in {{}, Parts}, Doomed.home \in {{}, Parts}, Doomed.main \in Container,
         DoomAt(pc, host), ClawDelete, op \in {"delete", "create"}
  PROVE  \E k : \E t \in CDelete \cup CDelete2 \cup {"ok", "fail", "raise"} :
           /\ To(t, k) /\ ClawDeletes(host')
           /\ t \in CDelete \cup CDelete2 => DoomAt(t, host')
           /\ t = "ok" => ClawBuries(host') /\ host'.home = {}
<1> USE DEF CDelete, CDelete2
<1>0. Parts = {"user"} /\ Doomed.home \subseteq Parts
  BY DEF Parts, PartsOf
<1>1. pc \in CDelete => ClawDooms(host) /\ (pc \in {"delete.unlink", "delete.down", "delete.net"} => host.home = Parts)
  BY DEF DoomAt
<1>2. pc \in CDelete2 => /\ ClawBuries(host) /\ (pc # "delete.move" => host.home = {})
                         /\ pc = "delete.written" => op = "delete"
  BY DEF DoomAt
<1>3. ASSUME pc \in CDelete, NEW h, Beside(h), h.main = host.main \/ (h.main = "none" /\ host.home = Parts)
      PROVE  ClawDooms(h) /\ h.home = host.home
  BY <1>1, <1>3 DEF ClawDooms, Beside
<1>4. ASSUME pc \in CDelete2, NEW h, Aside(h)
      PROVE  ClawBuries(h) /\ h.home = host.home
  BY <1>2, <1>4 DEF ClawBuries, Aside, Beside
<1>5. ASSUME NEW k, NEW t \in {"delete.unlink", "delete.down", "delete.net", "delete.entry", "raise", "fail"}, To(t, k),
             ClawDooms(host'), t \in {"delete.unlink", "delete.down", "delete.net"} => host'.home = Parts
      PROVE  \E kk : \E tt \in CDelete \cup CDelete2 \cup {"ok", "fail", "raise"} :
           /\ To(tt, kk) /\ ClawDeletes(host')
           /\ tt \in CDelete \cup CDelete2 => DoomAt(tt, host')
           /\ tt = "ok" => ClawBuries(host') /\ host'.home = {}
  BY <1>5 DEF ClawDeletes, DoomAt
<1>6. ASSUME NEW k, NEW t \in CDelete2 \cup {"ok", "raise", "fail"}, To(t, k),
             ClawBuries(host'), t \notin {"delete.move", "fail", "raise"} => host'.home = {}, t = "delete.written" => op = "delete"
      PROVE  \E kk : \E tt \in CDelete \cup CDelete2 \cup {"ok", "fail", "raise"} :
           /\ To(tt, kk) /\ ClawDeletes(host')
           /\ tt \in CDelete \cup CDelete2 => DoomAt(tt, host')
           /\ tt = "ok" => ClawBuries(host') /\ host'.home = {}
  BY <1>6 DEF ClawDeletes, DoomAt
<1>7. CASE Decides("delete", IF host.home = Parts THEN "delete.unlink" ELSE "delete.entry", kept)
  <2>1. host' = host /\ ClawDooms(host')
    BY <1>1, <1>7 DEF Decides
  <2> QED BY <1>5, <1>7, <2>1 DEF Decides
<1>8. CASE Tries("delete.unlink", {[host EXCEPT !.linked = FALSE]}, kept, "delete.down", "raise")
  <2>1. Beside(host') /\ host'.main = host.main
    BY <1>8 DEF Tries, Fields, Beside
  <2> QED BY <1>1, <1>3, <1>5, <1>8, <2>1 DEF Tries
<1>9. CASE Tries("delete.down", Removed({"main"}), kept, "delete.net", "raise")
  <2>1. Beside(host') /\ host'.main \in {host.main, "none"} /\ host.home = Parts
    BY <1>1, <1>9, MainEffects, Effects DEF Tries, Aside
  <2> QED BY <1>1, <1>3, <1>5, <1>9, <2>1 DEF Tries
<1>10. CASE Tries("delete.net", Unneeded, kept, "delete.entry", "raise")
  <2>1. Beside(host') /\ host'.main = host.main
    BY <1>10, Effects DEF Tries, Aside
  <2> QED BY <1>1, <1>3, <1>5, <1>10, <2>1 DEF Tries
<1>11. CASE Writes("delete.entry", NewEntry, {}, "delete.move", "fail")
  <2>1. CASE host' = host /\ To("fail", kept)
    BY <1>1, <1>5, <1>11, <2>1 DEF Writes
  <2>2. CASE host' = NewEntry /\ To("delete.move", kept)
    <3>1. /\ host'.recycle = "dir" /\ host'.bin = {} /\ host'.home = host.home /\ host'.main = host.main
          /\ host'.older = host.older \cup (IF host.recycle = "none" THEN {}
                     ELSE IF host.bin = Parts THEN {"data"} ELSE {"empty"})
      BY <2>2 DEF NewEntry, Fields
    <3>2. ClawDooms(host)
      BY <1>1, <1>11 DEF Writes
    <3>3. ClawBuries(host')
      BY <3>1, <3>2 DEF ClawDooms, ClawBuries, DoomedOlder
    <3> QED BY <1>6, <2>2, <3>3
  <2> QED BY <1>11, <2>1, <2>2 DEF Writes
<1>12. CASE Moves("delete.move", host.home, "home", "bin", "delete.conf", "fail")
  <2>0. pc = "delete.move" /\ ClawBuries(host)
    <3>1. pc = "delete.move"
      BY <1>12 DEF Moves, Writes
    <3> QED BY <1>2, <3>1
  <2>1. host.home \in SUBSET Parts
    BY <1>0, <2>0 DEF ClawBuries
  <2>2. /\ Carried(host')
        /\ \/ host' = host /\ host.home = {} /\ To("delete.conf", kept)
           \/ host' = host /\ To("fail", kept)
           \/ /\ First(host.home) \in host.home /\ To("delete.move", kept)
              /\ host'.home = host.home \ {First(host.home)} /\ host'.bin = host.bin \cup {First(host.home)}
    BY <1>12, <2>1, MovesOn
  <2>3. CASE host' = host
    BY <1>6, <2>0, <2>2, <2>3
  <2>4. CASE /\ First(host.home) \in host.home /\ To("delete.move", kept)
             /\ host'.home = host.home \ {First(host.home)} /\ host'.bin = host.bin \cup {First(host.home)}
    <3>1. ClawBuries(host')
      BY <2>0, <2>2, <2>4 DEF ClawBuries, Carried
    <3> QED BY <1>6, <2>4, <3>1
  <2> QED BY <2>2, <2>3, <2>4
<1>13. CASE Writes("delete.conf", SiteMoved, {}, "delete.mapping", "fail")
  <2>1. Aside(host')
    BY <1>13 DEF Writes, SiteMoved, Fields, Aside, Beside
  <2> QED BY <1>2, <1>4, <1>6, <1>13, <2>1 DEF Writes
<1>14. CASE Writes("delete.mapping", [host EXCEPT !.mapped = FALSE], {}, "delete.apply", "fail")
  <2>1. Aside(host')
    BY <1>14 DEF Writes, Fields, Aside, Beside
  <2> QED BY <1>2, <1>4, <1>6, <1>14, <2>1 DEF Writes
<1>15. CASE Runs("delete.apply", Applied, Applied, "delete.reload", "fail", "raise")
  <2>1. Aside(host')
    BY <1>15, Effects DEF Runs
  <2> QED BY <1>2, <1>4, <1>6, <1>15, <2>1 DEF Runs
<1>16. CASE Runs("delete.reload", Reloaded, {}, "delete.row", "fail", "raise")
  <2>1. Aside(host')
    BY <1>16, Effects DEF Runs
  <2> QED BY <1>2, <1>4, <1>6, <1>16, <2>1 DEF Runs
<1>17. CASE Decides("delete.row", IF op = "create" THEN "ok" ELSE "delete.written", kept)
  <2>1. host' = host /\ pc = "delete.row"
    BY <1>17 DEF Decides
  <2>2. op # "create" => op = "delete"
    OBVIOUS
  <2> QED BY <1>2, <1>6, <1>17, <2>1, <2>2 DEF Decides
<1>18. CASE Tries("delete.row", {host}, kept, "ok", "raise")
  <2>1. host' = host /\ pc = "delete.row"
    BY <1>18 DEF Tries
  <2> QED BY <1>2, <1>6, <1>18, <2>1 DEF Tries
<1>19. CASE Decides("delete.written", "ok", kept)
  <2>1. host' = host /\ pc = "delete.written"
    BY <1>19 DEF Decides
  <2> QED BY <1>2, <1>6, <1>19, <2>1 DEF Decides
<1> QED BY <1>7, <1>8, <1>9, <1>10, <1>11, <1>12, <1>13, <1>14, <1>15, <1>16, <1>17, <1>18, <1>19 DEF ClawDelete

LEMMA ClawDeleting ==
  ASSUME product = "openclaw", DOMAIN host = Fields, ClawFit(host), ClawFit(Doomed), CDeletes, ClawDelete, op \in {"delete", "create"}
  PROVE  /\ ClawDeletes(host')
         /\ (CDeletes' /\ Onward) \/ Closes(op = "delete" /\ ClawBuries(host') /\ host'.home = {})
<1>1. PICK k, t :
           /\ t \in CDelete \cup CDelete2 \cup {"ok", "fail", "raise"}
           /\ To(t, k) /\ ClawDeletes(host')
           /\ t \in CDelete \cup CDelete2 => DoomAt(t, host')
           /\ t = "ok" => ClawBuries(host') /\ host'.home = {}
  BY ClawDoomSteps DEF ClawFit, CDeletes
<1>2. CASE t \in {"ok", "fail", "raise"}
  <2>1. Ended(Final(t))
    BY <1>1, <1>2, AboveOnly DEF CDeletes, Results
  <2>2. Final(t) \in Results /\ (Final(t) = "ok" => t = "ok" /\ op = "delete")
    BY <1>2, Finals DEF Results
  <2> QED BY <1>1, <2>1, <2>2 DEF Closes
<1>3. CASE t \in CDelete \cup CDelete2
  <2>1. Went(t, Above, k) /\ t # "idle"
    BY <1>1, <1>3, AboveOnly DEF CDeletes, Results, CDelete, CDelete2
  <2>2. Onward
    BY <2>1 DEF Onward, Went
  <2>3. CDeletes'
    BY <1>1, <1>3, <2>1, <2>2, ClawDoomed DEF CDeletes, Went
  <2> QED BY <1>1, <2>2, <2>3
<1> QED BY <1>1, <1>2, <1>3

------------------------------------------------------------------------------
(* OpenClaw: creation, and what is done when it fails *)

ClawCreateAt(p, h) ==
  /\ p \in {"create.conf", "create.mapping", "create.run"} => h.home = Parts
  /\ p \in {"create.link", "create.publish", "create.reload", "create.retract", "ok"} => h.home = Parts /\ h.main = "running"

CCreates ==
  \/ pc \in CCreate \cup CCreateUndo /\ stack = <<>> /\ ClawCreates(host) /\ ClawCreateAt(pc, host)
  \/ CDeletes

LEMMA ClawCreateMoves ==
  ASSUME DOMAIN host = Fields, ClawCreates(host), ClawCreateAt(pc, host), ClawCreate \/ ClawCreateUndo
  PROVE  /\ ClawCreates(host')
         /\ \/ \E k : \E t \in CCreate \cup CCreateUndo \cup {"ok", "fail", "raise", "rolledback"} : To(t, k) /\ ClawCreateAt(t, host')
            \/ Calls("create.retract", "delete", NoLocals, "rolledback", "manual", "raise")
<1> USE DEF ClawCreates, Container, CCreate, CCreateUndo, ClawCreateAt, Aside, Beside
<1>1. CASE Runs("create", {[host EXCEPT !.net = TRUE]}, {}, "create.port", "fail", "raise")
  BY <1>1 DEF Runs, Fields
<1>2. CASE Runs("create.port", {host}, {}, "create.files", "fail", "raise")
  BY <1>2 DEF Runs, Fields
<1>3. CASE Writes("create.files", [host EXCEPT !.home = Parts, !.file = "old"], {}, "create.conf", "create.undo")
  <2>1. \/ host' = host /\ To("create.undo", kept)
        \/ host' = [host EXCEPT !.home = Parts, !.file = "old"] /\ To("create.conf", kept)
    BY <1>3 DEF Writes
  <2>2. CASE host' = host /\ To("create.undo", kept)
    BY <2>2
  <2>3. CASE host' = [host EXCEPT !.home = Parts, !.file = "old"] /\ To("create.conf", kept)
    <3>1. Carried(host') /\ host'.home = Parts /\ host'.bin = host.bin
      BY <2>3 DEF Carried, Fields
    <3>2. ClawCreates(host') /\ ClawCreateAt("create.conf", host')
      BY <3>1 DEF Carried
    <3> QED BY <2>3, <3>2
  <2> QED BY <2>1, <2>2, <2>3
<1>4. CASE Writes("create.conf", [host EXCEPT !.conf = {"active"}], {}, "create.mapping", "create.undo")
  BY <1>4 DEF Writes, Fields
<1>5. CASE Writes("create.mapping", [host EXCEPT !.mapped = TRUE], {}, "create.run", "create.undo")
  BY <1>5 DEF Writes, Fields
<1>6. CASE Runs("create.run", Composed, HalfComposed, "create.link", "create.undo", "raise")
  BY <1>6, ComposeEffects, Effects DEF Runs
<1>7. CASE Runs("create.link", {[host EXCEPT !.linked = TRUE]}, {}, "create.publish", "create.undo", "raise")
  BY <1>7 DEF Runs, Fields
<1>8. CASE Runs("create.publish", Applied, Applied, "create.reload", "create.retract", "raise")
  BY <1>8, Effects DEF Runs
<1>9. CASE Runs("create.reload", Reloaded, {}, "ok", "create.retract", "raise")
  BY <1>9, Effects DEF Runs
<1>10. CASE Calls("create.retract", "delete", NoLocals, "rolledback", "manual", "raise")
  BY <1>10, CallsFrom
<1>11. CASE Tries("create.undo", {[host EXCEPT !.linked = FALSE]}, kept, "create.undo.run", "raise")
  BY <1>11 DEF Tries, Fields
<1>12. CASE Tries("create.undo.run", Removed({"main"}), kept, "create.undo.net", "raise")
  BY <1>12, MainEffects, Effects DEF Tries
<1>13. CASE Tries("create.undo.net", Unneeded, kept, "create.undo.mapping", "raise")
  BY <1>13, Effects DEF Tries
<1>14. CASE Tries("create.undo.mapping", {[host EXCEPT !.mapped = FALSE]}, kept, "create.undo.conf", "raise")
  BY <1>14 DEF Tries, Fields
<1>15. CASE Writes("create.undo.conf", [host EXCEPT !.conf = {}], {}, "create.undo.files", "fail")
  BY <1>15 DEF Writes, Fields
<1>16. CASE Writes("create.undo.files", [host EXCEPT !.home = {}, !.file = "unset"], {}, "rolledback", "fail")
  <2>1. \/ host' = host /\ To("fail", kept)
        \/ host' = [host EXCEPT !.home = {}, !.file = "unset"] /\ To("rolledback", kept)
    BY <1>16 DEF Writes
  <2>2. CASE host' = host /\ To("fail", kept)
    BY <2>2
  <2>3. CASE host' = [host EXCEPT !.home = {}, !.file = "unset"] /\ To("rolledback", kept)
    <3>1. Carried(host') /\ host'.home = {} /\ host'.bin = host.bin
      BY <2>3 DEF Carried, Fields
    <3>2. ClawCreates(host') /\ ClawCreateAt("rolledback", host')
      BY <3>1 DEF Carried
    <3> QED BY <2>3, <3>2
  <2> QED BY <2>1, <2>2, <2>3
<1> QED BY <1>1, <1>2, <1>3, <1>4, <1>5, <1>6, <1>7, <1>8, <1>9, <1>10, <1>11, <1>12, <1>13, <1>14, <1>15, <1>16
        DEF ClawCreate, ClawCreateUndo

LEMMA ClawCreating ==
  ASSUME product = "openclaw", op = "create", DOMAIN host = Fields, ClawFit(host), ClawFit(Doomed), CCreates,
         ClawCreate \/ ClawCreateUndo \/ ClawDelete
  PROVE  /\ ClawCreates(host') \/ ClawDeletes(host')
         /\ (CCreates' /\ Onward) \/ Closes(ClawCreates(host') /\ host'.home = Parts /\ host'.main = "running")
<1>1. CASE CDeletes
  <2>1. ClawDelete
    <3>1. pc \in CDelete \cup CDelete2
      BY <1>1 DEF CDeletes, DoomAt
    <3> QED BY <3>1, ClawFunctions DEF CDelete, CDelete2, CCreate, CCreateUndo
  <2>2. /\ ClawDeletes(host')
        /\ (CDeletes' /\ Onward) \/ Closes(op = "delete" /\ ClawBuries(host') /\ host'.home = {})
    BY <1>1, <2>1, ClawDeleting
  <2> QED BY <2>2 DEF CCreates, Closes
<1>2. CASE pc \in CCreate \cup CCreateUndo /\ stack = <<>> /\ ClawCreates(host) /\ ClawCreateAt(pc, host)
  <2>1. ClawCreate \/ ClawCreateUndo
    BY <1>2, ClawFunctions DEF CDelete, CDelete2, CCreate, CCreateUndo
  <2>2. ClawCreates(host')
    BY <1>2, <2>1, ClawCreateMoves
  <2>3. ASSUME NEW k, NEW t \in CCreate \cup CCreateUndo \cup {"ok", "fail", "raise", "rolledback"}, To(t, k), ClawCreateAt(t, host')
        PROVE  (CCreates' /\ Onward) \/ Closes(ClawCreates(host') /\ host'.home = Parts /\ host'.main = "running")
    <3>1. CASE t \in {"ok", "fail", "raise", "rolledback"}
      <4>1. Ended(t) /\ t \in Results
        BY <1>2, <2>3, <3>1, NoCaller DEF Results
      <4> QED BY <2>2, <2>3, <4>1 DEF Closes, ClawCreateAt
    <3>2. CASE t \in CCreate \cup CCreateUndo
      <4>1. Went(t, <<>>, k) /\ t # "idle"
        BY <1>2, <2>3, <3>2, Within DEF Results, CCreate, CCreateUndo
      <4>2. Parts' = Parts /\ Onward
        BY <4>1 DEF Went, Parts, Onward
      <4>3. ClawCreates(host)' /\ ClawCreateAt(pc, host)'
        BY <2>2, <2>3, <4>1, <4>2 DEF ClawCreates, ClawCreateAt, Went
      <4> QED BY <3>2, <4>1, <4>2, <4>3 DEF CCreates, Went
    <3> QED BY <2>3, <3>1, <3>2
  <2>4. CASE Calls("create.retract", "delete", NoLocals, "rolledback", "manual", "raise")
    <3>1. host' = host /\ Went("delete", <<Retracting>>, NoLocals) /\ pc = "create.retract"
      BY <1>2, <2>4, CallsFrom DEF Retracting
    <3>2. Onward /\ Above = <<Retracting>>
      BY <3>1 DEF Went, Onward, Above
    <3>3. ClawDooms(host) /\ host.main = Doomed.main
      BY <1>2, <3>1 DEF ClawCreates, ClawCreateAt, ClawDooms, Doomed
    <3>4. DoomAt("delete", host')
      BY <3>1, <3>3 DEF DoomAt, CDelete
    <3>5. CDeletes'
      BY <3>1, <3>2, <3>4, ClawDoomed DEF CDeletes, Went
    <3> QED BY <2>2, <3>2, <3>5 DEF CCreates
  <2> QED BY <1>2, <2>1, <2>2, <2>3, <2>4, ClawCreateMoves
<1> QED BY <1>1, <1>2 DEF CCreates

------------------------------------------------------------------------------
(* OpenClaw: restore *)

ClawRestoreAt(p, h) ==
  /\ ClawRestores(h)
  /\ p \notin {"restore.move", "fail", "raise"} => h.home = Parts
  /\ p \in {"restore.link", "restore.apply", "restore.test", "restore.reload", "restore.row", "restore.written", "ok"} => h.main = "running"
CRestores ==
  /\ stack = <<>>
  /\ \/ pc = "restore" /\ CoreAs(host)
     \/ pc \in CRestore /\ ClawRestoreAt(pc, host)

LEMMA ClawRestoreMoves ==
  ASSUME product = "openclaw", DOMAIN host = Fields, host.main \in Container, Was.main \in Container,
         pc \in CRestore, ClawRestoreAt(pc, host), ClawRestore
  PROVE  \E k : \E t \in CRestore \cup {"ok", "fail", "raise"} : To(t, k) /\ ClawRestoreAt(t, host')
<1>0. Parts = {"user"}
  BY DEF Parts, PartsOf
<1>1. ASSUME Aside(host'), NEW k, NEW t \in CRestore \cup {"ok", "fail", "raise"}, To(t, k),
             t \notin {"restore.move", "fail", "raise"} => host.home = Parts,
             t \in {"restore.link", "restore.apply", "restore.test", "restore.reload", "restore.row", "restore.written", "ok"} => host.main = "running"
      PROVE  \E kk : \E tt \in CRestore \cup {"ok", "fail", "raise"} : To(tt, kk) /\ ClawRestoreAt(tt, host')
  <2>1. ClawRestores(host') /\ host'.home = host.home /\ host'.main = host.main
    BY <1>1 DEF ClawRestoreAt, ClawRestores, Aside, Beside
  <2> QED BY <1>1, <2>1 DEF ClawRestoreAt
<1>2. /\ pc \notin {"restore.move"} => host.home = Parts
      /\ pc \in {"restore.link", "restore.apply", "restore.test", "restore.reload", "restore.row", "restore.written"} => host.main = "running"
  BY DEF ClawRestoreAt, CRestore
<1> USE DEF CRestore
<1>3. CASE Moves("restore.move", host.bin, "bin", "home", "restore.net", "fail")
  <2>0. ClawRestores(host) /\ host.bin \in SUBSET Parts
    BY DEF ClawRestoreAt, ClawRestores
  <2>1. /\ Carried(host')
        /\ \/ host' = host /\ host.bin = {} /\ To("restore.net", kept)
           \/ host' = host /\ To("fail", kept)
           \/ /\ First(host.bin) \in host.bin /\ To("restore.move", kept)
              /\ host'.bin = host.bin \ {First(host.bin)} /\ host'.home = host.home \cup {First(host.bin)}
    <3>1. product \in {"openclaw", "hermes", "evoscientist"} /\ <<"bin", "home">> \in {<<"home", "bin">>, <<"bin", "home">>}
      OBVIOUS
    <3> QED BY <1>3, <2>0, <3>1, MovesOn
  <2>2. CASE host' = host
    <3>1. ClawRestores(host') /\ (host.bin = {} => host'.home = Parts)
      BY <1>0, <2>0, <2>2 DEF ClawRestores
    <3> QED BY <2>1, <2>2, <3>1 DEF ClawRestoreAt
  <2>3. CASE /\ First(host.bin) \in host.bin /\ To("restore.move", kept)
             /\ host'.bin = host.bin \ {First(host.bin)} /\ host'.home = host.home \cup {First(host.bin)}
    <3>1. host'.home = Parts /\ host'.bin = {}
      BY <1>0, <2>0, <2>3 DEF ClawRestores
    <3>2. ClawRestores(host')
      BY <2>0, <2>1, <3>1 DEF ClawRestores, Carried
    <3> QED BY <2>3, <3>2 DEF ClawRestoreAt
  <2> QED BY <2>1, <2>2, <2>3
<1>4. CASE Runs("restore.net", {[host EXCEPT !.net = TRUE]}, {}, "restore.conf", "fail", "raise")
  <2>1. Aside(host')
    BY <1>4 DEF Runs, Fields, Aside, Beside
  <2> QED BY <1>1, <1>2, <1>4, <2>1 DEF Runs
<1>5. CASE Writes("restore.conf", [host EXCEPT !.conf = @ \cup {"active"}, !.site = FALSE], {}, "restore.mapping", "fail")
  <2>1. Aside(host')
    BY <1>5 DEF Writes, Fields, Aside, Beside
  <2> QED BY <1>1, <1>2, <1>5, <2>1 DEF Writes
<1>6. CASE Writes("restore.mapping", [host EXCEPT !.mapped = TRUE], {}, "restore.run", "fail")
  <2>1. Aside(host')
    BY <1>6 DEF Writes, Fields, Aside, Beside
  <2> QED BY <1>1, <1>2, <1>6, <2>1 DEF Writes
<1>7. CASE Runs("restore.run", Composed, HalfComposed, "restore.link", "fail", "raise")
  <2>1. /\ Beside(host') /\ host'.main \in Container
        /\ \/ \E k : To("restore.link", k) /\ host'.main = "running"
           \/ \E k : \E t \in {"fail", "raise"} : To(t, k)
    BY <1>7, ComposeEffects, Effects DEF Runs, Aside, Container
  <2>2. ClawRestores(host') /\ host'.home = Parts
    <3>1. ClawRestores(host) /\ host.home = Parts
      BY <1>2, <1>7 DEF ClawRestoreAt, Runs
    <3> QED BY <1>0, <2>1, <3>1 DEF ClawRestores, Beside
  <2> QED BY <2>1, <2>2 DEF ClawRestoreAt
<1>8. CASE Runs("restore.link", {[host EXCEPT !.linked = TRUE]}, {}, "restore.apply", "fail", "raise")
  <2>1. Aside(host')
    BY <1>8 DEF Runs, Fields, Aside, Beside
  <2> QED BY <1>1, <1>2, <1>8, <2>1 DEF Runs
<1>9. CASE Runs("restore.apply", Applied, Applied, "restore.test", "fail", "raise")
  <2>1. Aside(host')
    BY <1>9, Effects DEF Runs
  <2> QED BY <1>1, <1>2, <1>9, <2>1 DEF Runs
<1>10. CASE Runs("restore.test", {host}, {}, "restore.reload", "restore.undo", "raise")
  <2>1. Aside(host')
    BY <1>10, Effects DEF Runs
  <2> QED BY <1>1, <1>2, <1>10, <2>1 DEF Runs
<1>11. CASE Runs("restore.reload", Reloaded, {}, "restore.row", "fail", "raise")
  <2>1. Aside(host')
    BY <1>11, Effects DEF Runs
  <2> QED BY <1>1, <1>2, <1>11, <2>1 DEF Runs
<1>12. CASE Writes("restore.undo", [host EXCEPT !.mapped = FALSE], {}, "restore.undo.conf", "fail")
  <2>1. Aside(host')
    BY <1>12 DEF Writes, Fields, Aside, Beside
  <2> QED BY <1>1, <1>2, <1>12, <2>1 DEF Writes
<1>13. CASE Writes("restore.undo.conf", [host EXCEPT !.conf = @ \ {"active"}, !.site = TRUE], {},
            "restore.undo.apply", "fail")
  <2>1. Aside(host')
    BY <1>13 DEF Writes, Fields, Aside, Beside
  <2> QED BY <1>1, <1>2, <1>13, <2>1 DEF Writes
<1>14. CASE Tries("restore.undo.apply", Applied, kept, "fail", "raise")
  <2>1. Aside(host')
    BY <1>14, Effects DEF Tries
  <2> QED BY <1>1, <1>2, <1>14, <2>1 DEF Tries
<1>15. CASE Decides("restore.row", "restore.written", kept)
  <2>1. Aside(host')
    BY <1>15, Effects DEF Decides
  <2> QED BY <1>1, <1>2, <1>15, <2>1 DEF Decides
<1>16. CASE Tries("restore.row", {host}, kept, "ok", "raise")
  <2>1. Aside(host')
    BY <1>16, Effects DEF Tries
  <2> QED BY <1>1, <1>2, <1>16, <2>1 DEF Tries
<1>17. CASE Decides("restore.written", "ok", kept)
  <2>1. Aside(host')
    BY <1>17, Effects DEF Decides
  <2> QED BY <1>1, <1>2, <1>17, <2>1 DEF Decides
<1>18. ~Decides("restore", IF Restorable THEN "restore.move" ELSE "fail", kept)
  BY DEF Decides
<1> QED BY <1>3, <1>4, <1>5, <1>6, <1>7, <1>8, <1>9, <1>10, <1>11, <1>12, <1>13, <1>14, <1>15, <1>16, <1>17, <1>18 DEF ClawRestore

LEMMA ClawRestoring ==
  ASSUME product = "openclaw", DOMAIN host = Fields, host.main \in Container, Was.main \in Container, CRestores, ClawRestore
  PROVE  /\ CoreAs(host') \/ ClawRestores(host')
         /\ (CRestores' /\ Onward) \/ Closes(ClawRestores(host') /\ host'.home = Parts /\ host'.main = "running")
<1>1. \A t, k : To(t, k) => IF t \in Results THEN Ended(t) ELSE Went(t, <<>>, k)
  BY Alone DEF CRestores
<1>2. ASSUME NEW k, NEW t \in CRestore \cup {"ok", "fail", "raise"}, To(t, k), ClawRestoreAt(t, host')
      PROVE  /\ ClawRestores(host')
             /\ (CRestores' /\ Onward) \/ Closes(ClawRestores(host') /\ host'.home = Parts /\ host'.main = "running")
  <2>1. ClawRestores(host')
    BY <1>2 DEF ClawRestoreAt
  <2>2. CASE t \in {"ok", "fail", "raise"}
    BY <1>1, <1>2, <2>1, <2>2 DEF Closes, Results, ClawRestoreAt
  <2>3. CASE t \in CRestore
    <3>1. Went(t, <<>>, k) /\ t # "idle"
      BY <1>1, <1>2, <2>3 DEF Results, CRestore
    <3>2. Parts' = Parts /\ Was' = Was /\ Onward
      BY <3>1 DEF Went, Parts, Was, Onward
    <3>3. ClawRestoreAt(pc, host)'
      BY <1>2, <3>1, <3>2 DEF ClawRestoreAt, ClawRestores, Went
    <3> QED BY <2>1, <2>3, <3>1, <3>2, <3>3 DEF CRestores, Went
  <2> QED BY <1>2, <2>2, <2>3
<1>3. CASE pc = "restore" /\ CoreAs(host)
  <2>1. Decides("restore", IF Restorable THEN "restore.move" ELSE "fail", kept)
    BY <1>3 DEF ClawRestore, Runs, Writes, Tries, Moves, Decides
  <2>2. host' = host /\ CoreAs(host')
    BY <1>3, <2>1 DEF Decides, CoreAs, DataAs
  <2>3. CASE Restorable
    <3>1. ClawRestoreAt("restore.move", host')
      BY <1>3, <2>2, <2>3 DEF Restorable, CoreAs, DataAs, ClawRestoreAt, ClawRestores
    <3> QED BY <1>2, <2>1, <2>3, <2>2, <3>1 DEF Decides, CRestore
  <2>4. CASE ~Restorable
    BY <1>1, <2>1, <2>2, <2>4 DEF Decides, Results, Closes
  <2> QED BY <2>3, <2>4
<1>4. CASE pc \in CRestore /\ ClawRestoreAt(pc, host)
  BY <1>2, <1>4, ClawRestoreMoves
<1> QED BY <1>3, <1>4 DEF CRestores

------------------------------------------------------------------------------
(* OpenClaw: every request *)

ClawUnder ==
  CASE op = "start"              -> ClawServes(host) /\ CStarts
    [] op = "stop"               -> ClawServes(host) /\ CStops
    [] op = "restart"            -> ClawServes(host) /\ pc = "restart" /\ stack = <<>>
    [] op = "update_version"     -> CUpdates
    [] op = "set_model_provider" -> CoreAs(host) /\ CSets
    [] op = "install_skill"      -> CoreAs(host) /\ CInstalls
    [] op = "set_basic_auth"     -> CoreAs(host) /\ CAuths
    [] op = "purge_deleted"      -> CoreAs(host) /\ CPurges
    [] op = "delete"             -> CDeletes
    [] op = "create"             -> CCreates
    [] op = "restore"            -> CRestores

ClawWorks  == ClawStep \/ ClawProvider \/ InstallSkill \/ RestoreSkills \/ BasicAuth
ClawGoes   == ClawUnder' /\ Onward /\ ClawLeaves(host')
ClawCloses == \E r \in Results : Ended(r) /\ IF r = "ok" THEN ClawDone(host') ELSE ClawLeaves(host')

LEMMA ClawStays ==
  ASSUME Onward
  PROVE  /\ Was' = Was /\ Parts' = Parts /\ op' = op /\ pc' # "idle" /\ product' = product /\ row' = row
         /\ ClawLeaves(host') => ClawLeaves(host)'
         /\ ClawServes(host') => ClawServes(host)'
         /\ CoreAs(host') => CoreAs(host)'
<1>1. /\ Was' = Was /\ Parts' = Parts /\ op' = op /\ pc' # "idle" /\ product' = product /\ row' = row
      /\ Doomed' = Doomed /\ DoomedOlder' = DoomedOlder
  BY ClawDoomed
<1>2. /\ ClawServes(host') => ClawServes(host)'
      /\ CoreAs(host') => CoreAs(host)'
      /\ ClawUpdates(host') => ClawUpdates(host)'
      /\ ClawCreates(host') => ClawCreates(host)'
      /\ ClawRestores(host') => ClawRestores(host)'
      /\ ClawEmpties(host') => ClawEmpties(host)'
  BY <1>1 DEF ClawServes, CoreAs, DataAs, ClawUpdates, ClawCreates, ClawRestores, ClawEmpties
<1>3. ClawLeaves(host') => ClawLeaves(host)'
  BY <1>1 DEF ClawLeaves, ClawServes, CoreAs, DataAs, ClawUpdates, ClawCreates, ClawRestores, ClawEmpties,
       ClawDeletes, ClawDooms, ClawBuries
<1> QED BY <1>1, <1>2, <1>3

\* which function works
LEMMA ClawWhere ==
  ASSUME DOMAIN host = Fields, ClawWorks
  PROVE  /\ pc \in CStart => ClawStart
         /\ pc \in CStop => ClawStop
         /\ pc \in CEnable => EnableConf
         /\ pc \in CDisable => DisableConf
         /\ pc = "restart" => ClawRestart
         /\ pc \in CUpdate \cup {"update_version", "update.look"} => ClawUpdate
         /\ pc \in Providing => ClawProvider
         /\ pc \in CInstall \cup {"install_skill"} => InstallSkill
         /\ pc \in CSkills => RestoreSkills
         /\ pc \in CAuth => BasicAuth
         /\ pc \in {"purge_deleted", "purge.tree"} => ClawPurge
         /\ pc \in CDelete \cup CDelete2 => ClawDelete
         /\ pc \in CCreate \cup CCreateUndo => ClawCreate \/ ClawCreateUndo
         /\ pc \in CRestore \cup {"restore"} => ClawRestore
         /\ pc # "idle"
<1>1. ClawProvider => pc \in Providing
  BY ClawProvides, CallsFrom DEF Provides, Providing
<1> QED BY <1>1, ClawFunctions DEF ClawWorks, ClawStep, CEnable, CDisable, CSkills, CStart, CStop, CUpdate, CDelete, CDelete2, CCreate, CCreateUndo, CRestore, CInstall, CAuth, Providing

LEMMA ClawOn ==
  ASSUME product = "openclaw", op \in ClawRequest, DOMAIN host = Fields,
         ClawFit(host), ClawFit(Was), op \in {"delete", "create"} => ClawFit(Doomed), ClawUnder, ClawWorks
  PROVE  ClawGoes \/ ClawCloses
<1>1. CASE op = "start"
  <2>1. ClawServes(host) /\ CStarts
    BY <1>1 DEF ClawUnder
  <2>2. ClawStart \/ EnableConf
    BY <2>1, ClawWhere DEF CStarts, CStart
  <2>3. ClawServes(host') /\ ((CStarts' /\ Onward) \/ Closes(host'.main = "running"))
    BY <1>1, <2>1, <2>2, ClawStarting DEF ClawFit
  <2> QED BY <1>1, <2>3, ClawStays DEF ClawGoes, ClawCloses, ClawUnder, ClawLeaves, ClawDone, Closes
<1>2. CASE op = "stop"
  <2>1. ClawServes(host) /\ CStops
    BY <1>2 DEF ClawUnder
  <2>2. ClawStop \/ EnableConf \/ DisableConf
    BY <2>1, ClawWhere DEF CStops
  <2>3. ClawServes(host') /\ ((CStops' /\ Onward) \/ Closes(host'.main = "stopped"))
    BY <1>2, <2>1, <2>2, ClawStopping DEF ClawFit
  <2> QED BY <1>2, <2>3, ClawStays DEF ClawGoes, ClawCloses, ClawUnder, ClawLeaves, ClawDone, Closes
<1>3. CASE op = "restart"
  <2>1. ClawServes(host) /\ pc = "restart" /\ stack = <<>>
    BY <1>3 DEF ClawUnder
  <2>2. ClawRestart
    BY <2>1, ClawWhere
  <2>3. ClawServes(host') /\ Closes(host'.main = "running")
    BY <1>3, <2>1, <2>2, ClawRestarting DEF ClawFit
  <2> QED BY <1>3, <2>3, ClawStays DEF ClawGoes, ClawCloses, ClawUnder, ClawLeaves, ClawDone, Closes
<1>4. CASE op = "update_version"
  <2>1. CUpdates
    BY <1>4 DEF ClawUnder
  <2>2. ClawUpdate
    BY <2>1, ClawWhere DEF CUpdates
  <2>3. \/ CUpdates' /\ Onward /\ (CoreAs(host') \/ ClawUpdates(host'))
        \/ /\ CoreAs(host') \/ ClawUpdates(host')
           /\ Closes(DataAs(host') /\ host'.home = Parts /\ host'.main = Was.main)
    BY <1>4, <2>1, <2>2, ClawUpdating DEF ClawFit
  <2> QED BY <1>4, <2>3, ClawStays DEF ClawGoes, ClawCloses, ClawUnder, ClawLeaves, ClawDone, Closes
<1>5. CASE op = "set_model_provider"
  <2>1. CoreAs(host) /\ CSets
    BY <1>5 DEF ClawUnder
  <2>2. ClawProvider \/ ClawRestart
    BY <2>1, ClawWhere DEF CSets, Sets
  <2>3. CoreAs(host') /\ ((CSets' /\ Onward) \/ Closes(host'.main = "running"))
    BY <1>5, <2>1, <2>2, ClawSetting DEF ClawFit
  <2> QED BY <1>5, <2>3, ClawStays DEF ClawGoes, ClawCloses, ClawUnder, ClawLeaves, ClawDone, Closes
<1>6. CASE op = "install_skill"
  <2>1. CoreAs(host) /\ CInstalls
    BY <1>6 DEF ClawUnder
  <2>2. InstallSkill \/ RestoreSkills
    BY <2>1, ClawWhere DEF CInstalls
  <2>3. CoreAs(host') /\ ((CInstalls' /\ Onward) \/ Closes(host'.main = "running"))
    BY <1>6, <2>1, <2>2, SkillsInstalling, SkillsRestoringOn DEF ClawFit
  <2> QED BY <1>6, <2>3, ClawStays DEF ClawGoes, ClawCloses, ClawUnder, ClawLeaves, ClawDone, Closes
<1>7. CASE op = "set_basic_auth"
  <2>1. CoreAs(host) /\ CAuths
    BY <1>7 DEF ClawUnder
  <2>2. BasicAuth
    BY <2>1, ClawWhere DEF CAuths
  <2>3. CoreAs(host') /\ ((CAuths' /\ Onward) \/ Closes(TRUE))
    BY <1>7, <2>1, <2>2, ClawAuthorizing DEF ClawFit
  <2> QED BY <1>7, <2>3, ClawStays DEF ClawGoes, ClawCloses, ClawUnder, ClawLeaves, ClawDone, Closes
<1>8. CASE op = "purge_deleted"
  <2>1. CoreAs(host) /\ CPurges
    BY <1>8 DEF ClawUnder
  <2>2. ClawPurge
    BY <2>1, ClawWhere DEF CPurges
  <2>3. \/ CoreAs(host') /\ CPurges' /\ Onward
        \/ \E r \in Results : Ended(r) /\ IF r = "ok" THEN ClawPurges(host') ELSE CoreAs(host') \/ ClawEmpties(host')
    BY <1>8, <2>1, <2>2, ClawPurging DEF ClawFit
  <2> QED BY <1>8, <2>3, ClawStays DEF ClawGoes, ClawCloses, ClawUnder, ClawLeaves, ClawDone, Closes
<1>9. CASE op = "delete"
  <2>1. CDeletes
    BY <1>9 DEF ClawUnder
  <2>2. ClawDelete
    BY <2>1, ClawWhere DEF CDeletes, DoomAt
  <2>3. /\ ClawDeletes(host')
        /\ (CDeletes' /\ Onward) \/ Closes(op = "delete" /\ ClawBuries(host') /\ host'.home = {})
    BY <1>9, <2>1, <2>2, ClawDeleting DEF ClawFit
  <2> QED BY <1>9, <2>3, ClawStays DEF ClawGoes, ClawCloses, ClawUnder, ClawLeaves, ClawDone, Closes
<1>10. CASE op = "create"
  <2>1. CCreates
    BY <1>10 DEF ClawUnder
  <2>2. ClawCreate \/ ClawCreateUndo \/ ClawDelete
    BY <2>1, ClawWhere DEF CCreates, CDeletes, DoomAt
  <2>3. /\ ClawCreates(host') \/ ClawDeletes(host')
        /\ (CCreates' /\ Onward) \/ Closes(ClawCreates(host') /\ host'.home = Parts /\ host'.main = "running")
    BY <1>10, <2>1, <2>2, ClawCreating DEF ClawFit
  <2> QED BY <1>10, <2>3, ClawStays DEF ClawGoes, ClawCloses, ClawUnder, ClawLeaves, ClawDone, Closes
<1>11. CASE op = "restore"
  <2>1. CRestores
    BY <1>11 DEF ClawUnder
  <2>2. ClawRestore
    BY <2>1, ClawWhere DEF CRestores
  <2>3. /\ CoreAs(host') \/ ClawRestores(host')
        /\ (CRestores' /\ Onward) \/ Closes(ClawRestores(host') /\ host'.home = Parts /\ host'.main = "running")
    BY <1>11, <2>1, <2>2, ClawRestoring DEF ClawFit
  <2> QED BY <1>11, <2>3, ClawStays DEF ClawGoes, ClawCloses, ClawUnder, ClawLeaves, ClawDone, Closes
<1> QED BY <1>1, <1>2, <1>3, <1>4, <1>5, <1>6, <1>7, <1>8, <1>9, <1>10, <1>11 DEF ClawRequest

------------------------------------------------------------------------------
(* OpenClaw keeps the promise *)

\* The installation of a skill that was interrupted will be carried out again.
ClawInv ==
  product = "openclaw" =>
    /\ op # "cleanup_failed" /\ ClawFit(host) /\ "host" \in DOMAIN before
    /\ IF pc = "idle" THEN /\ ClawRested(host, row)
                           /\ op = "install_skill" /\ outcome = "killed" => CoreAs(host)
       ELSE /\ op \in ClawRequest /\ ClawUnder /\ ClawLeaves(host)
            /\ ClawFit(Was) /\ ClawRested(Was, row) /\ Admitted(op)

LEMMA ClawDoomFits ==
  ASSUME product = "openclaw", op \in {"delete", "create"}, ClawFit(Was)
  PROVE  ClawFit(Doomed) /\ DoomedOlder \subseteq {"data", "empty"}
<1>1. ClawFit(Doomed)
  BY DEF ClawFit, Doomed, Container
<1> QED BY <1>1 DEF ClawFit, DoomedOlder

LEMMA ClawFits ==
  ASSUME product = "openclaw", op \in ClawRequest, ClawFit(Was), NEW h, ClawLeaves(h) \/ ClawDone(h)
  PROVE  ClawFit(h)
<1>0. Parts = {"user"}
  BY DEF Parts, PartsOf
<1>1. CASE CoreAs(h)
  BY <1>1 DEF CoreAs, DataAs, ClawFit
<1>2. CASE ClawServes(h)
  BY <1>2 DEF ClawServes, DataAs, ClawFit
<1>3. CASE ClawUpdates(h)
  BY <1>3 DEF ClawUpdates, DataAs, ClawFit
<1>4. CASE op \in {"delete", "create"} /\ ClawDooms(h)
  BY <1>4, ClawDoomFits DEF ClawDooms, ClawFit, Container
<1>5. CASE op \in {"delete", "create"} /\ ClawBuries(h)
  <2>1. ClawFit(Doomed) /\ DoomedOlder \subseteq {"data", "empty"}
    BY <1>5, ClawDoomFits
  <2>2. h.home \in {{}, Parts} /\ h.bin \in {{}, Parts}
    BY <1>0, <1>5, <2>1 DEF ClawBuries, ClawFit
  <2> QED BY <1>5, <2>1, <2>2 DEF ClawBuries, ClawFit, Container
<1>6. CASE ClawCreates(h)
  BY <1>6 DEF ClawCreates, ClawFit
<1>7. CASE ClawRestores(h)
  BY <1>7 DEF ClawRestores, ClawFit
<1>8. CASE ClawEmpties(h)
  BY <1>8 DEF ClawEmpties, ClawFit
<1>9. CASE ClawPurges(h)
  BY <1>9 DEF ClawPurges, ClawFit
<1>10. CASE op = "update_version" /\ ClawDone(h)
  BY <1>10 DEF ClawDone, DataAs, ClawFit, Container
<1> QED BY <1>1, <1>2, <1>3, <1>4, <1>5, <1>6, <1>7, <1>8, <1>9, <1>10
        DEF ClawLeaves, ClawDone, ClawRequest, ClawDeletes

\* An instance that was there still is, somewhere.
LEMMA ClawRests ==
  ASSUME product = "openclaw", ClawFit(Was), ClawRested(Was, row), NEW h, ClawLeaves(h),
         op \in ClawRequest \ {"create"}, Admitted(op)
  PROVE  ClawRested(h, row)
<1>0. /\ row \in {"live", "deleted"} /\ (op \in {"restore", "purge_deleted"} <=> row = "deleted")
      /\ Parts = {"user"} /\ ClawApart(Was)
  BY DEF Admitted, ClawRequest, Parts, PartsOf, ClawRested
<1>1. CASE h.home = Was.home /\ h.bin = Was.bin /\ h.older = Was.older /\ h.recycle = Was.recycle
  BY <1>0, <1>1 DEF ClawRested, ClawApart
<1>2. CASE op = "delete" /\ ClawBuries(h)
  <2>1. /\ h.home \cup h.bin = Was.home /\ h.home \cap h.bin = {} /\ h.recycle = "dir"
        /\ h.older = Was.older \cup (IF Was.recycle = "none" THEN {} ELSE IF Was.bin = Parts THEN {"data"} ELSE {"empty"})
    BY <1>2 DEF ClawBuries, Doomed, DoomedOlder
  <2>2. ClawApart(h)
    <3>1. h.home = {} \/ h.bin = {}
      BY <1>0, <2>1 DEF ClawFit
    <3>2. "data" \in h.older => Was.home = {}
      BY <1>0, <2>1 DEF ClawApart
    <3> QED BY <2>1, <3>1, <3>2 DEF ClawApart
  <2>3. row = "live" => h.home = Parts \/ h.bin = Parts \/ "data" \in h.older
    <3>1. CASE row = "live" /\ Was.home = Parts
      BY <1>0, <2>1, <3>1
    <3>2. CASE row = "live" /\ Was.bin = Parts
      BY <1>0, <2>1, <3>2 DEF ClawApart
    <3>3. CASE row = "live" /\ "data" \in Was.older
      BY <2>1, <3>3
    <3> QED BY <3>1, <3>2, <3>3 DEF ClawRested
  <2> QED BY <1>0, <2>2, <2>3 DEF ClawRested
<1>3. CASE op = "restore" /\ ClawRestores(h)
  BY <1>0, <1>3 DEF ClawRestores, ClawRested, ClawApart
<1>4. CASE op = "purge_deleted" /\ ClawEmpties(h)
  BY <1>0, <1>4 DEF ClawEmpties, ClawRested, ClawApart
<1> QED BY <1>1, <1>2, <1>3, <1>4
        DEF ClawLeaves, ClawRequest, ClawServes, CoreAs, DataAs, ClawUpdates, ClawDeletes, ClawDooms, Doomed

LEMMA ClawPlaces ==
  ASSUME op \in ClawRequest, ClawUnder
  PROVE  /\ pc = "delete.written" => op = "delete" /\ ClawBuries(host) /\ host.home = {}
         /\ pc = "restore.written" => op = "restore" /\ ClawRestores(host) /\ host.home = Parts
<1> USE DEF CEnable, CDisable, CSkills, CStart, CStop, CUpdate, CDelete, CDelete2, CCreate, CCreateUndo, CRestore, CInstall, CAuth,
            Providing
<1>1. CASE op \in {"start", "stop", "restart", "update_version"}
  BY <1>1 DEF ClawUnder, CStarts, CStops, CUpdates
<1>2. CASE op \in {"set_model_provider", "install_skill", "set_basic_auth", "purge_deleted"}
  BY <1>2 DEF ClawUnder, CSets, Sets, CInstalls, CAuths, CPurges
<1>3. CASE op = "delete"
  BY <1>3 DEF ClawUnder, CDeletes, DoomAt
<1>4. CASE op = "create"
  BY <1>4 DEF ClawUnder, CCreates, CDeletes, DoomAt
<1>5. CASE op = "restore"
  BY <1>5 DEF ClawUnder, CRestores, ClawRestoreAt
<1> QED BY <1>1, <1>2, <1>3, <1>4, <1>5 DEF ClawRequest

\* An operation that has ended leaves the instance at rest, and as it may.
LEMMA ClawEnds ==
  ASSUME product = "openclaw", ClawInv, pc # "idle", op' = op, before' = before, product' = product, pc' = "idle",
         NEW r \in Results \cup {"killed"}, row' = RowAfter(r), outcome' = r, pc = "restore.written" => host' = host,
         IF r = "ok" THEN ClawDone(host') ELSE ClawLeaves(host')
  PROVE  ClawInv' /\ ~CleanedUp /\ ~CleanedUp' /\ IF r = "ok" THEN EndsWell(host') ELSE EndsBadly(host')
<1>1. /\ op # "cleanup_failed" /\ op \in ClawRequest /\ ClawUnder /\ "host" \in DOMAIN before
      /\ ClawFit(Was) /\ ClawRested(Was, row) /\ Admitted(op)
  BY DEF ClawInv
<1>2. ~CleanedUp /\ ~CleanedUp'
  BY <1>1 DEF CleanedUp
<1>3. ClawFit(host')
  BY <1>1, ClawFits
<1>4. IF r = "ok" THEN EndsWell(host') ELSE EndsBadly(host')
  BY <1>1, <1>2, ClawBad, ClawGood
<1>5. Parts' = Parts /\ Was' = Was
  BY DEF Parts, Was
<1>6. /\ pc = "delete.written" => op = "delete" /\ ClawBuries(host) /\ host.home = {}
      /\ pc = "restore.written" => op = "restore" /\ ClawRestores(host) /\ host.home = Parts
  BY <1>1, ClawPlaces
<1>7. ClawRested(host', row')
  <2>1. CASE op = "create"
    <3>1. row' = IF r = "ok" THEN "live" ELSE "failed"
      BY <2>1 DEF RowAfter
    <3>2. r = "ok" => host'.home = Parts /\ host'.bin = {} /\ host'.older = {}
      BY <2>1 DEF ClawDone, ClawCreates
    <3> QED BY <3>1, <3>2 DEF ClawRested, ClawApart
  <2>2. CASE row' = row /\ op # "create" /\ (r # "ok" \/ op \notin {"delete", "restore", "purge_deleted"})
    <3>1. ClawLeaves(host') \/ (r = "ok" /\ op \notin {"create", "delete", "restore", "purge_deleted"})
      BY <2>2
    <3>2. CASE ClawLeaves(host')
      BY <1>1, <2>2, <3>2, ClawRests
    <3>3. CASE r = "ok" /\ op \notin {"create", "delete", "restore", "purge_deleted"}
      <4>1. DataAs(host')
        BY <1>1, <3>3 DEF ClawDone, ClawRequest, ClawServes, CoreAs
      <4>2. row = "live"
        BY <1>1, <3>3 DEF Admitted, ClawRequest
      <4> QED BY <1>1, <2>2, <4>1, <4>2 DEF DataAs, ClawRested, ClawApart
    <3> QED BY <3>1, <3>2, <3>3
  <2>3. CASE op = "delete" /\ (r = "ok" \/ pc = "delete.written")
    <3>1. row' = "deleted"
      BY <2>3 DEF RowAfter
    <3>2. ClawLeaves(host') /\ row = "live"
      BY <1>1, <2>3 DEF ClawLeaves, ClawDone, ClawDeletes, Admitted
    <3>3. ClawRested(host', row)
      BY <1>1, <2>3, <3>2, ClawRests
    <3> QED BY <3>1, <3>2, <3>3 DEF ClawRested
  <2>4. CASE op = "restore" /\ (r = "ok" \/ pc = "restore.written")
    <3>1. row' = "live"
      BY <1>6, <2>4 DEF RowAfter
    <3>2. ClawLeaves(host') /\ row = "deleted"
      BY <1>1, <2>4 DEF ClawLeaves, ClawDone, Admitted
    <3>3. ClawRested(host', row)
      BY <1>1, <2>4, <3>2, ClawRests
    <3>4. host'.home = Parts
      BY <1>1, <1>6, <2>4 DEF ClawDone
    <3> QED BY <3>1, <3>2, <3>3, <3>4 DEF ClawRested
  <2>5. CASE op = "purge_deleted" /\ r = "ok"
    <3>1. row' = "gone"
      BY <1>6, <2>5 DEF RowAfter
    <3> QED BY <3>1 DEF ClawRested
  <2>6. op # "create" /\ ~(op = "delete" /\ (r = "ok" \/ pc = "delete.written"))
        /\ ~(op = "restore" /\ (r = "ok" \/ pc = "restore.written")) /\ ~(op = "purge_deleted" /\ r = "ok") => row' = row
    BY <1>1, <1>6 DEF RowAfter
  <2> QED BY <2>1, <2>2, <2>3, <2>4, <2>5, <2>6
<1>8. ClawRested(host, row)' /\ ClawFit(host)'
  BY <1>3, <1>5, <1>7 DEF ClawRested, ClawFit, ClawApart
<1>9. op = "install_skill" /\ r = "killed" => CoreAs(host)'
  <2>1. op = "install_skill" /\ r = "killed" => CoreAs(host')
    BY DEF ClawLeaves
  <2> QED BY <1>5, <2>1 DEF CoreAs, DataAs
<1> QED BY <1>1, <1>2, <1>4, <1>8, <1>9 DEF ClawInv

LEMMA ClawStaysAt ==
  ASSUME product = "openclaw", ClawInv, pc # "idle", ClawGoes
  PROVE  ClawInv' /\ GoesOn
<1>1. /\ op # "cleanup_failed" /\ op \in ClawRequest /\ "host" \in DOMAIN before
      /\ ClawFit(Was) /\ ClawRested(Was, row) /\ Admitted(op)
  BY DEF ClawInv
<1>2. ClawUnder' /\ Onward /\ ClawLeaves(host') /\ before' = before
  BY DEF ClawGoes, Onward
<1>3. row' = row /\ op' = op /\ Was' = Was /\ Parts' = Parts /\ pc' # "idle" /\ ClawLeaves(host)'
  BY <1>2, ClawStays
<1>4. ClawFit(host')
  BY <1>1, <1>2, ClawFits
<1>5. ClawFit(host)' /\ ClawFit(Was)' /\ ClawRested(Was, row)' /\ Admitted(op)'
  BY <1>1, <1>3, <1>4 DEF ClawFit, ClawRested, ClawApart, Admitted
<1> QED BY <1>1, <1>2, <1>3, <1>5 DEF ClawInv, GoesOn

LEMMA ClawMoves ==
  ASSUME product = "openclaw", ClawInv, DataInv, pc # "idle", ClawWorks
  PROVE  ClawInv' /\ (GoesOn \/ Concluded)
<1>1. op \in ClawRequest /\ ClawUnder /\ ClawFit(host) /\ ClawFit(Was) /\ DOMAIN host = Fields
  BY DEF ClawInv, DataInv, Placed
<1>2. op \in {"delete", "create"} => ClawFit(Doomed)
  BY <1>1, ClawDoomFits
<1>3. ClawGoes \/ ClawCloses
  BY <1>1, <1>2, ClawOn
<1>4. CASE ClawGoes
  BY <1>4, ClawStaysAt
<1>5. CASE ClawCloses
  <2>1. PICK r \in Results : Ended(r) /\ IF r = "ok" THEN ClawDone(host') ELSE ClawLeaves(host')
    BY <1>5 DEF ClawCloses
  <2>2. pc = "restore.written" => host' = host
    BY <1>1, ClawWhere DEF ClawRestore, CRestore, Decides, Moves, Writes, Runs, Tries
  <2>3. ClawInv' /\ ~CleanedUp /\ ~CleanedUp' /\ IF r = "ok" THEN EndsWell(host') ELSE EndsBadly(host')
    BY <2>1, <2>2, ClawEnds DEF Ended
  <2>4. op \in Promised!Operation
    BY <1>1 DEF ClawRequest, Promised!Operation
  <2> QED BY <2>1, <2>3, <2>4 DEF Concluded, Ended
<1> QED BY <1>3, <1>4, <1>5

LEMMA ClawKilled ==
  ASSUME product = "openclaw", ClawInv, Killed
  PROVE  ClawInv' /\ Concluded
<1>1. op \in ClawRequest /\ op # "cleanup_failed" /\ ClawLeaves(host) /\ op \in Promised!Operation
  BY DEF ClawInv, Killed, ClawRequest, Promised!Operation
<1>2. /\ pc # "idle" /\ op' = op /\ before' = before /\ product' = product /\ pc' = "idle"
      /\ row' = RowAfter("killed") /\ outcome' = "killed" /\ host' = host
  BY DEF Killed
<1>3. ClawInv' /\ EndsBadly(host)
  BY <1>1, <1>2, ClawEnds DEF Results
<1> QED BY <1>1, <1>3, KilledConcludes

\* A request begins where the last one ended.
LEMMA ClawBegins ==
  ASSUME product = "openclaw", ClawFit(host), ClawRested(host, row), NEW a \in ClawRequest,
         Admitted(a), product' = product, op' = a, pc' = a, stack' = <<>>, row' = row, Was' = host, "host" \in DOMAIN before',
         ClawFit(host'), CoreAs(host)'
  PROVE  ClawInv'
<1>1. Parts' = Parts
  BY DEF Parts
<1>2. ClawFit(host)' /\ ClawFit(Was)' /\ ClawRested(Was, row)' /\ Admitted(op)'
  BY <1>1 DEF ClawFit, ClawRested, ClawApart, Admitted
<1>3. a # "idle" /\ a # "cleanup_failed"
  BY DEF ClawRequest
<1>4. ClawServes(host)'
  BY <1>1 DEF ClawServes, CoreAs, ClawFit
<1>5. a = "create" => ClawCreates(host)'
  BY <1>1 DEF ClawCreates, ClawRested, BareHost, Admitted, Container, CoreAs, DataAs
<1>6. a = "delete" => ClawDooms(host)' /\ Doomed' = Was'
  BY DEF ClawDooms, Doomed, CoreAs, DataAs
<1>7. ClawLeaves(host)'
  BY <1>4, <1>5, <1>6 DEF ClawLeaves, ClawRequest, ClawDeletes
<1>8. ClawUnder'
  <2>1. CASE a \in {"start", "stop", "restart"}
    BY <1>4, <2>1 DEF ClawUnder, CStarts, CStops, CStop
  <2>2. CASE a \in {"set_model_provider", "install_skill", "set_basic_auth", "purge_deleted"}
    BY <2>2 DEF ClawUnder, CSets, Sets, Providing, CInstalls, CAuths, CAuth, CPurges
  <2>3. CASE a \in {"update_version", "restore"}
    BY <2>3 DEF ClawUnder, CUpdates, CRestores
  <2>4. CASE a = "delete"
    <3>1. Above' = <<>>
      BY <2>4 DEF Above
    <3> QED BY <1>6, <2>4, <3>1 DEF ClawUnder, CDeletes, DoomAt, CDelete, CoreAs
  <2>5. CASE a = "create"
    BY <1>5, <2>5 DEF ClawUnder, CCreates, CCreate, ClawCreateAt
  <2> QED BY <2>1, <2>2, <2>3, <2>4, <2>5 DEF ClawRequest
<1> QED BY <1>2, <1>3, <1>7, <1>8 DEF ClawInv

LEMMA ClawOpens ==
  ASSUME product = "openclaw", ClawInv, DataInv, NEW a \in ClawRequest, Admitted(a), Begin(a)
  PROVE  ClawInv' /\ Opened
<1>0. pc = "idle" /\ ClawFit(host) /\ ClawRested(host, row) /\ ~CleanedUp /\ a \in Promised!Operation
  BY DEF ClawInv, Begin, CleanedUp, ClawRequest, Promised!Operation
<1>1. /\ Opened /\ op' = a /\ pc' = a /\ stack' = <<>> /\ kept' = kept /\ row' = row /\ host' = host
      /\ Was' = host /\ Parts' = Parts /\ CoreAs(host)' /\ Admitted(a)' /\ product' = product
  BY <1>0, BeginOpens
<1>2. "host" \in DOMAIN before'
  BY DEF Begin
<1> QED BY <1>0, <1>1, <1>2, ClawBegins

LEMMA ClawOpensInstall ==
  ASSUME product = "openclaw", ClawInv, DataInv, BeginInstall
  PROVE  ClawInv' /\ Opened
<1>0. pc = "idle" /\ ClawFit(host) /\ ClawRested(host, row) /\ ~CleanedUp /\ DOMAIN host = Fields /\ stack = <<>>
  BY DEF ClawInv, BeginInstall, CleanedUp, DataInv, Placed
<1>1. Was' = host
  BY DEF BeginInstall, Was
<1>2. Aside(host')
  BY <1>0, SkillEffects DEF BeginInstall
<1>3. CoreAs(host)' /\ ClawFit(host')
  BY <1>0, <1>1, <1>2 DEF CoreAs, DataAs, Aside, Beside, ClawFit
<1>4. /\ Admitted("install_skill") /\ product' = product /\ op' = "install_skill" /\ pc' = "install_skill"
      /\ stack' = <<>> /\ row' = row /\ "host" \in DOMAIN before' /\ outcome' = "none" /\ before'.host = host
  BY <1>0 DEF BeginInstall
<1>5. ClawInv'
  BY <1>0, <1>1, <1>3, <1>4, ClawBegins DEF ClawRequest
<1>6. ~CleanedUp'
  BY <1>4 DEF CleanedUp
<1> QED BY <1>0, <1>4, <1>5, <1>6 DEF Opened, Promised!Operation

LEMMA ClawInstallsAgain ==
  ASSUME product = "openclaw", ClawInv, DataInv, InstallAgain
  PROVE  ClawInv' /\ Opened
<1>0. /\ pc = "idle" /\ ClawFit(host) /\ ClawRested(host, row) /\ ~CleanedUp /\ stack = <<>> /\ CoreAs(host)
      /\ "host" \in DOMAIN before /\ row = "live"
  BY DEF ClawInv, InstallAgain, CleanedUp, DataInv, Placed
<1>1. /\ product' = product /\ op' = "install_skill" /\ op = "install_skill" /\ pc' = "install_skill"
      /\ stack' = <<>> /\ row' = row /\ outcome' = "none" /\ host' = host
      /\ "host" \in DOMAIN before' /\ before'.host = before.host
  BY <1>0 DEF InstallAgain
<1>2. Was' = Was /\ Parts' = Parts /\ Was = before.host
  BY <1>1 DEF Was, Parts
<1>3. RuntimeOf(before'.host) = RuntimeOf(host) /\ HuskOf(before'.host) = HuskOf(host)
  BY <1>0, <1>1, <1>2, SameCore DEF CoreAs, DataAs
<1>4. CoreAs(host)' /\ ClawFit(host)' /\ ClawFit(Was)' /\ ClawRested(Was, row)' /\ Admitted(op)'
  BY <1>0, <1>1, <1>2 DEF CoreAs, DataAs, ClawFit, ClawRested, ClawApart, Admitted
<1>5. ClawLeaves(host)' /\ ClawUnder'
  BY <1>1, <1>4 DEF ClawLeaves, ClawUnder, CInstalls
<1>6. ClawInv'
  BY <1>1, <1>4, <1>5 DEF ClawInv, ClawRequest
<1>7. ~CleanedUp'
  BY <1>1 DEF CleanedUp
<1> QED BY <1>0, <1>1, <1>3, <1>6, <1>7 DEF Opened, Promised!Operation

LEMMA ClawPromised ==
  ASSUME product = "openclaw", ClawInv, DataInv, AdaptersNext
  PROVE  ClawInv' /\ (Opened \/ GoesOn \/ Concluded)
<1>1. ClawBegin \/ Killed \/ SettingsBegin \/ ClawWorks
  BY DEF AdaptersNext, ClawNext, EvoNext, HermesNext, SettingsNext, SettingsStep, ClawWorks
<1>2. CASE ClawBegin \/ SettingsBegin
  <2>1. CASE BeginInstall
    BY <2>1, ClawOpensInstall
  <2>2. CASE InstallAgain
    BY <2>2, ClawInstallsAgain
  <2>3. CASE \E a \in ClawRequest : Admitted(a) /\ Begin(a)
    BY <2>3, ClawOpens
  <2> QED BY <1>2, <2>1, <2>2, <2>3 DEF ClawBegin, SettingsBegin, ClawRequest
<1>3. CASE ClawWorks
  <2>1. DOMAIN host = Fields
    BY DEF DataInv, Placed
  <2> QED BY <1>3, <2>1, ClawWhere, ClawMoves
<1>4. CASE Killed
  BY <1>4, ClawKilled
<1> QED BY <1>1, <1>2, <1>3, <1>4

------------------------------------------------------------------------------
(* EvoScientist: what a running operation may have made of the instance *)

On(h)  == h.main = "running" /\ h.proxy = "running"
Off(h) == h.main = "none" /\ h.proxy = "none"

EvoFit(h) ==
  /\ h.older = {} /\ h.main \in Container /\ h.proxy \in Container
  /\ h.home \subseteq Parts /\ h.bin \subseteq Parts /\ h.recycle \in {"none", "dir", "listed"}
  /\ h.recycle = "listed" => h.note.running \in BOOLEAN
EvoRested(h, r) ==
  /\ r = "new" => h = BareHost
  /\ r = "live" => /\ h.home \cup h.bin = Parts /\ h.home \cap h.bin = {}
                   /\ h.home = Parts \/ Off(h)
                   /\ h.bin # {} => h.recycle # "none"
  /\ r = "deleted" => /\ h.home \cap h.bin = {} /\ (h.home = Parts \/ Off(h))
                      /\ h.recycle = "listed" => h.home \cup h.bin = Parts
  /\ r = "failed" => h.bin = {} \/ Off(h)

EvoServes(h) == DataAs(h) /\ (h.home = Parts \/ (Off(h) /\ Off(Was)))

EvoDeletes(h) ==
  /\ op = "delete" => Was.home = Parts /\ Was.bin = {} /\ Was.recycle = "none"
  /\ h.home \cup h.bin = Parts /\ h.home \cap h.bin = {} /\ h.recycle # "listed"
  /\ h.home = Parts \/ Off(h)
  /\ h.bin # {} => h.recycle # "none"
EvoDeleted(h) ==
  /\ op = "delete" => Was.home = Parts /\ Was.bin = {} /\ Was.recycle = "none"
  /\ h.home = {} /\ h.bin = Parts /\ Off(h) /\ h.recycle = "listed" /\ h.note.running = WasOn

EvoCreates(h) == h.bin = {} /\ h.recycle = "none"

EvoRestores(h) ==
  /\ Was.recycle # "none"
  /\ h.home \cup h.bin = Was.home \cup Was.bin /\ h.home \cap h.bin = {}
  /\ h.home = Parts \/ (Off(h) /\ h.recycle = Was.recycle /\ h.note = Was.note)
  /\ Was.recycle = "dir" => /\ h.recycle = "dir"
                            /\ h.main \in {Was.main, "none"} /\ h.proxy \in {Was.proxy, "none"}
  /\ Was.recycle = "listed" => h.home \cup h.bin = Parts

EvoPurges(h) ==
  /\ Was.recycle # "none" /\ h.home = Was.home /\ h.main = Was.main /\ h.proxy = Was.proxy
  /\ h.bin \subseteq Was.bin /\ h.recycle \in {"none", "dir"} /\ (h.recycle = "none" => h.bin = {})

EvoCleans(h) ==
  /\ DataAs(h) /\ h.main \in {Was.main, "none"} /\ h.proxy \in {Was.proxy, "none"}

EvoLeaves(h) ==
  /\ EvoFit(h)
  /\ CASE op \in {"start", "stop", "restart", "update_version"} -> EvoServes(h)
       [] op = "set_model_provider" -> CoreAs(h)
       [] op = "delete"         -> CoreAs(h) \/ EvoDeletes(h)
       [] op = "create"         -> EvoCreates(h) \/ EvoDeletes(h) \/ EvoDeleted(h)
       [] op = "restore"        -> CoreAs(h) \/ EvoRestores(h)
       [] op = "purge_deleted"  -> CoreAs(h) \/ (EvoPurges(h) /\ h.recycle = "dir")
       [] op = "cleanup_failed" -> EvoCleans(h)

EvoDone(h) ==
  /\ EvoFit(h)
  /\ CASE op \in {"start", "restart"} -> EvoServes(h) /\ On(h)
       [] op = "stop"               -> EvoServes(h) /\ h.main = "stopped" /\ h.proxy = "stopped"
       [] op = "update_version"     -> DataAs(h) /\ h.home = Parts /\ Was.main # "none" /\ (Was.main = "running" => On(h))
       [] op = "set_model_provider" -> CoreAs(h) /\ On(h)
       [] op = "delete"         -> EvoDeleted(h)
       [] op = "create"         -> EvoCreates(h) /\ h.home = Parts /\ On(h)
       [] op = "restore"        -> /\ EvoRestores(h) /\ Was.recycle = "listed"
                                   /\ h.home = Parts /\ h.recycle = "none" /\ (Was.note.running => On(h))
       [] op = "purge_deleted"  -> EvoPurges(h) /\ h.recycle = "none"
       [] op = "cleanup_failed" -> EvoCleans(h) /\ Off(h)

EvoRequest == {"create", "delete", "restore", "purge_deleted", "cleanup_failed", "update_version",
               "start", "stop", "restart", "set_model_provider"}

LEMMA EvoDeleteEnds ==
  ASSUME product = "evoscientist", ~CleanedUp, NEW h, EvoFit(h),
         NEW s, s.product = "evoscientist", s.husk = FALSE, s.runtime \in {"up", "stopped", "broken"},
         IF WasOn THEN s.runtime # "stopped" ELSE s.runtime # "up"
  PROVE  /\ EvoDeletes(h) => \E e \in Promised!BadEnds(s, "delete") : e.runtime = RuntimeOf(h) /\ e.husk = HuskOf(h)
         /\ EvoDeleted(h) => RuntimeOf(h) \in Promised!Succeeds(s, "delete") /\ HuskOf(h) = FALSE
<1> DEFINE x == RuntimeOf(h)
<1>0. h.older = {} /\ WasOn \in BOOLEAN
  BY DEF EvoFit, WasOn
<1>9. ASSUME NEW X, NEW won, x \in X, HuskOf(h) \in Promised!HuskAfter(s, "delete", x, won)
      PROVE  \E e \in Promised!Ends(s, "delete", X, won) : e.runtime = x /\ e.husk = HuskOf(h)
  BY <1>9, EndWith
<1>1. CASE EvoDeletes(h)
  <2>1. x \in {"up", "stopped", "broken"}
    BY <1>0, <1>1, EvoLooks DEF EvoDeletes, Off
  <2>2. x \in Promised!Fails(s, "delete")
    BY <2>1 DEF Promised!Fails, Promised!DeleteFails, Promised!Deployed
  <2>3. HuskOf(h) \in Promised!HuskAfter(s, "delete", x, FALSE)
    BY DEF HuskOf, Promised!HuskAfter, Promised!Script
  <2>4. \E e \in Promised!BadEnds(s, "delete") : e.runtime = x /\ e.husk = HuskOf(h)
    BY <2>2, <2>3, <1>9 DEF Promised!BadEnds
  <2>5. ~EvoDeleted(h)
    BY <1>1 DEF EvoDeletes, EvoDeleted
  <2> QED BY <2>4, <2>5
<1>2. CASE ~EvoDeletes(h) /\ EvoDeleted(h)
  <2>1. x = (IF WasOn THEN "archived" ELSE "archived_off") /\ HuskOf(h) = FALSE
    BY <1>0, <1>2, EvoLooks DEF EvoDeleted, Off
  <2>2. x \in Promised!DeleteEnds(s)
    BY <1>0, <2>1 DEF Promised!DeleteEnds, Promised!Script, Promised!AdapterDeletes, Promised!Archived
  <2> QED BY <1>2, <2>1, <2>2 DEF Promised!Succeeds
<1> QED BY <1>1, <1>2

LEMMA EvoBad ==
  ASSUME product = "evoscientist", ~CleanedUp, EvoFit(Was), EvoRested(Was, row), Admitted(op), op \in EvoRequest,
         NEW h, EvoLeaves(h)
  PROVE  EndsBadly(h)
<1>0. h.older = {} /\ Was.older = {} /\ EvoFit(h) /\ HuskOf(h) \in BOOLEAN
  BY DEF EvoFit, EvoLeaves, HuskOf
<1>1. CASE CoreAs(h)
  BY <1>1, Unchanged
<1>2. CASE op \in {"start", "stop", "restart", "update_version"}
  <2>1. EvoServes(h)
    BY <1>2 DEF EvoLeaves
  <2>2. CASE h.home = Parts
    BY <1>0, <1>2, <2>1, <2>2, HalfServed DEF EvoServes
  <2>3. CASE h.home # Parts
    BY <1>1, <2>1, <2>3 DEF EvoServes, CoreAs, Off
  <2> QED BY <2>2, <2>3
<1>3. CASE op = "delete" /\ EvoDeletes(h)
  <2>1. Was.home = Parts /\ Was.bin = {} /\ Was.recycle = "none"
    BY <1>3 DEF EvoDeletes
  <2>2. Found.product = "evoscientist" /\ Found.husk = FALSE /\ Found.runtime \in {"up", "stopped", "broken"}
        /\ IF WasOn THEN Found.runtime # "stopped" ELSE Found.runtime # "up"
    BY <1>0, <1>3, <2>1, EvoLooks DEF Found, WasOn
  <2> QED BY <1>0, <1>3, <2>2, EvoDeleteEnds DEF EndsBadly, Comes
<1>4. CASE op = "create" /\ (EvoDeletes(h) \/ EvoDeleted(h))
  <2> DEFINE s == [Found EXCEPT !.runtime = "up"]
  <2>1. HuskOf(Was) = FALSE
    BY <1>4 DEF HuskOf, BareHost, EvoRested, Admitted
  <2>2. s.product = "evoscientist" /\ s.husk = FALSE /\ s.runtime = "up" /\ WasOn
    BY <1>4, <2>1 DEF Found, WasOn
  <2>3. CASE EvoDeletes(h)
    <3>1. \E e \in Promised!BadEnds(s, "delete") : e.runtime = RuntimeOf(h) /\ e.husk = HuskOf(h)
      BY <1>0, <2>2, <2>3, EvoDeleteEnds
    <3> QED BY <1>4, <3>1 DEF EndsBadly, Comes, Retracted, Promised!CutEnds
  <2>4. CASE EvoDeleted(h)
    <3>1. RuntimeOf(h) \in Promised!Succeeds(s, "delete") /\ HuskOf(h) = FALSE
      BY <1>0, <2>2, <2>4, EvoDeleteEnds
    <3>2. HuskOf(h) \in Promised!HuskAfter(s, "delete", RuntimeOf(h), TRUE)
      BY <2>2, <3>1 DEF Promised!HuskAfter, Promised!Script
    <3>3. \E e \in Promised!GoodEnds(s, "delete") : e.runtime = RuntimeOf(h) /\ e.husk = HuskOf(h)
      <4>1. ASSUME NEW X, NEW won, RuntimeOf(h) \in X, HuskOf(h) \in Promised!HuskAfter(s, "delete", RuntimeOf(h), won)
            PROVE  \E e \in Promised!Ends(s, "delete", X, won) : e.runtime = RuntimeOf(h) /\ e.husk = HuskOf(h)
        BY <4>1, EndWith
      <4> QED BY <3>1, <3>2, <4>1 DEF Promised!GoodEnds
    <3> QED BY <1>4, <3>3 DEF EndsBadly, Comes, Retracted, Promised!CutEnds
  <2> QED BY <1>4, <2>3, <2>4
<1>5. CASE op = "create" /\ EvoCreates(h)
  <2>1. Found.runtime = "none" /\ Found.husk = FALSE
    <3>1. Was.main = "none" /\ Was.proxy = "none" /\ Was.home = {} /\ Was.bin = {} /\ Was.recycle = "none"
      BY <1>5 DEF BareHost, EvoRested, Admitted
    <3>2. RuntimeOf(Was) = "none" /\ HuskOf(Was) = FALSE
      BY <1>0, <3>1, EvoLooks
    <3> QED BY <3>2 DEF Found
  <2>2. RuntimeOf(h) \in {"none", "up", "stopped", "broken"} /\ HuskOf(h) = FALSE
    BY <1>0, <1>5, EvoLooks DEF EvoCreates
  <2>3. RuntimeOf(h) \in Promised!Fails(Found, op)
    BY <1>5, <2>1, <2>2 DEF Promised!Fails, Promised!Deployed
  <2>4. HuskOf(h) \in Promised!HuskAfter(Found, op, RuntimeOf(h), FALSE)
    BY <1>5, <2>1, <2>2 DEF Promised!HuskAfter
  <2> QED BY <2>3, <2>4, Fairly
<1>6. CASE op = "restore" /\ EvoRestores(h)
  <2>0. EvoRested(Was, "deleted") /\ Was.recycle \in {"dir", "listed"}
    BY <1>6 DEF Admitted, EvoRested, EvoRestores, EvoFit
  <2>1. CASE Was.recycle = "listed"
    <3>1. /\ Found.product = "evoscientist"
          /\ \/ Found.runtime = (IF Was.note.running THEN "archived" ELSE "archived_off") /\ Found.husk = FALSE
             \/ Found.runtime \in {"up", "stopped", "broken"} /\ Found.husk
      BY <1>0, <1>6, <2>0, <2>1, EvoLooks DEF Found, EvoRestores, EvoRested, Off, EvoFit
    <3>2. \/ RuntimeOf(h) \in {"up", "stopped", "broken"}
          \/ RuntimeOf(h) = (IF Was.note.running THEN "archived" ELSE "archived_off") /\ HuskOf(h) = FALSE
      BY <1>0, <1>6, <2>0, <2>1, EvoLooks DEF EvoRestores, Off, EvoFit
    <3>3. RuntimeOf(h) \in Promised!Fails(Found, op)
      BY <1>6, <3>1, <3>2 DEF Promised!Fails, Promised!RestoreFails, Promised!Deployed, Promised!Archived,
           Promised!Halfway, Promised!Remains, Promised!Script
    <3>4. HuskOf(h) \in Promised!HuskAfter(Found, op, RuntimeOf(h), FALSE)
      BY <1>0, <1>6, <3>1, <3>2 DEF Promised!HuskAfter, Promised!Script, Promised!Deployed, Promised!Archived
    <3> QED BY <3>3, <3>4, Fairly
  <2>2. CASE Was.recycle = "dir"
    <3>1. /\ Found.product = "evoscientist" /\ Found.husk = TRUE /\ HuskOf(h) = TRUE
          /\ \/ Found.runtime = "none" /\ RuntimeOf(h) = "none"
             \/ Found.runtime \in {"up", "stopped", "broken"} /\ RuntimeOf(h) \in {"up", "stopped", "broken"}
      BY <1>0, <1>6, <2>0, <2>2, EvoLooks DEF Found, EvoRestores, EvoRested, Off
    <3>2. RuntimeOf(h) \in Promised!Fails(Found, op)
      BY <1>6, <3>1 DEF Promised!Fails, Promised!RestoreFails, Promised!Deployed, Promised!Archived,
           Promised!Halfway, Promised!Remains, Promised!Script
    <3>3. HuskOf(h) \in Promised!HuskAfter(Found, op, RuntimeOf(h), FALSE)
      BY <1>6, <3>1 DEF Promised!HuskAfter, Promised!Script, Promised!Deployed, Promised!Archived
    <3> QED BY <3>2, <3>3, Fairly
  <2> QED BY <2>0, <2>1, <2>2
<1>7. CASE op = "purge_deleted" /\ EvoPurges(h) /\ h.recycle = "dir"
  <2>0. EvoRested(Was, "deleted")
    BY <1>7 DEF Admitted, EvoRested
  <2>1. /\ Found.product = "evoscientist" /\ HuskOf(h) = TRUE
        /\ \/ Found.runtime \in {"archived", "archived_off"} /\ RuntimeOf(h) \in {"none", "broken"}
           \/ Found.runtime = "broken" /\ Found.husk = TRUE /\ RuntimeOf(h) \in {"broken", "none"}
           \/ Found.runtime \in {"none", "up", "stopped"} /\ Found.husk = TRUE /\ RuntimeOf(h) = Found.runtime
    BY <1>0, <1>7, <2>0, EvoLooks DEF Found, EvoPurges, EvoRested, Off, EvoFit
  <2>2. RuntimeOf(h) \in Promised!Fails(Found, op)
    BY <1>7, <2>1 DEF Promised!Fails, Promised!Archived
  <2>3. HuskOf(h) \in Promised!HuskAfter(Found, op, RuntimeOf(h), FALSE)
    BY <1>7, <2>1 DEF Promised!HuskAfter, Promised!Script, Promised!Remains
  <2> QED BY <2>2, <2>3, Fairly
<1>8. CASE op = "cleanup_failed"
  <2>0. EvoRested(Was, "failed") /\ EvoCleans(h)
    BY <1>8 DEF Admitted, EvoRested, EvoLeaves
  <2>1. CASE Was.bin # {}
    BY <1>1, <2>0, <2>1 DEF EvoCleans, CoreAs, EvoRested, Off
  <2>2. CASE Was.bin = {}
    <3>1. /\ Found.product = "evoscientist" /\ HuskOf(h) = Found.husk
          /\ \/ Found.runtime = "none" /\ RuntimeOf(h) = "none"
             \/ Found.runtime \in {"up", "stopped", "broken"} /\ RuntimeOf(h) \in {"up", "stopped", "broken", "none"}
      BY <1>0, <2>0, <2>2, EvoLooks DEF Found, EvoCleans, DataAs
    <3>2. RuntimeOf(h) \in Promised!Fails(Found, op)
      BY <1>8, <3>1 DEF Promised!Fails, Promised!OthersFail, Promised!CleanupEnds, Promised!Deployed
    <3>3. HuskOf(h) \in Promised!HuskAfter(Found, op, RuntimeOf(h), FALSE)
      BY <1>8, <3>1 DEF Promised!HuskAfter
    <3> QED BY <3>2, <3>3, Fairly
  <2> QED BY <2>1, <2>2
<1> QED BY <1>1, <1>2, <1>3, <1>4, <1>5, <1>6, <1>7, <1>8 DEF EvoLeaves, EvoRequest

LEMMA EvoGood ==
  ASSUME product = "evoscientist", ~CleanedUp, EvoFit(Was), EvoRested(Was, row), Admitted(op),
         op \in EvoRequest \ {"cleanup_failed"}, NEW h, EvoDone(h)
  PROVE  EndsWell(h)
<1>0. h.older = {} /\ Was.older = {} /\ EvoFit(h) /\ HuskOf(h) \in BOOLEAN /\ Found.product = "evoscientist"
  BY DEF EvoFit, EvoDone, HuskOf, Found
<1>1. CASE op \in {"start", "restart", "stop"}
  <2>1. DataAs(h) /\ h.home = Parts /\ RuntimeOf(h) = (IF op = "stop" THEN "stopped" ELSE "up")
    BY <1>0, <1>1, EvoLooks DEF EvoDone, EvoServes, On, Off
  <2>2. /\ RuntimeOf(Was) \in {"up", "stopped", "broken"}
        /\ HuskOf(h) \in Promised!HuskAfter(Found, op, RuntimeOf(h), TRUE)
    BY <1>0, <1>1, <2>1, HalfServed
  <2>3. RuntimeOf(h) \in Promised!Succeeds(Found, op)
    BY <1>1, <2>1, <2>2 DEF Promised!Succeeds, Promised!Serves, Promised!Deployed, Found
  <2> QED BY <2>2, <2>3, Fairly
<1>2. CASE op = "update_version"
  <2>1. DataAs(h) /\ h.home = Parts /\ Was.main # "none" /\ (Was.main = "running" => On(h))
    BY <1>2 DEF EvoDone
  <2>2. /\ RuntimeOf(Was) \in {"up", "stopped", "broken"} /\ RuntimeOf(h) \in {"up", "stopped", "broken"}
        /\ HuskOf(h) \in Promised!HuskAfter(Found, op, RuntimeOf(h), TRUE)
    BY <1>0, <1>2, <2>1, HalfServed
  <2>3. CASE Was.main = "running"
    <3>1. RuntimeOf(h) = "up" /\ RuntimeOf(Was) \in {"up", "broken"}
      BY <1>0, <2>1, <2>3, EvoLooks DEF On, DataAs
    <3>2. RuntimeOf(h) \in Promised!Succeeds(Found, op)
      BY <1>2, <3>1 DEF Promised!Succeeds, Promised!Serves, Promised!Deployed, Found
    <3> QED BY <2>2, <3>2, Fairly
  <2>4. CASE Was.main # "running"
    <3>1. RuntimeOf(Was) \in {"stopped", "broken"}
      BY <1>0, <2>1, <2>2, <2>4, EvoLooks
    <3>2. RuntimeOf(h) \in Promised!Succeeds(Found, op) \/ RuntimeOf(h) \in Promised!Slackens(Found, op)
      BY <1>0, <1>2, <2>2, <3>1 DEF Promised!Succeeds, Promised!Slackens, Promised!Serves, Promised!Deployed, Promised!Script, Found
    <3> QED BY <2>2, <3>2, Fairly
  <2> QED BY <2>3, <2>4
<1>3. CASE op = "set_model_provider"
  <2>1. CoreAs(h) /\ On(h) /\ EvoRested(Was, "live")
    BY <1>3 DEF EvoDone, EvoRested, Admitted
  <2>2. RuntimeOf(h) = RuntimeOf(Was) /\ HuskOf(h) = HuskOf(Was)
    BY <2>1, SameCore DEF CoreAs, DataAs
  <2>3. RuntimeOf(h) = "up"
    BY <1>0, <2>1, EvoLooks DEF CoreAs, DataAs, On, Off, EvoRested
  <2>4. RuntimeOf(h) \in Promised!Succeeds(Found, op)
    BY <1>3, <2>2, <2>3 DEF Promised!Succeeds, Promised!Serves, Promised!Deployed, Found
  <2>5. HuskOf(h) \in Promised!HuskAfter(Found, op, RuntimeOf(h), TRUE)
    BY <1>3, <2>2 DEF Promised!HuskAfter, Found
  <2> QED BY <2>4, <2>5, Fairly
<1>4. CASE op = "delete"
  <2>0. EvoDeleted(h) /\ Was.home = Parts /\ Was.bin = {} /\ Was.recycle = "none"
    BY <1>4 DEF EvoDone, EvoDeleted
  <2>2. Found.husk = FALSE /\ Found.runtime \in {"up", "stopped", "broken"}
        /\ IF WasOn THEN Found.runtime # "stopped" ELSE Found.runtime # "up"
    BY <1>0, <1>4, <2>0, EvoLooks DEF Found, WasOn
  <2>3. RuntimeOf(h) \in Promised!Succeeds(Found, "delete") /\ HuskOf(h) = FALSE
    BY <1>0, <2>0, <2>2, EvoDeleteEnds
  <2>4. HuskOf(h) \in Promised!HuskAfter(Found, "delete", RuntimeOf(h), TRUE)
    BY <1>0, <2>2, <2>3 DEF Promised!HuskAfter, Promised!Script
  <2> QED BY <1>4, <2>3, <2>4, Fairly
<1>5. CASE op = "create"
  <2>1. Found.runtime = "none" /\ Found.husk = FALSE
    <3>1. Was.main = "none" /\ Was.proxy = "none" /\ Was.home = {} /\ Was.bin = {} /\ Was.recycle = "none"
      BY <1>5 DEF BareHost, EvoRested, Admitted
    <3>2. RuntimeOf(Was) = "none" /\ HuskOf(Was) = FALSE
      BY <1>0, <3>1, EvoLooks
    <3> QED BY <3>2 DEF Found
  <2>2. RuntimeOf(h) = "up" /\ HuskOf(h) = FALSE
    BY <1>0, <1>5, EvoLooks DEF EvoCreates, EvoDone, On
  <2>3. RuntimeOf(h) \in Promised!Succeeds(Found, op)
    BY <1>5, <2>1, <2>2 DEF Promised!Succeeds, Promised!CreateEnds
  <2>4. HuskOf(h) \in Promised!HuskAfter(Found, op, RuntimeOf(h), TRUE)
    BY <1>5, <2>1, <2>2 DEF Promised!HuskAfter
  <2> QED BY <2>3, <2>4, Fairly
<1>6. CASE op = "restore"
  <2>0. EvoRested(Was, "deleted")
    BY <1>6 DEF Admitted, EvoRested
  <2>1. /\ EvoRestores(h) /\ Was.recycle = "listed" /\ h.home = Parts /\ h.recycle = "none" /\ (Was.note.running => On(h))
    BY <1>6 DEF EvoDone
  <2>2. /\ \/ Found.runtime = (IF Was.note.running THEN "archived" ELSE "archived_off") /\ Found.husk = FALSE
           \/ Found.runtime \in {"up", "stopped", "broken"} /\ Found.husk
        /\ Found.taken = FALSE
    BY <1>0, <2>0, <2>1, EvoLooks DEF Found, EvoRestores, EvoRested, Off, EvoFit
  <2>3. /\ RuntimeOf(h) \in {"up", "stopped", "broken"} /\ HuskOf(h) = FALSE
        /\ Was.note.running => RuntimeOf(h) = "up"
    BY <1>0, <2>1, EvoLooks DEF On
  <2>4. RuntimeOf(h) \in Promised!Succeeds(Found, op) \/ RuntimeOf(h) \in Promised!Slackens(Found, op)
    BY <1>0, <1>6, <2>2, <2>3 DEF Promised!Succeeds, Promised!Slackens, Promised!RestoreEnds, Promised!Halfway, Promised!Remains,
       Promised!Script, Promised!Deployed
  <2>5. HuskOf(h) \in Promised!HuskAfter(Found, op, RuntimeOf(h), TRUE)
    BY <1>0, <1>6, <2>3 DEF Promised!HuskAfter, Promised!Script, Promised!Deployed
  <2> QED BY <2>4, <2>5, Fairly
<1>7. CASE op = "purge_deleted"
  <2>0. EvoRested(Was, "deleted") /\ EvoPurges(h) /\ h.recycle = "none" /\ h.bin = {}
    BY <1>7 DEF Admitted, EvoRested, EvoDone, EvoPurges
  <2>1. /\ HuskOf(h) = FALSE
        /\ \/ Found.runtime \in {"archived", "archived_off"} /\ Found.husk = FALSE /\ RuntimeOf(h) = "none"
           \/ Found.runtime = "broken" /\ Found.husk = TRUE /\ RuntimeOf(h) \in {"broken", "none"}
           \/ Found.runtime \in {"none", "up", "stopped"} /\ Found.husk = TRUE /\ RuntimeOf(h) = Found.runtime
    BY <1>0, <2>0, EvoLooks DEF Found, EvoPurges, EvoRested, Off, EvoFit
  <2>2. RuntimeOf(h) \in Promised!Succeeds(Found, op)
    BY <1>7, <2>1 DEF Promised!Succeeds, Promised!PurgeEnds, Promised!Archived
  <2>3. HuskOf(h) \in Promised!HuskAfter(Found, op, RuntimeOf(h), TRUE)
    BY <1>7, <2>1 DEF Promised!HuskAfter, Promised!Archived
  <2> QED BY <2>2, <2>3, Fairly
<1> QED BY <1>1, <1>2, <1>3, <1>4, <1>5, <1>6, <1>7 DEF EvoRequest

\* A clean-up takes the containers, and what it leaves counts for nothing.
Cleared ==
  /\ pc # "idle" /\ pc' = "idle" /\ op = "cleanup_failed" /\ UNCHANGED <<product, op, before>>
  /\ outcome' = "ok" /\ ~CleanedUp
  /\ RuntimeOf(host)' \in Promised!CleanupEnds(Found) /\ HuskOf(host)' = HuskOf(Was)

LEMMA EvoCleared ==
  ASSUME product = "evoscientist", product' = product, op = "cleanup_failed", op' = op, row' = "gone", ~CleanedUp,
         EvoFit(Was), Was.bin = {} \/ Off(Was), EvoFit(host'), EvoCleans(host'), Off(host')
  PROVE  RuntimeOf(host)' \in Promised!CleanupEnds(Found) /\ HuskOf(host)' = HuskOf(Was)
<1> DEFINE gone == host'.home = {} /\ host'.bin = Parts /\ host'.recycle = "listed"
<1>0. /\ host'.home = Was.home /\ host'.bin = Was.bin /\ host'.recycle = Was.recycle /\ host'.note = Was.note
      /\ host'.older = {} /\ Was.older = {} /\ Parts # {} /\ Parts' = Parts
  BY EvoLooks DEF EvoCleans, DataAs, EvoFit, Parts
<1>1. RuntimeOf(host)' = IF gone THEN IF host'.note.running THEN "archived" ELSE "archived_off" ELSE "none"
  BY <1>0 DEF RuntimeOf, AllOff, Needed, Both, Buried, CleanedUp, Off
<1>2. RuntimeOf(Was) =
              IF Was.main = "running" /\ Was.proxy = "running" /\ Was.home = Parts THEN "up"
              ELSE IF Was.main = "stopped" /\ Was.proxy = "stopped" /\ Was.home = Parts THEN "stopped"
              ELSE IF Was.main = "none" /\ Was.proxy = "none" /\ Was.home = {} /\ Was.bin = Parts /\ Was.recycle = "listed"
                   THEN IF Was.note.running THEN "archived" ELSE "archived_off"
              ELSE IF Was.main = "none" /\ Was.proxy = "none" /\ Was.home \cup Was.bin = {} THEN "none" ELSE "broken"
  BY <1>0, EvoLooks
<1>3. HuskOf(Was) = (Was.recycle # "none" /\ RuntimeOf(Was) \notin {"archived", "archived_off"})
  BY <1>0, EvoLooks
<1>4. HuskOf(host)' = (host'.recycle # "none" /\ RuntimeOf(host)' \notin {"archived", "archived_off"})
  BY DEF HuskOf
<1>5. CASE gone
  <2>1. RuntimeOf(host)' = RuntimeOf(Was) /\ RuntimeOf(Was) \in {"archived", "archived_off"}
    BY <1>0, <1>1, <1>2, <1>5 DEF Off
  <2>2. HuskOf(host)' = HuskOf(Was)
    BY <1>0, <1>3, <1>4, <2>1
  <2> QED BY <2>1, <2>2 DEF Promised!CleanupEnds, Promised!Deployed, Found
<1>6. CASE ~gone
  <2>1. RuntimeOf(host)' = "none" /\ RuntimeOf(Was) \in {"up", "stopped", "broken", "none"}
    BY <1>0, <1>1, <1>2, <1>6
  <2>2. HuskOf(host)' = HuskOf(Was)
    BY <1>0, <1>3, <1>4, <2>1
  <2> QED BY <2>1, <2>2 DEF Promised!CleanupEnds, Promised!Deployed, Found
<1> QED BY <1>5, <1>6

------------------------------------------------------------------------------
(* EvoScientist: the functions that operations call *)

\* What docker may do to each container.
Shifts(h) ==
  /\ Beside(h) /\ h.main \in Container /\ h.proxy \in Container
  /\ h.main = "none" <=> host.main = "none"
  /\ h.proxy = "none" <=> host.proxy = "none"

LEMMA ContainerEffects ==
  ASSUME DOMAIN host = Fields
  PROVE  /\ \A h \in Ran("proxy") : Beside(h) /\ h.main = host.main /\ h.proxy = "running" /\ host.main = "running"
         /\ \A h \in Created("proxy") : Beside(h) /\ h.main = host.main /\ h.proxy = "stopped"
         /\ \A h \in Removed({"proxy"}) : Beside(h) /\ h.main = host.main /\ h.proxy = "none"
         /\ \A h \in Ran("ingress") \cup Created("ingress") \cup Removed({"ingress"}) : Aside(h)
         /\ Removed({"main"}) # {} /\ Removed({"proxy"}) # {} /\ Removed({"ingress"}) # {}
         /\ \A h \in Started("proxy") : Beside(h) /\ h.main = host.main /\ host.proxy # "none" /\ h.proxy = "running" 
         /\ \A h \in Stopped("proxy") : Beside(h) /\ h.main = host.main /\ host.proxy # "none" /\ h.proxy = "stopped"
         /\ \A h \in Started("ingress") \cup Stopped("ingress") : Aside(h)
BY DEF Ran, Created, Removed, Started, Stopped, Joins, Beside, Aside, Fields

LEMMA Shifting ==
  ASSUME DOMAIN host = Fields, host.main \in Container, host.proxy \in Container, NEW c \in Containers
  PROVE  \A h \in Started(c) \cup Stopped(c) \cup {host} : Shifts(h)
<1>1. CASE c = "main"
  BY <1>1, MainEffects DEF Shifts, Container, Beside
<1>2. CASE c = "proxy"
  BY <1>2, ContainerEffects DEF Shifts, Container, Beside
<1>3. CASE c = "ingress"
  BY <1>3, ContainerEffects DEF Shifts, Container, Beside, Aside
<1> QED BY <1>1, <1>2, <1>3 DEF Containers

ERun     == {"run", "run.proxy", "run.undo"}
ERemove  == {"remove", "remove.main"}
EIngress == {"ingress", "ingress.rm", "ingress.run", "ingress.connect", "ingress.undo", "ingress.unlink"}
EStart   == {"start", "start.next", "start.undo"}
EStop    == {"stop", "stop.next", "stop.undo"}
ERestart == {"restart", "restart.next"}

\* Nothing but the containers is touched.
Contained(h) == Beside(h) /\ h.main \in Container /\ h.proxy \in Container

LEMMA EvoRunning ==
  ASSUME DOMAIN host = Fields, host.main \in Container, host.proxy \in Container, RunContainers
  PROVE  /\ pc \in ERun /\ Contained(host')
         /\ \E t \in ERun \cup {"ok", "fail", "raise"} : To(t, kept) /\ (t = "ok" => On(host'))
<1> USE DEF Contained
<1>0. Contained(host)
  BY Effects DEF Beside
<1>1. CASE Runs("run", RanMain(kept.target), CreatedMain(kept.target), "run.proxy", "fail", "raise")
  <2>1. pc = "run" /\ \E t \in {"run.proxy", "fail", "raise"} : To(t, kept)
    BY <1>1 DEF Runs
  <2>2. host' \in RanMain(kept.target) \cup CreatedMain(kept.target) \cup {host}
    BY <1>1 DEF Runs
  <2>3. Contained(host')
    BY <1>0, <2>2, MainEffects DEF Container
  <2> QED BY <2>1, <2>3 DEF ERun
<1>2. CASE Runs("run.proxy", Ran("proxy"), Created("proxy"), "ok", "run.undo", "raise")
  <2>1. pc = "run.proxy" /\ \E t \in {"ok", "run.undo", "raise"} : To(t, kept) /\ (t = "ok" => host' \in Ran("proxy"))
    BY <1>2 DEF Runs
  <2>2. host' \in Ran("proxy") \cup Created("proxy") \cup {host}
    BY <1>2 DEF Runs
  <2>3. Contained(host')
    BY <1>0, <2>2, ContainerEffects DEF Container
  <2>4. host' \in Ran("proxy") => On(host')
    BY ContainerEffects DEF On
  <2> QED BY <2>1, <2>3, <2>4 DEF ERun
<1>3. CASE Tries("run.undo", Removed({"main"}), kept, "fail", "raise")
  <2>1. pc = "run.undo" /\ \E t \in {"fail", "raise"} : To(t, kept)
    BY <1>3 DEF Tries
  <2>2. host' \in Removed({"main"}) \cup {host}
    BY <1>3, ContainerEffects DEF Tries
  <2>3. Contained(host')
    BY <1>0, <2>2, MainEffects DEF Container
  <2> QED BY <2>1, <2>3 DEF ERun
<1> QED BY <1>1, <1>2, <1>3 DEF RunContainers

LEMMA EvoRemoving ==
  ASSUME DOMAIN host = Fields, RemoveContainers
  PROVE  /\ pc \in ERemove /\ Beside(host') /\ host'.main \in {host.main, "none"} /\ host'.proxy \in {host.proxy, "none"}
         /\ \E t \in {"remove.main", "ok", "fail", "raise"} :
              /\ To(t, kept) /\ (t = "remove.main" => host'.proxy = "none")
              /\ t = "ok" => pc = "remove.main" /\ host'.main = "none" /\ host'.proxy = host.proxy
<1>0. Beside(host)
  BY DEF Beside
<1>1. CASE Runs("remove", Removed({"proxy"}), {}, "remove.main", "fail", "raise")
  <2>1. pc = "remove" /\ \E t \in {"remove.main", "fail", "raise"} : To(t, kept) /\ (t = "remove.main" => host' \in Removed({"proxy"}))
    BY <1>1 DEF Runs
  <2>2. host' \in Removed({"proxy"}) \cup {host}
    BY <1>1 DEF Runs
  <2> QED BY <1>0, <2>1, <2>2, ContainerEffects DEF ERemove
<1>2. CASE Runs("remove.main", Removed({"main"}), {}, "ok", "fail", "raise")
  <2>1. pc = "remove.main" /\ \E t \in {"ok", "fail", "raise"} : To(t, kept) /\ (t = "ok" => host' \in Removed({"main"}))
    BY <1>2 DEF Runs
  <2>2. host' \in Removed({"main"}) \cup {host}
    BY <1>2 DEF Runs
  <2> QED BY <1>0, <2>1, <2>2, MainEffects DEF ERemove
<1> QED BY <1>1, <1>2 DEF RemoveContainers

LEMMA EvoIngressing ==
  ASSUME DOMAIN host = Fields, ConfigureIngress
  PROVE  pc \in EIngress /\ Aside(host') /\ \E t \in EIngress \cup {"ok", "fail"} : To(t, kept)
<1>0. Aside(host) /\ Aside([host EXCEPT !.conf = {"active"}]) /\ Aside([host EXCEPT !.conf = {}])
  BY Effects
<1>1. CASE Writes("ingress", [host EXCEPT !.conf = {"active"}], {}, "ingress.rm", "fail")
  BY <1>0, <1>1 DEF Writes, EIngress
<1>2. CASE Tries("ingress.rm", Removed({"ingress"}), kept, "ingress.run", "fail")
  BY <1>0, <1>2, ContainerEffects DEF Tries, EIngress
<1>3. CASE Runs("ingress.run", Ran("ingress"), Created("ingress"), "ingress.connect", "ingress.unlink", "fail")
  BY <1>0, <1>3, ContainerEffects DEF Runs, EIngress
<1>4. CASE Runs("ingress.connect", {host}, {}, "ok", "ingress.undo", "fail")
  BY <1>0, <1>4 DEF Runs, EIngress
<1>5. CASE Tries("ingress.undo", Removed({"ingress"}), kept, "ingress.unlink", "fail")
  BY <1>0, <1>5, ContainerEffects DEF Tries, EIngress
<1>6. CASE Writes("ingress.unlink", [host EXCEPT !.conf = {}], {}, "fail", "fail")
  BY <1>0, <1>6 DEF Writes, EIngress
<1> QED BY <1>1, <1>2, <1>3, <1>4, <1>5, <1>6 DEF ConfigureIngress

------------------------------------------------------------------------------
\* which containers are still to come, and what those have become that have been
Starting(todo, h) ==
  \/ todo \in {<<"main", "proxy">>, <<"main", "proxy", "ingress">>}
  \/ todo \in {<<"proxy">>, <<"proxy", "ingress">>} /\ h.main = "running"
  \/ todo \in {<<>>, <<"ingress">>} /\ On(h)
Stopping(todo, h) ==
  \/ todo \in {<<"proxy", "main">>, <<"ingress", "proxy", "main">>}
  \/ todo = <<"main">> /\ h.proxy = "stopped"
  \/ todo = <<>> /\ h.main = "stopped" /\ h.proxy = "stopped"

LEMMA NamesAre ==
  /\ Names \in {<<"main", "proxy">>, <<"main", "proxy", "ingress">>}
  /\ Backwards(Names) \in {<<"proxy", "main">>, <<"ingress", "proxy", "main">>}
<1>1. CASE host.ingress = "none"
  <2>1. Names = <<"main", "proxy">> \o <<>>
    BY <1>1 DEF Names
  <2>3. <<"main", "proxy">> \in Seq(Containers)
    BY DEF Containers
  <2>4. <<"main", "proxy">> \o <<>> = <<"main", "proxy">>
    BY <2>3
  <2>2. Backwards(<<"main", "proxy">>) = <<"proxy", "main">>
    BY DEF Backwards
  <2> QED BY <2>1, <2>2, <2>4
<1>2. CASE host.ingress # "none"
  <2>1. Names = <<"main", "proxy">> \o <<"ingress">>
    BY <1>2 DEF Names
  <2>3. <<"main", "proxy">> \o <<"ingress">> = <<"main", "proxy", "ingress">>
    <3> DEFINE s == <<"main", "proxy">> \o <<"ingress">>
    <3>1. <<"main", "proxy">> \in Seq(Containers) /\ <<"ingress">> \in Seq(Containers)
          /\ <<"main", "proxy", "ingress">> \in Seq(Containers)
      BY DEF Containers
    <3>2. s \in Seq(Containers) /\ Len(s) = 3 /\ s[1] = "main" /\ s[2] = "proxy" /\ s[3] = "ingress"
      BY <3>1
    <3>3. \A q \in Seq(Containers) : Len(q) = 3 /\ q[1] = "main" /\ q[2] = "proxy" /\ q[3] = "ingress"
            => q = <<"main", "proxy", "ingress">>
      BY <3>1
    <3> QED BY <3>2, <3>3
  <2>2. Backwards(<<"main", "proxy", "ingress">>) = <<"ingress", "proxy", "main">>
    BY DEF Backwards
  <2> QED BY <2>1, <2>2, <2>3
<1> QED BY <1>1, <1>2

LEMMA NextStarted ==
  ASSUME DOMAIN host = Fields, NEW todo, todo # <<>>, Starting(todo, host), NEW h, h \in Started(Head(todo))
  PROVE  Starting(Tail(todo), h)
<1>1. CASE todo \in {<<"main", "proxy">>, <<"main", "proxy", "ingress">>}
  <2>1. Head(todo) = "main" /\ Tail(todo) \in {<<"proxy">>, <<"proxy", "ingress">>}
    <3>1. Head(<<"main", "proxy">>) = "main" /\ Tail(<<"main", "proxy">>) = <<"proxy">>
      OBVIOUS
    <3>2. Head(<<"main", "proxy", "ingress">>) = "main" /\ Tail(<<"main", "proxy", "ingress">>) = <<"proxy", "ingress">>
      OBVIOUS
    <3> QED BY <1>1, <3>1, <3>2
  <2> QED BY <2>1, MainEffects DEF Starting
<1>2. CASE todo \in {<<"proxy">>, <<"proxy", "ingress">>} /\ host.main = "running"
  <2>1. Head(todo) = "proxy" /\ Tail(todo) \in {<<>>, <<"ingress">>}
    <3>1. Head(<<"proxy">>) = "proxy" /\ Tail(<<"proxy">>) = <<>>
      OBVIOUS
    <3>2. Head(<<"proxy", "ingress">>) = "proxy" /\ Tail(<<"proxy", "ingress">>) = <<"ingress">>
      OBVIOUS
    <3> QED BY <1>2, <3>1, <3>2
  <2> QED BY <1>2, <2>1, ContainerEffects DEF Starting, On
<1>3. CASE todo = <<"ingress">> /\ On(host)
  <2>1. Head(todo) = "ingress" /\ Tail(todo) = <<>>
    BY <1>3
  <2> QED BY <1>3, <2>1, ContainerEffects DEF Starting, On, Aside
<1> QED BY <1>1, <1>2, <1>3 DEF Starting

LEMMA NextStopped ==
  ASSUME DOMAIN host = Fields, NEW todo, todo # <<>>, Stopping(todo, host), NEW h, h \in Stopped(Head(todo))
  PROVE  Stopping(Tail(todo), h)
<1>1. CASE todo = <<"ingress", "proxy", "main">>
  <2>1. Tail(todo) = <<"proxy", "main">>
    BY <1>1
  <2> QED BY <2>1 DEF Stopping
<1>2. CASE todo = <<"proxy", "main">>
  <2>1. Head(todo) = "proxy" /\ Tail(todo) = <<"main">>
    BY <1>2
  <2> QED BY <2>1, ContainerEffects DEF Stopping
<1>3. CASE todo = <<"main">> /\ host.proxy = "stopped"
  <2>1. Head(todo) = "main" /\ Tail(todo) = <<>>
    BY <1>3
  <2> QED BY <1>3, <2>1, MainEffects DEF Stopping
<1> QED BY <1>1, <1>2, <1>3 DEF Stopping

\* The locals that matter to the callers are as they were.
Alike(k) == k.running = kept.running /\ k.image = kept.image /\ k.failed = kept.failed

LEMMA AlikeKept ==
  ASSUME Local(kept)
  PROVE  /\ Alike(kept) /\ Alike(Popped) /\ Alike(Undone)
         /\ \A x : Alike(Locals([todo |-> x, done |-> <<>>])) /\ Locals([todo |-> x, done |-> <<>>]).todo = x
         /\ Popped.todo = Tail(kept.todo) /\ Undone.todo = kept.todo
<1> USE DEF Alike, Locals, Local, LocalNames
<1>1. Alike(kept)
  OBVIOUS
<1>2. Alike(Popped) /\ Popped.todo = Tail(kept.todo)
  BY DEF Popped
<1>3. Alike(Undone) /\ Undone.todo = kept.todo
  BY DEF Undone
<1>4. ASSUME NEW x
      PROVE  Alike(Locals([todo |-> x, done |-> <<>>])) /\ Locals([todo |-> x, done |-> <<>>]).todo = x
  OBVIOUS
<1> QED BY <1>1, <1>2, <1>3, <1>4

LEMMA EvoStarting ==
  ASSUME DOMAIN host = Fields, Local(kept), host.main \in Container, host.proxy \in Container, Start,
         pc = "start.next" => Starting(kept.todo, host)
  PROVE  /\ pc \in EStart /\ Shifts(host')
         /\ \E k : \E t \in EStart \cup {"ok", "fail", "raise"} :
              /\ To(t, k) /\ Alike(k)
              /\ t = "start.next" => Starting(k.todo, host')
              /\ t = "ok" => On(host')
<1>0. Shifts(host)
  BY DEF Shifts, Beside
<1>1. CASE Decides("start", "start.next", Locals([todo |-> Names, done |-> <<>>]))
  <2> DEFINE k == Locals([todo |-> Names, done |-> <<>>])
  <2>1. Starting(k.todo, host') /\ Alike(k)
    BY NamesAre, AlikeKept DEF Starting
  <2>2. To("start.next", k) /\ host' = host /\ pc = "start"
    BY <1>1 DEF Decides
  <2> HIDE DEF k
  <2> QED BY <1>0, <2>1, <2>2 DEF EStart
<1>2. CASE kept.todo = <<>> /\ Decides("start.next", "ok", kept)
  <2>1. To("ok", kept) /\ host' = host /\ pc = "start.next"
    BY <1>2 DEF Decides
  <2>2. On(host)
    <3>1. kept.todo \notin {<<"main", "proxy">>, <<"main", "proxy", "ingress">>, <<"proxy">>, <<"proxy", "ingress">>}
      BY <1>2
    <3> QED BY <2>1, <3>1 DEF Starting
  <2> QED BY <1>0, <2>1, <2>2, AlikeKept DEF EStart
<1>3. CASE /\ kept.todo # <<>> /\ pc = "start.next"
           /\ LET c == Head(kept.todo) IN
              \/ host' \in Started(c) /\ To("start.next", Popped) /\ UNCHANGED faults
              \/ Started(c) = {} /\ To("start.undo", kept) /\ UNCHANGED <<host, faults>>
              \/ Started(c) # {} /\ Fault /\ To("start.undo", kept) /\ UNCHANGED host
              \/ Started(c) # {} /\ Fault /\ To("raise", kept) /\ host' \in Started(c) \cup {host}
  <2>1. Head(kept.todo) \in Containers
    BY <1>3, ListsOfContainers
  <2>2. Shifts(host')
    BY <1>0, <1>3, <2>1, Shifting
  <2>3. CASE host' \in Started(Head(kept.todo)) /\ To("start.next", Popped)
    <3>1. Starting(Popped.todo, host')
      BY <1>3, <2>3, NextStarted, AlikeKept
    <3> QED BY <1>3, <2>2, <2>3, <3>1, AlikeKept DEF EStart
  <2>4. CASE To("start.undo", kept) \/ To("raise", kept)
    BY <1>3, <2>2, <2>4, AlikeKept DEF EStart
  <2> QED BY <1>3, <2>3, <2>4
<1>4. CASE kept.done = <<>> /\ Decides("start.undo", "fail", kept)
  BY <1>0, <1>4, AlikeKept DEF Decides, EStart
<1>5. CASE kept.done # <<>> /\ Tries("start.undo", Stopped(Head(kept.done)), Undone, "start.undo", "raise")
  <2>1. Head(kept.done) \in Containers
    BY <1>5, ListsOfContainers
  <2>2. Shifts(host')
    BY <1>0, <1>5, <2>1, Shifting DEF Tries
  <2> QED BY <1>5, <2>2, AlikeKept DEF Tries, EStart
<1> QED BY <1>1, <1>2, <1>3, <1>4, <1>5 DEF Start

LEMMA EvoStopping ==
  ASSUME DOMAIN host = Fields, Local(kept), host.main \in Container, host.proxy \in Container, Stop,
         pc = "stop.next" => Stopping(kept.todo, host)
  PROVE  /\ pc \in EStop /\ Shifts(host')
         /\ \E k : \E t \in EStop \cup {"ok", "fail", "raise"} :
              /\ To(t, k) /\ Alike(k)
              /\ t = "stop.next" => Stopping(k.todo, host')
              /\ t = "ok" => host'.main = "stopped" /\ host'.proxy = "stopped"
<1>0. Shifts(host)
  BY DEF Shifts, Beside
<1>1. CASE Decides("stop", "stop.next", Locals([todo |-> Backwards(Names), done |-> <<>>]))
  <2> DEFINE k == Locals([todo |-> Backwards(Names), done |-> <<>>])
  <2>1. Stopping(k.todo, host') /\ Alike(k)
    BY NamesAre, AlikeKept DEF Stopping
  <2>2. To("stop.next", k) /\ host' = host /\ pc = "stop"
    BY <1>1 DEF Decides
  <2> HIDE DEF k
  <2> QED BY <1>0, <2>1, <2>2 DEF EStop
<1>2. CASE kept.todo = <<>> /\ Decides("stop.next", "ok", kept)
  <2>1. To("ok", kept) /\ host' = host /\ pc = "stop.next"
    BY <1>2 DEF Decides
  <2>2. host.main = "stopped" /\ host.proxy = "stopped"
    <3>1. kept.todo \notin {<<"proxy", "main">>, <<"ingress", "proxy", "main">>, <<"main">>}
      BY <1>2
    <3> QED BY <2>1, <3>1 DEF Stopping
  <2> QED BY <1>0, <2>1, <2>2, AlikeKept DEF EStop
<1>3. CASE /\ kept.todo # <<>> /\ pc = "stop.next"
           /\ LET c == Head(kept.todo) IN
              \/ host' \in Stopped(c) /\ To("stop.next", Popped) /\ UNCHANGED faults
              \/ Stopped(c) = {} /\ To("stop.undo", kept) /\ UNCHANGED <<host, faults>>
              \/ Stopped(c) # {} /\ Fault /\ To("stop.undo", kept) /\ UNCHANGED host
              \/ Stopped(c) # {} /\ Fault /\ To("raise", kept) /\ host' \in Stopped(c) \cup {host}
  <2>1. Head(kept.todo) \in Containers
    BY <1>3, ListsOfContainers
  <2>2. Shifts(host')
    BY <1>0, <1>3, <2>1, Shifting
  <2>3. CASE host' \in Stopped(Head(kept.todo)) /\ To("stop.next", Popped)
    <3>1. Stopping(Popped.todo, host')
      BY <1>3, <2>3, NextStopped, AlikeKept
    <3> QED BY <1>3, <2>2, <2>3, <3>1, AlikeKept DEF EStop
  <2>4. CASE To("stop.undo", kept) \/ To("raise", kept)
    BY <1>3, <2>2, <2>4, AlikeKept DEF EStop
  <2> QED BY <1>3, <2>3, <2>4
<1>4. CASE kept.done = <<>> /\ Decides("stop.undo", "fail", kept)
  BY <1>0, <1>4, AlikeKept DEF Decides, EStop
<1>5. CASE kept.done # <<>> /\ Tries("stop.undo", Started(Head(kept.done)), Undone, "stop.undo", "raise")
  <2>1. Head(kept.done) \in Containers
    BY <1>5, ListsOfContainers
  <2>2. Shifts(host')
    BY <1>0, <1>5, <2>1, Shifting DEF Tries
  <2> QED BY <1>5, <2>2, AlikeKept DEF Tries, EStop
<1> QED BY <1>1, <1>2, <1>3, <1>4, <1>5 DEF Stop

\* stop, for callers that do not look whether it has worked
LEMMA EvoHalting ==
  ASSUME DOMAIN host = Fields, Local(kept), host.main \in Container, host.proxy \in Container, Stop
  PROVE  /\ pc \in EStop /\ Shifts(host')
         /\ \E k : \E t \in EStop \cup {"ok", "fail", "raise"} :
              To(t, k) /\ Alike(k)
<1>0. Shifts(host)
  BY DEF Shifts, Beside
<1>1. CASE Decides("stop", "stop.next", Locals([todo |-> Backwards(Names), done |-> <<>>]))
  <2> DEFINE k == Locals([todo |-> Backwards(Names), done |-> <<>>])
  <2>1. Alike(k)
    BY AlikeKept
  <2>2. To("stop.next", k) /\ host' = host /\ pc = "stop"
    BY <1>1 DEF Decides
  <2> HIDE DEF k
  <2> QED BY <1>0, <2>1, <2>2 DEF EStop
<1>2. CASE kept.todo = <<>> /\ Decides("stop.next", "ok", kept)
  <2>1. To("ok", kept) /\ host' = host /\ pc = "stop.next"
    BY <1>2 DEF Decides
  <2> QED BY <1>0, <2>1, AlikeKept DEF EStop
<1>3. CASE /\ kept.todo # <<>> /\ pc = "stop.next"
           /\ LET c == Head(kept.todo) IN
              \/ host' \in Stopped(c) /\ To("stop.next", Popped) /\ UNCHANGED faults
              \/ Stopped(c) = {} /\ To("stop.undo", kept) /\ UNCHANGED <<host, faults>>
              \/ Stopped(c) # {} /\ Fault /\ To("stop.undo", kept) /\ UNCHANGED host
              \/ Stopped(c) # {} /\ Fault /\ To("raise", kept) /\ host' \in Stopped(c) \cup {host}
  <2>1. Head(kept.todo) \in Containers
    BY <1>3, ListsOfContainers
  <2>2. Shifts(host')
    BY <1>0, <1>3, <2>1, Shifting
  <2>3. CASE host' \in Stopped(Head(kept.todo)) /\ To("stop.next", Popped)
    BY <1>3, <2>2, <2>3, AlikeKept DEF EStop
  <2>4. CASE To("stop.undo", kept) \/ To("raise", kept)
    BY <1>3, <2>2, <2>4, AlikeKept DEF EStop
  <2> QED BY <1>3, <2>3, <2>4
<1>4. CASE kept.done = <<>> /\ Decides("stop.undo", "fail", kept)
  BY <1>0, <1>4, AlikeKept DEF Decides, EStop
<1>5. CASE kept.done # <<>> /\ Tries("stop.undo", Started(Head(kept.done)), Undone, "stop.undo", "raise")
  <2>1. Head(kept.done) \in Containers
    BY <1>5, ListsOfContainers
  <2>2. Shifts(host')
    BY <1>0, <1>5, <2>1, Shifting DEF Tries
  <2> QED BY <1>5, <2>2, AlikeKept DEF Tries, EStop
<1> QED BY <1>1, <1>2, <1>3, <1>4, <1>5 DEF Stop

LEMMA EvoRestarting ==
  ASSUME DOMAIN host = Fields, Local(kept), host.main \in Container, host.proxy \in Container, Restart,
         pc = "restart.next" => Starting(kept.todo, host)
  PROVE  /\ pc \in ERestart /\ Shifts(host') /\ (On(host) => On(host'))
         /\ \E k : \E t \in ERestart \cup {"ok", "fail", "raise"} :
              /\ To(t, k)
              /\ t = "restart.next" => Starting(k.todo, host')
              /\ t = "ok" => On(host')
<1>0. Shifts(host)
  BY DEF Shifts, Beside
<1>1. CASE Decides("restart", "restart.next", Locals([todo |-> Names, done |-> <<>>]))
  <2> DEFINE k == Locals([todo |-> Names, done |-> <<>>])
  <2>1. Starting(k.todo, host')
    BY NamesAre, AlikeKept DEF Starting
  <2>2. To("restart.next", k) /\ host' = host /\ pc = "restart"
    BY <1>1 DEF Decides
  <2> HIDE DEF k
  <2> QED BY <1>0, <2>1, <2>2 DEF ERestart
<1>2. CASE kept.todo = <<>> /\ Decides("restart.next", "ok", kept)
  <2>1. To("ok", kept) /\ host' = host /\ pc = "restart.next"
    BY <1>2 DEF Decides
  <2>2. On(host)
    <3>1. kept.todo \notin {<<"main", "proxy">>, <<"main", "proxy", "ingress">>, <<"proxy">>, <<"proxy", "ingress">>}
      BY <1>2
    <3> QED BY <2>1, <3>1 DEF Starting
  <2> QED BY <1>0, <2>1, <2>2 DEF ERestart
<1>3. CASE /\ kept.todo # <<>> /\ pc = "restart.next"
           /\ LET c == Head(kept.todo) IN
              \/ host' \in Started(c) /\ To("restart.next", Popped) /\ UNCHANGED faults
              \/ Started(c) = {} /\ To("fail", kept) /\ UNCHANGED <<host, faults>>
              \/ Started(c) # {} /\ Fault /\ To("fail", kept) /\ UNCHANGED host
              \/ Started(c) # {} /\ Fault /\ To("raise", kept) /\ host' \in Started(c) \cup {host}
  <2>1. Head(kept.todo) \in Containers
    BY <1>3, ListsOfContainers
  <2>2. Shifts(host')
    BY <1>0, <1>3, <2>1, Shifting
  <2>5. On(host) => On(host')
    <3>1. host' \in Started(Head(kept.todo)) \cup {host}
      BY <1>3
    <3>2. Head(kept.todo) = "main" /\ host' # host => host'.main = "running" /\ host'.proxy = host.proxy
      BY <3>1, MainEffects
    <3>3. Head(kept.todo) = "proxy" /\ host' # host => host'.proxy = "running" /\ host'.main = host.main
      BY <3>1, ContainerEffects
    <3>4. Head(kept.todo) = "ingress" /\ host' # host => host'.main = host.main /\ host'.proxy = host.proxy
      BY <3>1, ContainerEffects DEF Aside
    <3> QED BY <2>1, <3>2, <3>3, <3>4 DEF On, Containers
  <2>3. CASE host' \in Started(Head(kept.todo)) /\ To("restart.next", Popped)
    <3>1. Starting(Popped.todo, host')
      BY <1>3, <2>3, NextStarted, AlikeKept
    <3> QED BY <1>3, <2>2, <2>3, <2>5, <3>1 DEF ERestart
  <2>4. CASE To("fail", kept) \/ To("raise", kept)
    BY <1>3, <2>2, <2>4, <2>5 DEF ERestart
  <2> QED BY <1>3, <2>3, <2>4
<1> QED BY <1>1, <1>2, <1>3 DEF Restart

------------------------------------------------------------------------------
(* EvoScientist: start, stop, restart and the model provider *)

LEMMA EvoStaysFit ==
  ASSUME EvoFit(host), Contained(host')
  PROVE  EvoFit(host')
BY DEF EvoFit, Contained, Beside

LEMMA EvoShifts ==
  ASSUME EvoFit(host), Shifts(host')
  PROVE  /\ Contained(host') /\ EvoFit(host') /\ (Off(host) <=> Off(host'))
         /\ EvoServes(host) => EvoServes(host')
         /\ DataAs(host) => DataAs(host')
BY DEF EvoFit, Contained, Shifts, Beside, Off, EvoServes, DataAs

EStarts ==
  /\ EvoServes(host) /\ pc \in EStart /\ stack = <<>>
  /\ pc = "start.next" => Starting(kept.todo, host)
EStops ==
  /\ EvoServes(host) /\ pc \in EStop /\ stack = <<>>
  /\ pc = "stop.next" => Stopping(kept.todo, host)
ERestarts ==
  /\ EvoServes(host) /\ pc \in ERestart /\ stack = <<>>
  /\ pc = "restart.next" => Starting(kept.todo, host)
\* the running containers are restarted for the new settings
ProviderFrom == Caller("ok", "provider.undo", "provider.undo")
ESets ==
  /\ CoreAs(host)
  /\ \/ Sets
     \/ /\ pc \in ERestart /\ stack = <<ProviderFrom>> /\ On(host)
        /\ pc = "restart.next" => Starting(kept.todo, host)

LEMMA ServesStays ==
  ASSUME Onward
  PROVE  /\ EvoServes(host') => EvoServes(host)'
         /\ CoreAs(host') => CoreAs(host)'
         /\ Was' = Was /\ Parts' = Parts
<1>1. Was' = Was /\ Parts' = Parts
  BY DEF Onward, Was, Parts
<1> QED BY <1>1 DEF EvoServes, DataAs, CoreAs, Off

LEMMA EvoStartingOn ==
  ASSUME DOMAIN host = Fields, Local(kept), EvoFit(host), EStarts, Start
  PROVE  EvoFit(host') /\ EvoServes(host') /\ ((EStarts' /\ Onward) \/ Closes(On(host')))
<1>0. host.main \in Container /\ host.proxy \in Container
  BY DEF EvoFit
<1>1. Shifts(host')
  BY <1>0, EvoStarting DEF EStarts
<1>2. PICK k :
         \E t \in EStart \cup {"ok", "fail", "raise"} :
              /\ To(t, k) /\ Alike(k)
              /\ t = "start.next" => Starting(k.todo, host')
              /\ t = "ok" => On(host')
  BY <1>0, EvoStarting DEF EStarts
<1>3. PICK t \in EStart \cup {"ok", "fail", "raise"} :
              /\ To(t, k)
              /\ t = "start.next" => Starting(k.todo, host')
              /\ t = "ok" => On(host')
  BY <1>2
<1>4. EvoFit(host') /\ EvoServes(host')
  BY <1>1, EvoShifts DEF EStarts
<1>5. IF t \in Results THEN Ended(t) ELSE Went(t, <<>>, k)
  BY <1>3, Alone DEF EStarts
<1>6. CASE t \in Results
  BY <1>3, <1>4, <1>5, <1>6 DEF Closes
<1>7. CASE t \notin Results
  <2>1. Onward /\ pc' = t /\ stack' = <<>> /\ kept' = k /\ t \in EStart
    BY <1>3, <1>5, <1>7 DEF Went, Onward, EStart, Results
  <2>2. EvoServes(host)'
    BY <1>4, <2>1, ServesStays
  <2>3. (pc = "start.next" => Starting(kept.todo, host))'
    BY <1>3, <2>1 DEF Starting, On
  <2> QED BY <1>4, <2>1, <2>2, <2>3 DEF EStarts, EStart
<1> QED BY <1>6, <1>7

LEMMA EvoStoppingOn ==
  ASSUME DOMAIN host = Fields, Local(kept), EvoFit(host), EStops, Stop
  PROVE  EvoFit(host') /\ EvoServes(host') /\ ((EStops' /\ Onward) \/ Closes(host'.main = "stopped" /\ host'.proxy = "stopped"))
<1>0. host.main \in Container /\ host.proxy \in Container
  BY DEF EvoFit
<1>1. Shifts(host')
  BY <1>0, EvoStopping DEF EStops
<1>2. PICK k :
         \E t \in EStop \cup {"ok", "fail", "raise"} :
              /\ To(t, k) /\ Alike(k)
              /\ t = "stop.next" => Stopping(k.todo, host')
              /\ t = "ok" => host'.main = "stopped" /\ host'.proxy = "stopped"
  BY <1>0, EvoStopping DEF EStops
<1>3. PICK t \in EStop \cup {"ok", "fail", "raise"} :
              /\ To(t, k)
              /\ t = "stop.next" => Stopping(k.todo, host')
              /\ t = "ok" => host'.main = "stopped" /\ host'.proxy = "stopped"
  BY <1>2
<1>4. EvoFit(host') /\ EvoServes(host')
  BY <1>1, EvoShifts DEF EStops
<1>5. IF t \in Results THEN Ended(t) ELSE Went(t, <<>>, k)
  BY <1>3, Alone DEF EStops
<1>6. CASE t \in Results
  BY <1>3, <1>4, <1>5, <1>6 DEF Closes
<1>7. CASE t \notin Results
  <2>1. Onward /\ pc' = t /\ stack' = <<>> /\ kept' = k /\ t \in EStop
    BY <1>3, <1>5, <1>7 DEF Went, Onward, EStop, Results
  <2>2. EvoServes(host)'
    BY <1>4, <2>1, ServesStays
  <2>3. (pc = "stop.next" => Stopping(kept.todo, host))'
    BY <1>3, <2>1 DEF Stopping
  <2> QED BY <1>4, <2>1, <2>2, <2>3 DEF EStops, EStop
<1> QED BY <1>6, <1>7

LEMMA EvoRestartingOn ==
  ASSUME DOMAIN host = Fields, Local(kept), EvoFit(host), ERestarts, Restart
  PROVE  EvoFit(host') /\ EvoServes(host') /\ ((ERestarts' /\ Onward) \/ Closes(On(host')))
<1>0. host.main \in Container /\ host.proxy \in Container
  BY DEF EvoFit
<1>1. Shifts(host')
  BY <1>0, EvoRestarting DEF ERestarts
<1>2. PICK k :
         \E t \in ERestart \cup {"ok", "fail", "raise"} :
              /\ To(t, k)
              /\ t = "restart.next" => Starting(k.todo, host')
              /\ t = "ok" => On(host')
  BY <1>0, EvoRestarting DEF ERestarts
<1>3. PICK t \in ERestart \cup {"ok", "fail", "raise"} :
              /\ To(t, k)
              /\ t = "restart.next" => Starting(k.todo, host')
              /\ t = "ok" => On(host')
  BY <1>2
<1>4. EvoFit(host') /\ EvoServes(host')
  BY <1>1, EvoShifts DEF ERestarts
<1>5. IF t \in Results THEN Ended(t) ELSE Went(t, <<>>, k)
  BY <1>3, Alone DEF ERestarts
<1>6. CASE t \in Results
  BY <1>3, <1>4, <1>5, <1>6 DEF Closes
<1>7. CASE t \notin Results
  <2>1. Onward /\ pc' = t /\ stack' = <<>> /\ kept' = k /\ t \in ERestart
    BY <1>3, <1>5, <1>7 DEF Went, Onward, ERestart, Results
  <2>2. EvoServes(host)'
    BY <1>4, <2>1, ServesStays
  <2>3. (pc = "restart.next" => Starting(kept.todo, host))'
    BY <1>3, <2>1 DEF Starting, On
  <2> QED BY <1>4, <2>1, <2>2, <2>3 DEF ERestarts, ERestart
<1> QED BY <1>6, <1>7

LEMMA EvoSetting ==
  ASSUME product = "evoscientist", DOMAIN host = Fields, Local(kept), EvoFit(host), ESets,
         IF pc \in ERestart THEN Restart ELSE EvoProvider
  PROVE  CoreAs(host') /\ ((ESets' /\ Onward) \/ Closes(On(host')))
<1>0. host.main \in Container /\ host.proxy \in Container /\ CoreAs(host)
  BY DEF EvoFit, ESets
<1>1. CASE Sets
  <2>0. pc \notin ERestart
    BY <1>1 DEF Sets, Providing, ERestart
  <2>1. CASE Provides(ProvideSteps)
    <3>1. CoreAs(host') /\ ((Sets' /\ Onward) \/ Closes(Up'))
      BY <1>0, <1>1, <2>1, ProvidesOn
    <3>2. CASE Sets' /\ Onward
      BY <3>1, <3>2, ServesStays DEF ESets
    <3>3. CASE Closes(Up')
      <4>1. PICK r \in Results : Ended(r) /\ (r = "ok" => Up')
        BY <3>3 DEF Closes
      <4>2. r = "ok" => On(host')
        BY <4>1 DEF Ended, Up, On
      <4> QED BY <3>1, <4>1, <4>2 DEF Closes
    <3> QED BY <3>1, <3>2, <3>3
  <2>2. CASE Calls("provider.restart", "restart", kept, "ok", "provider.undo", "provider.undo")
    <3>1. pc = "provider.restart" /\ host' = host /\ Went("restart", <<ProviderFrom>>, kept)
      BY <1>1, <2>2, CallsFrom DEF Sets, ProviderFrom
    <3>2. Onward /\ pc' = "restart" /\ stack' = <<ProviderFrom>>
      BY <3>1 DEF Went, Onward
    <3>3. On(host)'
      BY <1>1, <3>1 DEF Sets, Up, On
    <3>4. CoreAs(host)'
      BY <1>0, <3>1, <3>2, ServesStays
    <3>5. ProviderFrom' = ProviderFrom
      BY DEF ProviderFrom, Caller
    <3> QED BY <1>0, <3>1, <3>2, <3>3, <3>4, <3>5 DEF ESets, ERestart
  <2> QED BY <2>0, <2>1, <2>2, EvoProvides
<1>2. CASE pc \in ERestart /\ stack = <<ProviderFrom>> /\ On(host) /\ (pc = "restart.next" => Starting(kept.todo, host))
  <2>1. Shifts(host') /\ On(host')
    BY <1>0, <1>2, EvoRestarting
  <2>2. PICK k :
         \E t \in ERestart \cup {"ok", "fail", "raise"} :
              /\ To(t, k)
              /\ t = "restart.next" => Starting(k.todo, host')
              /\ t = "ok" => On(host')
    BY <1>0, <1>2, EvoRestarting
  <2>3. PICK t \in ERestart \cup {"ok", "fail", "raise"} : To(t, k) /\ (t = "restart.next" => Starting(k.todo, host'))
    BY <2>2
  <2>4. CoreAs(host')
    BY <1>0, <1>2, <2>1 DEF CoreAs, DataAs, Shifts, Beside, On
  <2>5. ProviderFrom' = ProviderFrom /\ On(host)'
    BY <2>1 DEF ProviderFrom, Caller, On
  <2>6. CASE t \in Results
    <3>1. IF Answer(ProviderFrom, t) \in Results THEN Ended(Answer(ProviderFrom, t)) ELSE Went(Answer(ProviderFrom, t), <<>>, k)
      BY <1>2, <2>3, <2>6, OneCaller
    <3>2. Answer(ProviderFrom, t) = IF t = "ok" THEN "ok" ELSE "provider.undo"
      BY <2>3, <2>6, Answers DEF ProviderFrom, Results
    <3>3. CASE t = "ok"
      BY <2>1, <2>4, <3>1, <3>2, <3>3 DEF Closes, Results
    <3>4. CASE t # "ok"
      <4>1. Went("provider.undo", <<>>, k)
        BY <3>1, <3>2, <3>4 DEF Results
      <4>2. Onward /\ pc' = "provider.undo" /\ stack' = <<>>
        BY <4>1 DEF Went, Onward
      <4>3. Sets'
        BY <2>1, <4>2 DEF Sets, Up, On, Providing
      <4> QED BY <2>4, <4>2, <4>3, ServesStays DEF ESets
    <3> QED BY <3>3, <3>4
  <2>7. CASE t \notin Results
    <3>1. Went(t, stack, k) /\ t \in ERestart
      BY <2>3, <2>7, Within DEF Results
    <3>2. Onward /\ pc' = t /\ stack' = <<ProviderFrom>> /\ kept' = k
      BY <1>2, <3>1 DEF Went, Onward, ERestart
    <3>3. (pc = "restart.next" => Starting(kept.todo, host))'
      BY <2>3, <3>2 DEF Starting, On
    <3>4. (pc \in ERestart)'
      BY <3>1, <3>2 DEF ERestart
    <3> QED BY <2>4, <2>5, <3>2, <3>3, <3>4, ServesStays DEF ESets
  <2> QED BY <2>6, <2>7
<1> QED BY <1>1, <1>2 DEF ESets

------------------------------------------------------------------------------
(* EvoScientist: purge_deleted, cleanup_failed, update_version *)

EPurges ==
  /\ CoreAs(host) /\ pc \in {"purge_deleted", "purge.tree"} /\ stack = <<>>
  /\ pc = "purge.tree" => host.recycle # "none"

LEMMA EvoPurging ==
  ASSUME DOMAIN host = Fields, EvoFit(host), EPurges, PurgeDeleted
  PROVE  /\ EvoFit(host')
         /\ \/ CoreAs(host') /\ EPurges' /\ Onward
            \/ \E r \in Results : Ended(r) /\ IF r = "ok" THEN EvoPurges(host') /\ host'.recycle = "none"
                                              ELSE CoreAs(host') \/ (EvoPurges(host') /\ host'.recycle = "dir")
<1>0. CoreAs(host) /\ stack = <<>>
  BY DEF EPurges
<1>1. CASE Decides("purge_deleted", IF host.recycle = "none" THEN "fail" ELSE "purge.tree", kept)
  <2>1. host' = host
    BY <1>1 DEF Decides
  <2>2. CASE host.recycle = "none"
    <3>1. Ended("fail")
      BY <1>0, <1>1, <2>2, Alone DEF Decides, Results
    <3> QED BY <1>0, <2>1, <3>1 DEF Results
  <2>3. CASE host.recycle # "none"
    <3>1. Went("purge.tree", <<>>, kept)
      BY <1>0, <1>1, <2>3, Alone DEF Decides, Results
    <3>2. Onward /\ pc' = "purge.tree" /\ stack' = <<>>
      BY <3>1 DEF Went, Onward
    <3>3. CoreAs(host)'
      BY <1>0, <2>1, <3>2, ServesStays
    <3> QED BY <1>0, <2>1, <2>3, <3>2, <3>3 DEF EPurges
  <2> QED BY <2>2, <2>3
<1>2. CASE Writes("purge.tree", [host EXCEPT !.recycle = "none", !.bin = {}, !.note = NoNote],
            {[host EXCEPT !.recycle = "dir", !.bin = some, !.note = NoNote] : some \in SUBSET host.bin}, "ok", "fail")
  <2>0. host.recycle # "none"
    BY <1>2 DEF EPurges, Writes
  <2>1. CASE host' = [host EXCEPT !.recycle = "none", !.bin = {}, !.note = NoNote] /\ To("ok", kept)
    <3>1. /\ host'.recycle = "none" /\ host'.bin = {} /\ host'.home = host.home /\ host'.main = host.main
          /\ host'.proxy = host.proxy /\ host'.older = host.older
      BY <2>1 DEF Fields
    <3>2. EvoPurges(host') /\ EvoFit(host')
      BY <1>0, <2>0, <3>1 DEF EvoPurges, EvoFit, CoreAs, DataAs
    <3>3. Ended("ok")
      BY <1>0, <2>1, Alone DEF Results
    <3> QED BY <3>1, <3>2, <3>3 DEF Results
  <2>2. CASE host' = host /\ To("fail", kept)
    <3>1. Ended("fail")
      BY <1>0, <2>2, Alone DEF Results
    <3> QED BY <1>0, <2>2, <3>1 DEF Results
  <2>3. ASSUME NEW some \in SUBSET host.bin, host' = [host EXCEPT !.recycle = "dir", !.bin = some, !.note = NoNote],
               To("fail", kept)
        PROVE  EvoFit(host') /\ EvoPurges(host') /\ host'.recycle = "dir" /\ Ended("fail")
    <3>1. /\ host'.recycle = "dir" /\ host'.bin = some /\ host'.home = host.home /\ host'.main = host.main
          /\ host'.proxy = host.proxy /\ host'.older = host.older
      BY <2>3 DEF Fields
    <3>2. EvoPurges(host') /\ EvoFit(host')
      BY <1>0, <2>0, <3>1 DEF EvoPurges, EvoFit, CoreAs, DataAs
    <3>3. Ended("fail")
      BY <1>0, <2>3, Alone DEF Results
    <3> QED BY <3>1, <3>2, <3>3
  <2> QED BY <1>2, <2>1, <2>2, <2>3 DEF Writes, Results
<1> QED BY <1>1, <1>2 DEF PurgeDeleted

ECleans ==
  /\ EvoCleans(host)
  /\ pc \in {"cleanup_failed", "cleanup.proxy", "cleanup.ingress", "cleanup.conf", "cleanup.net"} /\ stack = <<>>
  /\ pc # "cleanup_failed" => host.main = "none"
  /\ pc \notin {"cleanup_failed", "cleanup.proxy"} => host.proxy = "none"

LEMMA EvoCleaning ==
  ASSUME DOMAIN host = Fields, EvoFit(host), ECleans, CleanupFailed
  PROVE  /\ EvoFit(host') /\ EvoCleans(host')
         /\ (ECleans' /\ Onward) \/ Closes(Off(host'))
<1>0. EvoCleans(host) /\ stack = <<>>
  BY DEF ECleans
<1>1. ASSUME Beside(host'), host'.main \in {host.main, "none"}, host'.proxy \in {host.proxy, "none"},
             NEW t, To(t, kept), t \in {"cleanup.proxy", "cleanup.ingress", "cleanup.conf", "cleanup.net", "ok", "fail", "raise"},
             t \notin {"fail", "raise"} => host'.main = "none",
             t \notin {"fail", "raise", "cleanup.proxy"} => host'.proxy = "none"
      PROVE  /\ EvoFit(host') /\ EvoCleans(host')
             /\ (ECleans' /\ Onward) \/ Closes(Off(host'))
  <2>1. EvoFit(host') /\ EvoCleans(host')
    BY <1>0, <1>1 DEF EvoCleans, EvoFit, Beside, DataAs, Container
  <2>2. CASE t \in Results
    <3>1. Ended(t)
      BY <1>0, <1>1, <2>2, Alone
    <3> QED BY <1>1, <2>1, <2>2, <3>1 DEF Closes, Off
  <2>3. CASE t \notin Results
    <3>1. Went(t, <<>>, kept) /\ t # "idle"
      BY <1>0, <1>1, <2>3, Alone
    <3>2. Onward /\ pc' = t /\ stack' = <<>>
      BY <3>1 DEF Went, Onward
    <3>3. Was' = Was
      BY <3>2, ServesStays
    <3>4. EvoCleans(host)'
      BY <2>1, <3>3 DEF EvoCleans, DataAs
    <3> QED BY <1>1, <2>1, <2>3, <3>2, <3>4 DEF ECleans, Results
  <2> QED BY <2>2, <2>3
<1>2. Beside(host)
  BY DEF Beside
<1>3. CASE Runs("cleanup_failed", Removed({"main"}), {}, "cleanup.proxy", "fail", "raise")
  <2>1. host' \in Removed({"main"}) \cup {host}
    BY <1>3 DEF Runs
  <2>2. Beside(host') /\ host'.main \in {host.main, "none"} /\ host'.proxy \in {host.proxy, "none"}
    BY <1>2, <2>1, MainEffects
  <2>3. \/ To("cleanup.proxy", kept) /\ host'.main = "none"
        \/ To("fail", kept) \/ To("raise", kept)
    BY <1>3, MainEffects DEF Runs
  <2> QED BY <1>1, <2>2, <2>3
<1>4. CASE Runs("cleanup.proxy", Removed({"proxy"}), {}, "cleanup.ingress", "fail", "raise")
  <2>1. host' \in Removed({"proxy"}) \cup {host} /\ host.main = "none"
    BY <1>4 DEF Runs, ECleans
  <2>2. Beside(host') /\ host'.main = "none" /\ host'.proxy \in {host.proxy, "none"}
    BY <1>2, <2>1, ContainerEffects
  <2>3. \/ To("cleanup.ingress", kept) /\ host'.proxy = "none"
        \/ To("fail", kept) \/ To("raise", kept)
    BY <1>4, ContainerEffects DEF Runs
  <2> QED BY <1>1, <2>2, <2>3
<1>5. CASE pc \in {"cleanup.ingress", "cleanup.conf", "cleanup.net"}
  <2>1. Aside(host') /\ host.main = "none" /\ host.proxy = "none"
    <3>1. host.main = "none" /\ host.proxy = "none"
      BY <1>5 DEF ECleans
    <3>2. CASE Runs("cleanup.ingress", Removed({"ingress"}), {}, "cleanup.conf", "fail", "raise")
      BY <3>1, <3>2, ContainerEffects, Effects DEF Runs
    <3>3. CASE Writes("cleanup.conf", [host EXCEPT !.conf = {}], {}, "cleanup.net", "raise")
      BY <3>1, <3>3, Effects DEF Writes
    <3>4. CASE Runs("cleanup.net", {[host EXCEPT !.net = FALSE]}, {}, "ok", "fail", "raise")
      BY <3>1, <3>4, Effects DEF Runs
    <3> QED BY <1>5, <3>2, <3>3, <3>4 DEF CleanupFailed, Runs
  <2>2. \E t \in {"cleanup.conf", "cleanup.net", "ok", "fail", "raise"} : To(t, kept)
    BY <1>5 DEF CleanupFailed, Runs, Writes
  <2>3. Beside(host') /\ host'.main = "none" /\ host'.proxy = "none" /\ host.main = "none" /\ host.proxy = "none"
    BY <2>1 DEF Aside
  <2> QED BY <1>1, <2>2, <2>3
<1> QED BY <1>3, <1>4, <1>5 DEF CleanupFailed, Runs, Writes

\* what a caller makes of a result
LEMMA CalledBack ==
  ASSUME NEW a, NEW b, NEW c, stack = <<Caller(a, b, c)>>, NEW t, NEW k, To(t, k)
  PROVE  /\ t \notin Results => Went(t, <<Caller(a, b, c)>>, k)
         /\ t = "ok" => IF a \in Results THEN Ended(a) ELSE Went(a, <<>>, k)
         /\ t = "raise" => IF c \in Results THEN Ended(c) ELSE Went(c, <<>>, k)
         /\ t = "fail" => IF b \in Results THEN Ended(b) ELSE Went(b, <<>>, k)
<1> DEFINE x == Caller(a, b, c)
<1>1. Answer(x, "ok") = a /\ Answer(x, "raise") = c /\ Answer(x, "fail") = b
  BY Answers
<1> HIDE DEF x
<1>2. stack = <<x>>
  BY DEF x
<1>3. t \notin Results => Went(t, <<x>>, k)
  BY <1>2, Within
<1>4. t \in Results => IF Answer(x, t) \in Results THEN Ended(Answer(x, t)) ELSE Went(Answer(x, t), <<>>, k)
  BY <1>2, OneCaller
<1> QED BY <1>1, <1>3, <1>4 DEF x, Results

LEMMA CalledAbove ==
  ASSUME NEW a, NEW b, NEW c, stack = Over(Caller(a, b, c)), NEW t, NEW k, To(t, k)
  PROVE  /\ t \notin Results => Went(t, Over(Caller(a, b, c)), k)
         /\ t = "ok" => IF a \in Results THEN Ended(Final(a)) ELSE Went(a, Above, k)
         /\ t = "raise" => IF c \in Results THEN Ended(Final(c)) ELSE Went(c, Above, k)
         /\ t = "fail" => IF b \in Results THEN Ended(Final(b)) ELSE Went(b, Above, k)
<1> DEFINE x == Caller(a, b, c)
<1>1. Answer(x, "ok") = a /\ Answer(x, "raise") = c /\ Answer(x, "fail") = b
  BY Answers
<1> HIDE DEF x
<1>2. stack = Over(x)
  BY DEF x
<1>3. IF t \notin Results THEN Went(t, Over(x), k)
      ELSE IF Answer(x, t) \in Results THEN Ended(Final(Answer(x, t))) ELSE Went(Answer(x, t), Above, k)
  BY <1>2, OverOne
<1> QED BY <1>1, <1>3 DEF x, Results

\* the image is known of what can be updated
Looking(k, h) == h.home = Parts /\ Was.main # "none" /\ k.running = (Was.main = "running")

\* at step p, with the callers s and the local variables k
UpdateAt(p, s, k, h) ==
  /\ k.image = "unset" \/ h.home = Parts
  /\ \/ p \in {"update_version", "update.inspect"} /\ s = <<>> /\ CoreAs(h)
     \/ /\ Looking(k, h)
        /\ \/ p \in {"update.look", "update.remove", "update.run", "update.wait"} /\ s = <<>>
           \/ p = "update.stop" /\ s = <<>> /\ ~k.running
           \/ p \in ERemove /\ s = <<Caller("update.run", "fail", "update.undo")>>
           \/ p \in ERun /\ s = <<Caller("update.wait", "update.undo", "update.undo")>>
           \/ p \in EStop /\ s = <<Caller("ok", "ok", "update.undo")>> /\ ~k.running
     \/ p \in {"update.undo", "update.undo.run"} /\ s = <<>>
     \/ p \in ERemove /\ s = <<Caller("update.undo.run", "update.undo.run", "raise")>>
     \/ /\ h.home = Parts
        /\ \/ p \in {"update.undo.wait", "update.undo.stop"} /\ s = <<>>
           \/ p \in ERun /\ s = <<Caller("update.undo.wait", "manual", "manual")>>
           \/ p \in EStop /\ s = <<Caller("rolledback", "rolledback", "manual")>>
EUpdates    == EvoServes(host) /\ UpdateAt(pc, stack, kept, host)
UpdateDone  == host'.home = Parts /\ Was.main # "none" /\ (Was.main = "running" => On(host'))
UpdateMoves == EvoFit(host') /\ EvoServes(host') /\ ((EUpdates' /\ Onward) \/ Closes(UpdateDone))

LEMMA UpdateGoes ==
  ASSUME EvoFit(host'), EvoServes(host')
  PROVE  /\ \A p, s, k : Went(p, s, k) /\ p # "idle" /\ UpdateAt(p, s, k, host') => UpdateMoves
         /\ \A r \in Results : Ended(r) /\ (r = "ok" => UpdateDone) => UpdateMoves
<1>1. ASSUME NEW p, NEW s, NEW k, Went(p, s, k), p # "idle", UpdateAt(p, s, k, host')
      PROVE  UpdateMoves
  <2>1. Onward /\ pc' = p /\ stack' = s /\ kept' = k
    BY <1>1 DEF Went, Onward
  <2>2. EvoServes(host)' /\ Was' = Was /\ Parts' = Parts
    BY <2>1, ServesStays
  <2>3. UpdateAt(pc, stack, kept, host)'
    BY <1>1, <2>1, <2>2 DEF UpdateAt, Looking, CoreAs, DataAs, Caller, ERun, ERemove, EStop
  <2> QED BY <2>1, <2>2, <2>3 DEF EUpdates, UpdateMoves
<1>2. ASSUME NEW r \in Results, Ended(r), r = "ok" => UpdateDone
      PROVE  UpdateMoves
  BY <1>2 DEF UpdateMoves, Closes
<1> QED BY <1>1, <1>2

LEMMA EvoUpdatingForward ==
  ASSUME DOMAIN host = Fields, Local(kept), EvoFit(host), EUpdates, UpdateForward
  PROVE  UpdateMoves
<1> USE DEF Results
<1>0. EvoServes(host) /\ UpdateAt(pc, stack, kept, host)
  BY DEF EUpdates
<1>1. host' = host
  BY CallsFrom DEF UpdateForward, Decides, Reads, Calls
<1>2. EvoFit(host') /\ EvoServes(host')
  BY <1>0, <1>1
<1>3. pc \in {"update_version", "update.inspect", "update.look", "update.remove", "update.run", "update.wait", "update.stop"}
  BY DEF UpdateForward, Decides, Reads, Calls
<1>4. stack = <<>> /\ (kept.image = "unset" \/ host.home = Parts)
  BY <1>0, <1>3 DEF UpdateAt, ERun, ERemove, EStop
<1>5. /\ pc \in {"update_version", "update.inspect"} => CoreAs(host)
      /\ pc \notin {"update_version", "update.inspect"} => Looking(kept, host)
      /\ pc = "update.stop" => ~kept.running
  BY <1>0, <1>3 DEF UpdateAt, ERun, ERemove, EStop
<1>6. \A k : k.image = "unset" \/ host.home = Parts => UpdateAt("update.undo", <<>>, k, host')
  BY <1>1 DEF UpdateAt
<1>7. ASSUME NEW t, NEW k, To(t, k), t \notin Results, t # "idle", UpdateAt(t, <<>>, k, host')
      PROVE  UpdateMoves
  <2>1. Went(t, <<>>, k)
    BY <1>4, <1>7, Alone
  <2> QED BY <1>2, <1>7, <2>1, UpdateGoes
<1>8. ASSUME NEW t \in Results, NEW k, To(t, k), t = "ok" => UpdateDone
      PROVE  UpdateMoves
  <2>1. Ended(t)
    BY <1>4, <1>8, Alone
  <2> QED BY <1>2, <1>8, <2>1, UpdateGoes
<1>9. ASSUME To("update.undo", kept)
      PROVE  UpdateMoves
  BY <1>4, <1>6, <1>7, <1>9
<1>10. CASE Decides("update_version", "update.inspect", kept)
  <2>1. To("update.inspect", kept) /\ pc = "update_version"
    BY <1>10 DEF Decides
  <2>2. UpdateAt("update.inspect", <<>>, kept, host')
    BY <1>1, <1>4, <1>5, <2>1 DEF UpdateAt
  <2> QED BY <1>7, <2>1, <2>2
<1>11. CASE Decides("update_version", "update.undo", kept)
  BY <1>9, <1>11 DEF Decides
<1>12. CASE Reads("update.inspect", host.main # "none",
           Locals([image |-> host.image, running |-> host.main = "running", target |-> "new"]),
           "update.look", "update.undo", "update.undo")
  <2> DEFINE k == Locals([image |-> host.image, running |-> host.main = "running", target |-> "new"])
  <2>1. k.running = (host.main = "running")
    BY DEF Locals, Local, LocalNames
  <2>2. CASE host.main # "none" /\ To("update.look", k)
    <3>1. CoreAs(host) /\ pc = "update.inspect"
      BY <1>5, <1>12 DEF Reads
    <3>2. host.home = Parts /\ Was.main = host.main
      BY <1>0, <2>2, <3>1 DEF EvoServes, Off, CoreAs
    <3>3. UpdateAt("update.look", <<>>, k, host')
      BY <1>1, <2>1, <2>2, <3>2 DEF UpdateAt, Looking
    <3> HIDE DEF k
    <3> QED BY <1>7, <2>2, <3>3
  <2>3. CASE To("update.undo", kept)
    BY <1>9, <2>3
  <2> HIDE DEF k
  <2> QED BY <1>12, <2>2, <2>3 DEF Reads, k
<1>13. CASE Reads("update.look", TRUE, kept, "update.remove", "fail", "update.undo")
  <2>1. pc = "update.look"
    BY <1>13 DEF Reads
  <2>2. UpdateAt("update.remove", <<>>, kept, host')
    BY <1>1, <1>4, <1>5, <2>1 DEF UpdateAt
  <2>3. To("update.remove", kept) \/ To("fail", kept) \/ To("update.undo", kept)
    BY <1>13 DEF Reads
  <2> QED BY <1>7, <1>8, <1>9, <2>2, <2>3
<1>14. CASE Calls("update.remove", "remove", kept, "update.run", "fail", "update.undo")
  <2>1. pc = "update.remove" /\ Went("remove", <<Caller("update.run", "fail", "update.undo")>>, kept)
    BY <1>4, <1>14, CallsFrom
  <2>2. UpdateAt("remove", <<Caller("update.run", "fail", "update.undo")>>, kept, host')
    BY <1>1, <1>4, <1>5, <2>1 DEF UpdateAt, ERemove
  <2> QED BY <1>2, <2>1, <2>2, UpdateGoes
<1>15. CASE Calls("update.run", "run", kept, "update.wait", "update.undo", "update.undo")
  <2>1. pc = "update.run" /\ Went("run", <<Caller("update.wait", "update.undo", "update.undo")>>, kept)
    BY <1>4, <1>15, CallsFrom
  <2>2. UpdateAt("run", <<Caller("update.wait", "update.undo", "update.undo")>>, kept, host')
    BY <1>1, <1>4, <1>5, <2>1 DEF UpdateAt, ERun
  <2> QED BY <1>2, <2>1, <2>2, UpdateGoes
<1>16. CASE Reads("update.wait", AllUp(Both), kept, IF kept.running THEN "ok" ELSE "update.stop",
           "update.undo", "update.undo")
  <2>1. pc = "update.wait" /\ Looking(kept, host)
    BY <1>5, <1>16 DEF Reads
  <2>2. CASE AllUp(Both) /\ kept.running /\ To("ok", kept)
    <3>1. UpdateDone
      BY <1>1, <2>1, <2>2 DEF UpdateDone, Looking, AllUp, Both, On
    <3> QED BY <1>8, <2>2, <3>1
  <2>3. CASE ~kept.running /\ To("update.stop", kept)
    <3>1. UpdateAt("update.stop", <<>>, kept, host')
      BY <1>1, <1>4, <2>1, <2>3 DEF UpdateAt
    <3> QED BY <1>7, <2>3, <3>1
  <2>4. CASE To("update.undo", kept)
    BY <1>9, <2>4
  <2> QED BY <1>16, <2>2, <2>3, <2>4 DEF Reads
<1>17. CASE Calls("update.stop", "stop", kept, "ok", "ok", "update.undo")
  <2>1. pc = "update.stop" /\ Went("stop", <<Caller("ok", "ok", "update.undo")>>, kept)
    BY <1>4, <1>17, CallsFrom
  <2>2. UpdateAt("stop", <<Caller("ok", "ok", "update.undo")>>, kept, host')
    BY <1>1, <1>4, <1>5, <2>1 DEF UpdateAt, EStop
  <2> QED BY <1>2, <2>1, <2>2, UpdateGoes
<1> QED BY <1>10, <1>11, <1>12, <1>13, <1>14, <1>15, <1>16, <1>17 DEF UpdateForward

LEMMA EvoUpdatingBack ==
  ASSUME DOMAIN host = Fields, Local(kept), EvoFit(host), EUpdates, UpdateUndo
  PROVE  UpdateMoves
<1> USE DEF Results
<1>0. EvoServes(host) /\ UpdateAt(pc, stack, kept, host)
  BY DEF EUpdates
<1>1. host' = host
  BY CallsFrom DEF UpdateUndo, Decides, Reads, Calls
<1>2. EvoFit(host') /\ EvoServes(host')
  BY <1>0, <1>1
<1>3. pc \in {"update.undo", "update.undo.run", "update.undo.wait", "update.undo.stop"}
  BY DEF UpdateUndo, Decides, Reads, Calls
<1>4. /\ stack = <<>> /\ (kept.image = "unset" \/ host.home = Parts)
      /\ pc \in {"update.undo.wait", "update.undo.stop"} => host.home = Parts
  BY <1>0, <1>3 DEF UpdateAt, ERun, ERemove, EStop
<1>8. ASSUME NEW t \in Results, t # "ok", NEW k, To(t, k)
      PROVE  UpdateMoves
  <2>1. Ended(t)
    BY <1>4, <1>8, Alone
  <2> QED BY <1>2, <1>8, <2>1, UpdateGoes
<1>10. CASE Calls("update.undo", "remove", kept, "update.undo.run", "update.undo.run", "raise")
  <2>1. Went("remove", <<Caller("update.undo.run", "update.undo.run", "raise")>>, kept)
    BY <1>4, <1>10, CallsFrom
  <2>2. UpdateAt("remove", <<Caller("update.undo.run", "update.undo.run", "raise")>>, kept, host')
    BY <1>1, <1>4 DEF UpdateAt, ERemove
  <2> QED BY <1>2, <2>1, <2>2, UpdateGoes
<1>11. CASE Unknown /\ Decides("update.undo.run", "manual", kept)
  BY <1>8, <1>11 DEF Decides
<1>12. CASE ~Unknown /\ Calls("update.undo.run", "run", Locals([target |-> kept.image]), "update.undo.wait", "manual", "manual")
  <2> DEFINE k == Locals([target |-> kept.image])
  <2>1. Went("run", <<Caller("update.undo.wait", "manual", "manual")>>, k)
    BY <1>4, <1>12, CallsFrom
  <2>2. UpdateAt("run", <<Caller("update.undo.wait", "manual", "manual")>>, k, host')
    BY <1>1, <1>4, <1>12 DEF UpdateAt, ERun, Unknown
  <2> HIDE DEF k
  <2> QED BY <1>2, <2>1, <2>2, UpdateGoes
<1>13. CASE Reads("update.undo.wait", AllUp(Both), kept, IF kept.running THEN "rolledback" ELSE "update.undo.stop",
           "manual", "manual")
  <2>1. host.home = Parts
    BY <1>4, <1>13 DEF Reads
  <2>2. CASE To("update.undo.stop", kept)
    <3>1. Went("update.undo.stop", <<>>, kept)
      BY <1>4, <2>2, Alone
    <3>2. UpdateAt("update.undo.stop", <<>>, kept, host')
      BY <1>1, <2>1 DEF UpdateAt
    <3> QED BY <1>2, <3>1, <3>2, UpdateGoes
  <2>3. CASE To("rolledback", kept) \/ To("manual", kept)
    BY <1>8, <2>3
  <2> QED BY <1>13, <2>2, <2>3 DEF Reads
<1>14. CASE Calls("update.undo.stop", "stop", kept, "rolledback", "rolledback", "manual")
  <2>1. pc = "update.undo.stop" /\ Went("stop", <<Caller("rolledback", "rolledback", "manual")>>, kept)
    BY <1>4, <1>14, CallsFrom
  <2>2. UpdateAt("stop", <<Caller("rolledback", "rolledback", "manual")>>, kept, host')
    BY <1>1, <1>4, <2>1 DEF UpdateAt, EStop
  <2> QED BY <1>2, <2>1, <2>2, UpdateGoes
<1> QED BY <1>10, <1>11, <1>12, <1>13, <1>14 DEF UpdateUndo

LEMMA EvoUpdateRemoving ==
  ASSUME DOMAIN host = Fields, EvoFit(host), EUpdates, RemoveContainers
  PROVE  UpdateMoves
<1> USE DEF Results
<1>0. EvoServes(host) /\ UpdateAt(pc, stack, kept, host)
  BY DEF EUpdates
<1>1. pc \in ERemove /\ Beside(host') /\ host'.main \in {host.main, "none"} /\ host'.proxy \in {host.proxy, "none"}
  BY EvoRemoving
<1>2. PICK t \in {"remove.main", "ok", "fail", "raise"} : To(t, kept)
  BY EvoRemoving
<1>3. EvoFit(host') /\ EvoServes(host') /\ host'.home = host.home
  BY <1>0, <1>1 DEF EvoFit, Beside, Container, EvoServes, DataAs, Off
<1>4. kept.image = "unset" \/ host'.home = Parts
  BY <1>0, <1>3 DEF UpdateAt
<1>5. ASSUME Looking(kept, host), stack = <<Caller("update.run", "fail", "update.undo")>>
      PROVE  UpdateMoves
  <2>1. Looking(kept, host')
    BY <1>3, <1>5 DEF Looking
  <2>2. /\ t = "remove.main" => Went(t, <<Caller("update.run", "fail", "update.undo")>>, kept)
        /\ t = "ok" => Went("update.run", <<>>, kept)
        /\ t = "fail" => Ended("fail")
        /\ t = "raise" => Went("update.undo", <<>>, kept)
    BY <1>2, <1>5, CalledBack
  <2>3. /\ UpdateAt("remove.main", <<Caller("update.run", "fail", "update.undo")>>, kept, host')
        /\ UpdateAt("update.run", <<>>, kept, host')
        /\ UpdateAt("update.undo", <<>>, kept, host')
    BY <1>4, <2>1 DEF UpdateAt, ERemove
  <2> QED BY <1>2, <1>3, <2>2, <2>3, UpdateGoes
<1>6. ASSUME stack = <<Caller("update.undo.run", "update.undo.run", "raise")>>
      PROVE  UpdateMoves
  <2>2. /\ t = "remove.main" => Went(t, <<Caller("update.undo.run", "update.undo.run", "raise")>>, kept)
        /\ t \in {"ok", "fail"} => Went("update.undo.run", <<>>, kept)
        /\ t = "raise" => Ended("raise")
    BY <1>2, <1>6, CalledBack
  <2>3. /\ UpdateAt("remove.main", <<Caller("update.undo.run", "update.undo.run", "raise")>>, kept, host')
        /\ UpdateAt("update.undo.run", <<>>, kept, host')
    BY <1>4 DEF UpdateAt, ERemove
  <2> QED BY <1>2, <1>3, <2>2, <2>3, UpdateGoes
<1> QED BY <1>0, <1>1, <1>5, <1>6 DEF UpdateAt, ERun, ERemove, EStop

LEMMA EvoUpdateRunning ==
  ASSUME DOMAIN host = Fields, EvoFit(host), EUpdates, RunContainers
  PROVE  UpdateMoves
<1> USE DEF Results
<1>0. EvoServes(host) /\ UpdateAt(pc, stack, kept, host) /\ host.main \in Container /\ host.proxy \in Container
  BY DEF EUpdates, EvoFit
<1>1. pc \in ERun /\ Contained(host')
  BY <1>0, EvoRunning
<1>2. PICK t \in ERun \cup {"ok", "fail", "raise"} : To(t, kept)
  BY <1>0, EvoRunning
<1>3. host.home = Parts
  BY <1>0, <1>1 DEF UpdateAt, ERun, ERemove, EStop, Looking
<1>4. EvoFit(host') /\ EvoServes(host') /\ host'.home = Parts
  BY <1>0, <1>1, <1>3, EvoStaysFit DEF Contained, Beside, EvoServes, DataAs
<1>5. ASSUME Looking(kept, host), stack = <<Caller("update.wait", "update.undo", "update.undo")>>
      PROVE  UpdateMoves
  <2>1. Looking(kept, host')
    BY <1>4, <1>5 DEF Looking
  <2>2. /\ t \in ERun => Went(t, <<Caller("update.wait", "update.undo", "update.undo")>>, kept) /\ t # "idle"
        /\ t = "ok" => Went("update.wait", <<>>, kept)
        /\ t \in {"fail", "raise"} => Went("update.undo", <<>>, kept)
    BY <1>2, <1>5, CalledBack DEF ERun
  <2>3. /\ t \in ERun => UpdateAt(t, <<Caller("update.wait", "update.undo", "update.undo")>>, kept, host')
        /\ UpdateAt("update.wait", <<>>, kept, host')
        /\ UpdateAt("update.undo", <<>>, kept, host')
    BY <1>4, <2>1 DEF UpdateAt
  <2> QED BY <1>2, <1>4, <2>2, <2>3, UpdateGoes
<1>6. ASSUME stack = <<Caller("update.undo.wait", "manual", "manual")>>
      PROVE  UpdateMoves
  <2>2. /\ t \in ERun => Went(t, <<Caller("update.undo.wait", "manual", "manual")>>, kept) /\ t # "idle"
        /\ t = "ok" => Went("update.undo.wait", <<>>, kept)
        /\ t \in {"fail", "raise"} => Ended("manual")
    BY <1>2, <1>6, CalledBack DEF ERun
  <2>3. /\ t \in ERun => UpdateAt(t, <<Caller("update.undo.wait", "manual", "manual")>>, kept, host')
        /\ UpdateAt("update.undo.wait", <<>>, kept, host')
    BY <1>4 DEF UpdateAt
  <2> QED BY <1>2, <1>4, <2>2, <2>3, UpdateGoes
<1> QED BY <1>0, <1>1, <1>5, <1>6 DEF UpdateAt, ERun, ERemove, EStop

LEMMA EvoUpdateStopping ==
  ASSUME DOMAIN host = Fields, Local(kept), EvoFit(host), EUpdates, Stop
  PROVE  UpdateMoves
<1> USE DEF Results
<1>0. EvoServes(host) /\ UpdateAt(pc, stack, kept, host) /\ host.main \in Container /\ host.proxy \in Container
  BY DEF EUpdates, EvoFit
<1>1. pc \in EStop /\ Shifts(host')
  BY <1>0, EvoHalting
<1>2. PICK k : \E t \in EStop \cup {"ok", "fail", "raise"} : To(t, k) /\ Alike(k)
  BY <1>0, EvoHalting
<1>9. PICK t \in EStop \cup {"ok", "fail", "raise"} : To(t, k)
  BY <1>2
<1>3. host.home = Parts
  BY <1>0, <1>1 DEF UpdateAt, ERun, ERemove, EStop, Looking
<1>4. EvoFit(host') /\ EvoServes(host') /\ host'.home = Parts
  BY <1>0, <1>1, <1>3, EvoShifts DEF Shifts, Beside
<1>5. ASSUME Looking(kept, host), ~kept.running, stack = <<Caller("ok", "ok", "update.undo")>>
      PROVE  UpdateMoves
  <2>1. Looking(k, host') /\ ~k.running
    BY <1>2, <1>4, <1>5 DEF Looking, Alike
  <2>2. /\ t \in EStop => Went(t, <<Caller("ok", "ok", "update.undo")>>, k) /\ t # "idle"
        /\ t \in {"ok", "fail"} => Ended("ok")
        /\ t = "raise" => Went("update.undo", <<>>, k)
    BY <1>9, <1>5, CalledBack DEF EStop
  <2>3. /\ t \in EStop => UpdateAt(t, <<Caller("ok", "ok", "update.undo")>>, k, host')
        /\ UpdateAt("update.undo", <<>>, k, host')
    BY <1>4, <2>1 DEF UpdateAt
  <2>4. UpdateDone
    BY <1>4, <2>1 DEF UpdateDone, Looking
  <2> QED BY <1>9, <1>4, <2>2, <2>3, <2>4, UpdateGoes
<1>6. ASSUME stack = <<Caller("rolledback", "rolledback", "manual")>>
      PROVE  UpdateMoves
  <2>2. /\ t \in EStop => Went(t, <<Caller("rolledback", "rolledback", "manual")>>, k) /\ t # "idle"
        /\ t \in {"ok", "fail"} => Ended("rolledback")
        /\ t = "raise" => Ended("manual")
    BY <1>9, <1>6, CalledBack DEF EStop
  <2>3. t \in EStop => UpdateAt(t, <<Caller("rolledback", "rolledback", "manual")>>, k, host')
    BY <1>4 DEF UpdateAt
  <2> QED BY <1>9, <1>4, <2>2, <2>3, UpdateGoes
<1> QED BY <1>0, <1>1, <1>5, <1>6 DEF UpdateAt, ERun, ERemove, EStop

------------------------------------------------------------------------------
(* EvoScientist: deletion, by the request or of what could not be published *)

DeleteFrom == Caller("delete.entry", "fail", "delete.undo")
RunToIngress == Caller("delete.undo.ingress", "delete.undo.failed", "manual")
RunToStop    == Caller("delete.undo.stop", "delete.undo.failed", "manual")
StopFrom     == Caller("delete.undo.ingress", "delete.undo.ingress", "manual")
IngressFrom  == Caller("rolledback", "manual", "manual")
FailedFrom   == Caller("manual", "manual", "manual")

EDeleteBack == {"delete.undo.entry", "delete.undo.run", "delete.undo.failed", "delete.undo.stop", "delete.undo.ingress"}
EDeleteLast == {"delete.ingress", "delete.conf", "delete.list"}

\* at step p, with the callers s and the local variables k
EvoDeleteAt(p, s, k, h) ==
  \/ p \in {"delete", "delete.inspect"} /\ s = Above /\ WasOn = (h.main = "running") /\ h.recycle = "none"
  \/ /\ k.running = WasOn
     /\ \/ p = "delete.containers" /\ s = Above /\ h.recycle = "none"
        \/ p \in ERemove /\ s = Over(DeleteFrom) /\ h.recycle = "none" /\ (p = "remove.main" => h.proxy = "none")
        \/ p = "delete.entry" /\ s = Above /\ Off(h)
        \/ p = "delete.move" /\ s = Above /\ Off(h) /\ h.recycle = "dir"
        \/ p \in EDeleteLast /\ s = Above /\ Off(h) /\ h.recycle = "dir" /\ h.home = {}
  \/ p \in {"delete.undo", "delete.undo.move"} /\ s = Above
  \/ /\ h.home = Parts
     /\ \/ p \in EDeleteBack /\ s = Above
        \/ p \in ERun /\ s \in {Over(RunToIngress), Over(RunToStop)}
        \/ p \in EStop /\ s = Over(StopFrom)
        \/ p \in EIngress /\ s \in {Over(IngressFrom), Over(FailedFrom)}
EDeletes == EvoDeletes(host) /\ EvoDeleteAt(pc, stack, kept, host)
EvoDeleteMoves ==
  /\ EvoFit(host')
  /\ \/ EvoDeletes(host') /\ ((EDeletes' /\ Onward) \/ \E r \in Results \ {"ok"} : Ended(r))
     \/ EvoDeleted(host') /\ Ended(Final("ok"))

LEMMA EvoDeleteStays ==
  ASSUME Onward
  PROVE  /\ EvoDeletes(host') => EvoDeletes(host)'
         /\ \A p, s, k : pc' = p /\ stack' = s /\ kept' = k /\ EvoDeleteAt(p, s, k, host')
                         => EvoDeleteAt(pc, stack, kept, host)'
<1>1. Was' = Was /\ Parts' = Parts /\ op' = op
  BY ServesStays DEF Onward
<1>2. WasOn' = WasOn
  BY <1>1 DEF WasOn
<1>3. Above' = Above
  BY <1>1 DEF Above, Retracting, Caller
<1>4. /\ Over(DeleteFrom)' = Over(DeleteFrom) /\ Over(RunToIngress)' = Over(RunToIngress)
      /\ Over(RunToStop)' = Over(RunToStop) /\ Over(StopFrom)' = Over(StopFrom)
      /\ Over(IngressFrom)' = Over(IngressFrom) /\ Over(FailedFrom)' = Over(FailedFrom)
  BY <1>1 DEF Over, Retracting, Caller, DeleteFrom, RunToIngress, RunToStop, StopFrom, IngressFrom, FailedFrom
<1>5. EvoDeletes(host') => EvoDeletes(host)'
  BY <1>1 DEF EvoDeletes, Off
<1>6. ASSUME NEW p, NEW s, NEW k, pc' = p, stack' = s, kept' = k, EvoDeleteAt(p, s, k, host')
      PROVE  EvoDeleteAt(pc, stack, kept, host)'
  BY <1>1, <1>2, <1>3, <1>4, <1>6 DEF EvoDeleteAt, Off, ERemove, EDeleteLast, EDeleteBack, ERun, EStop, EIngress
<1> QED BY <1>5, <1>6

LEMMA DeleteGoes ==
  ASSUME EvoFit(host'), EvoDeletes(host')
  PROVE  /\ \A p, s, k : Went(p, s, k) /\ p # "idle" /\ EvoDeleteAt(p, s, k, host') => EvoDeleteMoves
         /\ \A r \in Results \ {"ok"} : Ended(Final(r)) => EvoDeleteMoves
<1>1. ASSUME NEW p, NEW s, NEW k, Went(p, s, k), p # "idle", EvoDeleteAt(p, s, k, host')
      PROVE  EvoDeleteMoves
  <2>1. Onward /\ pc' = p /\ stack' = s /\ kept' = k
    BY <1>1 DEF Went, Onward
  <2>2. EvoDeletes(host)' /\ EvoDeleteAt(pc, stack, kept, host)'
    BY <1>1, <2>1, EvoDeleteStays
  <2> QED BY <2>1, <2>2 DEF EDeletes, EvoDeleteMoves
<1>2. ASSUME NEW r \in Results \ {"ok"}, Ended(Final(r))
      PROVE  EvoDeleteMoves
  BY <1>2, Finals DEF EvoDeleteMoves
<1> QED BY <1>1, <1>2

LEMMA EvoDeleteAside ==
  ASSUME EvoFit(host), EvoDeletes(host), Aside(host')
  PROVE  /\ EvoFit(host') /\ EvoDeletes(host') /\ (Off(host) => Off(host'))
         /\ host'.home = host.home /\ host'.recycle = host.recycle /\ host'.main = host.main /\ host'.proxy = host.proxy
BY DEF EvoFit, EvoDeletes, Aside, Beside, Off

LEMMA EvoDeleteInPlace ==
  ASSUME EvoFit(host), EvoDeletes(host), host.home = Parts, Contained(host')
  PROVE  EvoFit(host') /\ EvoDeletes(host') /\ host'.home = Parts
BY EvoStaysFit DEF EvoDeletes, Contained, Beside, Off

LEMMA EvoDeletingForward ==
  ASSUME product = "evoscientist", DOMAIN host = Fields, Local(kept), EvoFit(host), EDeletes, DeleteForward
  PROVE  EvoDeleteMoves
<1> USE DEF Results
<1>0. EvoDeletes(host) /\ EvoDeleteAt(pc, stack, kept, host)
  BY DEF EDeletes
<1>1. pc \in {"delete", "delete.inspect", "delete.containers", "delete.entry", "delete.move"} \cup EDeleteLast
  BY DEF DeleteForward, Decides, Reads, Calls, Writes, Moves, Tries, EDeleteLast
<1>2. /\ stack = Above
      /\ pc \in {"delete", "delete.inspect"} => WasOn = (host.main = "running") /\ host.recycle = "none"
      /\ pc = "delete.containers" => kept.running = WasOn /\ host.recycle = "none"
      /\ pc = "delete.entry" => kept.running = WasOn /\ Off(host)
      /\ pc = "delete.move" => kept.running = WasOn /\ Off(host) /\ host.recycle = "dir"
      /\ pc \in EDeleteLast => kept.running = WasOn /\ Off(host) /\ host.recycle = "dir" /\ host.home = {}
  BY <1>0, <1>1 DEF EvoDeleteAt, ERemove, EDeleteLast, EDeleteBack, ERun, EStop, EIngress
<1>3. Aside(host) /\ \A x : Aside([host EXCEPT !.conf = x])
  BY Effects
<1>4. host.recycle = "none" => host.home = Parts
  BY <1>0 DEF EvoDeletes
<1>7. ASSUME EvoFit(host'), EvoDeletes(host'), NEW t, NEW k, To(t, k), t \notin Results, t # "idle", EvoDeleteAt(t, Above, k, host')
      PROVE  EvoDeleteMoves
  <2>1. Went(t, Above, k)
    BY <1>2, <1>7, AboveOnly
  <2> QED BY <1>7, <2>1, DeleteGoes
<1>8. ASSUME EvoFit(host'), EvoDeletes(host'), NEW t \in Results \ {"ok"}, NEW k, To(t, k)
      PROVE  EvoDeleteMoves
  <2>1. Ended(Final(t))
    BY <1>2, <1>8, AboveOnly
  <2> QED BY <1>8, <2>1, DeleteGoes
<1>9. ASSUME EvoFit(host'), EvoDeletes(host'), To("delete.undo", kept)
      PROVE  EvoDeleteMoves
  BY <1>7, <1>9 DEF EvoDeleteAt
<1>10. CASE Decides("delete", IF host.recycle = "none" THEN "delete.inspect" ELSE "fail", kept)
  <2>1. To("delete.inspect", kept) /\ pc = "delete" /\ host' = host
    BY <1>2, <1>10 DEF Decides
  <2>2. EvoDeleteAt("delete.inspect", Above, kept, host')
    BY <1>2, <2>1 DEF EvoDeleteAt
  <2> QED BY <1>0, <1>7, <2>1, <2>2
<1>11. CASE Reads("delete.inspect", host.main # "none",
           Locals([image |-> host.image, target |-> host.image, running |-> host.main = "running",
                   conf |-> host.conf]),
           "delete.containers", "delete.undo", "delete.undo")
  <2> DEFINE k == Locals([image |-> host.image, target |-> host.image, running |-> host.main = "running",
                   conf |-> host.conf])
  <2>1. k.running = (host.main = "running")
    BY DEF Locals, Local, LocalNames
  <2>2. host' = host /\ pc = "delete.inspect" /\ (To("delete.containers", k) \/ To("delete.undo", kept))
    BY <1>11 DEF Reads
  <2>3. EvoDeleteAt("delete.containers", Above, k, host')
    BY <1>2, <2>1, <2>2 DEF EvoDeleteAt
  <2> HIDE DEF k
  <2> QED BY <1>0, <1>7, <1>9, <2>2, <2>3
<1>12. CASE Calls("delete.containers", "remove", kept, "delete.entry", "fail", "delete.undo")
  <2>1. pc = "delete.containers" /\ Went("remove", Over(DeleteFrom), kept) /\ host' = host
    BY <1>2, <1>12, CallsAbove DEF DeleteFrom
  <2>2. EvoDeleteAt("remove", Over(DeleteFrom), kept, host')
    BY <1>2, <2>1 DEF EvoDeleteAt, ERemove
  <2> QED BY <1>0, <2>1, <2>2, DeleteGoes
<1>13. CASE Writes("delete.entry", [host EXCEPT !.recycle = "dir"], {}, "delete.move", "delete.undo")
  <2>1. CASE host' = [host EXCEPT !.recycle = "dir"] /\ To("delete.move", kept)
    <3>1. /\ host'.recycle = "dir" /\ host'.home = host.home /\ host'.bin = host.bin /\ host'.older = host.older
          /\ host'.main = host.main /\ host'.proxy = host.proxy
      BY <2>1 DEF Fields
    <3>2. EvoFit(host') /\ EvoDeletes(host') /\ Off(host')
      BY <1>0, <1>2, <1>13, <3>1 DEF EvoFit, EvoDeletes, Off, Writes
    <3>3. EvoDeleteAt("delete.move", Above, kept, host')
      BY <1>2, <1>13, <3>1, <3>2 DEF EvoDeleteAt, Writes
    <3> QED BY <1>7, <2>1, <3>2, <3>3
  <2>2. CASE host' = host /\ To("delete.undo", kept)
    BY <1>0, <1>9, <2>2
  <2> QED BY <1>13, <2>1, <2>2 DEF Writes
<1>14. CASE Moves("delete.move", host.home, "home", "bin", "delete.ingress", "delete.undo")
  <2>0. product \in {"openclaw", "hermes", "evoscientist"} /\ <<"home", "bin">> \in {<<"home", "bin">>, <<"bin", "home">>}
        /\ host.home \in SUBSET Parts
    BY DEF EvoFit
  <2>1. /\ pc = "delete.move" /\ Carried(host')
        /\ \/ host' = host /\ host.home = {} /\ To("delete.ingress", kept)
           \/ host' = host /\ To("delete.undo", kept)
           \/ /\ First(host.home) \in host.home /\ To("delete.move", kept)
              /\ host'["home"] = host["home"] \ {First(host.home)} /\ host'["bin"] = host["bin"] \cup {First(host.home)}
    BY <1>14, <2>0, MovesOn
  <2>2. CASE host' = host /\ host.home = {} /\ To("delete.ingress", kept)
    <3>1. EvoDeleteAt("delete.ingress", Above, kept, host')
      BY <1>2, <2>1, <2>2 DEF EvoDeleteAt, EDeleteLast
    <3> QED BY <1>0, <1>7, <2>2, <3>1
  <2>3. CASE host' = host /\ To("delete.undo", kept)
    BY <1>0, <1>9, <2>3
  <2>4. CASE /\ First(host.home) \in host.home /\ To("delete.move", kept)
             /\ host'["home"] = host["home"] \ {First(host.home)} /\ host'["bin"] = host["bin"] \cup {First(host.home)}
    <3>1. host'.recycle = "dir" /\ Off(host') /\ host'.older = host.older /\ host'.main = host.main /\ host'.proxy = host.proxy
      BY <1>2, <2>1 DEF Carried, Off
    <3>2. EvoFit(host') /\ EvoDeletes(host')
      BY <1>0, <2>0, <2>4, <3>1 DEF EvoFit, EvoDeletes
    <3>3. EvoDeleteAt("delete.move", Above, kept, host')
      BY <1>2, <2>1, <3>1 DEF EvoDeleteAt
    <3> QED BY <1>7, <2>4, <3>2, <3>3
  <2> QED BY <2>1, <2>2, <2>3, <2>4
<1>15. CASE Tries("delete.ingress", Removed({"ingress"}), kept, "delete.conf", "delete.undo")
  <2>1. Aside(host') /\ pc = "delete.ingress" /\ (To("delete.conf", kept) \/ To("delete.undo", kept))
    BY <1>3, <1>15, ContainerEffects DEF Tries
  <2>2. EvoFit(host') /\ EvoDeletes(host') /\ EvoDeleteAt("delete.conf", Above, kept, host')
    BY <1>0, <1>2, <2>1, EvoDeleteAside DEF EvoDeleteAt, EDeleteLast
  <2> QED BY <1>7, <1>9, <2>1, <2>2
<1>16. CASE Writes("delete.conf", [host EXCEPT !.conf = {}], {}, "delete.list", "delete.undo")
  <2>1. Aside(host') /\ pc = "delete.conf" /\ (To("delete.list", kept) \/ To("delete.undo", kept))
    BY <1>3, <1>16 DEF Writes
  <2>2. EvoFit(host') /\ EvoDeletes(host') /\ EvoDeleteAt("delete.list", Above, kept, host')
    BY <1>0, <1>2, <2>1, EvoDeleteAside DEF EvoDeleteAt, EDeleteLast
  <2> QED BY <1>7, <1>9, <2>1, <2>2
<1>17. CASE Writes("delete.list", [host EXCEPT !.recycle = "listed",
                              !.note = [image |-> kept.image, running |-> kept.running]],
            {}, "ok", "delete.undo")
  <2>1. CASE /\ host' = [host EXCEPT !.recycle = "listed", !.note = [image |-> kept.image, running |-> kept.running]]
             /\ To("ok", kept)
    <3>0. pc = "delete.list" /\ kept.running = WasOn /\ Off(host) /\ host.home = {} /\ WasOn \in BOOLEAN
      BY <1>2, <1>17 DEF Writes, EDeleteLast, WasOn
    <3>1. /\ host'.recycle = "listed" /\ host'.home = host.home /\ host'.bin = host.bin /\ host'.older = host.older
          /\ host'.main = host.main /\ host'.proxy = host.proxy /\ host'.note.running = WasOn
      BY <2>1, <3>0 DEF Fields
    <3>2. host.bin = Parts /\ (op = "delete" => Was.home = Parts /\ Was.bin = {} /\ Was.recycle = "none")
      BY <1>0, <3>0 DEF EvoDeletes
    <3>3. EvoFit(host')
      BY <3>0, <3>1 DEF EvoFit
    <3>4. EvoDeleted(host')
      BY <3>0, <3>1, <3>2 DEF EvoDeleted, Off
    <3>5. Ended(Final("ok"))
      BY <1>2, <2>1, AboveOnly
    <3> QED BY <3>3, <3>4, <3>5 DEF EvoDeleteMoves
  <2>2. CASE host' = host /\ To("delete.undo", kept)
    BY <1>0, <1>9, <2>2
  <2> QED BY <1>17, <2>1, <2>2 DEF Writes
<1> QED BY <1>10, <1>11, <1>12, <1>13, <1>14, <1>15, <1>16, <1>17 DEF DeleteForward

LEMMA EvoDeletingBack ==
  ASSUME product = "evoscientist", DOMAIN host = Fields, Local(kept), EvoFit(host), EDeletes, DeleteUndo
  PROVE  EvoDeleteMoves
<1> USE DEF Results
<1>0. EvoDeletes(host) /\ EvoDeleteAt(pc, stack, kept, host)
  BY DEF EDeletes
<1>1. pc \in {"delete.undo", "delete.undo.move"} \cup EDeleteBack
  BY DEF DeleteUndo, Decides, Calls, Writes, Moves, Tries, EDeleteBack
<1>2. /\ stack = Above
      /\ pc \in EDeleteBack => host.home = Parts
  BY <1>0, <1>1 DEF EvoDeleteAt, ERemove, EDeleteLast, EDeleteBack, ERun, EStop, EIngress
<1>3. Aside(host) /\ \A x : Aside([host EXCEPT !.conf = x])
  BY Effects
<1>4. host.recycle = "none" => host.home = Parts
  BY <1>0 DEF EvoDeletes
<1>7. ASSUME EvoFit(host'), EvoDeletes(host'), NEW t, NEW k, To(t, k), t \notin Results, t # "idle", EvoDeleteAt(t, Above, k, host')
      PROVE  EvoDeleteMoves
  <2>1. Went(t, Above, k)
    BY <1>2, <1>7, AboveOnly
  <2> QED BY <1>7, <2>1, DeleteGoes
<1>8. ASSUME EvoFit(host'), EvoDeletes(host'), NEW t \in Results \ {"ok"}, NEW k, To(t, k)
      PROVE  EvoDeleteMoves
  <2>1. Ended(Final(t))
    BY <1>2, <1>8, AboveOnly
  <2> QED BY <1>8, <2>1, DeleteGoes
<1>9. ASSUME EvoFit(host'), EvoDeletes(host'), host'.home = Parts, NEW t \in EDeleteBack, NEW k, To(t, k)
      PROVE  EvoDeleteMoves
  BY <1>7, <1>9 DEF EvoDeleteAt, EDeleteBack
<1>10. CASE Writes("delete.undo", [host EXCEPT !.conf = @ \cup kept.conf], {},
            IF host.recycle = "none" THEN "delete.undo.run" ELSE "delete.undo.move", "manual")
  <2>1. Aside(host')
    BY <1>3, <1>10 DEF Writes
  <2>2. EvoFit(host') /\ EvoDeletes(host') /\ host'.home = host.home /\ EvoDeleteAt("delete.undo.move", Above, kept, host')
    BY <1>0, <2>1, EvoDeleteAside DEF EvoDeleteAt
  <2>3. \/ To("delete.undo.run", kept) /\ host.recycle = "none"
        \/ To("delete.undo.move", kept) \/ To("manual", kept)
    BY <1>10 DEF Writes
  <2> QED BY <1>4, <1>7, <1>8, <1>9, <2>2, <2>3 DEF EDeleteBack
<1>11. CASE Moves("delete.undo.move", Moved, "bin", "home", "delete.undo.entry", "manual")
  <2>0. product \in {"openclaw", "hermes", "evoscientist"} /\ <<"bin", "home">> \in {<<"home", "bin">>, <<"bin", "home">>}
        /\ Moved \in SUBSET Parts
    BY DEF EvoFit, Moved
  <2>1. /\ pc = "delete.undo.move" /\ Carried(host')
        /\ \/ host' = host /\ Moved = {} /\ To("delete.undo.entry", kept)
           \/ host' = host /\ To("manual", kept)
           \/ /\ First(Moved) \in Moved /\ To("delete.undo.move", kept)
              /\ host'["bin"] = host["bin"] \ {First(Moved)} /\ host'["home"] = host["home"] \cup {First(Moved)}
    BY <1>11, <2>0, MovesOn
  <2>2. CASE host' = host /\ Moved = {} /\ To("delete.undo.entry", kept)
    <3>1. host.home = Parts
      BY <1>0, <2>2 DEF EvoDeletes, Moved
    <3> QED BY <1>0, <1>9, <2>2, <3>1 DEF EDeleteBack
  <2>3. CASE host' = host /\ To("manual", kept)
    BY <1>0, <1>8, <2>3
  <2>4. CASE /\ First(Moved) \in Moved /\ To("delete.undo.move", kept)
             /\ host'["bin"] = host["bin"] \ {First(Moved)} /\ host'["home"] = host["home"] \cup {First(Moved)}
    <3>1. /\ host'.recycle = host.recycle /\ host'.older = host.older /\ host'.main = host.main /\ host'.proxy = host.proxy
          /\ host'.note = host.note
      BY <2>1 DEF Carried
    <3>2. host.bin # {} /\ First(Moved) \in host.bin /\ First(Moved) \in Parts
      BY <2>0, <2>4 DEF Moved
    <3>3. EvoFit(host')
      BY <2>4, <3>1, <3>2 DEF EvoFit
    <3>5. Off(host)
      BY <1>0, <3>2 DEF EvoDeletes
    <3>4. EvoDeletes(host')
      BY <1>0, <2>4, <3>1, <3>2, <3>5 DEF EvoDeletes, Off
    <3>6. EvoDeleteAt("delete.undo.move", Above, kept, host')
      BY DEF EvoDeleteAt
    <3> QED BY <1>7, <2>4, <3>3, <3>4, <3>6
  <2> QED BY <2>1, <2>2, <2>3, <2>4
<1>12. CASE Tries("delete.undo.entry", {[host EXCEPT !.recycle = "none", !.bin = {}, !.note = NoNote]},
           kept, "delete.undo.run", "delete.undo.run")
  <2>0. host.home = Parts /\ host.bin = {}
    BY <1>0, <1>2, <1>12 DEF Tries, EDeleteBack, EvoDeletes, EvoFit
  <2>1. To("delete.undo.run", kept)
    BY <1>12 DEF Tries
  <2>2. CASE host' = host
    BY <1>0, <1>9, <2>0, <2>1, <2>2 DEF EDeleteBack
  <2>3. CASE host' = [host EXCEPT !.recycle = "none", !.bin = {}, !.note = NoNote]
    <3>1. /\ host'.recycle = "none" /\ host'.bin = {} /\ host'.home = host.home /\ host'.older = host.older
          /\ host'.main = host.main /\ host'.proxy = host.proxy
      BY <2>3 DEF Fields
    <3>2. EvoFit(host') /\ EvoDeletes(host')
      BY <1>0, <2>0, <3>1 DEF EvoFit, EvoDeletes
    <3> QED BY <1>9, <2>0, <2>1, <3>1, <3>2 DEF EDeleteBack
  <2> QED BY <1>12, <2>2, <2>3 DEF Tries
<1>13. CASE Unknown /\ Decides("delete.undo.run", "delete.undo.ingress", kept)
  <2>1. host' = host /\ host.home = Parts /\ To("delete.undo.ingress", kept)
    BY <1>2, <1>13 DEF Decides, EDeleteBack
  <2> QED BY <1>0, <1>9, <2>1 DEF EDeleteBack
<1>14. CASE ~Unknown /\ Calls("delete.undo.run", "run", kept,
       IF kept.running THEN "delete.undo.ingress" ELSE "delete.undo.stop", "delete.undo.failed", "manual")
  <2>1. host' = host /\ host.home = Parts
    BY <1>2, <1>14, CallsAbove DEF EDeleteBack
  <2>2. CASE kept.running
    <3>1. Went("run", Over(RunToIngress), kept)
      BY <1>2, <1>14, <2>2, CallsAbove DEF RunToIngress
    <3>2. EvoDeleteAt("run", Over(RunToIngress), kept, host')
      BY <2>1 DEF EvoDeleteAt, ERun
    <3> QED BY <1>0, <2>1, <3>1, <3>2, DeleteGoes
  <2>3. CASE ~kept.running
    <3>1. Went("run", Over(RunToStop), kept)
      BY <1>2, <1>14, <2>3, CallsAbove DEF RunToStop
    <3>2. EvoDeleteAt("run", Over(RunToStop), kept, host')
      BY <2>1 DEF EvoDeleteAt, ERun
    <3> QED BY <1>0, <2>1, <3>1, <3>2, DeleteGoes
  <2> QED BY <2>2, <2>3
<1>15. CASE Decides("delete.undo.failed", "delete.undo.ingress", Locals([failed |-> TRUE]))
  <2>1. host' = host /\ host.home = Parts /\ To("delete.undo.ingress", Locals([failed |-> TRUE]))
    BY <1>2, <1>15 DEF Decides, EDeleteBack
  <2> QED BY <1>0, <1>9, <2>1 DEF EDeleteBack
<1>16. CASE Calls("delete.undo.stop", "stop", kept, "delete.undo.ingress", "delete.undo.ingress", "manual")
  <2>1. host' = host /\ host.home = Parts /\ Went("stop", Over(StopFrom), kept)
    BY <1>2, <1>16, CallsAbove DEF EDeleteBack, StopFrom
  <2>2. EvoDeleteAt("stop", Over(StopFrom), kept, host')
    BY <2>1 DEF EvoDeleteAt, EStop
  <2> QED BY <1>0, <2>1, <2>2, DeleteGoes
<1>17. CASE Calls("delete.undo.ingress", "ingress", kept,
           IF kept.failed THEN "manual" ELSE "rolledback", "manual", "manual")
  <2>1. host' = host /\ host.home = Parts
    BY <1>2, <1>17, CallsAbove DEF EDeleteBack
  <2>2. CASE kept.failed
    <3>1. Went("ingress", Over(FailedFrom), kept)
      BY <1>2, <1>17, <2>2, CallsAbove DEF FailedFrom
    <3>2. EvoDeleteAt("ingress", Over(FailedFrom), kept, host')
      BY <2>1 DEF EvoDeleteAt, EIngress
    <3> QED BY <1>0, <2>1, <3>1, <3>2, DeleteGoes
  <2>3. CASE ~kept.failed
    <3>1. Went("ingress", Over(IngressFrom), kept)
      BY <1>2, <1>17, <2>3, CallsAbove DEF IngressFrom
    <3>2. EvoDeleteAt("ingress", Over(IngressFrom), kept, host')
      BY <2>1 DEF EvoDeleteAt, EIngress
    <3> QED BY <1>0, <2>1, <3>1, <3>2, DeleteGoes
  <2> QED BY <2>2, <2>3
<1> QED BY <1>10, <1>11, <1>12, <1>13, <1>14, <1>15, <1>16, <1>17 DEF DeleteUndo

LEMMA EvoDeleteRemoving ==
  ASSUME DOMAIN host = Fields, EvoFit(host), EDeletes, RemoveContainers
  PROVE  EvoDeleteMoves
<1> USE DEF Results
<1>0. EvoDeletes(host) /\ EvoDeleteAt(pc, stack, kept, host)
  BY DEF EDeletes
<1>1. pc \in ERemove /\ Beside(host') /\ host'.main \in {host.main, "none"} /\ host'.proxy \in {host.proxy, "none"}
  BY EvoRemoving
<1>2. PICK t \in {"remove.main", "ok", "fail", "raise"} :
        /\ To(t, kept) /\ (t = "remove.main" => host'.proxy = "none")
        /\ t = "ok" => pc = "remove.main" /\ host'.main = "none" /\ host'.proxy = host.proxy
  BY EvoRemoving
<1>3. /\ stack = Over(DeleteFrom) /\ kept.running = WasOn /\ host.recycle = "none"
      /\ pc = "remove.main" => host.proxy = "none"
  BY <1>0, <1>1 DEF EvoDeleteAt, ERemove, EDeleteLast, EDeleteBack, ERun, EStop, EIngress
<1>4. EvoFit(host') /\ EvoDeletes(host') /\ host'.recycle = "none"
  BY <1>0, <1>1, <1>3 DEF EvoFit, EvoDeletes, Beside, Container, Off
<1>5. /\ t = "remove.main" => Went(t, Over(DeleteFrom), kept)
      /\ t = "ok" => Went("delete.entry", Above, kept)
      /\ t = "fail" => Ended(Final("fail"))
      /\ t = "raise" => Went("delete.undo", Above, kept)
  BY <1>2, <1>3, CalledAbove DEF DeleteFrom
<1>6. /\ t = "remove.main" => EvoDeleteAt(t, Over(DeleteFrom), kept, host')
      /\ t = "ok" => EvoDeleteAt("delete.entry", Above, kept, host')
      /\ EvoDeleteAt("delete.undo", Above, kept, host')
  BY <1>2, <1>3, <1>4 DEF EvoDeleteAt, ERemove, Off
<1> QED BY <1>2, <1>4, <1>5, <1>6, DeleteGoes

LEMMA EvoDeleteRunning ==
  ASSUME DOMAIN host = Fields, Local(kept), EvoFit(host), EDeletes, RunContainers \/ Stop \/ ConfigureIngress
  PROVE  EvoDeleteMoves
<1> USE DEF Results
<1>0. EvoDeletes(host) /\ EvoDeleteAt(pc, stack, kept, host) /\ host.main \in Container /\ host.proxy \in Container
  BY DEF EDeletes, EvoFit
<1>1. CASE RunContainers
  <2>1. pc \in ERun /\ Contained(host')
    BY <1>0, <1>1, EvoRunning
  <2>2. PICK t \in ERun \cup {"ok", "fail", "raise"} : To(t, kept)
    BY <1>0, <1>1, EvoRunning
  <2>3. host.home = Parts /\ stack \in {Over(RunToIngress), Over(RunToStop)}
    BY <1>0, <2>1 DEF EvoDeleteAt, ERemove, EDeleteLast, EDeleteBack, ERun, EStop, EIngress
  <2>4. EvoFit(host') /\ EvoDeletes(host') /\ host'.home = Parts
    BY <1>0, <2>1, <2>3, EvoDeleteInPlace
  <2>5. /\ t \in ERun => Went(t, stack, kept) /\ t # "idle"
        /\ t = "ok" => Went("delete.undo.ingress", Above, kept) \/ Went("delete.undo.stop", Above, kept)
        /\ t = "fail" => Went("delete.undo.failed", Above, kept)
        /\ t = "raise" => Ended(Final("manual"))
    BY <2>2, <2>3, CalledAbove DEF RunToIngress, RunToStop, ERun
  <2>6. /\ t \in ERun => EvoDeleteAt(t, stack, kept, host')
        /\ \A p \in EDeleteBack : EvoDeleteAt(p, Above, kept, host')
    BY <2>3, <2>4 DEF EvoDeleteAt
  <2> QED BY <2>2, <2>4, <2>5, <2>6, DeleteGoes DEF EDeleteBack
<1>2. CASE Stop
  <2>1. pc \in EStop /\ Shifts(host')
    BY <1>0, <1>2, EvoHalting
  <2>2. PICK k : \E t \in EStop \cup {"ok", "fail", "raise"} : To(t, k) /\ Alike(k)
    BY <1>0, <1>2, EvoHalting
  <2>7. PICK t \in EStop \cup {"ok", "fail", "raise"} : To(t, k)
    BY <2>2
  <2>3. host.home = Parts /\ stack = Over(StopFrom)
    BY <1>0, <2>1 DEF EvoDeleteAt, ERemove, EDeleteLast, EDeleteBack, ERun, EStop, EIngress
  <2>4. EvoFit(host') /\ EvoDeletes(host') /\ host'.home = Parts
    BY <1>0, <2>1, <2>3, EvoDeleteInPlace, EvoShifts
  <2>5. /\ t \in EStop => Went(t, stack, k) /\ t # "idle"
        /\ t \in {"ok", "fail"} => Went("delete.undo.ingress", Above, k)
        /\ t = "raise" => Ended(Final("manual"))
    BY <2>7, <2>3, CalledAbove DEF StopFrom, EStop
  <2>6. /\ t \in EStop => EvoDeleteAt(t, stack, k, host')
        /\ EvoDeleteAt("delete.undo.ingress", Above, k, host')
    BY <2>3, <2>4 DEF EvoDeleteAt, EDeleteBack
  <2> QED BY <2>7, <2>4, <2>5, <2>6, DeleteGoes
<1>3. CASE ConfigureIngress
  <2>1. pc \in EIngress /\ Aside(host')
    BY <1>3, EvoIngressing
  <2>2. PICK t \in EIngress \cup {"ok", "fail"} : To(t, kept)
    BY <1>3, EvoIngressing
  <2>3. host.home = Parts /\ stack \in {Over(IngressFrom), Over(FailedFrom)}
    BY <1>0, <2>1 DEF EvoDeleteAt, ERemove, EDeleteLast, EDeleteBack, ERun, EStop, EIngress
  <2>4. EvoFit(host') /\ EvoDeletes(host') /\ host'.home = Parts
    BY <1>0, <2>1, <2>3, EvoDeleteAside
  <2>5. /\ t \in EIngress => Went(t, stack, kept) /\ t # "idle"
        /\ t = "ok" => Ended(Final("rolledback")) \/ Ended(Final("manual"))
        /\ t = "fail" => Ended(Final("manual"))
    BY <2>2, <2>3, CalledAbove DEF IngressFrom, FailedFrom, EIngress
  <2>6. t \in EIngress => EvoDeleteAt(t, stack, kept, host')
    BY <2>3, <2>4 DEF EvoDeleteAt
  <2> QED BY <2>2, <2>4, <2>5, <2>6, DeleteGoes
<1> QED BY <1>1, <1>2, <1>3

------------------------------------------------------------------------------
(* EvoScientist: creation *)

ECreateEarly == {"create", "create.net", "create.files", "create.undo", "create.undo.files", "create.undo.net"}
ECreateMade  == {"create.prepare", "create.run", "create.wait"}
ECreateUp    == {"create.port", "create.publish", "create.retract"}
CreateRemoves == Caller("create.undo.files", "create.undo.files", "raise")
CreateRuns    == Caller("create.wait", "create.undo", "create.undo")
\* at step p, with the callers s
EvoCreateAt(p, s, h) ==
  \/ p \in ECreateEarly /\ s = <<>>
  \/ p \in ERemove /\ s = <<CreateRemoves>>
  \/ /\ h.home = Parts
     /\ \/ p \in ECreateMade /\ s = <<>>
        \/ p \in ERun /\ s = <<CreateRuns>>
        \/ p \in ECreateUp /\ s = <<>> /\ On(h)
        \/ p \in EIngress /\ s = <<Retracts>> /\ On(h)
ECreates == (EvoCreates(host) /\ EvoCreateAt(pc, stack, host)) \/ EDeletes
EvoCreateMoves ==
  /\ EvoFit(host')
  /\ \/ /\ EvoCreates(host')
        /\ (ECreates' /\ Onward) \/ Closes(host'.home = Parts /\ On(host'))
     \/ EvoDeletes(host') /\ ECreates' /\ Onward

LEMMA CreateGoes ==
  ASSUME EvoFit(host'), EvoCreates(host')
  PROVE  /\ \A p, s, k : Went(p, s, k) /\ p # "idle" /\ EvoCreateAt(p, s, host') => EvoCreateMoves
         /\ \A r \in Results : Ended(r) /\ (r = "ok" => host'.home = Parts /\ On(host')) => EvoCreateMoves
<1>1. ASSUME NEW p, NEW s, NEW k, Went(p, s, k), p # "idle", EvoCreateAt(p, s, host')
      PROVE  EvoCreateMoves
  <2>1. Onward /\ pc' = p /\ stack' = s /\ kept' = k
    BY <1>1 DEF Went, Onward
  <2>2. Parts' = Parts
    BY <2>1, ServesStays
  <2>3. EvoCreates(host)' /\ EvoCreateAt(pc, stack, host)'
    BY <1>1, <2>1, <2>2 DEF EvoCreates, EvoCreateAt, CreateRemoves, CreateRuns, Retracts, Caller, On,
       ERemove, ERun, EIngress, ECreateEarly, ECreateMade, ECreateUp
  <2> QED BY <2>1, <2>3 DEF ECreates, EvoCreateMoves
<1>2. ASSUME NEW r \in Results, Ended(r), r = "ok" => host'.home = Parts /\ On(host')
      PROVE  EvoCreateMoves
  BY <1>2 DEF EvoCreateMoves, Closes
<1> QED BY <1>1, <1>2

LEMMA EvoCreating ==
  ASSUME product = "evoscientist", op = "create", DOMAIN host = Fields, EvoFit(host),
         EvoCreates(host), EvoCreateAt(pc, stack, host), Create
  PROVE  EvoCreateMoves
<1> USE DEF Results
<1>1. pc \in ECreateEarly \cup ECreateMade \cup ECreateUp
  BY DEF Create, Decides, Reads, Calls, Writes, Runs, Tries, ECreateEarly, ECreateMade, ECreateUp
<1>2. /\ stack = <<>>
      /\ pc \in ECreateMade => host.home = Parts
      /\ pc \in ECreateUp => host.home = Parts /\ On(host)
  BY <1>1 DEF EvoCreateAt, ERemove, ERun, EIngress, ECreateEarly, ECreateMade, ECreateUp
<1>3. Aside(host) /\ \A x : Aside([host EXCEPT !.net = x])
  BY Effects
<1>4. ASSUME Aside(host')
      PROVE  /\ EvoFit(host') /\ EvoCreates(host') /\ host'.home = host.home
             /\ On(host) => On(host')
  BY <1>4 DEF EvoFit, EvoCreates, Aside, Beside, On
<1>7. ASSUME EvoFit(host'), EvoCreates(host'), NEW t, NEW k, To(t, k), t \notin Results, t # "idle", EvoCreateAt(t, <<>>, host')
      PROVE  EvoCreateMoves
  <2>1. Went(t, <<>>, k)
    BY <1>2, <1>7, Alone
  <2> QED BY <1>7, <2>1, CreateGoes
<1>8. ASSUME EvoFit(host'), EvoCreates(host'), NEW t \in Results \ {"ok"}, NEW k, To(t, k)
      PROVE  EvoCreateMoves
  <2>1. Ended(t)
    BY <1>2, <1>8, Alone
  <2> QED BY <1>8, <2>1, CreateGoes
<1>9. ASSUME EvoFit(host'), EvoCreates(host'), NEW t \in ECreateEarly, NEW k, To(t, k)
      PROVE  EvoCreateMoves
  BY <1>7, <1>9 DEF EvoCreateAt, ECreateEarly
<1>10. CASE Tries("create", {host}, Locals([net |-> host.net, target |-> "old"]), "create.net", "create.undo")
  <2>1. Aside(host') /\ \E t \in ECreateEarly, k \in {kept, Locals([net |-> host.net, target |-> "old"])} : To(t, k)
    BY <1>3, <1>10 DEF Tries, ECreateEarly
  <2> QED BY <1>4, <1>9, <2>1
<1>11. CASE Runs("create.net", {[host EXCEPT !.net = TRUE]}, {}, "create.files", "fail", "create.undo")
  <2>1. Aside(host') /\ (To("create.files", kept) \/ To("fail", kept) \/ To("create.undo", kept))
    BY <1>3, <1>11 DEF Runs
  <2> QED BY <1>4, <1>8, <1>9, <2>1 DEF ECreateEarly
<1>12. CASE Writes("create.files", [host EXCEPT !.home = Parts], {[host EXCEPT !.home = {First(Parts)}]},
            "create.prepare", "create.undo")
  <2>1. CASE host' = [host EXCEPT !.home = Parts] /\ To("create.prepare", kept)
    <3>1. /\ host'.home = Parts /\ host'.bin = host.bin /\ host'.recycle = host.recycle /\ host'.older = host.older
          /\ host'.main = host.main /\ host'.proxy = host.proxy
      BY <2>1 DEF Fields
    <3>2. EvoFit(host') /\ EvoCreates(host') /\ EvoCreateAt("create.prepare", <<>>, host')
      BY <3>1 DEF EvoFit, EvoCreates, EvoCreateAt, ECreateMade
    <3> QED BY <1>7, <2>1, <3>2
  <2>2. CASE host' = [host EXCEPT !.home = {First(Parts)}] /\ To("create.undo", kept)
    <3>0. First(Parts) \in Parts
      BY FirstOf, EvoLooks DEF Parts, PartsOf
    <3>1. /\ host'.home = {First(Parts)} /\ host'.bin = host.bin /\ host'.recycle = host.recycle /\ host'.older = host.older
          /\ host'.main = host.main /\ host'.proxy = host.proxy
      BY <2>2 DEF Fields
    <3>2. EvoFit(host') /\ EvoCreates(host')
      BY <3>0, <3>1 DEF EvoFit, EvoCreates
    <3> QED BY <1>9, <2>2, <3>2 DEF ECreateEarly
  <2>3. CASE host' = host /\ To("create.undo", kept)
    BY <1>9, <2>3 DEF ECreateEarly
  <2> QED BY <1>12, <2>1, <2>2, <2>3 DEF Writes
<1>13. CASE Runs("create.prepare", {host}, {}, "create.run", "create.undo", "create.undo")
  <2>1. host' = host /\ host.home = Parts /\ (To("create.run", kept) \/ To("create.undo", kept))
    BY <1>2, <1>13 DEF Runs, ECreateMade
  <2>2. EvoCreateAt("create.run", <<>>, host')
    BY <2>1 DEF EvoCreateAt, ECreateMade
  <2> QED BY <1>7, <1>9, <2>1, <2>2 DEF ECreateEarly
<1>14. CASE Calls("create.run", "run", kept, "create.wait", "create.undo", "create.undo")
  <2>1. pc = "create.run" /\ host' = host /\ Went("run", <<CreateRuns>>, kept)
    BY <1>2, <1>14, CallsFrom DEF CreateRuns
  <2>2. EvoCreateAt("run", <<CreateRuns>>, host')
    BY <1>2, <2>1 DEF EvoCreateAt, ERun, ECreateMade
  <2> QED BY <2>1, <2>2, CreateGoes
<1>15. CASE Reads("create.wait", AllUp(Both), kept, "create.port", "create.undo", "create.undo")
  <2>1. host' = host /\ host.home = Parts /\ ((AllUp(Both) /\ To("create.port", kept)) \/ To("create.undo", kept))
    BY <1>2, <1>15 DEF Reads, ECreateMade
  <2>2. AllUp(Both) => EvoCreateAt("create.port", <<>>, host')
    BY <2>1 DEF EvoCreateAt, ECreateUp, AllUp, Both, On
  <2> QED BY <1>7, <1>9, <2>1, <2>2 DEF ECreateEarly
<1>16. CASE Runs("create.port", {host}, {}, "create.publish", "create.undo", "create.undo")
  <2>1. host' = host /\ host.home = Parts /\ On(host) /\ (To("create.publish", kept) \/ To("create.undo", kept))
    BY <1>2, <1>16 DEF Runs, ECreateUp
  <2>2. EvoCreateAt("create.publish", <<>>, host')
    BY <2>1 DEF EvoCreateAt, ECreateUp
  <2> QED BY <1>7, <1>9, <2>1, <2>2 DEF ECreateEarly
<1>17. CASE Calls("create.undo", "remove", kept, "create.undo.files", "create.undo.files", "raise")
  <2>1. host' = host /\ Went("remove", <<CreateRemoves>>, kept)
    BY <1>2, <1>17, CallsFrom DEF CreateRemoves
  <2>2. EvoCreateAt("remove", <<CreateRemoves>>, host')
    BY DEF EvoCreateAt, ERemove
  <2> QED BY <2>1, <2>2, CreateGoes
<1>18. CASE Tries("create.undo.files", {[host EXCEPT !.home = {}]}, kept, "create.undo.net", "raise")
  <2>1. EvoFit(host') /\ EvoCreates(host')
    <3>1. CASE host' = host
      BY <3>1
    <3>2. CASE host' = [host EXCEPT !.home = {}]
      <4>1. /\ host'.home = {} /\ host'.bin = host.bin /\ host'.recycle = host.recycle /\ host'.older = host.older
            /\ host'.main = host.main /\ host'.proxy = host.proxy
        BY <3>2 DEF Fields
      <4> QED BY <4>1 DEF EvoFit, EvoCreates
    <3> QED BY <1>18, <3>1, <3>2 DEF Tries
  <2>2. To("create.undo.net", kept) \/ To("raise", kept)
    BY <1>18 DEF Tries
  <2> QED BY <1>8, <1>9, <2>1, <2>2 DEF ECreateEarly
<1>19. CASE kept.net /\ Decides("create.undo.net", "rolledback", kept)
  BY <1>8, <1>19 DEF Decides
<1>20. CASE ~kept.net /\ Tries("create.undo.net", {[host EXCEPT !.net = FALSE]}, kept, "rolledback", "raise")
  <2>1. Aside(host') /\ (To("rolledback", kept) \/ To("raise", kept))
    BY <1>3, <1>20 DEF Tries
  <2> QED BY <1>4, <1>8, <2>1
<1>21. CASE Calls("create.publish", "ingress", kept, "ok", "create.retract", "raise")
  <2>1. pc = "create.publish" /\ host' = host /\ Went("ingress", <<Retracts>>, kept)
    BY <1>2, <1>21, CallsFrom DEF Retracts
  <2>2. EvoCreateAt("ingress", <<Retracts>>, host')
    BY <1>2, <2>1 DEF EvoCreateAt, EIngress, ECreateUp
  <2> QED BY <2>1, <2>2, CreateGoes
<1>22. CASE Calls("create.retract", "delete", NoLocals, "rolledback", "manual", "raise")
  <2>1. pc = "create.retract" /\ host' = host /\ Went("delete", <<Retracting>>, NoLocals)
    BY <1>2, <1>22, CallsFrom DEF Retracting
  <2>2. host.home = Parts /\ On(host) /\ host.bin = {} /\ host.recycle = "none"
    BY <1>2, <2>1 DEF ECreateUp, EvoCreates
  <2>3. EvoDeletes(host')
    BY <2>1, <2>2 DEF EvoDeletes
  <2>4. EvoDeleteAt("delete", Above, NoLocals, host') /\ Above = <<Retracting>>
    BY <2>1, <2>2 DEF EvoDeleteAt, WasOn, On, Above
  <2>5. Onward /\ pc' = "delete" /\ stack' = <<Retracting>> /\ kept' = NoLocals
    BY <2>1 DEF Went, Onward
  <2>6. EvoDeletes(host)' /\ EvoDeleteAt(pc, stack, kept, host)'
    BY <2>3, <2>4, <2>5, EvoDeleteStays
  <2> QED BY <2>1, <2>3, <2>5, <2>6 DEF EvoCreateMoves, ECreates, EDeletes
<1> QED BY <1>10, <1>11, <1>12, <1>13, <1>14, <1>15, <1>16, <1>17, <1>18, <1>19, <1>20, <1>21, <1>22 DEF Create

LEMMA EvoCreatingCalls ==
  ASSUME DOMAIN host = Fields, EvoFit(host), EvoCreates(host), EvoCreateAt(pc, stack, host),
         RunContainers \/ RemoveContainers \/ ConfigureIngress
  PROVE  EvoCreateMoves
<1> USE DEF Results
<1>0. host.main \in Container /\ host.proxy \in Container
  BY DEF EvoFit
<1>1. CASE RunContainers
  <2>1. pc \in ERun /\ Contained(host')
    BY <1>0, <1>1, EvoRunning
  <2>2. PICK t \in ERun \cup {"ok", "fail", "raise"} : To(t, kept)
    BY <1>0, <1>1, EvoRunning
  <2>3. host.home = Parts /\ stack = <<CreateRuns>>
    BY <2>1 DEF EvoCreateAt, ERemove, ERun, EIngress, ECreateEarly, ECreateMade, ECreateUp
  <2>4. EvoFit(host') /\ EvoCreates(host') /\ host'.home = Parts
    BY <2>1, <2>3, EvoStaysFit DEF EvoCreates, Contained, Beside
  <2>5. /\ t \in ERun => Went(t, <<CreateRuns>>, kept) /\ t # "idle"
        /\ t = "ok" => Went("create.wait", <<>>, kept)
        /\ t \in {"fail", "raise"} => Went("create.undo", <<>>, kept)
    BY <2>2, <2>3, CalledBack DEF CreateRuns, ERun
  <2>6. /\ t \in ERun => EvoCreateAt(t, <<CreateRuns>>, host')
        /\ EvoCreateAt("create.wait", <<>>, host') /\ EvoCreateAt("create.undo", <<>>, host')
    BY <2>4 DEF EvoCreateAt, ECreateMade, ECreateEarly
  <2> QED BY <2>2, <2>4, <2>5, <2>6, CreateGoes
<1>2. CASE RemoveContainers
  <2>1. pc \in ERemove /\ Beside(host') /\ host'.main \in {host.main, "none"} /\ host'.proxy \in {host.proxy, "none"}
    BY <1>2, EvoRemoving
  <2>2. PICK t \in {"remove.main", "ok", "fail", "raise"} : To(t, kept)
    BY <1>2, EvoRemoving
  <2>3. stack = <<CreateRemoves>>
    BY <2>1 DEF EvoCreateAt, ERemove, ERun, EIngress, ECreateEarly, ECreateMade, ECreateUp
  <2>4. EvoFit(host') /\ EvoCreates(host')
    BY <1>0, <2>1, EvoStaysFit DEF EvoCreates, Contained, Beside, Container
  <2>5. /\ t = "remove.main" => Went(t, <<CreateRemoves>>, kept)
        /\ t \in {"ok", "fail"} => Went("create.undo.files", <<>>, kept)
        /\ t = "raise" => Ended("raise")
    BY <2>2, <2>3, CalledBack DEF CreateRemoves
  <2>6. EvoCreateAt("remove.main", <<CreateRemoves>>, host') /\ EvoCreateAt("create.undo.files", <<>>, host')
    BY DEF EvoCreateAt, ERemove, ECreateEarly
  <2> QED BY <2>2, <2>4, <2>5, <2>6, CreateGoes
<1>3. CASE ConfigureIngress
  <2>1. pc \in EIngress /\ Aside(host')
    BY <1>3, EvoIngressing
  <2>2. PICK t \in EIngress \cup {"ok", "fail"} : To(t, kept)
    BY <1>3, EvoIngressing
  <2>3. host.home = Parts /\ stack = <<Retracts>> /\ On(host)
    BY <2>1 DEF EvoCreateAt, ERemove, ERun, EIngress, ECreateEarly, ECreateMade, ECreateUp
  <2>4. EvoFit(host') /\ EvoCreates(host') /\ host'.home = Parts /\ On(host')
    BY <2>1, <2>3 DEF EvoFit, EvoCreates, Aside, Beside, On
  <2>5. /\ t \in EIngress => Went(t, <<Retracts>>, kept) /\ t # "idle"
        /\ t = "ok" => Ended("ok")
        /\ t = "fail" => Went("create.retract", <<>>, kept)
    BY <2>2, <2>3, CalledBack DEF Retracts, EIngress
  <2>6. /\ t \in EIngress => EvoCreateAt(t, <<Retracts>>, host')
        /\ EvoCreateAt("create.retract", <<>>, host')
    BY <2>4 DEF EvoCreateAt, ECreateUp
  <2> QED BY <2>2, <2>4, <2>5, <2>6, CreateGoes
<1> QED BY <1>1, <1>2, <1>3

------------------------------------------------------------------------------
(* EvoScientist: restore *)

RestoreRuns      == Caller("restore.ingress", "restore.undo", "restore.undo")
RestorePublishes == Caller("restore.entry", "restore.undo", "restore.undo")
RestoreStops     == Caller("ok", "ok", "restore.undo")
RestoreRemoves   == Caller("restore.undo.move", "restore.undo.move", "raise")
\* the manifest has been read
ReadNote(k) == Was.recycle = "listed" /\ k.running = Was.note.running

\* at step p, with the callers s and the local variables k
EvoRestoreAt(p, s, k, h) ==
  \/ p = "restore.read" /\ s = <<>> /\ CoreAs(h)
  \/ /\ ReadNote(k)
     /\ \/ p \in {"restore.net", "restore.move"} /\ s = <<>>
        \/ /\ h.home = Parts
           /\ \/ p = "restore.run" /\ s = <<>>
              \/ p \in ERun /\ s = <<RestoreRuns>>
              \/ p \in {"restore.ingress", "restore.entry"} /\ s = <<>> /\ On(h)
              \/ p \in EIngress /\ s = <<RestorePublishes>> /\ On(h)
              \/ p = "restore.stop" /\ s = <<>> /\ h.recycle = "none" /\ ~k.running
              \/ p \in EStop /\ s = <<RestoreStops>> /\ h.recycle = "none" /\ ~k.running
  \/ p \in {"restore.undo", "restore.undo.move"} /\ s = <<>>
  \/ p \in ERemove /\ s = <<RestoreRemoves>>
ERestores ==
  \/ CoreAs(host) /\ pc = "restore" /\ stack = <<>>
  \/ EvoRestores(host) /\ EvoRestoreAt(pc, stack, kept, host)
RestoreDone ==
  Was.recycle = "listed" /\ host'.home = Parts /\ host'.recycle = "none" /\ (Was.note.running => On(host'))
EvoRestoreMoves ==
  EvoFit(host') /\ EvoRestores(host') /\ ((ERestores' /\ Onward) \/ Closes(RestoreDone))

LEMMA RestoreGoes ==
  ASSUME EvoFit(host'), EvoRestores(host')
  PROVE  /\ \A p, s, k : Went(p, s, k) /\ p # "idle" /\ EvoRestoreAt(p, s, k, host') => EvoRestoreMoves
         /\ \A r \in Results : Ended(r) /\ (r = "ok" => RestoreDone) => EvoRestoreMoves
<1>1. ASSUME NEW p, NEW s, NEW k, Went(p, s, k), p # "idle", EvoRestoreAt(p, s, k, host')
      PROVE  EvoRestoreMoves
  <2>1. Onward /\ pc' = p /\ stack' = s /\ kept' = k
    BY <1>1 DEF Went, Onward
  <2>2. Was' = Was /\ Parts' = Parts
    BY <2>1, ServesStays
  <2>3. EvoRestores(host)'
    BY <2>2 DEF EvoRestores, Off
  <2>4. EvoRestoreAt(pc, stack, kept, host)'
    BY <1>1, <2>1, <2>2 DEF EvoRestoreAt, CoreAs, DataAs, ReadNote, On, Caller, RestoreRuns, RestorePublishes, RestoreStops,
       RestoreRemoves, ERun, ERemove, EStop, EIngress
  <2> QED BY <2>1, <2>3, <2>4 DEF ERestores, EvoRestoreMoves
<1>2. ASSUME NEW r \in Results, Ended(r), r = "ok" => RestoreDone
      PROVE  EvoRestoreMoves
  BY <1>2 DEF EvoRestoreMoves, Closes
<1> QED BY <1>1, <1>2

\* a part goes back
LEMMA EvoMovesBack ==
  ASSUME product = "evoscientist", DOMAIN host = Fields, EvoFit(host), EvoRestores(host),
         NEW S \in SUBSET Parts, S = host.bin, NEW at, NEW next, NEW exc, Moves(at, S, "bin", "home", next, exc)
  PROVE  /\ EvoFit(host') /\ EvoRestores(host')
         /\ \/ host' = host /\ host.bin = {} /\ To(next, kept)
            \/ host' = host /\ To(exc, kept)
            \/ To(at, kept)
<1>0. product \in {"openclaw", "hermes", "evoscientist"} /\ <<"bin", "home">> \in {<<"home", "bin">>, <<"bin", "home">>}
  OBVIOUS
<1>1. /\ Carried(host')
      /\ \/ host' = host /\ S = {} /\ To(next, kept)
         \/ host' = host /\ To(exc, kept)
         \/ /\ S # {} /\ First(S) \in S /\ To(at, kept)
            /\ host'["bin"] = host["bin"] \ {First(S)} /\ host'["home"] = host["home"] \cup {First(S)}
  BY <1>0, MovesOn
<1>2. CASE host' = host
  BY <1>0, <1>1, <1>2
<1>3. CASE /\ S # {} /\ First(S) \in S /\ To(at, kept)
           /\ host'["bin"] = host["bin"] \ {First(S)} /\ host'["home"] = host["home"] \cup {First(S)}
  <2> DEFINE x == First(S)
  <2>1. x \in host.bin /\ x \in Parts
    BY <1>0, <1>3
  <2> HIDE DEF x
  <2>2. host'.bin = host.bin \ {x} /\ host'.home = host.home \cup {x}
    BY <1>3 DEF x
  <2>3. /\ host'.older = host.older /\ host'.recycle = host.recycle /\ host'.note = host.note
        /\ host'.main = host.main /\ host'.proxy = host.proxy
    BY <1>1 DEF Carried
  <2>4. EvoFit(host')
    BY <2>1, <2>2, <2>3 DEF EvoFit
  <2>5. Off(host) /\ host.recycle = Was.recycle /\ host.note = Was.note
    BY <2>1 DEF EvoRestores
  <2>6. host'.home \cup host'.bin = host.home \cup host.bin /\ host'.home \cap host'.bin = {}
    BY <2>1, <2>2 DEF EvoRestores
  <2>7. EvoRestores(host')
    BY <2>3, <2>5, <2>6 DEF EvoRestores, Off
  <2> QED BY <1>3, <2>4, <2>7
<1> QED BY <1>1, <1>2, <1>3

LEMMA EvoRestoring ==
  ASSUME product = "evoscientist", DOMAIN host = Fields, Local(kept), EvoFit(host), Was.recycle = "listed" => Was.note.running \in BOOLEAN,
         EvoRestores(host), EvoRestoreAt(pc, stack, kept, host), RestoreForward \/ RestoreUndo
  PROVE  EvoRestoreMoves
<1> USE DEF Results
<1>1. pc \in {"restore", "restore.read", "restore.net", "restore.move", "restore.run", "restore.ingress", "restore.entry",
              "restore.stop", "restore.undo", "restore.undo.move"}
  BY DEF RestoreForward, RestoreUndo, Decides, Reads, Calls, Writes, Moves, Runs
<1>2. /\ stack = <<>> /\ pc # "restore"
      /\ pc = "restore.read" => CoreAs(host)
      /\ pc \in {"restore.net", "restore.move", "restore.run", "restore.ingress", "restore.entry", "restore.stop"} => ReadNote(kept)
      /\ pc \in {"restore.run", "restore.ingress", "restore.entry", "restore.stop"} => host.home = Parts
      /\ pc \in {"restore.ingress", "restore.entry"} => On(host)
      /\ pc = "restore.stop" => host.recycle = "none" /\ ~kept.running
  BY <1>1 DEF EvoRestoreAt, ERun, ERemove, EStop, EIngress
<1>3. Aside(host) /\ \A x : Aside([host EXCEPT !.net = x])
  BY Effects
<1>4. host.bin \in SUBSET Parts /\ Moved = host.bin
  BY DEF EvoFit, Moved, EvoRestores
<1>7. ASSUME EvoFit(host'), EvoRestores(host'), NEW t, NEW k, To(t, k), t \notin Results, t # "idle", EvoRestoreAt(t, <<>>, k, host')
      PROVE  EvoRestoreMoves
  <2>1. Went(t, <<>>, k)
    BY <1>2, <1>7, Alone
  <2> QED BY <1>7, <2>1, RestoreGoes
<1>8. ASSUME EvoFit(host'), EvoRestores(host'), NEW t \in Results \ {"ok"}, NEW k, To(t, k)
      PROVE  EvoRestoreMoves
  <2>1. Ended(t)
    BY <1>2, <1>8, Alone
  <2> QED BY <1>8, <2>1, RestoreGoes
<1>9. ASSUME EvoFit(host'), EvoRestores(host'), To("restore.undo", kept)
      PROVE  EvoRestoreMoves
  BY <1>7, <1>9 DEF EvoRestoreAt
<1>10. CASE Reads("restore.read", host.recycle = "listed",
           Locals([image |-> host.note.image, target |-> host.note.image, running |-> host.note.running]),
           "restore.net", "restore.undo", "restore.undo")
  <2> DEFINE k == Locals([image |-> host.note.image, target |-> host.note.image, running |-> host.note.running])
  <2>1. k.running = host.note.running
    BY DEF Locals, Local, LocalNames
  <2>2. host' = host /\ pc = "restore.read" /\ ((host.recycle = "listed" /\ To("restore.net", k)) \/ To("restore.undo", kept))
    BY <1>10 DEF Reads
  <2>3. host.recycle = "listed" => EvoRestoreAt("restore.net", <<>>, k, host')
    BY <1>2, <2>1, <2>2 DEF EvoRestoreAt, ReadNote, CoreAs, DataAs
  <2> HIDE DEF k
  <2> QED BY <1>7, <1>9, <2>2, <2>3
<1>11. CASE Runs("restore.net", {[host EXCEPT !.net = TRUE]}, {}, "restore.move", "fail", "restore.undo")
  <2>1. pc = "restore.net" /\ Aside(host') /\ (To("restore.move", kept) \/ To("fail", kept) \/ To("restore.undo", kept))
    BY <1>3, <1>11 DEF Runs
  <2>2. EvoFit(host') /\ EvoRestores(host')
    BY <2>1 DEF Aside, Beside, EvoFit, EvoRestores, Off
  <2>3. EvoRestoreAt("restore.move", <<>>, kept, host')
    BY <1>2, <2>1 DEF EvoRestoreAt
  <2> QED BY <1>7, <1>8, <1>9, <2>1, <2>2, <2>3
<1>12. CASE Moves("restore.move", host.bin, "bin", "home", "restore.run", "restore.undo")
  <2>0. pc = "restore.move"
    BY <1>12 DEF Moves, Writes
  <2>1. /\ EvoFit(host') /\ EvoRestores(host')
        /\ \/ host' = host /\ host.bin = {} /\ To("restore.run", kept)
           \/ host' = host /\ To("restore.undo", kept)
           \/ To("restore.move", kept)
    BY <1>4, <1>12, EvoMovesBack
  <2>2. EvoRestoreAt("restore.move", <<>>, kept, host')
    BY <1>2, <2>0 DEF EvoRestoreAt
  <2>3. host' = host /\ host.bin = {} => EvoRestoreAt("restore.run", <<>>, kept, host')
    BY <1>2, <2>0 DEF EvoRestoreAt, EvoRestores, ReadNote
  <2> QED BY <1>7, <1>9, <2>1, <2>2, <2>3
<1>13. CASE Calls("restore.run", "run", kept, "restore.ingress", "restore.undo", "restore.undo")
  <2>1. pc = "restore.run" /\ host' = host /\ Went("run", <<RestoreRuns>>, kept)
    BY <1>2, <1>13, CallsFrom DEF RestoreRuns
  <2>2. EvoRestoreAt("run", <<RestoreRuns>>, kept, host')
    BY <1>2, <2>1 DEF EvoRestoreAt, ERun
  <2> QED BY <2>1, <2>2, RestoreGoes
<1>14. CASE Calls("restore.ingress", "ingress", kept, "restore.entry", "restore.undo", "restore.undo")
  <2>1. pc = "restore.ingress" /\ host' = host /\ Went("ingress", <<RestorePublishes>>, kept)
    BY <1>2, <1>14, CallsFrom DEF RestorePublishes
  <2>2. EvoRestoreAt("ingress", <<RestorePublishes>>, kept, host')
    BY <1>2, <2>1 DEF EvoRestoreAt, EIngress
  <2> QED BY <2>1, <2>2, RestoreGoes
<1>15. CASE Writes("restore.entry", [host EXCEPT !.recycle = "none", !.note = NoNote],
            {[host EXCEPT !.recycle = "dir", !.note = NoNote]},
            IF kept.running THEN "ok" ELSE "restore.stop", "restore.undo")
  <2>0. pc = "restore.entry" /\ ReadNote(kept) /\ host.home = Parts /\ On(host)
    BY <1>2, <1>15 DEF Writes
  <2>1. ASSUME NEW x \in {"none", "dir"}, host' = [host EXCEPT !.recycle = x, !.note = NoNote]
        PROVE  EvoFit(host') /\ EvoRestores(host') /\ host'.home = Parts /\ On(host') /\ host'.recycle = x
    <3>1. /\ host'.recycle = x /\ host'.home = host.home /\ host'.bin = host.bin /\ host'.older = host.older
          /\ host'.main = host.main /\ host'.proxy = host.proxy
      BY <2>1 DEF Fields
    <3> QED BY <2>0, <3>1 DEF EvoFit, EvoRestores, On, ReadNote
  <2>2. CASE host' = [host EXCEPT !.recycle = "none", !.note = NoNote] /\ To(IF kept.running THEN "ok" ELSE "restore.stop", kept)
    <3>1. EvoFit(host') /\ EvoRestores(host') /\ host'.home = Parts /\ On(host') /\ host'.recycle = "none"
      BY <2>1, <2>2
    <3>2. CASE kept.running
      <4>1. Ended("ok")
        BY <1>2, <2>2, <3>2, Alone
      <4>2. RestoreDone
        BY <2>0, <3>1 DEF RestoreDone, ReadNote
      <4> QED BY <3>1, <4>1, <4>2, RestoreGoes
    <3>3. CASE ~kept.running
      <4>1. EvoRestoreAt("restore.stop", <<>>, kept, host')
        BY <2>0, <3>1, <3>3 DEF EvoRestoreAt
      <4> QED BY <1>7, <2>2, <3>1, <3>3, <4>1
    <3> QED BY <3>2, <3>3
  <2>3. CASE host' = [host EXCEPT !.recycle = "dir", !.note = NoNote] /\ To("restore.undo", kept)
    BY <1>9, <2>1, <2>3
  <2>4. CASE host' = host /\ To("restore.undo", kept)
    BY <1>9, <2>4
  <2> QED BY <1>15, <2>2, <2>3, <2>4 DEF Writes
<1>16. CASE Calls("restore.stop", "stop", kept, "ok", "ok", "restore.undo")
  <2>1. pc = "restore.stop" /\ host' = host /\ Went("stop", <<RestoreStops>>, kept)
    BY <1>2, <1>16, CallsFrom DEF RestoreStops
  <2>2. EvoRestoreAt("stop", <<RestoreStops>>, kept, host')
    BY <1>2, <2>1 DEF EvoRestoreAt, EStop
  <2> QED BY <2>1, <2>2, RestoreGoes
<1>17. CASE Calls("restore.undo", "remove", kept, "restore.undo.move", "restore.undo.move", "raise")
  <2>1. host' = host /\ Went("remove", <<RestoreRemoves>>, kept)
    BY <1>2, <1>17, CallsFrom DEF RestoreRemoves
  <2>2. EvoRestoreAt("remove", <<RestoreRemoves>>, kept, host')
    BY DEF EvoRestoreAt, ERemove
  <2> QED BY <2>1, <2>2, RestoreGoes
<1>18. CASE Moves("restore.undo.move", Moved, "bin", "home", "fail", "raise")
  <2>1. /\ EvoFit(host') /\ EvoRestores(host')
        /\ To("fail", kept) \/ To("raise", kept) \/ To("restore.undo.move", kept)
    BY <1>4, <1>18, EvoMovesBack
  <2>2. EvoRestoreAt("restore.undo.move", <<>>, kept, host')
    BY DEF EvoRestoreAt
  <2> QED BY <1>7, <1>8, <2>1, <2>2
<1>19. CASE Decides("restore", IF host.recycle = "none" THEN "fail" ELSE "restore.read", kept)
  BY <1>2, <1>19 DEF Decides
<1> QED BY <1>10, <1>11, <1>12, <1>13, <1>14, <1>15, <1>16, <1>17, <1>18, <1>19 DEF RestoreForward, RestoreUndo

LEMMA EvoRestoringCalls ==
  ASSUME DOMAIN host = Fields, Local(kept), EvoFit(host), EvoRestores(host), EvoRestoreAt(pc, stack, kept, host),
         RunContainers \/ RemoveContainers \/ ConfigureIngress \/ Stop
  PROVE  EvoRestoreMoves
<1> USE DEF Results
<1>0. host.main \in Container /\ host.proxy \in Container
  BY DEF EvoFit
<1>1. CASE RunContainers
  <2>1. pc \in ERun /\ Contained(host')
    BY <1>0, <1>1, EvoRunning
  <2>2. PICK t \in ERun \cup {"ok", "fail", "raise"} : To(t, kept) /\ (t = "ok" => On(host'))
    BY <1>0, <1>1, EvoRunning
  <2>3. host.home = Parts /\ stack = <<RestoreRuns>> /\ ReadNote(kept)
    BY <2>1 DEF EvoRestoreAt, ERemove, ERun, EIngress, EStop
  <2>4. EvoFit(host') /\ EvoRestores(host') /\ host'.home = Parts
    BY <2>1, <2>3, EvoStaysFit DEF EvoRestores, Contained, Beside, ReadNote
  <2>5. /\ t \in ERun => Went(t, <<RestoreRuns>>, kept) /\ t # "idle"
        /\ t = "ok" => Went("restore.ingress", <<>>, kept)
        /\ t \in {"fail", "raise"} => Went("restore.undo", <<>>, kept)
    BY <2>2, <2>3, CalledBack DEF RestoreRuns, ERun
  <2>6. /\ t \in ERun => EvoRestoreAt(t, <<RestoreRuns>>, kept, host')
        /\ t = "ok" => EvoRestoreAt("restore.ingress", <<>>, kept, host')
        /\ EvoRestoreAt("restore.undo", <<>>, kept, host')
    BY <2>2, <2>3, <2>4 DEF EvoRestoreAt
  <2> QED BY <2>2, <2>4, <2>5, <2>6, RestoreGoes
<1>2. CASE RemoveContainers
  <2>1. pc \in ERemove /\ Beside(host') /\ host'.main \in {host.main, "none"} /\ host'.proxy \in {host.proxy, "none"}
    BY <1>2, EvoRemoving
  <2>2. PICK t \in {"remove.main", "ok", "fail", "raise"} : To(t, kept)
    BY <1>2, EvoRemoving
  <2>3. stack = <<RestoreRemoves>>
    BY <2>1 DEF EvoRestoreAt, ERemove, ERun, EIngress, EStop
  <2>4. EvoFit(host') /\ EvoRestores(host')
    BY <1>0, <2>1, EvoStaysFit DEF EvoRestores, Contained, Beside, Container, Off
  <2>5. /\ t = "remove.main" => Went(t, <<RestoreRemoves>>, kept)
        /\ t \in {"ok", "fail"} => Went("restore.undo.move", <<>>, kept)
        /\ t = "raise" => Ended("raise")
    BY <2>2, <2>3, CalledBack DEF RestoreRemoves
  <2>6. EvoRestoreAt("remove.main", <<RestoreRemoves>>, kept, host') /\ EvoRestoreAt("restore.undo.move", <<>>, kept, host')
    BY DEF EvoRestoreAt, ERemove
  <2> QED BY <2>2, <2>4, <2>5, <2>6, RestoreGoes
<1>3. CASE ConfigureIngress
  <2>1. pc \in EIngress /\ Aside(host')
    BY <1>3, EvoIngressing
  <2>2. PICK t \in EIngress \cup {"ok", "fail"} : To(t, kept)
    BY <1>3, EvoIngressing
  <2>3. host.home = Parts /\ stack = <<RestorePublishes>> /\ On(host) /\ ReadNote(kept)
    BY <2>1 DEF EvoRestoreAt, ERemove, ERun, EIngress, EStop
  <2>4. EvoFit(host') /\ EvoRestores(host') /\ host'.home = Parts /\ On(host')
    BY <2>1, <2>3 DEF EvoFit, EvoRestores, Aside, Beside, On, Off
  <2>5. /\ t \in EIngress => Went(t, <<RestorePublishes>>, kept) /\ t # "idle"
        /\ t = "ok" => Went("restore.entry", <<>>, kept)
        /\ t = "fail" => Went("restore.undo", <<>>, kept)
    BY <2>2, <2>3, CalledBack DEF RestorePublishes, EIngress
  <2>6. /\ t \in EIngress => EvoRestoreAt(t, <<RestorePublishes>>, kept, host')
        /\ EvoRestoreAt("restore.entry", <<>>, kept, host')
        /\ EvoRestoreAt("restore.undo", <<>>, kept, host')
    BY <2>3, <2>4 DEF EvoRestoreAt
  <2> QED BY <2>2, <2>4, <2>5, <2>6, RestoreGoes
<1>4. CASE Stop
  <2>1. pc \in EStop /\ Shifts(host')
    BY <1>0, <1>4, EvoHalting
  <2>2. PICK k : \E t \in EStop \cup {"ok", "fail", "raise"} : To(t, k) /\ Alike(k)
    BY <1>0, <1>4, EvoHalting
  <2>7. PICK t \in EStop \cup {"ok", "fail", "raise"} : To(t, k)
    BY <2>2
  <2>3. host.home = Parts /\ stack = <<RestoreStops>> /\ host.recycle = "none" /\ ~kept.running /\ ReadNote(kept)
    BY <2>1 DEF EvoRestoreAt, ERemove, ERun, EIngress, EStop
  <2>4. EvoFit(host') /\ EvoRestores(host') /\ host'.home = Parts /\ host'.recycle = "none"
    BY <2>1, <2>3, EvoShifts DEF EvoRestores, Shifts, Beside, ReadNote
  <2>8. ReadNote(k) /\ ~k.running
    BY <2>2, <2>3 DEF Alike, ReadNote
  <2>5. /\ t \in EStop => Went(t, <<RestoreStops>>, k) /\ t # "idle"
        /\ t \in {"ok", "fail"} => Ended("ok")
        /\ t = "raise" => Went("restore.undo", <<>>, k)
    BY <2>7, <2>3, CalledBack DEF RestoreStops, EStop
  <2>6. /\ t \in EStop => EvoRestoreAt(t, <<RestoreStops>>, k, host')
        /\ EvoRestoreAt("restore.undo", <<>>, k, host')
        /\ RestoreDone
    BY <2>4, <2>8 DEF EvoRestoreAt, RestoreDone, ReadNote
  <2> QED BY <2>7, <2>4, <2>5, <2>6, RestoreGoes
<1> QED BY <1>1, <1>2, <1>3, <1>4

------------------------------------------------------------------------------
(* EvoScientist: every request *)

\* a deletion that was asked for; an instance with a recycle entry is not deleted
EAsked == (CoreAs(host) /\ pc = "delete" /\ stack = <<>>) \/ EDeletes

EvoUnder ==
  CASE op = "start"              -> EStarts
    [] op = "stop"               -> EStops
    [] op = "restart"            -> ERestarts
    [] op = "update_version"     -> EUpdates
    [] op = "set_model_provider" -> ESets
    [] op = "purge_deleted"      -> EPurges
    [] op = "cleanup_failed"     -> ECleans
    [] op = "delete"             -> EAsked
    [] op = "create"             -> ECreates
    [] op = "restore"            -> ERestores

EvoWorks  == EvoStep \/ EvoProvider
EvoGoes   == EvoUnder' /\ Onward /\ EvoLeaves(host')
EvoCloses == \E r \in Results : Ended(r) /\ IF r = "ok" THEN EvoDone(host') ELSE EvoLeaves(host')

EDelete  == {"delete", "delete.inspect", "delete.containers", "delete.entry", "delete.move",
             "delete.ingress", "delete.conf", "delete.list"}
EUndo    == {"delete.undo", "delete.undo.move", "delete.undo.entry", "delete.undo.run", "delete.undo.failed",
             "delete.undo.stop", "delete.undo.ingress"}
ERestore == {"restore", "restore.read", "restore.net", "restore.move", "restore.run", "restore.ingress", "restore.entry",
             "restore.stop", "restore.undo", "restore.undo.move"}
ECleanup == {"cleanup_failed", "cleanup.proxy", "cleanup.ingress", "cleanup.conf", "cleanup.net"}
EUpdate  == {"update_version", "update.inspect", "update.look", "update.remove", "update.run", "update.wait", "update.stop",
             "update.undo", "update.undo.run", "update.undo.wait", "update.undo.stop"}
ECreate  == ECreateEarly \cup ECreateMade \cup ECreateUp

LEMMA EvoFunctions ==
  /\ RunContainers => pc \in ERun
  /\ RemoveContainers => pc \in ERemove
  /\ ConfigureIngress => pc \in EIngress
  /\ Start => pc \in EStart
  /\ Stop => pc \in EStop
  /\ Restart => pc \in ERestart
  /\ Create => pc \in ECreate
  /\ DeleteForward => pc \in EDelete
  /\ DeleteUndo => pc \in EUndo
  /\ RestoreForward \/ RestoreUndo => pc \in ERestore
  /\ PurgeDeleted => pc \in {"purge_deleted", "purge.tree"}
  /\ CleanupFailed => pc \in ECleanup
  /\ UpdateForward \/ UpdateUndo => pc \in EUpdate
<1> USE DEF Decides, Reads, Calls, Writes, Runs, Tries
<1>1. RunContainers => pc \in ERun
  BY DEF RunContainers, ERun
<1>2. RemoveContainers => pc \in ERemove
  BY DEF RemoveContainers, ERemove
<1>3. ConfigureIngress => pc \in EIngress
  BY DEF ConfigureIngress, EIngress
<1>4. Start => pc \in EStart
  BY DEF Start, EStart
<1>5. Stop => pc \in EStop
  BY DEF Stop, EStop
<1>6. Restart => pc \in ERestart
  BY DEF Restart, ERestart
<1>7. Create => pc \in ECreate
  BY DEF Create, ECreate, ECreateEarly, ECreateMade, ECreateUp
<1>8. DeleteForward => pc \in EDelete
  BY DEF DeleteForward, EDelete, Moves
<1>9. DeleteUndo => pc \in EUndo
  BY DEF DeleteUndo, EUndo, Moves
<1>10. RestoreForward \/ RestoreUndo => pc \in ERestore
  BY DEF RestoreForward, RestoreUndo, ERestore, Moves
<1>11. PurgeDeleted => pc \in {"purge_deleted", "purge.tree"}
  BY DEF PurgeDeleted
<1>12. CleanupFailed => pc \in ECleanup
  BY DEF CleanupFailed, ECleanup
<1>13. UpdateForward \/ UpdateUndo => pc \in EUpdate
  BY DEF UpdateForward, UpdateUndo, EUpdate
<1> QED BY <1>1, <1>2, <1>3, <1>4, <1>5, <1>6, <1>7, <1>8, <1>9, <1>10, <1>11, <1>12, <1>13

\* which function works
LEMMA EvoWhere ==
  ASSUME DOMAIN host = Fields, EvoWorks
  PROVE  /\ pc \in ERun => RunContainers
         /\ pc \in ERemove => RemoveContainers
         /\ pc \in EIngress => ConfigureIngress
         /\ pc \in EStart => Start
         /\ pc \in EStop => Stop
         /\ pc \in ERestart => Restart
         /\ pc \in ECreate => Create
         /\ pc \in EDelete => DeleteForward
         /\ pc \in EUndo => DeleteUndo
         /\ pc \in ERestore => RestoreForward \/ RestoreUndo
         /\ pc \in {"purge_deleted", "purge.tree"} => PurgeDeleted
         /\ pc \in ECleanup => CleanupFailed
         /\ pc \in EUpdate => UpdateForward \/ UpdateUndo
         /\ pc \in Providing => EvoProvider
         /\ pc # "idle"
<1>1. EvoProvider => pc \in Providing
  BY EvoProvides, CallsFrom DEF Provides, Providing
<1>2. \/ RunContainers /\ pc \in ERun
      \/ RemoveContainers /\ pc \in ERemove
      \/ ConfigureIngress /\ pc \in EIngress
      \/ Start /\ pc \in EStart
      \/ Stop /\ pc \in EStop
      \/ Restart /\ pc \in ERestart
      \/ Create /\ pc \in ECreate
      \/ DeleteForward /\ pc \in EDelete
      \/ DeleteUndo /\ pc \in EUndo
      \/ (RestoreForward \/ RestoreUndo) /\ pc \in ERestore
      \/ PurgeDeleted /\ pc \in {"purge_deleted", "purge.tree"}
      \/ CleanupFailed /\ pc \in ECleanup
      \/ (UpdateForward \/ UpdateUndo) /\ pc \in EUpdate
      \/ EvoProvider /\ pc \in Providing
  BY <1>1, EvoFunctions, Zenon DEF EvoWorks, EvoStep
<1> QED BY <1>2 DEF ERun, ERemove, EIngress, EStart, EStop, ERestart, ECreate, ECreateEarly, ECreateMade, ECreateUp,
       EDelete, EUndo, ERestore, ECleanup, EUpdate, Providing

\* what holds of the instance after a step holds of it then
LEMMA EvoStays ==
  ASSUME Onward
  PROVE  /\ Was' = Was /\ Parts' = Parts /\ op' = op /\ pc' # "idle" /\ product' = product /\ row' = row
         /\ EvoLeaves(host') => EvoLeaves(host)'
         /\ EvoFit(host') => EvoFit(host)'
         /\ CoreAs(host') => CoreAs(host)'
<1>1. /\ Was' = Was /\ Parts' = Parts /\ op' = op /\ pc' # "idle" /\ product' = product /\ row' = row
  BY ServesStays DEF Onward
<1>2. WasOn' = WasOn
  BY <1>1 DEF WasOn
<1>3. /\ EvoFit(host') => EvoFit(host)'
      /\ CoreAs(host') => CoreAs(host)'
  BY <1>1 DEF EvoFit, CoreAs, DataAs
<1>4. EvoLeaves(host') => EvoLeaves(host)'
  BY <1>1, <1>2 DEF EvoLeaves, EvoFit, EvoServes, CoreAs, DataAs, EvoDeletes, EvoDeleted, EvoCreates, EvoRestores,
       EvoPurges, EvoCleans, Off
<1> QED BY <1>1, <1>3, <1>4

\* A deletion begins where nothing has been moved yet.
LEMMA EvoDeleteBegins ==
  ASSUME product = "evoscientist", op = "delete", EvoFit(host), EvoRested(Was, "live"),
         CoreAs(host), pc = "delete", stack = <<>>, DeleteForward
  PROVE  \/ EvoDeleteMoves
         \/ CoreAs(host') /\ EvoFit(host') /\ Ended("fail")
<1>1. Decides("delete", IF host.recycle = "none" THEN "delete.inspect" ELSE "fail", kept)
  BY DEF DeleteForward, Decides, Reads, Calls, Writes, Moves, Tries
<1>2. host' = host /\ CoreAs(host') /\ EvoFit(host')
  BY <1>1 DEF Decides, CoreAs, DataAs, EvoFit
<1>3. CASE host.recycle = "none"
  <2>1. To("delete.inspect", kept)
    BY <1>1, <1>3 DEF Decides
  <2>2. Went("delete.inspect", <<>>, kept)
    BY <2>1, Alone DEF Results
  <2>3. Was.bin = {} /\ Was.home = Parts /\ Was.recycle = "none"
    BY <1>3 DEF EvoRested, CoreAs, DataAs
  <2>4. EvoDeletes(host')
    BY <1>2, <2>3 DEF EvoDeletes, CoreAs, DataAs
  <2>5. EvoDeleteAt("delete.inspect", <<>>, kept, host')
    BY <1>2, <1>3 DEF EvoDeleteAt, Above, WasOn, CoreAs
  <2> QED BY <1>2, <2>2, <2>4, <2>5, DeleteGoes
<1>4. CASE host.recycle # "none"
  <2>1. To("fail", kept)
    BY <1>1, <1>4 DEF Decides
  <2> QED BY <1>2, <2>1, Alone DEF Results
<1> QED BY <1>3, <1>4

LEMMA EvoRestoreBegins ==
  ASSUME product = "evoscientist", op = "restore", EvoFit(host), EvoRested(Was, "deleted"),
         CoreAs(host), pc = "restore", stack = <<>>, RestoreForward \/ RestoreUndo
  PROVE  \/ EvoRestoreMoves
         \/ CoreAs(host') /\ EvoFit(host') /\ Ended("fail")
<1>1. Decides("restore", IF host.recycle = "none" THEN "fail" ELSE "restore.read", kept)
  BY DEF RestoreForward, RestoreUndo, Decides, Reads, Calls, Writes, Moves, Runs
<1>2. host' = host /\ CoreAs(host') /\ EvoFit(host')
  BY <1>1 DEF Decides, CoreAs, DataAs, EvoFit
<1>3. CASE host.recycle # "none"
  <2>1. To("restore.read", kept)
    BY <1>1, <1>3 DEF Decides
  <2>2. Went("restore.read", <<>>, kept)
    BY <2>1, Alone DEF Results
  <2>3. Was.home \cap Was.bin = {} /\ (Was.home = Parts \/ Off(Was)) /\ (Was.recycle = "listed" => Was.home \cup Was.bin = Parts)
    BY DEF EvoRested
  <2>4. EvoRestores(host')
    BY <1>2, <1>3, <2>3 DEF EvoRestores, CoreAs, DataAs, Off
  <2>5. EvoRestoreAt("restore.read", <<>>, kept, host')
    BY <1>2 DEF EvoRestoreAt
  <2> QED BY <1>2, <2>2, <2>4, <2>5, RestoreGoes
<1>4. CASE host.recycle = "none"
  <2>1. To("fail", kept)
    BY <1>1, <1>4 DEF Decides
  <2> QED BY <1>2, <2>1, Alone DEF Results
<1> QED BY <1>3, <1>4

LEMMA EvoDeleting ==
  ASSUME product = "evoscientist", DOMAIN host = Fields, Local(kept), EvoFit(host), EDeletes, EvoWorks
  PROVE  EvoDeleteMoves
<1>1. pc \in ERun \cup ERemove \cup EIngress \cup EStop \cup EDelete \cup EUndo
  BY DEF EDeletes, EvoDeleteAt, EDelete, EUndo, EDeleteBack, EDeleteLast
<1>2. RunContainers \/ RemoveContainers \/ ConfigureIngress \/ Stop \/ DeleteForward \/ DeleteUndo
  BY <1>1, EvoWhere
<1> QED BY <1>2, EvoDeletingForward, EvoDeletingBack, EvoDeleteRemoving, EvoDeleteRunning

LEMMA EvoUpdates ==
  ASSUME DOMAIN host = Fields, Local(kept), EvoFit(host), EUpdates, EvoWorks
  PROVE  UpdateMoves
<1>1. pc \in ERun \cup ERemove \cup EStop \cup EUpdate
  BY DEF EUpdates, UpdateAt, EUpdate
<1>2. RunContainers \/ RemoveContainers \/ Stop \/ UpdateForward \/ UpdateUndo
  BY <1>1, EvoWhere
<1> QED BY <1>2, EvoUpdatingForward, EvoUpdatingBack, EvoUpdateRemoving, EvoUpdateRunning, EvoUpdateStopping

LEMMA EvoRestoreOn ==
  ASSUME product = "evoscientist", op = "restore", DOMAIN host = Fields, Local(kept), EvoFit(host), EvoFit(Was),
         EvoRested(Was, "deleted"), ERestores, EvoWorks
  PROVE  \/ EvoRestoreMoves
         \/ CoreAs(host') /\ EvoFit(host') /\ Ended("fail")
<1>1. pc \in ERun \cup ERemove \cup EIngress \cup EStop \cup ERestore
  BY DEF ERestores, EvoRestoreAt, ERestore
<1>2. RunContainers \/ RemoveContainers \/ ConfigureIngress \/ Stop \/ RestoreForward \/ RestoreUndo
  BY <1>1, EvoWhere
<1>3. Was.recycle = "listed" => Was.note.running \in BOOLEAN
  BY DEF EvoFit
<1>4. CASE CoreAs(host) /\ pc = "restore" /\ stack = <<>>
  <2>1. RestoreForward \/ RestoreUndo
    BY <1>4, EvoWhere DEF ERestore
  <2> QED BY <1>4, <2>1, EvoRestoreBegins
<1>5. CASE EvoRestores(host) /\ EvoRestoreAt(pc, stack, kept, host)
  BY <1>2, <1>3, <1>5, EvoRestoring, EvoRestoringCalls
<1> QED BY <1>4, <1>5 DEF ERestores

LEMMA EvoCreateOn ==
  ASSUME product = "evoscientist", op = "create", DOMAIN host = Fields, Local(kept), EvoFit(host), ECreates, EvoWorks
  PROVE  \/ EvoCreateMoves
         \/ EvoDeleteMoves
<1>1. CASE EDeletes
  BY <1>1, EvoDeleting
<1>2. CASE EvoCreates(host) /\ EvoCreateAt(pc, stack, host)
  <2>1. pc \in ERun \cup ERemove \cup EIngress \cup ECreate
    BY <1>2 DEF EvoCreateAt, ECreate
  <2>2. RunContainers \/ RemoveContainers \/ ConfigureIngress \/ Create
    BY <2>1, EvoWhere
  <2> QED BY <1>2, <2>2, EvoCreating, EvoCreatingCalls
<1> QED BY <1>1, <1>2 DEF ECreates

LEMMA EvoOn ==
  ASSUME product = "evoscientist", op \in EvoRequest, DOMAIN host = Fields, Local(kept), EvoFit(host), EvoFit(Was),
         EvoRested(Was, row), Admitted(op), EvoUnder, EvoWorks
  PROVE  EvoGoes \/ EvoCloses
<1>1. CASE op = "start"
  <2>1. EStarts
    BY <1>1 DEF EvoUnder
  <2>2. Start
    BY <2>1, EvoWhere DEF EStarts
  <2>3. EvoFit(host') /\ EvoServes(host') /\ ((EStarts' /\ Onward) \/ Closes(On(host')))
    BY <2>1, <2>2, EvoStartingOn
  <2> QED BY <1>1, <2>3, EvoStays DEF EvoGoes, EvoCloses, EvoUnder, EvoLeaves, EvoDone, Closes
<1>2. CASE op = "stop"
  <2>1. EStops
    BY <1>2 DEF EvoUnder
  <2>2. Stop
    BY <2>1, EvoWhere DEF EStops
  <2>3. EvoFit(host') /\ EvoServes(host') /\ ((EStops' /\ Onward) \/ Closes(host'.main = "stopped" /\ host'.proxy = "stopped"))
    BY <2>1, <2>2, EvoStoppingOn
  <2> QED BY <1>2, <2>3, EvoStays DEF EvoGoes, EvoCloses, EvoUnder, EvoLeaves, EvoDone, Closes
<1>3. CASE op = "restart"
  <2>1. ERestarts
    BY <1>3 DEF EvoUnder
  <2>2. Restart
    BY <2>1, EvoWhere DEF ERestarts
  <2>3. EvoFit(host') /\ EvoServes(host') /\ ((ERestarts' /\ Onward) \/ Closes(On(host')))
    BY <2>1, <2>2, EvoRestartingOn
  <2> QED BY <1>3, <2>3, EvoStays DEF EvoGoes, EvoCloses, EvoUnder, EvoLeaves, EvoDone, Closes
<1>4. CASE op = "update_version"
  <2>1. EUpdates
    BY <1>4 DEF EvoUnder
  <2>2. UpdateMoves
    BY <2>1, EvoUpdates
  <2>3. EvoFit(host') /\ EvoServes(host') /\ ((EUpdates' /\ Onward) \/ Closes(UpdateDone))
    BY <2>2 DEF UpdateMoves
  <2>4. UpdateDone => EvoDone(host')
    BY <1>4, <2>3 DEF UpdateDone, EvoDone, EvoServes
  <2> QED BY <1>4, <2>3, <2>4, EvoStays DEF EvoGoes, EvoCloses, EvoUnder, EvoLeaves, Closes
<1>5. CASE op = "set_model_provider"
  <2>1. ESets
    BY <1>5 DEF EvoUnder
  <2>2. IF pc \in ERestart THEN Restart ELSE EvoProvider
    BY <2>1, EvoWhere DEF ESets, Sets
  <2>3. CoreAs(host') /\ ((ESets' /\ Onward) \/ Closes(On(host')))
    BY <2>1, <2>2, EvoSetting
  <2>4. EvoFit(host')
    BY <2>3 DEF EvoFit, CoreAs, DataAs
  <2> QED BY <1>5, <2>3, <2>4, EvoStays DEF EvoGoes, EvoCloses, EvoUnder, EvoLeaves, EvoDone, Closes
<1>6. CASE op = "purge_deleted"
  <2>1. EPurges
    BY <1>6 DEF EvoUnder
  <2>2. PurgeDeleted
    BY <2>1, EvoWhere DEF EPurges
  <2>3. /\ EvoFit(host')
        /\ \/ CoreAs(host') /\ EPurges' /\ Onward
           \/ \E r \in Results : Ended(r) /\ IF r = "ok" THEN EvoPurges(host') /\ host'.recycle = "none"
                                              ELSE CoreAs(host') \/ (EvoPurges(host') /\ host'.recycle = "dir")
    BY <2>1, <2>2, EvoPurging
  <2> QED BY <1>6, <2>3, EvoStays DEF EvoGoes, EvoCloses, EvoUnder, EvoLeaves, EvoDone
<1>7. CASE op = "cleanup_failed"
  <2>1. ECleans
    BY <1>7 DEF EvoUnder
  <2>2. CleanupFailed
    BY <2>1, EvoWhere DEF ECleans, ECleanup
  <2>3. EvoFit(host') /\ EvoCleans(host') /\ ((ECleans' /\ Onward) \/ Closes(Off(host')))
    BY <2>1, <2>2, EvoCleaning
  <2> QED BY <1>7, <2>3, EvoStays DEF EvoGoes, EvoCloses, EvoUnder, EvoLeaves, EvoDone, Closes
<1>8. CASE op = "delete"
  <2>1. EAsked /\ EvoRested(Was, "live")
    BY <1>8 DEF EvoUnder, Admitted
  <2>2. EvoDeleteMoves \/ (CoreAs(host') /\ EvoFit(host') /\ Ended("fail"))
    <3>1. CASE EDeletes
      BY <3>1, EvoDeleting
    <3>2. CASE CoreAs(host) /\ pc = "delete" /\ stack = <<>>
      <4>1. DeleteForward
        BY <3>2, EvoWhere DEF EDelete
      <4> QED BY <1>8, <2>1, <3>2, <4>1, EvoDeleteBegins
    <3> QED BY <2>1, <3>1, <3>2 DEF EAsked
  <2>3. CASE CoreAs(host') /\ EvoFit(host') /\ Ended("fail")
    BY <1>8, <2>3 DEF EvoCloses, EvoLeaves, Results
  <2>4. CASE EvoFit(host') /\ EvoDeletes(host') /\ EDeletes' /\ Onward
    <3>1. EAsked'
      BY <2>4 DEF EAsked
    <3> QED BY <1>8, <2>4, <3>1, EvoStays DEF EvoGoes, EvoUnder, EvoLeaves
  <2>5. CASE EvoFit(host') /\ EvoDeletes(host') /\ \E r \in Results \ {"ok"} : Ended(r)
    BY <1>8, <2>5 DEF EvoCloses, EvoLeaves
  <2>6. CASE EvoFit(host') /\ EvoDeleted(host') /\ Ended(Final("ok"))
    BY <1>8, <2>6 DEF EvoCloses, EvoDone, Final, Results
  <2> QED BY <2>2, <2>3, <2>4, <2>5, <2>6 DEF EvoDeleteMoves
<1>9. CASE op = "create"
  <2>1. EvoCreateMoves \/ EvoDeleteMoves
    BY <1>9, EvoCreateOn DEF EvoUnder
  <2>2. CASE EvoCreateMoves
    <3>1. CASE EvoFit(host') /\ EvoCreates(host') /\ ECreates' /\ Onward
      BY <1>9, <3>1, EvoStays DEF EvoGoes, EvoUnder, EvoLeaves
    <3>2. CASE EvoFit(host') /\ EvoCreates(host') /\ Closes(host'.home = Parts /\ On(host'))
      BY <1>9, <3>2 DEF EvoCloses, EvoLeaves, EvoDone, Closes
    <3>3. CASE EvoFit(host') /\ EvoDeletes(host') /\ ECreates' /\ Onward
      BY <1>9, <3>3, EvoStays DEF EvoGoes, EvoUnder, EvoLeaves
    <3> QED BY <2>2, <3>1, <3>2, <3>3 DEF EvoCreateMoves
  <2>3. CASE EvoDeleteMoves
    <3>1. CASE EvoFit(host') /\ EvoDeletes(host') /\ EDeletes' /\ Onward
      <4>1. ECreates'
        BY <3>1 DEF ECreates
      <4> QED BY <1>9, <3>1, <4>1, EvoStays DEF EvoGoes, EvoUnder, EvoLeaves
    <3>2. CASE EvoFit(host') /\ EvoDeletes(host') /\ \E r \in Results \ {"ok"} : Ended(r)
      BY <1>9, <3>2 DEF EvoCloses, EvoLeaves
    <3>3. CASE EvoFit(host') /\ EvoDeleted(host') /\ Ended(Final("ok"))
      <4>1. Final("ok") = "rolledback"
        BY <1>9 DEF Final, Answer, Retracting, Caller
      <4> QED BY <1>9, <3>3, <4>1 DEF EvoCloses, EvoLeaves, Results
    <3> QED BY <2>3, <3>1, <3>2, <3>3 DEF EvoDeleteMoves
  <2> QED BY <2>1, <2>2, <2>3
<1>10. CASE op = "restore"
  <2>1. ERestores /\ EvoRested(Was, "deleted")
    BY <1>10 DEF EvoUnder, Admitted
  <2>2. EvoRestoreMoves \/ (CoreAs(host') /\ EvoFit(host') /\ Ended("fail"))
    BY <1>10, <2>1, EvoRestoreOn
  <2>3. CASE CoreAs(host') /\ EvoFit(host') /\ Ended("fail")
    BY <1>10, <2>3 DEF EvoCloses, EvoLeaves, Results
  <2>4. CASE EvoFit(host') /\ EvoRestores(host') /\ ERestores' /\ Onward
    BY <1>10, <2>4, EvoStays DEF EvoGoes, EvoUnder, EvoLeaves
  <2>5. CASE EvoFit(host') /\ EvoRestores(host') /\ Closes(RestoreDone)
    BY <1>10, <2>5 DEF EvoCloses, EvoLeaves, EvoDone, Closes, RestoreDone
  <2> QED BY <2>2, <2>3, <2>4, <2>5 DEF EvoRestoreMoves
<1> QED BY <1>1, <1>2, <1>3, <1>4, <1>5, <1>6, <1>7, <1>8, <1>9, <1>10 DEF EvoRequest

------------------------------------------------------------------------------
(* EvoScientist keeps the promise *)

\* The inductive invariant, as for Hermes: between two operations no local
\* variable is left, and what a failed creation left can be cleaned up.
EvoInv ==
  product = "evoscientist" =>
    /\ EvoFit(host)
    /\ IF pc = "idle" THEN kept = NoLocals /\ EvoRested(host, row)
       ELSE /\ op \in EvoRequest /\ EvoUnder /\ EvoLeaves(host)
            /\ EvoFit(Was) /\ EvoRested(Was, row) /\ Admitted(op)

LEMMA EvoFits ==
  ASSUME NEW h, EvoLeaves(h) \/ EvoDone(h)
  PROVE  EvoFit(h)
BY DEF EvoLeaves, EvoDone

\* An instance that was there still is, somewhere.
LEMMA EvoRests ==
  ASSUME EvoFit(Was), EvoRested(Was, row), NEW h, EvoLeaves(h), op \in EvoRequest \ {"create"}, Admitted(op)
  PROVE  EvoRested(h, row)
<1>0. /\ row \in {"live", "deleted", "failed"} /\ (op \in {"restore", "purge_deleted"} <=> row = "deleted")
      /\ (op = "cleanup_failed" <=> row = "failed") /\ EvoFit(h)
  BY DEF Admitted, EvoRequest, EvoLeaves
<1>1. CASE CoreAs(h)
  BY <1>0, <1>1 DEF CoreAs, DataAs, EvoRested, Off
<1>2. CASE op \in {"start", "stop", "restart", "update_version"} /\ EvoServes(h)
  <2>1. row = "live"
    BY <1>0, <1>2
  <2> QED BY <1>2, <2>1 DEF EvoServes, DataAs, EvoRested
<1>3. CASE op = "delete" /\ EvoDeletes(h)
  BY <1>0, <1>3 DEF EvoDeletes, EvoRested
<1>4. CASE op = "restore" /\ EvoRestores(h)
  <2>1. row = "deleted" /\ h.home \cap h.bin = {} /\ (h.home = Parts \/ Off(h))
    BY <1>0, <1>4 DEF EvoRestores
  <2>2. h.recycle = "listed" => h.home \cup h.bin = Parts
    BY <1>0, <1>4 DEF EvoRestores, EvoFit
  <2> QED BY <2>1, <2>2 DEF EvoRested
<1>5. CASE op = "purge_deleted" /\ EvoPurges(h) /\ h.recycle = "dir"
  <2>1. row = "deleted"
    BY <1>0, <1>5
  <2> QED BY <1>5, <2>1 DEF EvoPurges, EvoRested, Off
<1>6. CASE op = "cleanup_failed" /\ EvoCleans(h)
  <2>1. row = "failed"
    BY <1>0, <1>6
  <2> QED BY <1>6, <2>1 DEF EvoCleans, DataAs, EvoRested, Off
<1> QED BY <1>1, <1>2, <1>3, <1>4, <1>5, <1>6 DEF EvoLeaves, EvoRequest

LEMMA EvoPlaces ==
  ASSUME op \in EvoRequest, EvoUnder
  PROVE  pc \notin {"delete.written", "restore.written"}
<1> USE DEF ERun, ERemove, EIngress, EStart, EStop, ERestart, Providing
<1>1. CASE op \in {"start", "stop", "restart", "set_model_provider"}
  BY <1>1 DEF EvoUnder, EStarts, EStops, ERestarts, ESets, Sets
<1>2. CASE op \in {"purge_deleted", "cleanup_failed"}
  BY <1>2 DEF EvoUnder, EPurges, ECleans
<1>3. CASE op = "update_version"
  BY <1>3 DEF EvoUnder, EUpdates, UpdateAt
<1>4. EDeletes => pc \notin {"delete.written", "restore.written"}
  BY DEF EDeletes, EvoDeleteAt, EDeleteBack, EDeleteLast
<1>5. CASE op = "delete"
  BY <1>4, <1>5 DEF EvoUnder, EAsked
<1>6. CASE op = "create"
  BY <1>4, <1>6 DEF EvoUnder, ECreates, EvoCreateAt, ECreateEarly, ECreateMade, ECreateUp
<1>7. CASE op = "restore"
  BY <1>7 DEF EvoUnder, ERestores, EvoRestoreAt
<1> QED BY <1>1, <1>2, <1>3, <1>5, <1>6, <1>7 DEF EvoRequest

\* An operation that has ended leaves the instance at rest.
LEMMA EvoComesToRest ==
  ASSUME product = "evoscientist", EvoInv, pc # "idle",
         NEW r \in Results \cup {"killed"}, row' = RowAfter(r),
         IF r = "ok" THEN EvoDone(host') ELSE EvoLeaves(host')
  PROVE  EvoRested(host', row') /\ (row' = "gone" <=> op \in {"purge_deleted", "cleanup_failed"} /\ r = "ok")
<1>1. /\ op \in EvoRequest /\ EvoUnder /\ EvoLeaves(host)
      /\ EvoFit(Was) /\ EvoRested(Was, row) /\ Admitted(op)
  BY DEF EvoInv
<1>2. pc \notin {"delete.written", "restore.written"}
  BY <1>1, EvoPlaces
<1>3. EvoFit(host') /\ row # "gone"
  BY <1>1, EvoFits DEF Admitted, EvoRequest
<1>4. CASE op = "create" /\ r = "ok"
  <2>1. row' = "live" /\ host'.bin = {} /\ host'.home = Parts
    BY <1>4 DEF RowAfter, EvoDone, EvoCreates
  <2> QED BY <1>4, <2>1 DEF EvoRested
<1>5. CASE op = "create" /\ r # "ok"
  <2>1. row' = "failed" /\ (EvoCreates(host') \/ EvoDeletes(host') \/ EvoDeleted(host'))
    BY <1>5 DEF RowAfter, EvoLeaves
  <2>2. host'.bin = {} \/ Off(host')
    BY <1>3, <2>1 DEF EvoCreates, EvoDeletes, EvoDeleted, EvoFit
  <2> QED BY <1>5, <2>1, <2>2 DEF EvoRested
<1>6. CASE op # "create" /\ r # "ok"
  <2>1. row' = row
    BY <1>2, <1>6 DEF RowAfter
  <2> QED BY <1>1, <1>3, <1>6, <2>1, EvoRests
<1>7. CASE r = "ok" /\ op \notin {"create", "delete", "restore", "purge_deleted", "cleanup_failed"}
  <2>1. row' = row /\ row = "live"
    BY <1>1, <1>2, <1>7 DEF RowAfter, Admitted, EvoRequest
  <2>2. CASE op = "set_model_provider"
    <3>1. CoreAs(host')
      BY <1>7, <2>2 DEF EvoDone
    <3> QED BY <1>1, <1>7, <2>1, <3>1 DEF CoreAs, DataAs, EvoRested, Off
  <2>3. CASE op # "set_model_provider"
    <3>1. DataAs(host') /\ (host'.home = Parts \/ Off(host'))
      BY <1>1, <1>7, <2>3 DEF EvoDone, EvoServes, EvoRequest
    <3> QED BY <1>1, <1>7, <2>1, <3>1 DEF DataAs, EvoRested
  <2> QED BY <2>2, <2>3
<1>8. CASE r = "ok" /\ op = "delete"
  <2>1. row' = "deleted" /\ EvoDeleted(host')
    BY <1>8 DEF RowAfter, EvoDone
  <2> QED BY <1>8, <2>1 DEF EvoRested, EvoDeleted
<1>9. CASE r = "ok" /\ op = "restore"
  <2>1. row' = "live" /\ EvoRestores(host') /\ host'.home = Parts
    BY <1>2, <1>9 DEF RowAfter, EvoDone
  <2>2. host'.bin = {}
    BY <1>3, <2>1 DEF EvoRestores, EvoFit
  <2> QED BY <1>9, <2>1, <2>2 DEF EvoRested
<1>10. CASE r = "ok" /\ op \in {"purge_deleted", "cleanup_failed"}
  <2>1. row' = "gone"
    BY <1>2, <1>10 DEF RowAfter
  <2> QED BY <1>10, <2>1 DEF EvoRested
<1> QED BY <1>4, <1>5, <1>6, <1>7, <1>8, <1>9, <1>10

LEMMA EvoEnds ==
  ASSUME product = "evoscientist", EvoInv, pc # "idle", UNCHANGED <<op, before, product>>, pc' = "idle", kept' = NoLocals,
         NEW r \in Results \cup {"killed"}, row' = RowAfter(r), outcome' = r,
         IF r = "ok" THEN EvoDone(host') ELSE EvoLeaves(host')
  PROVE  EvoInv' /\ (Concluded \/ Cleared)
<1>1. /\ op \in EvoRequest /\ EvoUnder /\ EvoLeaves(host)
      /\ EvoFit(Was) /\ EvoRested(Was, row) /\ Admitted(op)
  BY DEF EvoInv
<1>2. EvoRested(host', row') /\ (row' = "gone" <=> op \in {"purge_deleted", "cleanup_failed"} /\ r = "ok")
  BY EvoComesToRest
<1>3. EvoFit(host')
  BY EvoFits
<1>4. Parts' = Parts
  BY DEF Parts
<1>5. EvoInv'
  BY <1>2, <1>3, <1>4 DEF EvoInv, EvoFit, EvoRested, Off
<1>6. ~CleanedUp
  BY <1>1 DEF CleanedUp, Admitted
<1>7. op \in Promised!Operation
  BY <1>1 DEF EvoRequest, Promised!Operation
<1>8. CASE r # "ok"
  <2>1. EndsBadly(host')
    BY <1>1, <1>6, <1>8, EvoBad
  <2>2. ~CleanedUp'
    BY <1>2, <1>8 DEF CleanedUp
  <2> QED BY <1>5, <1>6, <1>7, <1>8, <2>1, <2>2 DEF Concluded
<1>9. CASE r = "ok" /\ op # "cleanup_failed"
  <2>1. EndsWell(host')
    BY <1>1, <1>6, <1>9, EvoGood
  <2>2. ~CleanedUp'
    BY <1>9 DEF CleanedUp
  <2> QED BY <1>5, <1>6, <1>7, <1>9, <2>1, <2>2 DEF Concluded, Results
<1>10. CASE r = "ok" /\ op = "cleanup_failed"
  <2>1. EvoCleans(host') /\ Off(host')
    BY <1>10 DEF EvoDone
  <2>2. Was.bin = {} \/ Off(Was)
    BY <1>1, <1>10 DEF EvoRested, Admitted
  <2>3. RuntimeOf(host)' \in Promised!CleanupEnds(Found) /\ HuskOf(host)' = HuskOf(Was)
    BY <1>1, <1>2, <1>3, <1>6, <1>10, <2>1, <2>2, EvoCleared
  <2> QED BY <1>5, <1>6, <1>10, <2>3 DEF Cleared
<1> QED BY <1>8, <1>9, <1>10

LEMMA EvoMoves ==
  ASSUME product = "evoscientist", EvoInv, DataInv, pc # "idle", EvoWorks
  PROVE  EvoInv' /\ (GoesOn \/ Concluded \/ Cleared)
<1>1. /\ op \in EvoRequest /\ EvoUnder /\ EvoFit(host) /\ EvoFit(Was) /\ EvoRested(Was, row) /\ Admitted(op)
      /\ DOMAIN host = Fields /\ Local(kept)
  BY DEF EvoInv, DataInv, Placed
<1>2. EvoGoes \/ EvoCloses
  BY <1>1, EvoOn
<1>3. CASE EvoGoes
  <2>1. EvoUnder' /\ Onward /\ EvoLeaves(host') /\ EvoFit(host')
    BY <1>3, EvoFits DEF EvoGoes
  <2>2. row' = row /\ op' = op /\ Was' = Was /\ Parts' = Parts /\ pc' # "idle" /\ EvoLeaves(host)' /\ EvoFit(host)'
    BY <2>1, EvoStays
  <2>3. EvoFit(Was)' /\ EvoRested(Was, row)' /\ Admitted(op)'
    BY <1>1, <2>2 DEF EvoFit, EvoRested, Off, Admitted
  <2> QED BY <1>1, <2>1, <2>2, <2>3 DEF EvoInv, GoesOn
<1>4. CASE EvoCloses
  <2>1. PICK r \in Results : Ended(r) /\ IF r = "ok" THEN EvoDone(host') ELSE EvoLeaves(host')
    BY <1>4 DEF EvoCloses
  <2> QED BY <2>1, EvoEnds DEF Ended
<1> QED BY <1>2, <1>3, <1>4

LEMMA EvoKilled ==
  ASSUME product = "evoscientist", EvoInv, Killed
  PROVE  EvoInv' /\ Concluded
<1>1. EvoLeaves(host) /\ pc # "idle" /\ host' = host
  BY DEF EvoInv, Killed
<1>2. EvoLeaves(host')
  BY <1>1
<1>3. EvoInv' /\ (Concluded \/ Cleared)
  BY <1>1, <1>2, EvoEnds DEF Killed, Results
<1>4. ~Cleared
  BY DEF Killed, Cleared
<1> QED BY <1>3, <1>4

LEMMA EvoOpens ==
  ASSUME product = "evoscientist", EvoInv, DataInv, NEW a \in EvoRequest, Admitted(a), Begin(a)
  PROVE  EvoInv' /\ Opened
<1>0. /\ pc = "idle" /\ EvoFit(host) /\ EvoRested(host, row) /\ kept = NoLocals /\ ~CleanedUp /\ a \in Promised!Operation
      /\ row # "gone"
  BY DEF EvoInv, Begin, CleanedUp, EvoRequest, Promised!Operation, Admitted
<1>1. /\ Opened /\ op' = a /\ pc' = a /\ stack' = <<>> /\ kept' = kept /\ row' = row /\ host' = host
      /\ Was' = host /\ Parts' = Parts /\ CoreAs(host)' /\ Admitted(a)' /\ product' = product
  BY <1>0, BeginOpens
<1>2. EvoFit(host)' /\ EvoFit(Was)' /\ EvoRested(Was, row)' /\ Admitted(op)'
  BY <1>0, <1>1 DEF EvoFit, EvoRested, Off, Admitted
<1>3. a # "idle"
  BY DEF EvoRequest
<1>4. a \in {"start", "stop", "restart", "update_version"} => EvoServes(host)'
  <2>1. a \in {"start", "stop", "restart", "update_version"} => host.home = Parts \/ Off(host)
    BY <1>0 DEF EvoRested, Admitted
  <2> QED BY <1>1, <2>1 DEF EvoServes, CoreAs, Off
<1>5. a = "create" => EvoCreates(host)'
  BY <1>0, <1>1 DEF EvoCreates, EvoRested, BareHost, Admitted
<1>6. a = "cleanup_failed" => EvoCleans(host)'
  BY <1>1 DEF EvoCleans, CoreAs
<1>7. EvoLeaves(host)'
  BY <1>1, <1>2, <1>4, <1>5, <1>6 DEF EvoLeaves, EvoRequest, EvoFit
<1>8. EvoUnder'
  <2>1. CASE a \in {"start", "stop", "restart"}
    BY <1>1, <1>4, <2>1 DEF EvoUnder, EStarts, EStops, ERestarts, EStart, EStop, ERestart
  <2>2. CASE a \in {"set_model_provider", "purge_deleted", "delete", "restore"}
    BY <1>1, <2>2 DEF EvoUnder, ESets, Sets, Providing, EPurges, EAsked, ERestores
  <2>3. CASE a = "update_version"
    <3>1. kept'.image = "unset"
      BY <1>0, <1>1 DEF NoLocals
    <3> QED BY <1>1, <1>4, <2>3, <3>1 DEF EvoUnder, EUpdates, UpdateAt
  <2>4. CASE a = "cleanup_failed"
    BY <1>1, <1>6, <2>4 DEF EvoUnder, ECleans
  <2>5. CASE a = "create"
    BY <1>1, <1>5, <2>5 DEF EvoUnder, ECreates, EvoCreateAt, ECreateEarly
  <2> QED BY <2>1, <2>2, <2>3, <2>4, <2>5 DEF EvoRequest
<1> QED BY <1>1, <1>2, <1>3, <1>7, <1>8 DEF EvoInv

LEMMA EvoPromised ==
  ASSUME product = "evoscientist", EvoInv, DataInv, AdaptersNext
  PROVE  EvoInv' /\ (Opened \/ GoesOn \/ Concluded \/ Cleared)
<1>1. EvoBegin \/ Killed \/ SettingsBegin \/ EvoWorks
  BY DEF AdaptersNext, ClawNext, EvoNext, HermesNext, SettingsNext, SettingsStep, EvoWorks
<1>2. CASE EvoBegin \/ SettingsBegin
  <2>1. \E a \in EvoRequest : Admitted(a) /\ Begin(a)
    BY <1>2 DEF EvoBegin, SettingsBegin, EvoRequest
  <2> QED BY <2>1, EvoOpens
<1>3. CASE EvoWorks
  <2>1. DOMAIN host = Fields
    BY DEF DataInv, Placed
  <2> QED BY <1>3, <2>1, EvoWhere, EvoMoves
<1>4. CASE Killed
  BY <1>4, EvoKilled
<1> QED BY <1>1, <1>2, <1>3, <1>4

------------------------------------------------------------------------------
(* The adapters keep the promise *)

\* The inductive invariant, product by product
PromiseInv == DataInv /\ HermesInv /\ ClawInv /\ EvoInv

LEMMA HermesIdles ==
  ASSUME HermesInv, UNCHANGED lvars
  PROVE  HermesInv'
<1> USE DEF lvars
<1>1. Was' = Was /\ Parts' = Parts /\ WasOn' = WasOn /\ Above' = Above /\ (Up' <=> Up) /\ \A c, d : (Over(c))' = Over(c) /\ (Over2(c, d))' = Over2(c, d)
  BY DEF Was, Parts, WasOn, Above, Over, Over2, Up
<1>2. (HermesUnder)' <=> HermesUnder
  BY <1>1 DEF HermesUnder, HPurges, HRestores, PublishFrom, RestoreAt, AsNoted, HStops, HRestarts, HStarts, HRefreshes, HUpdates,
     HDeletes, Above, DeleteAt, Over, Over2, Sets, HCreates, CreateAt, HermesDeletes, HermesRestores, HermesServes, DataAs, HermesPurges,
     CoreAs, HermesCreates
<1>3. HermesLeaves(host)' <=> HermesLeaves(host)
  BY <1>1 DEF HermesLeaves, HermesDeletes, HermesRestores, HermesServes, DataAs, HermesPurges, CoreAs, HermesCreates
<1>4. /\ HermesFit(host)' <=> HermesFit(host)
      /\ HermesFit(Was)' <=> HermesFit(Was)
      /\ HermesRested(host, row)' <=> HermesRested(host, row)
      /\ HermesRested(Was, row)' <=> HermesRested(Was, row)
      /\ Admitted(op)' <=> Admitted(op)
  BY <1>1 DEF HermesFit, HermesRested, Admitted
<1> QED BY <1>1, <1>2, <1>3, <1>4 DEF HermesInv

LEMMA ClawIdles ==
  ASSUME ClawInv, UNCHANGED lvars
  PROVE  ClawInv'
<1> USE DEF lvars
<1>1. /\ Was' = Was /\ Parts' = Parts /\ Doomed' = Doomed /\ DoomedOlder' = DoomedOlder /\ Above' = Above /\ (Up' <=> Up)
  BY DEF Was, Parts, Doomed, DoomedOlder, Above, Up
<1>2. (ClawUnder)' <=> ClawUnder
  BY <1>1 DEF ClawUnder, CUpdates, ClawUpdates, CAuths, CStops, ClawServes, CSets, Sets, CCreates, ClawCreateAt, CDeletes, Above,
     DoomAt, ClawBuries, ClawDooms, ClawCreates, CPurges, CStarts, CRestores, ClawRestoreAt, ClawRestores, CInstalls, CoreAs, DataAs,
     ClawDeletes, ClawEmpties
<1>3. ClawLeaves(host)' <=> ClawLeaves(host)
  BY <1>1 DEF ClawLeaves, ClawUpdates, ClawServes, ClawBuries, ClawDooms, ClawCreates, ClawRestores, CoreAs, DataAs, ClawDeletes,
     ClawEmpties
<1>4. /\ ClawFit(host)' <=> ClawFit(host)
      /\ ClawFit(Was)' <=> ClawFit(Was)
      /\ ClawRested(host, row)' <=> ClawRested(host, row)
      /\ ClawRested(Was, row)' <=> ClawRested(Was, row)
      /\ CoreAs(host)' <=> CoreAs(host)
      /\ Admitted(op)' <=> Admitted(op)
  BY <1>1 DEF ClawFit, ClawRested, ClawApart, CoreAs, DataAs, Admitted
<1> QED BY <1>1, <1>2, <1>3, <1>4 DEF ClawInv

LEMMA EvoIdles ==
  ASSUME EvoInv, UNCHANGED lvars
  PROVE  EvoInv'
<1> USE DEF lvars
<1>1. /\ Was' = Was /\ Parts' = Parts /\ WasOn' = WasOn /\ Above' = Above /\ (Up' <=> Up)
  BY DEF Was, Parts, WasOn, Above, Up
<1>2. (EvoUnder)' <=> EvoUnder
  BY <1>1 DEF EvoUnder, ERestarts, EUpdates, UpdateAt, Looking, ESets, Sets, ECreates, EvoCreateAt, EDeletes, EvoDeleteAt,
     Above, Over, ERestores, EvoRestoreAt, ReadNote, EAsked, EPurges, EStops, ECleans, EStarts, EvoRestores, EvoServes, DataAs,
     EvoDeletes, CoreAs, EvoCleans, EvoCreates, Starting, Stopping, On, Off
<1>3. EvoLeaves(host)' <=> EvoLeaves(host)
  BY <1>1 DEF EvoLeaves, EvoFit, EvoRestores, EvoDeleted, EvoServes, DataAs, EvoDeletes, EvoPurges, CoreAs, EvoCleans, EvoCreates, Off
<1>4. /\ EvoFit(host)' <=> EvoFit(host)
      /\ EvoFit(Was)' <=> EvoFit(Was)
      /\ EvoRested(host, row)' <=> EvoRested(host, row)
      /\ EvoRested(Was, row)' <=> EvoRested(Was, row)
      /\ Admitted(op)' <=> Admitted(op)
  BY <1>1 DEF EvoFit, EvoRested, Off, Admitted
<1> QED BY <1>1, <1>2, <1>3, <1>4 DEF EvoInv

\* An operation begins, goes on, ends, or leaves nothing that counts.
LEMMA PromiseSteps ==
  ASSUME PromiseInv, AdaptersNext
  PROVE  PromiseInv' /\ (Opened \/ GoesOn \/ Concluded \/ Cleared)
<1>1. DataInv /\ DataInv' /\ product \in {"openclaw", "hermes", "evoscientist"}
  BY DataSteps DEF Keeps, PromiseInv, DataInv, Placed
<1>2. \/ product = "hermes" /\ HermesInv' /\ (Opened \/ GoesOn \/ Concluded)
      \/ product = "openclaw" /\ ClawInv' /\ (Opened \/ GoesOn \/ Concluded)
      \/ product = "evoscientist" /\ EvoInv' /\ (Opened \/ GoesOn \/ Concluded \/ Cleared)
  BY <1>1, HermesPromised, ClawPromised, EvoPromised DEF PromiseInv
<1>3. product' = product
  BY <1>2 DEF Opened, GoesOn, Onward, Concluded, Cleared
<1> QED BY <1>1, <1>2, <1>3 DEF PromiseInv, HermesInv, ClawInv, EvoInv

LEMMA PromiseStarts ==
  ASSUME AdaptersInit
  PROVE  PromiseInv /\ Promised!PromiseInit
<1> USE DEF AdaptersInit, HostInit
<1>1. /\ host = BareHost /\ row = "new" /\ op = "none" /\ pc = "idle" /\ kept = NoLocals
      /\ product \in {"openclaw", "hermes", "evoscientist"} /\ outcome = "none" /\ "host" \in DOMAIN before
  BY HostAssumption
<1>2. HermesInv
  BY <1>1 DEF HermesInv, HermesFit, HermesRested, BareHost, Container
<1>3. ClawInv
  BY <1>1 DEF ClawInv, ClawFit, ClawRested, ClawApart, BareHost, Container
<1>4. EvoInv
  BY <1>1 DEF EvoInv, EvoFit, EvoRested, BareHost, Container
<1>5. Settled = BareHost
  BY <1>1 DEF Settled
<1>6. RuntimeOf(BareHost) = "none" /\ HuskOf(BareHost) = FALSE
  <2>1. Parts # {}
    <3>1. CASE product = "openclaw"
      <4>1. "user" \in Parts
        BY <3>1 DEF Parts, PartsOf
      <4> QED BY <4>1
    <3>2. CASE product = "hermes"
      <4>1. "data" \in Parts
        BY <3>2 DEF Parts, PartsOf
      <4> QED BY <4>1
    <3>3. CASE product = "evoscientist"
      <4>1. "workspace" \in Parts
        BY <3>3 DEF Parts, PartsOf
      <4> QED BY <4>1
    <3> QED BY <1>1, <3>1, <3>2, <3>3
  <2> QED BY <2>1 DEF RuntimeOf, HuskOf, BareHost, Needed, Both, AllOff, Buried
<1> QED BY <1>1, <1>2, <1>3, <1>4, <1>5, <1>6, DataInit DEF PromiseInv, Promised!PromiseInit

\* what an instance looks like does not hang on anything else that changes
LEMMA LooksSame ==
  ASSUME product' = product, CleanedUp' <=> CleanedUp
  PROVE  RuntimeOf(Settled)' = RuntimeOf(Settled') /\ HuskOf(Settled)' = HuskOf(Settled')
<1>1. Parts' = Parts /\ Needed' = Needed
  BY DEF Parts, Needed, Both
<1>2. RuntimeOf(Settled)' = RuntimeOf(Settled')
  BY <1>1 DEF RuntimeOf, AllOff, Buried
<1> QED BY <1>1, <1>2 DEF HuskOf

LEMMA SettlesAt ==
  ASSUME Settled' = host'
  PROVE  RuntimeOf(Settled)' = RuntimeOf(host)' /\ HuskOf(Settled)' = HuskOf(host)'
<1>1. RuntimeOf(Settled)' = RuntimeOf(host)'
  BY DEF RuntimeOf, AllOff, Buried
<1> QED BY <1>1 DEF HuskOf

LEMMA PromiseKept ==
  ASSUME PromiseInv, AdaptersNext
  PROVE  [Promised!Begins \/ Promised!Finishes]_Promised!pvars
<1>1. Opened \/ GoesOn \/ Concluded \/ Cleared
  BY PromiseSteps
<1>2. CASE Opened
  <2>1. Settled = host /\ Settled' = before'.host /\ product' = product
    BY <1>2 DEF Opened, Settled
  <2>2. RuntimeOf(Settled)' = RuntimeOf(Settled) /\ HuskOf(Settled)' = HuskOf(Settled)
    BY <1>2, <2>1, LooksSame DEF Opened
  <2>3. Promised!Begins
    BY <1>2, <2>2 DEF Opened, Promised!Begins, Promised!Operation
  <2> QED BY <2>3
<1>3. CASE GoesOn
  <2>1. Settled' = Settled /\ product' = product /\ (CleanedUp' <=> CleanedUp)
    BY <1>3 DEF GoesOn, Onward, Settled, CleanedUp
  <2>2. RuntimeOf(Settled)' = RuntimeOf(Settled) /\ HuskOf(Settled)' = HuskOf(Settled)
    BY <2>1, LooksSame
  <2> QED BY <1>3, <2>1, <2>2 DEF GoesOn, Onward, Promised!pvars
<1>4. CASE Concluded
  <2>1. Settled = Was /\ Settled' = host' /\ product' = product
    BY <1>4 DEF Concluded, Settled, Was
  <2>2. RuntimeOf(Settled)' = RuntimeOf(host') /\ HuskOf(Settled)' = HuskOf(host')
    BY <1>4, <2>1, LooksSame DEF Concluded
  <2>3. Promised!Now = Found
    BY <2>1 DEF Promised!Now, Found
  <2>4. op # "none" /\ outcome' \in {"ok", "fail", "raise", "rolledback", "manual", "killed"}
    BY <1>4 DEF Concluded, Results, Promised!Operation
  <2>5. PICK e : /\ e \in IF outcome' = "ok" THEN Promised!GoodEnds(Found, op) \cup Promised!SlackEnds(Found, op)
                          ELSE Promised!BadEnds(Found, op) \cup Retracted
                 /\ e.runtime = RuntimeOf(host') /\ e.husk = HuskOf(host')
    BY <1>4 DEF Concluded, EndsWell, EndsBadly, Comes
  <2>6. Retracted = IF op = "create" THEN Promised!Unpublished ELSE {}
    BY <2>3 DEF Retracted, Promised!Unpublished
  <2>7. pc # "idle" /\ pc' = "idle"
    BY <1>4 DEF Concluded
  <2>8. e \in Promised!EndsAs \cup (IF op = "create" /\ outcome' # "ok" THEN Promised!Unpublished ELSE {})
    BY <2>3, <2>5, <2>6, <2>7 DEF Promised!EndsAs, Promised!CutEnds
  <2> QED BY <2>1, <2>2, <2>4, <2>5, <2>7, <2>8 DEF Promised!Finishes
<1>5. CASE Cleared
  <2>1. Settled = Was /\ Settled' = host' /\ product' = product /\ pc # "idle" /\ pc' = "idle" /\ op = "cleanup_failed" /\ outcome' = "ok"
    BY <1>5 DEF Cleared, Settled, Was
  <2>2. RuntimeOf(Settled)' = RuntimeOf(host)' /\ HuskOf(Settled)' = HuskOf(host)'
    BY <2>1, SettlesAt
  <2>3. Promised!Now = Found
    BY <2>1 DEF Promised!Now, Found
  <2> DEFINE x == RuntimeOf(host)'
  <2>4. x \in Promised!Succeeds(Found, op) /\ HuskOf(host)' = HuskOf(Was)
    BY <1>5, <2>1 DEF Cleared, Promised!Succeeds
  <2>5. HuskOf(Was) \in Promised!HuskAfter(Found, op, x, TRUE)
    BY <2>1 DEF Promised!HuskAfter, Found
  <2> HIDE DEF x
  <2>6. PICK e \in Promised!Ends(Found, op, Promised!Succeeds(Found, op), TRUE) : e.runtime = x /\ e.husk = HuskOf(Was)
    <3>1. ASSUME NEW X, NEW won, x \in X, HuskOf(Was) \in Promised!HuskAfter(Found, op, x, won)
          PROVE  \E e \in Promised!Ends(Found, op, X, won) : e.runtime = x /\ e.husk = HuskOf(Was)
      BY <3>1, EndWith
    <3> QED BY <2>4, <2>5, <3>1
  <2>7. e \in Promised!EndsAs
    BY <2>1, <2>3, <2>6 DEF Promised!EndsAs, Promised!GoodEnds
  <2>8. e.runtime = RuntimeOf(Settled)' /\ e.husk = HuskOf(Settled)'
    BY <2>2, <2>4, <2>6 DEF x
  <2> QED BY <2>1, <2>7, <2>8 DEF Promised!Finishes
<1> QED BY <1>1, <1>2, <1>3, <1>4, <1>5

\* The adapters of the three products (OpenClawDockerAdapter, HermesDockerAdapter and
\* EvoScientistDockerAdapter), command by command, with any number of failing commands
\* and deaths of the executor, leave an instance only in an end that HostEnds has for
\* the operation and its outcome: what ManagerSystem takes for one step of the executor.
THEOREM AdaptersKeepPromise == AdaptersSpec => Promise
<1>1. ASSUME PromiseInv, [AdaptersNext]_lvars
      PROVE  PromiseInv'
  <2>1. CASE UNCHANGED lvars
    <3>1. DataInv'
      BY <1>1, <2>1 DEF lvars, PromiseInv, DataInv, Placed, Chain, Suits, Kind, Leaves, Local
    <3> QED BY <1>1, <2>1, <3>1, HermesIdles, ClawIdles, EvoIdles DEF PromiseInv
  <2> QED BY <1>1, <2>1, PromiseSteps
<1>2. ASSUME PromiseInv, [AdaptersNext]_lvars
      PROVE  [Promised!Begins \/ Promised!Finishes]_Promised!pvars
  <2>1. CASE UNCHANGED lvars
    <3>1. Settled' = Settled /\ product' = product /\ (CleanedUp' <=> CleanedUp)
      BY <2>1 DEF lvars, Settled, CleanedUp
    <3>2. RuntimeOf(Settled)' = RuntimeOf(Settled) /\ HuskOf(Settled)' = HuskOf(Settled)
      BY <3>1, LooksSame
    <3> QED BY <2>1, <3>1, <3>2 DEF lvars, Promised!pvars
  <2> QED BY <1>2, <2>1, PromiseKept
<1>3. AdaptersSpec => []PromiseInv
  BY <1>1, PromiseStarts, PTL DEF AdaptersSpec
<1>4. AdaptersSpec => Promised!Promise
  BY <1>2, <1>3, PromiseStarts, PTL DEF AdaptersSpec, Promised!Promise
<1> QED BY <1>4 DEF Promise

\* What a Hermes adapter reports as a success, in an operation that met no failure, it
\* has done in full: a running instance is reached and no other is, an update runs the
\* new image, a deletion notes the image and a restore brings it back, the model
\* provider is set and its settings agree. For any number of requests in any order, with
\* any number of failures and deaths of the executor in the operations before.
THEOREM HermesDeliversAll == AdaptersSpec => [](product = "hermes" => Delivered)
<1> DEFINE Inv == PromiseInv /\ ClearInv
<1>1. AdaptersInit => Inv
  <2>1. SUFFICES ASSUME AdaptersInit PROVE Inv
    OBVIOUS
  <2>2. PromiseInv
    BY <2>1, PromiseStarts
  <2>3. ClearInv
    BY <2>1 DEF AdaptersInit, HostInit, ClearInv, Counted, Delivered
  <2> QED BY <2>2, <2>3
<1>2. Inv /\ [AdaptersNext]_lvars => Inv'
  <2>1. SUFFICES ASSUME Inv, [AdaptersNext]_lvars PROVE Inv'
    OBVIOUS
  <2>2. DataInv /\ HermesInv
    BY <2>1 DEF PromiseInv
  <2>3. CASE UNCHANGED lvars
    <3>1. DataInv'
      BY <2>2, <2>3 DEF lvars, DataInv, Placed, Chain, Suits, Kind, Leaves, Local
    <3> QED BY <2>1, <2>3, <3>1, HermesIdles, ClawIdles, EvoIdles, ClearIdles DEF PromiseInv
  <2>4. CASE AdaptersNext
    <3>1. PromiseInv' /\ product' = product
      BY <2>1, <2>4, PromiseSteps DEF Opened, GoesOn, Onward, Concluded, Cleared
    <3> QED BY <2>1, <2>2, <2>4, <3>1, ClearNext
  <2> QED BY <2>1, <2>3, <2>4
<1>3. Inv => (product = "hermes" => Delivered)
  BY DEF ClearInv
<1> QED BY <1>1, <1>2, <1>3, PTL DEF AdaptersSpec

------------------------------------------------------------------------------
(* Hermes: what a roll-back brings back, of a deletion, a creation, a restore and a *)
(* change of the model provider, and of every operation. *)

\* the parts of the data move, and nothing else
LEMMA MovesOnly ==
  ASSUME DOMAIN host = Fields, NEW at, NEW S, NEW from \in {"home", "bin"}, NEW to \in {"home", "bin"}, NEW next, NEW exc,
         Moves(at, S, from, to, next, exc)
  PROVE  /\ pc = at /\ \A f \in Fields \ {"home", "bin"} : host'[f] = host[f]
         /\ \/ To(next, kept) /\ faults' = faults /\ S = {} /\ host' = host
            \/ To(at, kept) /\ faults' = faults /\ S # {}
            \/ To(exc, kept) /\ Fault /\ S # {} /\ host' = host
BY DEF Moves, Writes, Fields

\* the site on its way to be published again, or to be disabled again
PubBack(p, h) ==
  /\ p \in {"ingress", "ingress.write", "ingress.apply", "ingress.reload"}
  /\ h.conf = (IF p \in {"ingress", "ingress.write"} THEN {} ELSE {"active"})
  /\ p \in {"ingress.apply", "ingress.reload"} => h.mapped
StopBack(p, h) ==
  /\ p \in {"stop", "stop.reload", "stop.main"} /\ h.main # "none"
  /\ h.conf = (IF p = "stop" THEN {"active"} ELSE {"disabled"}) /\ h.mapped

\* delete: what it has met a failure for goes through without another
Outlet    == Caller("runtime.stop", "fail", "raise")
InRuntime == HRuntime \cup HIngress \cup HStop
DropBack(p, s, k, h, n) ==
  /\ p \in {"delete", "delete.inspect"} => h = Was
  /\ p \notin {"delete", "delete.inspect"} => k.image = Was.image /\ k.running = (Was.main = "running") /\ Was.main # "none"
  /\ p \in Taking \cup HDeleteUndo \cup (HRuntime \ {"runtime.stop"}) => h.conf = {}
  /\ p \in HDeleteUndo \cup {"runtime", "runtime.run"} => h.main = "none"
  /\ p \in HDeleteUndo \cup InRuntime => n > before.faults
  /\ p \in {"delete.undo.runtime"} \cup InRuntime => h.recycle = "none" /\ h.note = NoNote
  /\ p \in InRuntime \ {"runtime"} => h.net
  /\ p \in {"runtime.ingress", "runtime.stop"} \cup HIngress \cup HStop => h.linked
  /\ p \in {"runtime.wait", "runtime.link", "runtime.ingress", "runtime.stop"} \cup HIngress => h.main = "running"
  /\ p \in InRuntime \ {"runtime", "runtime.run"} => h.image = Was.image
  /\ p \in HIngress => PubBack(p, h) /\ s = <<IF Was.main = "running" THEN Passing ELSE Outlet, Retracting>>
  /\ p \in HStop \cup {"runtime.stop"} => Was.main # "running"
  /\ p = "runtime.stop" => h.conf = {"active"} /\ h.mapped
  /\ p \in HStop => StopBack(p, h)

\* the deletion itself
LEMMA DropsBack ==
  ASSUME op = "delete", DOMAIN host = Fields, Local(kept), stack = <<>>, HermesDelete, Counted,
         pc \in {"delete.entry", "delete.move", "delete.list", "delete.unlink", "delete.net"} => host.main = "none",
         DropBack(pc, stack, kept, host, faults)
  PROVE  \/ \E p, s, k : Went(p, s, k) /\ p # "idle" /\ DropBack(p, s, k, host', faults')
         \/ Reverts(PutBack(host'))
<1> DEFINE Goal == \/ \E p, s, k : Went(p, s, k) /\ p # "idle" /\ DropBack(p, s, k, host', faults')
                   \/ Reverts(PutBack(host'))
           k0 == Locals([image |-> host.image, running |-> host.main = "running",
                   conf |-> host.conf, mapped |-> host.mapped])
<1> SUFFICES Goal
  OBVIOUS
<1>1. \A t, k : To(t, k) => IF t \in Results THEN Ended(t) ELSE Went(t, <<>>, k)
  BY Alone
<1>2. k0.running = (host.main = "running") /\ k0.image = host.image
  BY DEF Locals, Local, LocalNames
<1> HIDE DEF k0
<1> DEFINE Onwards == Taking \cup {"delete.ingress", "delete.undo", "delete.back", "delete.again"}
<1>3. ASSUME NEW t \in Onwards, NEW k, Went(t, <<>>, k), k.image = Was.image, k.running = (Was.main = "running"), Was.main # "none",
             t \in Taking \cup {"delete.undo"} => host'.conf = {},
             t = "delete.undo" => host'.main = "none" /\ faults' > before.faults
      PROVE  Goal
  <2>1. DropBack(t, <<>>, k, host', faults') /\ t # "idle"
    BY <1>3 DEF DropBack, Taking, HDeleteUndo, InRuntime, HRuntime, HIngress, HStop
  <2> QED BY <1>3, <2>1
<1>4. ASSUME NEW r \in Results \ {"rolledback"}, Ended(r) PROVE Goal
  BY <1>4 DEF Reverts
<1>5. "ok" \in Results /\ "fail" \in Results /\ "raise" \in Results
  BY DEF Results
<1>6. \A x \in Onwards \cup {"delete.inspect"} : x \notin Results
  BY DEF Results, Taking
<1>7. Fault => faults' > before.faults
  BY DEF Fault, Counted
<1>8. pc \notin {"delete", "delete.inspect"} => kept.image = Was.image /\ kept.running = (Was.main = "running") /\ Was.main # "none"
  BY DEF DropBack
<1>9. pc \in Taking => host.conf = {}
  BY DEF DropBack
<1> HIDE DEF Goal, Onwards
<1>10. ASSUME NEW t \in Taking, pc \in Taking, To(t, kept), host'.conf = host.conf
       PROVE  Goal
  <2>1. t \in Onwards /\ pc \notin {"delete", "delete.inspect"}
    BY <1>10 DEF Onwards, Taking
  <2>2. t # "delete.undo"
    BY <1>10 DEF Taking
  <2>3. Went(t, <<>>, kept)
    BY <1>1, <1>6, <1>10, <2>1
  <2> QED BY <1>3, <1>8, <1>9, <1>10, <2>1, <2>2, <2>3
<1>11. ASSUME To("delete.undo", kept), Fault, host'.conf = host.conf, host'.main = host.main,
              pc \in {"delete.entry", "delete.move", "delete.list", "delete.unlink", "delete.net"}
       PROVE  Goal
  <2>1. "delete.undo" \in Onwards /\ pc \notin {"delete", "delete.inspect"} /\ pc \in Taking
    BY <1>11 DEF Onwards, Taking
  <2>2. Went("delete.undo", <<>>, kept)
    BY <1>1, <1>6, <1>11, <2>1
  <2> QED BY <1>3, <1>7, <1>8, <1>9, <1>11, <2>1, <2>2
<1>12. ASSUME NEW t \in {"ok", "fail", "raise"}, To(t, kept) PROVE Goal
  BY <1>1, <1>4, <1>5, <1>12
<1>13. CASE Decides("delete", IF host.home = Parts /\ host.recycle = "none" THEN "delete.inspect" ELSE "fail", kept)
  <2>1. pc = "delete" /\ host' = host /\ (To("delete.inspect", kept) \/ To("fail", kept))
    BY <1>13 DEF Decides
  <2>2. DropBack("delete.inspect", <<>>, kept, host', faults')
    BY <2>1 DEF DropBack, Taking, HDeleteUndo, InRuntime, HRuntime, HIngress, HStop
  <2> QED BY <1>1, <1>6, <1>12, <2>1, <2>2 DEF Goal
<1>14. CASE Reads("delete.inspect", host.main # "none", k0, "delete.ingress", "fail", "raise")
  <2>1. pc = "delete.inspect" /\ (To("fail", kept) \/ To("raise", kept) \/ (host.main # "none" /\ To("delete.ingress", k0)))
    BY <1>14 DEF Reads
  <2>2. host = Was
    BY <2>1 DEF DropBack
  <2>3. "delete.ingress" \in Onwards /\ "delete.ingress" \notin Taking
    BY DEF Onwards, Taking
  <2> QED BY <1>1, <1>2, <1>3, <1>6, <1>12, <2>1, <2>2, <2>3
<1>15. CASE Writes("delete.ingress", [host EXCEPT !.conf = {}, !.mapped = FALSE],
            {[host EXCEPT !.conf = {}]}, "delete.reload", "raise")
  <2>1. pc = "delete.ingress" /\ (To("raise", kept) \/ (To("delete.reload", kept) /\ host'.conf = {}))
    BY <1>15 DEF Writes, Fields
  <2>2. "delete.reload" \in Onwards
    BY DEF Onwards, Taking
  <2> QED BY <1>1, <1>3, <1>6, <1>8, <1>12, <2>1, <2>2
<1>16. CASE Runs("delete.reload", Reloaded, {}, "delete.remove", "delete.back", "raise")
  <2>1. pc = "delete.reload" /\ host'.conf = host.conf /\ (To("raise", kept) \/ To("delete.remove", kept) \/ To("delete.back", kept))
    BY <1>16 DEF Runs, Reloaded, Loaded, Fields
  <2>2. "delete.back" \in Onwards /\ "delete.back" \notin Taking /\ "delete.remove" \in Taking /\ "delete.reload" \in Taking
    BY DEF Onwards, Taking
  <2> QED BY <1>1, <1>3, <1>6, <1>8, <1>10, <1>12, <2>1, <2>2
<1>17. CASE Runs("delete.remove", Removed({"main"}), {}, "delete.entry", "delete.back", "raise")
  <2>1. pc = "delete.remove" /\ host'.conf = host.conf /\ (To("raise", kept) \/ To("delete.entry", kept) \/ To("delete.back", kept))
    BY <1>17 DEF Runs, Removed, Fields
  <2>2. "delete.back" \in Onwards /\ "delete.back" \notin Taking /\ "delete.remove" \in Taking /\ "delete.entry" \in Taking
    BY DEF Onwards, Taking
  <2> QED BY <1>1, <1>3, <1>6, <1>8, <1>10, <1>12, <2>1, <2>2
<1>18. CASE Writes("delete.back", OldIngress, {}, "delete.again", "raise")
  <2>1. pc = "delete.back" /\ (To("raise", kept) \/ To("delete.again", kept))
    BY <1>18 DEF Writes
  <2>2. "delete.again" \in Onwards /\ "delete.again" \notin Taking
    BY DEF Onwards, Taking
  <2> QED BY <1>1, <1>3, <1>6, <1>8, <1>12, <2>1, <2>2
<1>19. CASE Tries("delete.again", Reloaded, kept, "fail", "raise")
  BY <1>12, <1>19 DEF Tries
<1>20. CASE Writes("delete.entry", [host EXCEPT !.recycle = "dir"], {}, "delete.move", "delete.undo")
  <2>1. /\ pc = "delete.entry" /\ host'.conf = host.conf /\ host'.main = host.main
        /\ To("delete.move", kept) \/ (To("delete.undo", kept) /\ Fault)
    BY <1>20 DEF Writes, Fields
  <2> QED BY <1>10, <1>11, <2>1 DEF Taking
<1>21. CASE Moves("delete.move", host.home, "home", "bin", "delete.list", "delete.undo")
  <2>1. /\ pc = "delete.move" /\ \A f \in Fields \ {"home", "bin"} : host'[f] = host[f]
        /\ To("delete.move", kept) \/ To("delete.list", kept) \/ (To("delete.undo", kept) /\ Fault)
    BY <1>21, MovesOnly
  <2>2. host'.conf = host.conf /\ host'.main = host.main
    BY <2>1 DEF Fields
  <2> QED BY <1>10, <1>11, <2>1, <2>2 DEF Taking
<1>22. CASE Writes("delete.list", [host EXCEPT !.recycle = "listed",
                              !.note = [image |-> kept.image, running |-> kept.running]],
            {}, "delete.unlink", "delete.undo")
  <2>1. /\ pc = "delete.list" /\ host'.conf = host.conf /\ host'.main = host.main
        /\ To("delete.unlink", kept) \/ (To("delete.undo", kept) /\ Fault)
    BY <1>22 DEF Writes, Fields
  <2> QED BY <1>10, <1>11, <2>1 DEF Taking
<1>23. CASE Runs("delete.unlink", {[host EXCEPT !.linked = FALSE]}, {[host EXCEPT !.linked = FALSE]},
          "delete.net", "delete.undo", "raise")
  <2>1. /\ pc = "delete.unlink" /\ host'.conf = host.conf /\ host'.main = host.main
        /\ To("delete.net", kept) \/ To("raise", kept) \/ (To("delete.undo", kept) /\ Fault)
    BY <1>23 DEF Runs, Fields
  <2> QED BY <1>10, <1>11, <1>12, <2>1 DEF Taking
<1>24. CASE Runs("delete.net", {[host EXCEPT !.net = FALSE]}, {}, "ok", "delete.undo", "raise")
  <2>1. /\ pc = "delete.net" /\ host'.conf = host.conf /\ host'.main = host.main
        /\ To("ok", kept) \/ To("raise", kept) \/ (To("delete.undo", kept) /\ Fault)
    BY <1>24 DEF Runs, Fields
  <2> QED BY <1>11, <1>12, <2>1
<1> QED BY <1>13, <1>14, <1>15, <1>16, <1>17, <1>18, <1>19, <1>20, <1>21, <1>22, <1>23, <1>24 DEF HermesDelete, k0

\* its roll-back, up to the runtime
LEMMA DropsUndone ==
  ASSUME op = "delete", DOMAIN host = Fields, ~Fault, stack = <<>>, HermesDeleteUndo, pc \in HDeleteUndo,
         DropBack(pc, stack, kept, host, faults)
  PROVE  \E p, s, k : Went(p, s, k) /\ p # "idle" /\ DropBack(p, s, k, host', faults')
<1> DEFINE Goal == \E p, s, k : Went(p, s, k) /\ p # "idle" /\ DropBack(p, s, k, host', faults')
<1> SUFFICES Goal
  OBVIOUS
<1>1. \A t, k : To(t, k) => IF t \in Results THEN Ended(t) ELSE Went(t, <<>>, k)
  BY Alone
<1>2. /\ kept.image = Was.image /\ kept.running = (Was.main = "running") /\ Was.main # "none"
      /\ host.conf = {} /\ host.main = "none" /\ faults > before.faults
  BY DEF DropBack, HDeleteUndo
<1>3. ASSUME NEW t \in HDeleteUndo, To(t, kept), faults' = faults, host'.conf = host.conf, host'.main = host.main,
             t = "delete.undo.runtime" => host'.recycle = "none" /\ host'.note = NoNote
      PROVE  Goal
  <2>1. Went(t, <<>>, kept) /\ t # "idle"
    BY <1>1, <1>3 DEF HDeleteUndo, Results
  <2>2. DropBack(t, <<>>, kept, host', faults')
    BY <1>2, <1>3 DEF DropBack, HDeleteUndo, Taking, InRuntime, HRuntime, HIngress, HStop
  <2> QED BY <2>1, <2>2
<1> HIDE DEF Goal
<1>4. CASE Moves("delete.undo", host.bin \ host.home, "bin", "home", "delete.undo.entry", "raise")
  <2>1. /\ pc = "delete.undo" /\ \A f \in Fields \ {"home", "bin"} : host'[f] = host[f]
        /\ faults' = faults /\ (To("delete.undo", kept) \/ To("delete.undo.entry", kept))
    BY <1>4, MovesOnly
  <2>2. host'.conf = host.conf /\ host'.main = host.main
    BY <2>1 DEF Fields
  <2> QED BY <1>3, <2>1, <2>2 DEF HDeleteUndo
<1>5. CASE Tries("delete.undo.entry", {EntryGone}, kept, "delete.undo.runtime", "delete.undo.runtime")
  <2>1. host' = EntryGone /\ To("delete.undo.runtime", kept) /\ faults' = faults
    BY <1>5 DEF Tries
  <2>2. host'.conf = host.conf /\ host'.main = host.main /\ host'.recycle = "none" /\ host'.note = NoNote
    BY <2>1 DEF EntryGone, Fields
  <2> QED BY <1>3, <2>1, <2>2 DEF HDeleteUndo
<1>6. CASE Calls("delete.undo.runtime", "runtime", kept, "rolledback", "manual", "raise")
  <2>1. Went("runtime", <<Retracting>>, kept) /\ host' = host /\ pc = "delete.undo.runtime" /\ faults' = faults
    BY <1>6, CallsFrom DEF Retracting, Calls
  <2>2. DropBack("runtime", <<Retracting>>, kept, host', faults')
    BY <1>2, <2>1 DEF DropBack, HDeleteUndo, Taking, InRuntime, HRuntime, HIngress, HStop
  <2> QED BY <2>1, <2>2 DEF Goal
<1> QED BY <1>4, <1>5, <1>6 DEF HermesDeleteUndo

\* the runtime of what is deleted comes back
LEMMA DropsRuntime ==
  ASSUME op = "delete", DOMAIN host = Fields, ~Fault, stack = <<Retracting>>, HermesRuntime, pc \in HRuntime,
         DropBack(pc, stack, kept, host, faults)
  PROVE  \E p, s, k : Went(p, s, k) /\ p # "idle" /\ DropBack(p, s, k, host', faults')
<1> DEFINE Goal == \E p, s, k : Went(p, s, k) /\ p # "idle" /\ DropBack(p, s, k, host', faults')
<1> SUFFICES Goal
  OBVIOUS
<1>1. /\ kept.image = Was.image /\ kept.running = (Was.main = "running") /\ Was.main # "none"
      /\ faults > before.faults /\ host.recycle = "none" /\ host.note = NoNote
  BY DEF DropBack, InRuntime, HRuntime
<1>2. ASSUME NEW t \in HRuntime \ {"runtime.stop", "runtime"}, To(t, kept), faults' = faults, host'.conf = {},
             host'.recycle = "none", host'.note = NoNote, host'.net,
             t = "runtime.run" => host'.main = "none",
             t # "runtime.run" => host'.main = "running" /\ host'.image = Was.image,
             t = "runtime.ingress" => host'.linked
      PROVE  Goal
  <2>1. Went(t, stack, kept) /\ t # "idle"
    BY <1>2, Within DEF HRuntime, Results
  <2>2. DropBack(t, stack, kept, host', faults')
    BY <1>1, <1>2 DEF DropBack, HDeleteUndo, Taking, InRuntime, HRuntime, HIngress, HStop
  <2> QED BY <2>1, <2>2
<1> HIDE DEF Goal
<1> USE DEF HRuntime
<1>3. CASE Runs("runtime", {[host EXCEPT !.net = TRUE]}, {}, "runtime.run", "fail", "raise")
  <2>1. pc = "runtime" /\ host' = [host EXCEPT !.net = TRUE] /\ To("runtime.run", kept) /\ faults' = faults
    BY <1>3 DEF Runs
  <2>2. host.conf = {} /\ host.main = "none"
    BY <2>1 DEF DropBack
  <2> QED BY <1>1, <1>2, <2>1, <2>2 DEF Fields
<1>4. CASE Runs("runtime.run", RanMain(kept.image), CreatedMain(kept.image), "runtime.wait", "fail", "raise")
  <2>1. pc = "runtime.run"
    BY <1>4 DEF Runs
  <2>2. host.conf = {} /\ host.main = "none" /\ host.net
    BY <2>1 DEF DropBack, InRuntime
  <2>3. host' \in RanMain(kept.image) /\ To("runtime.wait", kept) /\ faults' = faults
    BY <1>4, <2>2 DEF Runs, RanMain, Ran, Joins
  <2> QED BY <1>1, <1>2, <2>2, <2>3, RunsMain DEF Fields
<1>5. CASE WaitForDashboard("runtime.wait", "runtime.link", "fail", "raise")
  <2>1. pc = "runtime.wait"
    BY <1>5 DEF WaitForDashboard, Reads
  <2>2. host.conf = {} /\ host.main = "running" /\ host.net /\ host.image = Was.image
    BY <2>1 DEF DropBack, InRuntime
  <2>3. host' = host /\ To("runtime.link", kept) /\ faults' = faults
    BY <1>5, <2>2 DEF WaitForDashboard, Reads, AllUp
  <2> QED BY <1>1, <1>2, <2>2, <2>3
<1>6. CASE Runs("runtime.link", {[host EXCEPT !.linked = TRUE]}, {}, "runtime.ingress", "fail", "raise")
  <2>1. pc = "runtime.link" /\ host' = [host EXCEPT !.linked = TRUE] /\ To("runtime.ingress", kept) /\ faults' = faults
    BY <1>6 DEF Runs
  <2>2. host.conf = {} /\ host.main = "running" /\ host.net /\ host.image = Was.image
    BY <2>1 DEF DropBack, InRuntime
  <2> QED BY <1>1, <1>2, <2>1, <2>2 DEF Fields
<1>7. CASE Calls("runtime.ingress", "ingress", kept, IF kept.running THEN "ok" ELSE "runtime.stop", "fail", "raise")
  <2> DEFINE c == IF Was.main = "running" THEN Passing ELSE Outlet
  <2>1. Went("ingress", <<c, Retracting>>, kept) /\ host' = host /\ pc = "runtime.ingress" /\ faults' = faults
    BY <1>1, <1>7, CallsFrom DEF Passing, Outlet, Calls
  <2>2. host.conf = {} /\ host.main = "running" /\ host.net /\ host.image = Was.image /\ host.linked
    BY <2>1 DEF DropBack, InRuntime
  <2>3. DropBack("ingress", <<c, Retracting>>, kept, host', faults')
    BY <1>1, <2>1, <2>2 DEF DropBack, PubBack, HDeleteUndo, Taking, InRuntime, HRuntime, HIngress, HStop
  <2> QED BY <2>1, <2>3 DEF Goal
<1>8. CASE Calls("runtime.stop", "stop", kept, "ok", "fail", "raise")
  <2>1. Went("stop", <<Passing, Retracting>>, kept) /\ host' = host /\ pc = "runtime.stop" /\ faults' = faults
    BY <1>8, CallsFrom DEF Passing, Calls
  <2>2. host.conf = {"active"} /\ host.main = "running" /\ host.net /\ host.image = Was.image /\ host.linked /\ host.mapped
        /\ Was.main # "running"
    BY <2>1 DEF DropBack, InRuntime
  <2>3. DropBack("stop", <<Passing, Retracting>>, kept, host', faults')
    BY <1>1, <2>1, <2>2 DEF DropBack, StopBack, HDeleteUndo, Taking, InRuntime, HRuntime, HIngress, HStop
  <2> QED BY <2>1, <2>3 DEF Goal
<1> QED BY <1>3, <1>4, <1>5, <1>6, <1>7, <1>8 DEF HermesRuntime

\* the site is published, and disabled, without a failure
LEMMA PublishesBack ==
  ASSUME ~Fault, DOMAIN host = Fields, Local(kept), HermesIngress, PubBack(pc, host), host.main = "running"
  PROVE  \E t, k : /\ To(t, k) /\ k.running = kept.running /\ k.image = kept.image /\ faults' = faults
                   /\ Aside(host') /\ host'.image = host.image /\ host'.net = host.net /\ (host.linked => host'.linked)
                   /\ (PubBack(t, host') /\ t \notin Results) \/ (t = "ok" /\ host'.conf = {"active"} /\ host'.mapped)
<1> USE DEF PubBack, Aside, Beside, Fields, Results
<1>1. Locals([inner |-> NoteIngress]).running = kept.running /\ Locals([inner |-> NoteIngress]).image = kept.image
  BY DEF Locals, Local, LocalNames
<1>2. CASE Reads("ingress", host.main # "none", Locals([inner |-> NoteIngress]), "ingress.write", "fail", "raise")
  BY <1>1, <1>2 DEF Reads
<1>3. CASE Writes("ingress.write", [host EXCEPT !.conf = @ \cup {"active"}, !.mapped = TRUE],
            {[host EXCEPT !.conf = @ \cup {"active"}]}, "ingress.apply", "ingress.undo")
  <2>1. host' = [host EXCEPT !.conf = @ \cup {"active"}, !.mapped = TRUE] /\ To("ingress.apply", kept)
        /\ pc = "ingress.write" /\ faults' = faults
    BY <1>3 DEF Writes
  <2>2. host'.conf = {"active"} /\ host'.mapped = TRUE
    BY <2>1
  <2>3. Aside(host') /\ host'.image = host.image /\ host'.net = host.net /\ host'.linked = host.linked
    BY <2>1
  <2> QED BY <2>1, <2>2, <2>3
<1>4. CASE Runs("ingress.apply", Applied, Applied, "ingress.reload", "ingress.undo", "ingress.undo")
  <2> DEFINE g == [host EXCEPT !.linked = @ \/ (host.main = "running" /\ host.net)]
  <2>1. Applied = {g, [g EXCEPT !.served = "active" \in g.conf, !.asked = g.auth]}
    BY DEF Applied, Loaded
  <2>2. DOMAIN g = Fields /\ g.conf = host.conf /\ g.mapped = host.mapped /\ g.image = host.image /\ g.net = host.net
        /\ (host.linked => g.linked)
    OBVIOUS
  <2> HIDE DEF g
  <2>3. host' \in Applied /\ To("ingress.reload", kept) /\ pc = "ingress.apply" /\ faults' = faults
    BY <1>4, <2>1 DEF Runs
  <2>4. host'.conf = host.conf /\ host'.mapped = host.mapped /\ host'.image = host.image /\ host'.net = host.net
        /\ (host.linked => host'.linked)
    BY <2>1, <2>2, <2>3
  <2>5. Aside(host')
    BY <2>3, Effects
  <2> QED BY <2>3, <2>4, <2>5
<1>5. CASE Runs("ingress.reload", Reloaded, {}, "ok", "ingress.undo", "ingress.undo")
  BY <1>5 DEF Runs, Reloaded, Loaded
<1> QED BY <1>2, <1>3, <1>4, <1>5 DEF HermesIngress, Writes, Tries, Calls

LEMMA StopsBack ==
  ASSUME ~Fault, DOMAIN host = Fields, HermesStop, StopBack(pc, host)
  PROVE  \E t : /\ To(t, kept) /\ faults' = faults
                /\ Beside(host') /\ host'.image = host.image /\ host'.net = host.net /\ host'.linked = host.linked
                /\ \/ StopBack(t, host') /\ t \notin Results
                   \/ t = "ok" /\ host'.main = "stopped" /\ host'.conf = {"disabled"} /\ host'.mapped
<1> USE DEF StopBack, Beside, Fields, Results
<1>1. CASE "active" \notin host.conf /\ Decides("stop", "stop.main", kept)
  BY <1>1 DEF Decides
<1>2. CASE "active" \in host.conf /\ Writes("stop", [host EXCEPT !.conf = {"disabled"}], {}, "stop.reload", "raise")
  BY <1>2 DEF Writes
<1>3. CASE Runs("stop.reload", Reloaded, {}, "stop.main", "stop.back", "raise")
  <2>1. host' = Loaded(host) /\ To("stop.main", kept) /\ pc = "stop.reload" /\ faults' = faults
    BY <1>3 DEF Runs, Reloaded
  <2>2. /\ Beside(host') /\ host'.image = host.image /\ host'.net = host.net /\ host'.linked = host.linked
        /\ host'.main = host.main /\ host'.conf = host.conf /\ host'.mapped = host.mapped
    BY <2>1 DEF Loaded
  <2> QED BY <2>1, <2>2
<1>4. CASE Runs("stop.main", Stopped("main"), {}, "ok",
          IF "disabled" \in host.conf THEN "stop.back" ELSE "fail", "raise")
  BY <1>4 DEF Runs, Stopped
<1> QED BY <1>1, <1>2, <1>3, <1>4 DEF HermesStop, Writes, Tries

\* the site of what is deleted comes back
LEMMA DropsSite ==
  ASSUME product = "hermes", op = "delete", ~CleanedUp, DOMAIN host = Fields, Local(kept), HermesFit(Was), Whole(Was),
         ~Fault, HermesIngress \/ HermesStop, pc \in HIngress \cup HStop, HDeletes, DropBack(pc, stack, kept, host, faults),
         Was.home = Parts, Was.bin = {}, Was.recycle = "none", Was.note = NoNote, host.home = Parts, host.bin = {}
  PROVE  \/ \E p, s, k : Went(p, s, k) /\ p # "idle" /\ DropBack(p, s, k, host', faults')
         \/ Reverts(PutBack(host'))
<1> DEFINE Goal == \/ \E p, s, k : Went(p, s, k) /\ p # "idle" /\ DropBack(p, s, k, host', faults')
                   \/ Reverts(PutBack(host'))
<1> SUFFICES Goal
  OBVIOUS
<1>1. /\ kept.image = Was.image /\ kept.running = (Was.main = "running") /\ Was.main # "none"
      /\ faults > before.faults /\ host.recycle = "none" /\ host.note = NoNote
      /\ host.net /\ host.linked /\ host.image = Was.image
  BY DEF DropBack, InRuntime, HRuntime, HIngress, HStop
<1>2. Was.conf = (IF Was.main = "running" THEN {"active"} ELSE {"disabled"}) /\ Was.mapped
  BY <1>1, StoppedAsConfigured
<1>3. Was.main \in {"running", "stopped"}
  BY <1>1 DEF HermesFit, Container
<1>4. "rolledback" \in Results
  BY DEF Results
<1>5. ASSUME Ended("rolledback"), Beside(host'), host'.image = host.image, host'.net, host'.linked, host'.main = Was.main,
             host'.conf = Was.conf, host'.mapped
      PROVE  Goal
  <2>1. PutBack(host')
    BY <1>1, <1>5 DEF PutBack, Beside
  <2> QED BY <1>4, <1>5, <2>1 DEF Reverts
<1>6. Answer(Retracting, "ok") = "rolledback"
  BY Answers DEF Retracting
<1> HIDE DEF Goal
<1>7. CASE pc \in HIngress /\ HermesIngress
  <2> DEFINE c == IF Was.main = "running" THEN Passing ELSE Outlet
  <2>1. PubBack(pc, host) /\ stack = <<c, Retracting>> /\ host.main = "running"
    BY <1>7 DEF DropBack
  <2>2. PICK t, k : /\ To(t, k) /\ k.running = kept.running /\ k.image = kept.image /\ faults' = faults
                    /\ Aside(host') /\ host'.image = host.image /\ host'.net = host.net /\ (host.linked => host'.linked)
                    /\ (PubBack(t, host') /\ t \notin Results) \/ (t = "ok" /\ host'.conf = {"active"} /\ host'.mapped)
    BY <1>7, <2>1, PublishesBack
  <2>3. Answer(c, "ok") = IF Was.main = "running" THEN "ok" ELSE "runtime.stop"
    BY Answers DEF Passing, Outlet
  <2> HIDE DEF c
  <2>4. CASE t \notin Results
    <3>1. Went(t, stack, k) /\ t # "idle" /\ t \in HIngress
      BY <2>2, <2>4, Within DEF PubBack, HIngress, Results
    <3>2. DropBack(t, stack, k, host', faults')
      BY <1>1, <2>1, <2>2, <2>4, <3>1
         DEF DropBack, Aside, Beside, HDeleteUndo, Taking, InRuntime, HRuntime, HIngress, HStop, c
    <3> QED BY <3>1, <3>2 DEF Goal
  <2>5. CASE t = "ok" /\ Was.main = "running"
    <3>1. Ended("rolledback")
      BY <1>4, <1>6, <2>1, <2>2, <2>3, <2>5, TwoCallers DEF Results
    <3> QED BY <1>1, <1>2, <1>5, <2>1, <2>2, <2>5, <3>1 DEF Aside, PubBack, Results
  <2>6. CASE t = "ok" /\ Was.main # "running"
    <3>1. Went("runtime.stop", <<Retracting>>, k)
      BY <2>1, <2>2, <2>3, <2>6, TwoCallers DEF Results
    <3>2. t # "ingress" /\ ~PubBack(t, host')
      BY <2>6 DEF PubBack
    <3>3. DropBack("runtime.stop", <<Retracting>>, k, host', faults')
      BY <1>1, <2>1, <2>2, <2>6, <3>2
         DEF DropBack, Aside, Beside, HDeleteUndo, Taking, InRuntime, HRuntime, HIngress, HStop
    <3> QED BY <3>1, <3>3 DEF Goal
  <2> QED BY <2>2, <2>4, <2>5, <2>6
<1>8. CASE pc \in HStop /\ HermesStop
  <2>1. StopBack(pc, host) /\ stack = <<Passing, Retracting>> /\ Was.main # "running"
    BY <1>8 DEF DropBack, HDeletes, Over2, HStop, HDelete, HDeleteUndo, HRuntime, HIngress
  <2>2. PICK t : /\ To(t, kept) /\ faults' = faults
                /\ Beside(host') /\ host'.image = host.image /\ host'.net = host.net /\ host'.linked = host.linked
                /\ \/ StopBack(t, host') /\ t \notin Results
                   \/ t = "ok" /\ host'.main = "stopped" /\ host'.conf = {"disabled"} /\ host'.mapped
    BY <1>8, <2>1, StopsBack
  <2>3. CASE t \notin Results
    <3>1. Went(t, stack, kept) /\ t # "idle" /\ t \in HStop /\ StopBack(t, host')
      BY <2>2, <2>3, Within DEF StopBack, HStop, Results
    <3>2. DropBack(t, stack, kept, host', faults')
      BY <1>1, <2>1, <2>2, <3>1
         DEF DropBack, Beside, HDeleteUndo, Taking, InRuntime, HRuntime, HIngress, HStop
    <3> QED BY <3>1, <3>2 DEF Goal
  <2>4. CASE t \in Results
    <3>1. Answer(Passing, "ok") = "ok" /\ t = "ok"
      BY <2>2, <2>4, Answers DEF Passing, StopBack, Results
    <3>2. Ended("rolledback")
      BY <1>4, <1>6, <2>1, <2>2, <3>1, TwoCallers DEF Results
    <3> QED BY <1>1, <1>2, <1>3, <1>5, <2>1, <2>2, <2>4, <3>1, <3>2
  <2> QED BY <2>3, <2>4
<1>9. HermesIngress => pc \in HIngress \cup {"refresh_ingress"}
  BY DEF HermesIngress, Reads, Writes, Runs, Tries, Calls, HIngress
<1>10. HermesStop => pc \in HStop
  BY HermesFunctions
<1>11. HIngress \cap HStop = {} /\ "refresh_ingress" \notin HIngress \cup HStop
  BY DEF HIngress, HStop
<1> QED BY <1>7, <1>8, <1>9, <1>10, <1>11

\* create: what has met a failure leaves nothing, or says that it could not
Unbuilding == {"create.undo.same", "create.undo", "create.undo.files", "create.undo.net"}
BuildBack(p, s, k, h, n) ==
  /\ p \in (HCreate \ {"create.retract"}) \cup Taking => Bare(h)
  /\ p \in {"create", "create.look", "create.net", "create.port", "create.run", "create.undo.files", "create.undo.net"} => h.main = "none"
  /\ p = "create.wait" => h.main = "running"
  /\ p \in Unbuilding => n > before.faults
  /\ p = "create.undo.net" => h.home = {}

LEMMA BuildsBack ==
  ASSUME op = "create", DOMAIN host = Fields, Was = BareHost, Counted, faults' <= before.faults + 1,
         stack = <<>>, HermesCreate, BuildBack(pc, stack, kept, host, faults)
  PROVE  \/ \E p, s, k : Went(p, s, k) /\ p # "idle" /\ BuildBack(p, s, k, host', faults')
         \/ Reverts(PutBack(host'))
<1> DEFINE Goal == \/ \E p, s, k : Went(p, s, k) /\ p # "idle" /\ BuildBack(p, s, k, host', faults')
                   \/ Reverts(PutBack(host'))
<1> SUFFICES Goal
  OBVIOUS
<1>1. \A t, k : To(t, k) => IF t \in Results THEN Ended(t) ELSE Went(t, <<>>, k)
  BY Alone
<1>2. Fault => faults' > before.faults /\ faults = before.faults
  BY DEF Fault, Counted
<1>3. pc \in HCreate
  BY HermesFunctions
<1>4. pc # "create.retract" => Bare(host)
  BY <1>3 DEF BuildBack
<1>5. pc \in Unbuilding => ~Fault
  BY <1>2 DEF BuildBack, Counted
<1>6. ASSUME NEW t \in HCreate \ {"create.retract"}, NEW k, To(t, k), Bare(host'),
             t \in {"create", "create.look", "create.net", "create.port", "create.run", "create.undo.files", "create.undo.net"}
               => host'.main = "none",
             t = "create.wait" => host'.main = "running", t \in Unbuilding => faults' > before.faults,
             t = "create.undo.net" => host'.home = {}
      PROVE  Goal
  <2>1. Went(t, <<>>, k) /\ t # "idle"
    BY <1>1, <1>6 DEF HCreate, Results
  <2>2. BuildBack(t, <<>>, k, host', faults')
    BY <1>6 DEF BuildBack, HCreate, Taking
  <2> QED BY <2>1, <2>2
<1>7. "ok" \in Results /\ "raise" \in Results /\ "rolledback" \in Results
  BY DEF Results
<1>8. ASSUME NEW r \in {"ok", "raise"}, To(r, kept) PROVE Goal
  BY <1>1, <1>7, <1>8 DEF Reverts
<1>9. ASSUME To("rolledback", kept), host'.home = {}, host'.main = "none", Bare(host') PROVE Goal
  <2>0. Was.home = {} /\ Was.main = "none" /\ Was.conf = {} /\ Was.mapped = FALSE
    BY DEF BareHost
  <2>1. PutBack(host')
    BY <1>9, <2>0 DEF PutBack, Bare
  <2> QED BY <1>1, <1>7, <1>9, <2>1 DEF Reverts
<1>10. pc \in {"create", "create.look", "create.net", "create.port", "create.run", "create.undo.files", "create.undo.net"}
         => host.main = "none"
  BY DEF BuildBack
<1>11. pc \in Unbuilding => faults > before.faults
  BY DEF BuildBack
<1> HIDE DEF Goal
<1> USE DEF Bare, Fields, HCreate, Unbuilding
<1>12. CASE Writes("create", [host EXCEPT !.home = Parts], {}, "create.look", "create.undo")
  <2>1. pc = "create" /\ Bare(host') /\ host'.main = "none" /\ (To("create.look", kept) \/ (Fault /\ To("create.undo", kept)))
    BY <1>4, <1>10, <1>12 DEF Writes
  <2> QED BY <1>2, <1>6, <2>1
<1>13. CASE Tries("create.look", {host}, Locals([net |-> host.net]), "create.net", "create.undo")
  <2>1. /\ pc = "create.look" /\ Bare(host') /\ host'.main = "none"
        /\ To("create.net", Locals([net |-> host.net])) \/ (Fault /\ To("create.undo", kept))
    BY <1>4, <1>10, <1>13 DEF Tries
  <2> QED BY <1>2, <1>6, <2>1
<1>14. CASE Runs("create.net", {[host EXCEPT !.net = TRUE]}, {}, "create.port", "create.undo.same", "create.undo.same")
  <2>1. pc = "create.net" /\ Bare(host') /\ host'.main = "none" /\ (To("create.port", kept) \/ (Fault /\ To("create.undo.same", kept)))
    BY <1>4, <1>10, <1>14 DEF Runs
  <2> QED BY <1>2, <1>6, <2>1
<1>15. CASE Runs("create.port", {host}, {}, "create.run", "create.undo", "create.undo")
  <2>1. pc = "create.port" /\ Bare(host') /\ host'.main = "none" /\ (To("create.run", kept) \/ (Fault /\ To("create.undo", kept)))
    BY <1>4, <1>10, <1>15 DEF Runs
  <2> QED BY <1>2, <1>6, <2>1
<1>16. CASE Runs("create.run", RanMain("old"), CreatedMain("old"), "create.wait", "create.undo", "create.undo")
  <2>1. pc = "create.run"
    BY <1>16 DEF Runs
  <2>2. RanMain("old") # {}
    BY <1>10, <2>1 DEF RanMain, Ran, Joins
  <2>3. /\ host' \in RanMain("old") \cup CreatedMain("old") \cup {host}
        /\ (To("create.wait", kept) /\ host' \in RanMain("old")) \/ (Fault /\ To("create.undo", kept))
    BY <1>16, <2>2 DEF Runs
  <2>4. host' \in RanMain("old") => host'.main = "running" /\ host'.conf = host.conf /\ host'.mapped = host.mapped
    BY RunsMain
  <2>5. host' \in CreatedMain("old") => host'.conf = host.conf /\ host'.mapped = host.mapped
    BY DEF CreatedMain, Created
  <2> QED BY <1>2, <1>4, <1>6, <2>1, <2>3, <2>4, <2>5
<1>17. CASE WaitForDashboard("create.wait", "create.publish", "create.undo", "create.undo")
  <2>1. pc = "create.wait" /\ host' = host /\ host.main = "running"
    BY <1>17 DEF WaitForDashboard, Reads, BuildBack
  <2>2. To("create.publish", kept) \/ (Fault /\ To("create.undo", kept))
    BY <1>17, <2>1 DEF WaitForDashboard, Reads, AllUp
  <2> QED BY <1>2, <1>4, <1>6, <2>1, <2>2
<1>18. CASE Decides("create.undo.same", "create.undo", Locals([net |-> TRUE]))
  BY <1>4, <1>6, <1>11, <1>18 DEF Decides
<1>19. CASE Tries("create.undo", Removed({"main"}), kept, "create.undo.files", "raise")
  <2>1. pc = "create.undo" /\ Bare(host') /\ host'.main = "none" /\ faults' = faults /\ To("create.undo.files", kept)
    BY <1>4, <1>5, <1>19 DEF Tries, Removed
  <2> QED BY <1>6, <1>11, <2>1
<1>20. CASE Tries("create.undo.files", {[host EXCEPT !.home = {}]}, kept, "create.undo.net", "create.undo.net")
  <2>1. /\ pc = "create.undo.files" /\ Bare(host') /\ host'.main = "none" /\ host'.home = {}
        /\ faults' = faults /\ To("create.undo.net", kept)
    BY <1>4, <1>5, <1>10, <1>20 DEF Tries
  <2> QED BY <1>6, <1>11, <2>1
<1>21. CASE kept.net /\ Decides("create.undo.net", "rolledback", kept)
  BY <1>4, <1>9, <1>10, <1>21 DEF Decides, BuildBack
<1>22. CASE ~kept.net /\ Tries("create.undo.net", {[host EXCEPT !.net = FALSE]}, kept, "rolledback", "raise")
  <2>1. /\ pc = "create.undo.net" /\ Bare(host') /\ host'.main = "none" /\ host'.home = host.home
        /\ To("rolledback", kept)
    BY <1>4, <1>5, <1>10, <1>22 DEF Tries
  <2> QED BY <1>9, <2>1 DEF BuildBack
<1>23. CASE Calls("create.publish", "ingress", NoLocals, "ok", "create.retract", "raise")
  <2>1. Went("ingress", <<Retracts>>, NoLocals)
    BY <1>23, CallsFrom DEF Retracts
  <2>2. BuildBack("ingress", <<Retracts>>, NoLocals, host', faults')
    BY DEF BuildBack, Taking
  <2> QED BY <2>1, <2>2 DEF Goal
<1>24. CASE Calls("create.retract", "delete", NoLocals, "rolledback", "manual", "raise")
  <2>1. Went("delete", <<Retracting>>, NoLocals)
    BY <1>24, CallsFrom DEF Retracting
  <2>2. BuildBack("delete", <<Retracting>>, NoLocals, host', faults')
    BY DEF BuildBack, Taking
  <2> QED BY <2>1, <2>2 DEF Goal
<1> QED BY <1>12, <1>13, <1>14, <1>15, <1>16, <1>17, <1>18, <1>19, <1>20, <1>21, <1>22, <1>23, <1>24 DEF HermesCreate

\* it is published, or taken back
LEMMA BuildsSite ==
  ASSUME DOMAIN host = Fields, Local(kept), HermesIngress, pc # "refresh_ingress", stack = <<Retracts>>
  PROVE  (\E p, s, k : Went(p, s, k) /\ p # "idle" /\ BuildBack(p, s, k, host', faults')) \/ Reverts(FALSE)
<1>1. PICK k, t : t \in HIngress \cup {"ok", "fail", "raise"} /\ To(t, k)
  BY HermesPublishing
<1>2. CASE t \in HIngress
  <2>1. Went(t, stack, k) /\ t # "idle"
    BY <1>1, <1>2, Within DEF HIngress, Results
  <2> QED BY <1>2, <2>1 DEF BuildBack, HIngress, HCreate, Taking, Unbuilding
<1>3. CASE t \in {"ok", "fail", "raise"}
  <2>1. Answer(Retracts, t) = IF t = "fail" THEN "create.retract" ELSE t
    BY <1>3, Answers DEF Retracts
  <2>2. IF t = "fail" THEN Went("create.retract", <<>>, k) ELSE Ended(t)
    BY <1>1, <1>3, <2>1, OneCaller DEF Results
  <2>3. BuildBack("create.retract", <<>>, k, host', faults')
    BY DEF BuildBack, Taking, Unbuilding
  <2> QED BY <1>3, <2>2, <2>3 DEF Reverts, Results
<1> QED BY <1>1, <1>2, <1>3

LEMMA BuildsDeleted ==
  ASSUME op = "create", DOMAIN host = Fields, Was = BareHost, stack = <<Retracting>>, HermesDelete,
         pc = "delete.net" => host.home = {} /\ host.main = "none",
         BuildBack(pc, stack, kept, host, faults)
  PROVE  \/ \E p, s, k : Went(p, s, k) /\ p # "idle" /\ BuildBack(p, s, k, host', faults')
         \/ Reverts(PutBack(host'))
<1> DEFINE Goal == \/ \E p, s, k : Went(p, s, k) /\ p # "idle" /\ BuildBack(p, s, k, host', faults')
                   \/ Reverts(PutBack(host'))
           k0 == Locals([image |-> host.image, running |-> host.main = "running",
                   conf |-> host.conf, mapped |-> host.mapped])
<1> SUFFICES Goal
  OBVIOUS
<1> HIDE DEF k0
<1>1. \A t, k : To(t, k) => IF t \in Results THEN Ended(Final(t)) ELSE Went(t, Above, k)
  BY AboveOnly DEF Above
<1>2. \A t \in {"ok", "fail", "raise"} : Final(t) = IF t = "ok" THEN "rolledback" ELSE IF t = "raise" THEN "raise" ELSE "manual"
  BY Answers DEF Final, Retracting
<1>3. ASSUME NEW t \in HDelete \cup {"delete.undo"}, NEW k, To(t, k), t \in Taking => Bare(host')
      PROVE  Goal
  <2>1. Went(t, Above, k) /\ t # "idle"
    BY <1>1, <1>3 DEF HDelete, Results
  <2>2. BuildBack(t, Above, k, host', faults')
    BY <1>3 DEF BuildBack, HCreate, HDelete, Taking, Unbuilding
  <2> QED BY <2>1, <2>2
<1>4. ASSUME NEW t \in {"fail", "raise"}, To(t, kept) PROVE Goal
  BY <1>1, <1>2, <1>4 DEF Reverts, Results
<1>5. pc \in Taking => Bare(host)
  BY DEF BuildBack
<1>6. ASSUME To("ok", kept), host'.home = {}, host'.main = "none", Bare(host') PROVE Goal
  <2>1. Was.home = {} /\ Was.main = "none" /\ Was.conf = {} /\ Was.mapped = FALSE
    BY DEF BareHost
  <2>2. PutBack(host')
    BY <1>6, <2>1 DEF PutBack, Bare
  <2> QED BY <1>1, <1>2, <1>6, <2>2 DEF Reverts, Results
<1> HIDE DEF Goal
<1> USE DEF Bare, Fields
<1>7. CASE Decides("delete", IF host.home = Parts /\ host.recycle = "none" THEN "delete.inspect" ELSE "fail", kept)
  <2>1. To("delete.inspect", kept) \/ To("fail", kept)
    BY <1>7 DEF Decides
  <2> QED BY <1>3, <1>4, <2>1 DEF HDelete, Taking
<1>8. CASE Reads("delete.inspect", host.main # "none", k0, "delete.ingress", "fail", "raise")
  <2>1. To("fail", kept) \/ To("raise", kept) \/ To("delete.ingress", k0)
    BY <1>8 DEF Reads
  <2> QED BY <1>3, <1>4, <2>1 DEF HDelete, Taking
<1>9. CASE Writes("delete.ingress", [host EXCEPT !.conf = {}, !.mapped = FALSE],
            {[host EXCEPT !.conf = {}]}, "delete.reload", "raise")
  <2>1. To("raise", kept) \/ (To("delete.reload", kept) /\ Bare(host'))
    BY <1>9 DEF Writes
  <2> QED BY <1>3, <1>4, <2>1 DEF HDelete
<1>10. CASE Runs("delete.reload", Reloaded, {}, "delete.remove", "delete.back", "raise")
  <2>1. pc = "delete.reload" /\ (To("raise", kept) \/ To("delete.remove", kept) \/ To("delete.back", kept))
    BY <1>10 DEF Runs
  <2>2. host'.conf = host.conf /\ host'.mapped = host.mapped
    BY <1>10 DEF Runs, Reloaded, Loaded
  <2> QED BY <1>3, <1>4, <1>5, <2>1, <2>2 DEF HDelete, Taking
<1>11. CASE Runs("delete.remove", Removed({"main"}), {}, "delete.entry", "delete.back", "raise")
  <2>1. pc = "delete.remove" /\ (To("raise", kept) \/ To("delete.entry", kept) \/ To("delete.back", kept))
    BY <1>11 DEF Runs
  <2>2. host'.conf = host.conf /\ host'.mapped = host.mapped
    BY <1>11 DEF Runs, Removed
  <2> QED BY <1>3, <1>4, <1>5, <2>1, <2>2 DEF HDelete, Taking
<1>12. CASE Writes("delete.back", OldIngress, {}, "delete.again", "raise")
  <2>1. To("raise", kept) \/ To("delete.again", kept)
    BY <1>12 DEF Writes
  <2> QED BY <1>3, <1>4, <2>1 DEF HDelete, Taking
<1>13. CASE Tries("delete.again", Reloaded, kept, "fail", "raise")
  BY <1>4, <1>13 DEF Tries
<1>14. CASE Writes("delete.entry", [host EXCEPT !.recycle = "dir"], {}, "delete.move", "delete.undo")
  <2>1. pc = "delete.entry" /\ host'.conf = host.conf /\ host'.mapped = host.mapped
        /\ (To("delete.move", kept) \/ To("delete.undo", kept))
    BY <1>14 DEF Writes
  <2> QED BY <1>3, <1>5, <2>1 DEF HDelete, Taking
<1>15. CASE Moves("delete.move", host.home, "home", "bin", "delete.list", "delete.undo")
  <2>1. /\ pc = "delete.move" /\ \A f \in Fields \ {"home", "bin"} : host'[f] = host[f]
        /\ To("delete.move", kept) \/ To("delete.list", kept) \/ To("delete.undo", kept)
    BY <1>15, MovesOnly
  <2> QED BY <1>3, <1>5, <2>1 DEF HDelete, Taking
<1>16. CASE Writes("delete.list", [host EXCEPT !.recycle = "listed",
                              !.note = [image |-> kept.image, running |-> kept.running]],
            {}, "delete.unlink", "delete.undo")
  <2>1. pc = "delete.list" /\ host'.conf = host.conf /\ host'.mapped = host.mapped
        /\ (To("delete.unlink", kept) \/ To("delete.undo", kept))
    BY <1>16 DEF Writes
  <2> QED BY <1>3, <1>5, <2>1 DEF HDelete, Taking
<1>17. CASE Runs("delete.unlink", {[host EXCEPT !.linked = FALSE]}, {[host EXCEPT !.linked = FALSE]},
          "delete.net", "delete.undo", "raise")
  <2>1. pc = "delete.unlink" /\ host'.conf = host.conf /\ host'.mapped = host.mapped
        /\ (To("delete.net", kept) \/ To("delete.undo", kept) \/ To("raise", kept))
    BY <1>17 DEF Runs
  <2> QED BY <1>3, <1>4, <1>5, <2>1 DEF HDelete, Taking
<1>18. CASE Runs("delete.net", {[host EXCEPT !.net = FALSE]}, {}, "ok", "delete.undo", "raise")
  <2>1. pc = "delete.net" /\ host'.conf = host.conf /\ host'.mapped = host.mapped
        /\ host'.home = host.home /\ host'.main = host.main
        /\ (To("ok", kept) \/ To("delete.undo", kept) \/ To("raise", kept))
    BY <1>18 DEF Runs
  <2> QED BY <1>3, <1>4, <1>5, <1>6, <2>1 DEF HDelete, Taking
<1> QED BY <1>7, <1>8, <1>9, <1>10, <1>11, <1>12, <1>13, <1>14, <1>15, <1>16, <1>17, <1>18 DEF HermesDelete, k0

LEMMA BuildsRetracting ==
  ASSUME op = "create", DOMAIN host = Fields, Local(kept), HDeletes,
         HermesDeleteUndo \/ HermesRuntime \/ (HermesIngress /\ pc # "refresh_ingress") \/ HermesStop
  PROVE  (\E p, s, k : Went(p, s, k) /\ p # "idle" /\ BuildBack(p, s, k, host', faults')) \/ Reverts(FALSE)
<1> DEFINE Goal == (\E p, s, k : Went(p, s, k) /\ p # "idle" /\ BuildBack(p, s, k, host', faults')) \/ Reverts(FALSE)
<1> SUFFICES Goal
  OBVIOUS
<1>1. ASSUME NEW p \in HDeleteUndo \cup InRuntime, NEW s, NEW k, Went(p, s, k)
      PROVE  Goal
  BY <1>1 DEF BuildBack, HDeleteUndo, InRuntime, HRuntime, HIngress, HStop, HCreate, Taking, Unbuilding
<1>2. ASSUME NEW r \in Results \ {"rolledback"}, Ended(r)
      PROVE  Goal
  BY <1>2 DEF Reverts
<1>3. \A t \in Results : Answer(Retracting, t) \in Results /\ Final(Answer(Retracting, t)) \in {"raise", "manual"}
  BY Answers DEF Final, Retracting, Results
<1>4. \A t \in Results \ {"ok"} : Final(t) \in {"raise", "manual"}
  BY Answers DEF Final, Retracting, Results
<1>5. "raise" \in Results \ {"rolledback"} /\ "manual" \in Results \ {"rolledback"}
  BY DEF Results
<1>6. \A x \in HDeleteUndo \cup InRuntime : x \notin Results
  BY DEF HDeleteUndo, InRuntime, HRuntime, HIngress, HStop, Results
<1> HIDE DEF Goal
<1>7. CASE HermesDeleteUndo
  <2>1. pc \in HDeleteUndo /\ stack = Above
    BY <1>7, HermesFunctions DEF HDeletes, HDeleteUndo, HRuntime, HIngress, HStop
  <2>2. ASSUME NEW t \in HDeleteUndo \cup {"raise"}, To(t, kept)
        PROVE  Goal
    <3>1. t \in Results => t = "raise"
      BY <1>6, <2>2
    <3> QED BY <1>1, <1>2, <1>4, <1>5, <2>1, <2>2, <3>1, AboveOnly
  <2>3. CASE Moves("delete.undo", host.bin \ host.home, "bin", "home", "delete.undo.entry", "raise")
    BY <2>2, <2>3, MovesOnly DEF HDeleteUndo
  <2>4. CASE Tries("delete.undo.entry", {EntryGone}, kept, "delete.undo.runtime", "delete.undo.runtime")
    BY <2>2, <2>4 DEF HDeleteUndo, Tries
  <2>5. CASE Calls("delete.undo.runtime", "runtime", kept, "rolledback", "manual", "raise")
    BY <1>1, <2>1, <2>5, CallsAbove DEF InRuntime, HRuntime
  <2> QED BY <1>7, <2>3, <2>4, <2>5 DEF HermesDeleteUndo
<1>8. CASE HermesRuntime
  <2>1. pc \in HRuntime /\ stack = Over(Retracting)
    BY <1>8, HermesFunctions DEF HDeletes, HDelete, HDeleteUndo, HRuntime, HIngress, HStop
  <2>2. CASE \E t \in HRuntime \cup {"fail", "raise"} : To(t, kept)
    <3>1. PICK t \in HRuntime \cup {"fail", "raise"} : To(t, kept)
      BY <2>2
    <3>2. CASE t \in Results
      BY <1>2, <1>3, <1>5, <2>1, <3>1, <3>2, OverOne
    <3>3. CASE t \notin Results
      BY <1>1, <2>1, <3>1, <3>3, OverOne DEF InRuntime, Results
    <3> QED BY <3>2, <3>3
  <2>3. CASE Calls("runtime.ingress", "ingress", kept, IF kept.running THEN "ok" ELSE "runtime.stop", "fail", "raise")
    BY <1>1, <2>1, <2>3, CallsAbove DEF InRuntime, HIngress
  <2>4. CASE Calls("runtime.stop", "stop", kept, "ok", "fail", "raise")
    BY <1>1, <2>1, <2>4, CallsAbove DEF InRuntime, HStop
  <2> QED BY <1>8, <2>2, <2>3, <2>4, HermesRunning
<1>9. ASSUME NEW c \in {Passing, Outlet}, stack = Over2(c, Retracting), NEW t, NEW k, To(t, k),
             t \in HIngress \cup HStop \cup {"ok", "fail", "raise"}
      PROVE  Goal
  <2>1. CASE t \notin Results
    BY <1>1, <1>9, <2>1, OverTwo DEF InRuntime, Results
  <2>2. CASE t \in Results
    <3>1. Answer(c, t) \in Results \cup {"runtime.stop"}
      BY <2>2, Answers DEF Passing, Outlet, Results
    <3>2. CASE Answer(c, t) \in Results
      BY <1>2, <1>3, <1>5, <1>9, <2>2, <3>2, OverTwo
    <3>3. CASE Answer(c, t) \notin Results
      BY <1>1, <1>9, <2>2, <3>1, <3>3, OverTwo DEF InRuntime, HRuntime
    <3> QED BY <3>2, <3>3
  <2> QED BY <2>1, <2>2
<1>10. CASE HermesIngress /\ pc # "refresh_ingress"
  <2>1. pc \in HIngress
    BY <1>10, HermesFunctions
  <2>2. \E c \in {Passing, Outlet} : stack = Over2(c, Retracting)
    BY <2>1 DEF HDeletes, HDelete, HDeleteUndo, HRuntime, HIngress, HStop, Outlet
  <2>3. PICK k, t : t \in HIngress \cup {"ok", "fail", "raise"} /\ To(t, k)
    BY <1>10, HermesPublishing
  <2> QED BY <1>9, <2>2, <2>3
<1>11. CASE HermesStop
  <2>1. pc \in HStop
    BY <1>11, HermesFunctions
  <2>2. stack = Over2(Passing, Retracting)
    BY <2>1 DEF HDeletes, HDelete, HDeleteUndo, HRuntime, HIngress, HStop
  <2>3. PICK t : t \in HStop \cup {"ok", "fail", "raise"} /\ To(t, kept)
    BY <1>11, HermesStopping
  <2> QED BY <1>9, <2>2, <2>3
<1> QED BY <1>7, <1>8, <1>10, <1>11

\* restore: what it noted at first, and what it took away again without a failure
Noting(k) == k.net = Was.net /\ k.linked = Was.linked /\ k.conf = Was.conf /\ k.mapped = Was.mapped
ReviveBack(p, s, k, h) ==
  /\ (Was.net => h.net) /\ (Was.linked => h.linked)
  /\ IF p \in {"restore", "restore.look"} THEN h = Was ELSE Noting(k)
  /\ p \in HRestoreUndo \ {"restore.undo", "restore.undo.failed"} => k.failed \/ h.main = "none"
  /\ p \in HRestoreUndo \ {"restore.undo", "restore.undo.failed", "restore.undo.files"}
       => h.conf = Was.conf /\ h.mapped = Was.mapped
  /\ p = "restore.undo.end" => k.failed \/ h.home = {}

LEMMA PublishNotes ==
  ASSUME DOMAIN host = Fields, Local(kept), HermesIngress, pc # "refresh_ingress"
  PROVE  \E k : \E t \in HIngress \cup {"ok", "fail", "raise"} :
           /\ To(t, k) /\ host'.net = host.net /\ (host.linked => host'.linked)
           /\ k.net = kept.net /\ k.linked = kept.linked /\ k.conf = kept.conf /\ k.mapped = kept.mapped
<1> USE DEF HIngress, Fields
<1> DEFINE k0 == Locals([inner |-> NoteIngress])
<1>1. k0.net = kept.net /\ k0.linked = kept.linked /\ k0.conf = kept.conf /\ k0.mapped = kept.mapped
  BY DEF Locals, Local, LocalNames
<1> HIDE DEF k0
<1>2. \A h \in Applied \cup Reloaded : h.net = host.net /\ (host.linked => h.linked)
  <2> DEFINE g == [host EXCEPT !.linked = @ \/ (host.main = "running" /\ host.net)]
  <2>1. Applied = {g, [g EXCEPT !.served = "active" \in g.conf, !.asked = g.auth]}
    BY DEF Applied, Loaded
  <2>2. DOMAIN g = Fields /\ g.net = host.net /\ (host.linked => g.linked)
    OBVIOUS
  <2> HIDE DEF g
  <2>3. \A h \in Applied : h.net = host.net /\ (host.linked => h.linked)
    BY <2>1, <2>2
  <2> QED BY <2>3 DEF Reloaded, Loaded
<1>3. CASE Reads("ingress", host.main # "none", k0, "ingress.write", "fail", "raise")
  BY <1>1, <1>3 DEF Reads
<1>4. CASE Writes("ingress.write", [host EXCEPT !.conf = @ \cup {"active"}, !.mapped = TRUE],
            {[host EXCEPT !.conf = @ \cup {"active"}]}, "ingress.apply", "ingress.undo")
  <2>1. host'.net = host.net /\ (host.linked => host'.linked)
    BY <1>4 DEF Writes
  <2> QED BY <1>4, <2>1 DEF Writes
<1>5. CASE Runs("ingress.apply", Applied, Applied, "ingress.reload", "ingress.undo", "ingress.undo")
  BY <1>2, <1>5 DEF Runs
<1>6. CASE Runs("ingress.reload", Reloaded, {}, "ok", "ingress.undo", "ingress.undo")
  BY <1>2, <1>6 DEF Runs
<1>7. CASE Writes("ingress.undo", [host EXCEPT !.conf = kept.inner.conf, !.mapped = kept.inner.mapped], {},
            "ingress.undo.apply", "raise")
  <2>1. host'.net = host.net /\ (host.linked => host'.linked)
    BY <1>7 DEF Writes
  <2> QED BY <1>7, <2>1 DEF Writes
<1>8. CASE Tries("ingress.undo.apply", Applied, kept, "ingress.undo.reload", "raise")
  BY <1>2, <1>8 DEF Tries
<1>9. CASE Tries("ingress.undo.reload", Reloaded, kept, "fail", "raise")
  BY <1>2, <1>9 DEF Tries
<1>10. ~Calls("refresh_ingress", "ingress", kept, "ok", "fail", "raise")
  BY DEF Calls
<1> QED BY <1>3, <1>4, <1>5, <1>6, <1>7, <1>8, <1>9, <1>10 DEF HermesIngress, k0

\* the networks that there were stay while the runtime is made
LEMMA RuntimeNotes ==
  ASSUME DOMAIN host = Fields, HermesRuntime \/ HermesStop
  PROVE  (host.net => host'.net) /\ (host.linked => host'.linked)
<1> USE DEF Fields
<1>1. \A i : \A h \in RanMain(i) : h.net = host.net /\ h.linked = host.linked
  <2> TAKE i
  <2> TAKE h \in RanMain(i)
  <2>1. PICK g \in Ran("main") : h = [g EXCEPT !.image = i]
    BY DEF RanMain
  <2>2. DOMAIN g = Fields /\ g.net = host.net /\ g.linked = host.linked
    BY DEF Ran
  <2> QED BY <2>1, <2>2
<1>2. \A i : \A h \in CreatedMain(i) : h.net = host.net /\ h.linked = host.linked
  <2> TAKE i
  <2> TAKE h \in CreatedMain(i)
  <2>1. PICK g \in Created("main") : h = [g EXCEPT !.image = i]
    BY DEF CreatedMain
  <2>2. DOMAIN g = Fields /\ g.net = host.net /\ g.linked = host.linked
    BY DEF Created
  <2> QED BY <2>1, <2>2
<1>3. \A h \in Reloaded : h.net = host.net /\ h.linked = host.linked
  BY DEF Reloaded, Loaded
<1>4. CASE HermesRuntime
  <2>1. CASE Runs("runtime", {[host EXCEPT !.net = TRUE]}, {}, "runtime.run", "fail", "raise")
    BY <2>1 DEF Runs
  <2>2. CASE Runs("runtime.run", RanMain(kept.image), CreatedMain(kept.image), "runtime.wait", "fail", "raise")
    BY <1>1, <1>2, <2>2 DEF Runs
  <2>3. CASE WaitForDashboard("runtime.wait", "runtime.link", "fail", "raise")
    BY <2>3 DEF WaitForDashboard, Reads
  <2>4. CASE Runs("runtime.link", {[host EXCEPT !.linked = TRUE]}, {}, "runtime.ingress", "fail", "raise")
    BY <2>4 DEF Runs
  <2> QED BY <1>4, <2>1, <2>2, <2>3, <2>4 DEF HermesRuntime, Calls
<1>5. CASE HermesStop
  <2>1. CASE "active" \notin host.conf /\ Decides("stop", "stop.main", kept)
    BY <2>1 DEF Decides
  <2>2. CASE Writes("stop", [host EXCEPT !.conf = {"disabled"}], {}, "stop.reload", "raise")
    BY <2>2 DEF Writes
  <2>3. CASE Runs("stop.reload", Reloaded, {}, "stop.main", "stop.back", "raise")
    BY <1>3, <2>3 DEF Runs
  <2>4. CASE Writes("stop.back", [host EXCEPT !.conf = {"active"}], {}, "stop.again", "raise")
    BY <2>4 DEF Writes
  <2>5. CASE Runs("stop.main", Stopped("main"), {}, "ok",
          IF "disabled" \in host.conf THEN "stop.back" ELSE "fail", "raise")
    BY <2>5 DEF Runs, Stopped
  <2>6. CASE Tries("stop.again", Reloaded, kept, "fail", "raise")
    BY <1>3, <2>6 DEF Tries
  <2> QED BY <1>5, <2>1, <2>2, <2>3, <2>4, <2>5, <2>6 DEF HermesStop
<1> QED BY <1>4, <1>5

LEMMA RevivesInside ==
  ASSUME DOMAIN host = Fields, Local(kept), HRestores, pc \in InRuntime, ReviveBack(pc, stack, kept, host),
         HermesRuntime \/ (HermesIngress /\ pc # "refresh_ingress") \/ HermesStop
  PROVE  \E p, s, k : Went(p, s, k) /\ p # "idle" /\ ReviveBack(p, s, k, host')
<1> DEFINE Goal == \E p, s, k : Went(p, s, k) /\ p # "idle" /\ ReviveBack(p, s, k, host')
<1> SUFFICES Goal
  OBVIOUS
<1>1. Noting(kept) /\ (Was.net => host.net) /\ (Was.linked => host.linked)
  BY DEF ReviveBack, InRuntime, HRuntime, HIngress, HStop
<1>2. ASSUME NEW p \in InRuntime \cup {"restore.entry", "restore.undo"}, NEW s, NEW k, Went(p, s, k), Noting(k),
             (host.net => host'.net) /\ (host.linked => host'.linked)
      PROVE  Goal
  <2>1. p # "idle" /\ ReviveBack(p, s, k, host')
    BY <1>1, <1>2 DEF ReviveBack, InRuntime, HRuntime, HIngress, HStop, HRestoreUndo
  <2> QED BY <1>2, <2>1
<1>3. \A x \in InRuntime \cup {"restore.entry", "restore.undo"} : x \notin Results
  BY DEF InRuntime, HRuntime, HIngress, HStop, Results
<1>4. \A t \in Results : Answer(RestoreFrom, t) \in {"restore.entry", "restore.undo"}
  BY Answers DEF RestoreFrom, Results
<1>5. \A t \in Results : Answer(Passing, t) \in Results /\ Answer(PublishFrom, t) \in Results \cup {"runtime.stop"}
  BY Answers DEF Passing, PublishFrom, Results
<1>6. "runtime.stop" \in InRuntime /\ "ingress" \in InRuntime /\ "stop" \in InRuntime
  BY DEF InRuntime, HRuntime, HIngress, HStop
<1> HIDE DEF Goal
<1>7. ASSUME NEW c \in {Passing, PublishFrom}, stack = <<c, RestoreFrom>>, NEW t \in InRuntime \cup Results, NEW k, To(t, k), Noting(k),
             (host.net => host'.net) /\ (host.linked => host'.linked)
      PROVE  Goal
  <2>1. CASE t \in InRuntime
    BY <1>2, <1>3, <1>7, <2>1, Within
  <2>2. CASE t \in Results /\ Answer(c, t) \notin Results
    <3>1. Answer(c, t) = "runtime.stop"
      BY <1>5, <1>7, <2>2
    <3>2. Went("runtime.stop", <<RestoreFrom>>, k)
      BY <1>7, <2>2, <3>1, TwoCallers
    <3> QED BY <1>2, <1>6, <1>7, <3>2
  <2>3. CASE t \in Results /\ Answer(c, t) \in Results
    <3> DEFINE x == Answer(RestoreFrom, Answer(c, t))
    <3>1. x \in {"restore.entry", "restore.undo"} /\ x \notin Results
      BY <1>3, <1>4, <2>3
    <3>2. Went(x, <<>>, k)
      BY <1>7, <2>3, <3>1, TwoCallers
    <3> QED BY <1>2, <1>7, <3>1, <3>2
  <2> QED BY <1>7, <2>1, <2>2, <2>3
<1>8. CASE HermesRuntime
  <2>1. pc \in HRuntime /\ stack = <<RestoreFrom>>
    BY <1>8, HermesFunctions DEF HRestores, HRestore, HRestoreUndo, HRuntime, HIngress, HStop
  <2>2. (host.net => host'.net) /\ (host.linked => host'.linked)
    BY <1>8, RuntimeNotes
  <2>3. CASE \E t \in HRuntime \cup {"fail", "raise"} : To(t, kept)
    <3>1. PICK t \in HRuntime \cup {"fail", "raise"} : To(t, kept)
      BY <2>3
    <3>2. CASE t \in Results
      BY <1>1, <1>2, <1>3, <1>4, <2>1, <2>2, <3>1, <3>2, OneCaller
    <3>3. CASE t \notin Results
      BY <1>1, <1>2, <2>1, <2>2, <3>1, <3>3, Within DEF InRuntime, Results
    <3> QED BY <3>2, <3>3
  <2>4. CASE Calls("runtime.ingress", "ingress", kept, IF kept.running THEN "ok" ELSE "runtime.stop", "fail", "raise")
    <3>1. \E s : Went("ingress", s, kept)
      BY <2>1, <2>4, CallsFrom
    <3> QED BY <1>1, <1>2, <1>6, <2>2, <3>1
  <2>5. CASE Calls("runtime.stop", "stop", kept, "ok", "fail", "raise")
    <3>1. \E s : Went("stop", s, kept)
      BY <2>1, <2>5, CallsFrom
    <3> QED BY <1>1, <1>2, <1>6, <2>2, <3>1
  <2> QED BY <1>8, <2>3, <2>4, <2>5, HermesRunning
<1>9. CASE HermesIngress /\ pc # "refresh_ingress"
  <2>1. pc \in HIngress /\ stack = <<PublishFrom, RestoreFrom>>
    BY <1>9, HermesFunctions DEF HRestores, HRestore, HRestoreUndo, HRuntime, HIngress, HStop
  <2>2. PICK k, t : /\ t \in HIngress \cup {"ok", "fail", "raise"}
                    /\ To(t, k) /\ host'.net = host.net /\ (host.linked => host'.linked)
                    /\ k.net = kept.net /\ k.linked = kept.linked /\ k.conf = kept.conf /\ k.mapped = kept.mapped
    BY <1>9, PublishNotes
  <2>3. t \in InRuntime \cup Results
    BY <2>2 DEF InRuntime, Results
  <2> QED BY <1>1, <1>7, <2>1, <2>2, <2>3 DEF Noting
<1>10. CASE HermesStop
  <2>1. pc \in HStop /\ stack = <<Passing, RestoreFrom>>
    BY <1>10, HermesFunctions DEF HRestores, HRestore, HRestoreUndo, HRuntime, HIngress, HStop
  <2>2. PICK t : t \in HStop \cup {"ok", "fail", "raise"} /\ To(t, kept)
    BY <1>10, HermesStopping
  <2>3. t \in InRuntime \cup Results
    BY <2>2 DEF InRuntime, Results
  <2> QED BY <1>1, <1>7, <1>10, <2>1, <2>2, <2>3, RuntimeNotes
<1> QED BY <1>8, <1>9, <1>10

\* the steps of a restore itself
LEMMA RevivesBack ==
  ASSUME DOMAIN host = Fields, Local(kept), stack = <<>>, HermesRestore,
         ReviveBack(pc, stack, kept, host)
  PROVE  (\E p, s, k : Went(p, s, k) /\ p # "idle" /\ ReviveBack(p, s, k, host')) \/ Reverts(FALSE)
<1> DEFINE Goal == (\E p, s, k : Went(p, s, k) /\ p # "idle" /\ ReviveBack(p, s, k, host')) \/ Reverts(FALSE)
           k0 == Locals([image |-> host.note.image, running |-> host.note.running, net |-> host.net,
                   linked |-> host.linked, conf |-> host.conf, mapped |-> host.mapped])
<1> SUFFICES Goal
  OBVIOUS
<1>1. \A t, k : To(t, k) => IF t \in Results THEN Ended(t) ELSE Went(t, <<>>, k)
  BY Alone
<1>2. k0.net = host.net /\ k0.linked = host.linked /\ k0.conf = host.conf /\ k0.mapped = host.mapped
  BY DEF Locals, Local, LocalNames
<1> HIDE DEF k0
<1>3. (Was.net => host.net) /\ (Was.linked => host.linked) /\ (pc \in {"restore", "restore.look"} => host = Was)
      /\ (pc \notin {"restore", "restore.look"} => Noting(kept))
  BY DEF ReviveBack
<1>4. ASSUME NEW t \in (HRestore \ {"restore"}) \cup {"restore.undo"}, NEW k, To(t, k),
             (host.net => host'.net) /\ (host.linked => host'.linked),
             IF t = "restore.look" THEN host' = Was ELSE Noting(k)
      PROVE  Goal
  <2>1. Went(t, <<>>, k) /\ t # "idle"
    BY <1>1, <1>4 DEF HRestore, Results
  <2>2. ReviveBack(t, <<>>, k, host')
    BY <1>3, <1>4 DEF ReviveBack, HRestore, HRestoreUndo
  <2> QED BY <2>1, <2>2
<1>5. ASSUME NEW t \in {"ok", "fail", "raise"}, To(t, kept) PROVE Goal
  BY <1>1, <1>5 DEF Reverts, Results
<1> HIDE DEF Goal
<1> USE DEF HRestore, Fields
<1>6. CASE Decides("restore", IF host.home = {} /\ host.bin = Parts /\ host.recycle = "listed"
                        THEN "restore.look" ELSE "fail", kept)
  <2>1. pc = "restore" /\ host' = host /\ (To("restore.look", kept) \/ To("fail", kept))
    BY <1>6 DEF Decides
  <2> QED BY <1>3, <1>4, <1>5, <2>1
<1>7. CASE Reads("restore.look", TRUE, k0, "restore.move", "fail", "raise")
  <2>1. pc = "restore.look" /\ host' = host /\ (To("restore.move", k0) \/ To("fail", kept) \/ To("raise", kept))
    BY <1>7 DEF Reads
  <2>2. Noting(k0)
    BY <1>2, <1>3, <2>1 DEF Noting
  <2> QED BY <1>4, <1>5, <2>1, <2>2
<1>8. CASE Moves("restore.move", host.bin, "bin", "home", "restore.client", "restore.undo")
  <2>1. /\ pc = "restore.move" /\ \A f \in Fields \ {"home", "bin"} : host'[f] = host[f]
        /\ To("restore.move", kept) \/ To("restore.client", kept) \/ To("restore.undo", kept)
    BY <1>8, MovesOnly
  <2>2. host'.net = host.net /\ host'.linked = host.linked
    BY <2>1
  <2> QED BY <1>3, <1>4, <2>1, <2>2
<1>9. CASE Writes("restore.client", host, {}, "restore.runtime", "restore.undo")
  <2>1. pc = "restore.client" /\ host' = host /\ (To("restore.runtime", kept) \/ To("restore.undo", kept))
    BY <1>9 DEF Writes
  <2> QED BY <1>3, <1>4, <2>1
<1>10. CASE Calls("restore.runtime", "runtime", kept, "restore.entry", "restore.undo", "restore.undo")
  <2>1. pc = "restore.runtime" /\ host' = host /\ Went("runtime", <<RestoreFrom>>, kept)
    BY <1>10, CallsFrom DEF RestoreFrom
  <2>2. ReviveBack("runtime", <<RestoreFrom>>, kept, host')
    BY <1>3, <2>1 DEF ReviveBack, HRestoreUndo
  <2> QED BY <2>1, <2>2 DEF Goal
<1>11. CASE Writes("restore.entry", [host EXCEPT !.recycle = "none", !.note = NoNote],
            {[host EXCEPT !.recycle = "dir", !.note = NoNote]}, "ok", "restore.undo")
  <2>1. pc = "restore.entry" /\ (To("ok", kept) \/ To("restore.undo", kept))
        /\ host' \in {host, [host EXCEPT !.recycle = "none", !.note = NoNote], [host EXCEPT !.recycle = "dir", !.note = NoNote]}
    BY <1>11 DEF Writes
  <2>2. host'.net = host.net /\ host'.linked = host.linked
    BY <2>1
  <2> QED BY <1>3, <1>4, <1>5, <2>1, <2>2
<1> QED BY <1>6, <1>7, <1>8, <1>9, <1>10, <1>11 DEF HermesRestore, k0

\* and of its roll-back
LEMMA RevivesUndone ==
  ASSUME product = "hermes", op = "restore", DOMAIN host = Fields, Local(kept), stack = <<>>, HermesRestoreUndo,
         ReviveBack(pc, stack, kept, host), HermesRestores(host'), Was.main = "none"
  PROVE  (\E p, s, k : Went(p, s, k) /\ p # "idle" /\ ReviveBack(p, s, k, host')) \/ Reverts(PutBack(host'))
<1> DEFINE Goal == (\E p, s, k : Went(p, s, k) /\ p # "idle" /\ ReviveBack(p, s, k, host')) \/ Reverts(PutBack(host'))
           After == HRestoreUndo \ {"restore.undo", "restore.undo.failed"}
           Unsited == HRestoreUndo \ {"restore.undo", "restore.undo.failed", "restore.undo.files"}
<1> SUFFICES Goal
  OBVIOUS
<1>1. \A t, k : To(t, k) => IF t \in Results THEN Ended(t) ELSE Went(t, <<>>, k)
  BY Alone
<1>2. Failed.failed = TRUE /\ Failed.net = kept.net /\ Failed.linked = kept.linked /\ Failed.conf = kept.conf
      /\ Failed.mapped = kept.mapped
  BY DEF Failed, Locals, Local, LocalNames
<1>3. pc \in HRestoreUndo
  BY HermesFunctions
<1>4. /\ (Was.net => host.net) /\ (Was.linked => host.linked) /\ Noting(kept)
      /\ pc \in After => kept.failed \/ host.main = "none"
      /\ pc \in Unsited => host.conf = Was.conf /\ host.mapped = Was.mapped
      /\ pc = "restore.undo.end" => kept.failed \/ host.home = {}
  BY <1>3 DEF ReviveBack, HRestoreUndo
<1>5. ASSUME NEW t \in HRestoreUndo, NEW k \in {kept, Failed}, To(t, k),
             (Was.net => host'.net) /\ (Was.linked => host'.linked),
             t \in After => k.failed \/ host'.main = "none",
             t \in Unsited => host'.conf = Was.conf /\ host'.mapped = Was.mapped,
             t = "restore.undo.end" => k.failed \/ host'.home = {}
      PROVE  Goal
  <2>1. Went(t, <<>>, k) /\ t # "idle"
    BY <1>1, <1>5 DEF HRestoreUndo, Results
  <2>2. Noting(k)
    BY <1>2, <1>4, <1>5 DEF Noting
  <2>3. ReviveBack(t, <<>>, k, host')
    BY <1>5, <2>2 DEF ReviveBack, HRestoreUndo
  <2> QED BY <2>1, <2>3
<1>6. ASSUME NEW r \in {"raise", "manual"}, To(r, kept) PROVE Goal
  BY <1>1, <1>6 DEF Reverts, Results
<1>7. ASSUME pc = "restore.undo.end", host' = host, To("rolledback", kept), ~kept.failed
      PROVE  Goal
  <2>1. host'.home = {} /\ host'.main = "none" /\ host'.conf = Was.conf /\ host'.mapped = Was.mapped
    BY <1>4, <1>7 DEF HRestoreUndo
  <2>2. Parts = {"data"}
    BY DEF Parts, PartsOf
  <2>3. PutBack(host')
    BY <1>4, <1>7, <2>1, <2>2 DEF PutBack, HermesRestores
  <2> QED BY <1>1, <1>7, <2>3 DEF Reverts, Results
<1> HIDE DEF Goal
<1> USE DEF HRestoreUndo, Fields
<1>8. CASE Runs("restore.undo", Removed({"main"}), {}, "restore.undo.files", "restore.undo.failed", "raise")
  <2>1. pc = "restore.undo" /\ host'.net = host.net /\ host'.linked = host.linked
        /\ (To("raise", kept) \/ To("restore.undo.failed", kept) \/ (To("restore.undo.files", kept) /\ host'.main = "none"))
    BY <1>8 DEF Runs, Removed
  <2> QED BY <1>4, <1>5, <1>6, <2>1
<1>9. CASE Decides("restore.undo.failed", "restore.undo.files", Failed)
  <2>1. pc = "restore.undo.failed" /\ host' = host /\ To("restore.undo.files", Failed)
    BY <1>9 DEF Decides
  <2> QED BY <1>2, <1>4, <1>5, <2>1
<1>10. CASE Writes("restore.undo.files", OldIngress, {}, "restore.undo.reload", "raise")
  <2>1. pc = "restore.undo.files" /\ (To("raise", kept) \/ (To("restore.undo.reload", kept) /\ host' = OldIngress))
    BY <1>10 DEF Writes
  <2>2. host' = OldIngress => /\ host'.net = host.net /\ host'.linked = host.linked /\ host'.main = host.main
                              /\ host'.conf = kept.conf /\ host'.mapped = kept.mapped
    BY DEF OldIngress
  <2> QED BY <1>4, <1>5, <1>6, <2>1, <2>2 DEF Noting
<1>11. CASE Runs("restore.undo.reload", Reloaded, {}, "restore.undo.link", "restore.undo.unloaded", "raise")
  <2>1. pc = "restore.undo.reload" /\ host'.net = host.net /\ host'.linked = host.linked /\ host'.main = host.main
        /\ host'.conf = host.conf /\ host'.mapped = host.mapped
    BY <1>11 DEF Runs, Reloaded, Loaded
  <2>2. To("raise", kept) \/ To("restore.undo.link", kept) \/ To("restore.undo.unloaded", kept)
    BY <1>11 DEF Runs
  <2> QED BY <1>4, <1>5, <1>6, <2>1, <2>2
<1>12. CASE Decides("restore.undo.unloaded", "restore.undo.link", Failed)
  <2>1. pc = "restore.undo.unloaded" /\ host' = host /\ To("restore.undo.link", Failed)
    BY <1>12 DEF Decides
  <2> QED BY <1>2, <1>4, <1>5, <2>1
<1>13. CASE kept.linked /\ Decides("restore.undo.link", "restore.undo.net", kept)
  <2>1. pc = "restore.undo.link" /\ host' = host /\ To("restore.undo.net", kept)
    BY <1>13 DEF Decides
  <2> QED BY <1>4, <1>5, <2>1
<1>14. CASE ~kept.linked /\ Runs("restore.undo.link", {[host EXCEPT !.linked = FALSE]}, {}, "restore.undo.net",
                          "restore.undo.linked", "raise")
  <2>1. pc = "restore.undo.link" /\ host'.net = host.net /\ host'.main = host.main
        /\ host'.conf = host.conf /\ host'.mapped = host.mapped
    BY <1>14 DEF Runs
  <2>2. To("raise", kept) \/ To("restore.undo.net", kept) \/ To("restore.undo.linked", kept)
    BY <1>14 DEF Runs
  <2>3. ~Was.linked
    BY <1>4, <1>14 DEF Noting
  <2> QED BY <1>4, <1>5, <1>6, <2>1, <2>2, <2>3
<1>15. CASE Decides("restore.undo.linked", "restore.undo.net", Failed)
  <2>1. pc = "restore.undo.linked" /\ host' = host /\ To("restore.undo.net", Failed)
    BY <1>15 DEF Decides
  <2> QED BY <1>2, <1>4, <1>5, <2>1
<1>16. CASE kept.net /\ Decides("restore.undo.net", "restore.undo.move", kept)
  <2>1. pc = "restore.undo.net" /\ host' = host /\ To("restore.undo.move", kept)
    BY <1>16 DEF Decides
  <2> QED BY <1>4, <1>5, <2>1
<1>17. CASE ~kept.net /\ Runs("restore.undo.net", {[host EXCEPT !.net = FALSE]}, {}, "restore.undo.move",
                       "restore.undo.kept", "raise")
  <2>1. pc = "restore.undo.net" /\ host'.linked = host.linked /\ host'.main = host.main
        /\ host'.conf = host.conf /\ host'.mapped = host.mapped
    BY <1>17 DEF Runs
  <2>2. To("raise", kept) \/ To("restore.undo.move", kept) \/ To("restore.undo.kept", kept)
    BY <1>17 DEF Runs
  <2>3. ~Was.net
    BY <1>4, <1>17 DEF Noting
  <2> QED BY <1>4, <1>5, <1>6, <2>1, <2>2, <2>3
<1>18. CASE Decides("restore.undo.kept", "restore.undo.move", Failed)
  <2>1. pc = "restore.undo.kept" /\ host' = host /\ To("restore.undo.move", Failed)
    BY <1>18 DEF Decides
  <2> QED BY <1>2, <1>4, <1>5, <2>1
<1>19. CASE Moves("restore.undo.move", host.home \ host.bin, "home", "bin", "restore.undo.end", "restore.undo.lost")
  <2>1. /\ pc = "restore.undo.move" /\ \A f \in Fields \ {"home", "bin"} : host'[f] = host[f]
        /\ \/ To("restore.undo.move", kept) \/ To("restore.undo.lost", kept)
           \/ To("restore.undo.end", kept) /\ host' = host /\ host.home \ host.bin = {}
    BY <1>19, MovesOnly
  <2>2. host'.net = host.net /\ host'.linked = host.linked /\ host'.main = host.main
        /\ host'.conf = host.conf /\ host'.mapped = host.mapped
    BY <2>1
  <2>3. host' = host /\ host.home \ host.bin = {} => host'.home = {}
    BY DEF HermesRestores
  <2> QED BY <1>4, <1>5, <2>1, <2>2, <2>3
<1>20. CASE Decides("restore.undo.lost", "restore.undo.end", Failed)
  <2>1. pc = "restore.undo.lost" /\ host' = host /\ To("restore.undo.end", Failed)
    BY <1>20 DEF Decides
  <2> QED BY <1>2, <1>4, <1>5, <2>1
<1>21. CASE Decides("restore.undo.end", IF kept.failed THEN "manual" ELSE "rolledback", kept)
  BY <1>6, <1>7, <1>21 DEF Decides
<1> QED BY <1>8, <1>9, <1>10, <1>11, <1>12, <1>13, <1>14, <1>15, <1>16, <1>17, <1>18, <1>19, <1>20, <1>21 DEF HermesRestoreUndo

------------------------------------------------------------------------------
\* set_model_provider: what the roll-back has put back so far
UnsetModels == {"provider.undo.link", "provider.undo.joined", "provider.undo.end"}
UnsetToken  == UnsetModels \cup {"provider.undo.models", "provider.undo.wide"}
UnsetConfig == UnsetToken \cup {"provider.undo.token", "provider.undo.untold"}
ProvideBack(p, k, h) ==
  /\ h.conf = Was.conf /\ h.mapped = Was.mapped /\ h.net = Was.net /\ h.image = Was.image
  /\ h.skills = Was.skills /\ h.auth = Was.auth /\ h.asked = Was.asked
  /\ IF p = "set_model_provider" THEN h = Was ELSE k.was = Was
  /\ Was.linked => h.linked /\ ~k.linked
  /\ p \in {"provider.link", "provider.linked"} => ~Was.linked
  /\ p \in UnsetConfig => k.failed \/ (h.key = Was.key /\ h.model = Was.model)
  /\ p \in UnsetToken => k.failed \/ h.token = Was.token
  /\ p \in UnsetModels => k.failed \/ h.models = Was.models

\* a change of the settings leaves the rest alone
Besides == {"conf", "mapped", "net", "image", "skills", "auth", "asked", "proxy", "ingress"}
Spares(h) == \A f \in Besides : h[f] = host[f]

LEMMA SettingsSpare ==
  ASSUME DOMAIN host = Fields
  PROVE  /\ Spares(host) /\ Spares(WithToken) /\ Spares(WithKey) /\ Spares(WithModel) /\ Spares(Narrowed)
         /\ Spares(Unconfigured) /\ Spares(Widened) /\ Spares(ConfigBack) /\ Spares(TokenBack) /\ Spares(ModelsBack)
         /\ Spares([host EXCEPT !.linked = TRUE]) /\ Spares([host EXCEPT !.linked = FALSE])
         /\ \A h \in {host, WithToken, WithKey, WithModel, Narrowed, Unconfigured, Widened, ConfigBack, TokenBack, ModelsBack} :
              h.linked = host.linked
<1> USE DEF Spares, Besides, Fields
<1>1. \A h \in {host, WithToken, WithKey, WithModel} : Spares(h) /\ h.linked = host.linked
  BY DEF WithToken, WithKey, WithModel
<1>2. \A h \in {Narrowed, Unconfigured, Widened, ConfigBack} : Spares(h) /\ h.linked = host.linked
  BY DEF Narrowed, Unconfigured, Widened, ConfigBack
<1>3. \A h \in {TokenBack, ModelsBack} : Spares(h) /\ h.linked = host.linked
  BY DEF TokenBack, ModelsBack
<1>4. Spares([host EXCEPT !.linked = TRUE]) /\ Spares([host EXCEPT !.linked = FALSE])
  OBVIOUS
<1> QED BY <1>1, <1>2, <1>3, <1>4

LEMMA ProvidesBack ==
  ASSUME op = "set_model_provider", DOMAIN host = Fields, Local(kept), stack = <<>>, HermesProvider,
         CoreAs(host'), ProvideBack(pc, kept, host)
  PROVE  /\ (\E p, s, k : Went(p, s, k) /\ p # "idle" /\ ProvideBack(p, k, host')) \/ Reverts(PutBack(host') /\ SettingsAs(host'))
         /\ host'.proxy = host.proxy /\ host'.ingress = host.ingress
<1> DEFINE Ongoing == \E p, s, k : Went(p, s, k) /\ p # "idle" /\ ProvideBack(p, k, host')
           Goal == (Ongoing \/ Reverts(PutBack(host') /\ SettingsAs(host'))) /\ host'.proxy = host.proxy /\ host'.ingress = host.ingress
           Steps == Providing \ {"set_model_provider"}
<1> SUFFICES Goal
  OBVIOUS
<1>1. \A t, k : To(t, k) => IF t \in Results THEN Ended(t) ELSE Went(t, <<>>, k)
  BY Alone
<1>2. /\ Failing.failed = TRUE /\ Failing.was = kept.was /\ Failing.linked = kept.linked
      /\ Locals([linked |-> TRUE]).was = kept.was
      /\ \A m : Locals([wanted |-> m, was |-> host]).was = host /\ Locals([wanted |-> m, was |-> host]).linked = kept.linked
  BY DEF Failing, Locals, Local, LocalNames
<1>3. Steps \cap Results = {} /\ "idle" \notin Steps /\ UnsetConfig \subseteq Steps /\ {"provider.link", "provider.linked"} \subseteq Steps
  BY DEF Providing, Results, UnsetConfig, UnsetToken, UnsetModels
<1>4. Spares(host') => host'.proxy = host.proxy /\ host'.ingress = host.ingress
  BY DEF Spares, Besides
<1>5. ASSUME NEW t \in Steps, NEW k, To(t, k), Spares(host'), k.was = Was, Was.linked => host'.linked /\ ~k.linked,
             t \in {"provider.link", "provider.linked"} => ~Was.linked,
             t \in UnsetConfig => k.failed \/ (host'.key = Was.key /\ host'.model = Was.model),
             t \in UnsetToken => k.failed \/ host'.token = Was.token,
             t \in UnsetModels => k.failed \/ host'.models = Was.models
      PROVE  Goal
  <2>1. Went(t, <<>>, k) /\ t # "idle" /\ t # "set_model_provider"
    BY <1>1, <1>3, <1>5
  <2>2. ProvideBack(t, k, host')
    BY <1>5, <2>1 DEF ProvideBack, Spares, Besides
  <2> QED BY <1>4, <1>5, <2>1, <2>2
<1>6. pc # "set_model_provider" => kept.was = Was
  BY DEF ProvideBack
<1>7. Was.linked => host.linked /\ ~kept.linked
  BY DEF ProvideBack
<1>8. UnsetModels \subseteq UnsetToken /\ UnsetToken \subseteq UnsetConfig
  BY DEF UnsetConfig, UnsetToken
<1>9. ASSUME pc # "set_model_provider", NEW t \in Steps \ (UnsetConfig \cup {"provider.link", "provider.linked"}), To(t, kept),
             Spares(host'), host'.linked = host.linked
      PROVE  Goal
  BY <1>5, <1>6, <1>7, <1>8, <1>9
<1>10. ASSUME NEW r \in Results \ {"rolledback"}, To(r, kept), Spares(host') PROVE Goal
  BY <1>1, <1>4, <1>10 DEF Reverts
<1>11. ASSUME pc = "provider.undo.end", ~kept.failed, host' = host, To("rolledback", kept)
       PROVE  Goal
  <2>1. PutBack(host') /\ SettingsAs(host')
    BY <1>11 DEF ProvideBack, UnsetConfig, UnsetToken, UnsetModels, PutBack, SettingsAs, CoreAs, DataAs
  <2>2. Ended("rolledback")
    BY <1>1, <1>11 DEF Results
  <2>3. "rolledback" \in Results
    BY DEF Results
  <2> QED BY <1>11, <2>1, <2>2, <2>3 DEF Reverts
<1> HIDE DEF Goal, Steps
<1>12. /\ {"ok", "fail", "raise", "manual"} \subseteq Results \ {"rolledback"}
       /\ {"provider.models", "provider.token", "provider.look", "provider.model", "provider.url", "provider.key",
           "provider.mode", "provider.narrow", "provider.undo", "provider.undo.config"}
          \subseteq Steps \ (UnsetConfig \cup {"provider.link", "provider.linked"})
       /\ UnsetConfig \cup {"provider.link", "provider.linked"} \subseteq Steps
  BY DEF Results, Steps, Providing, UnsetConfig, UnsetToken, UnsetModels
<1>13. CASE Provide(IF host.home = Parts THEN "provider.models" ELSE "fail")
  <2>1. host' = host /\ pc = "set_model_provider" /\ host = Was /\ Spares(host')
    BY <1>13, SettingsSpare DEF Provide, Decides, ProvideBack
  <2>2. To("fail", kept) \/ \E m : To(IF host.home = Parts THEN "provider.models" ELSE "fail", Locals([wanted |-> m, was |-> host]))
    BY <1>13 DEF Provide, Decides
  <2>3. CASE To("fail", kept)
    BY <1>10, <1>12, <2>1, <2>3
  <2>4. ASSUME NEW m, To("fail", Locals([wanted |-> m, was |-> host])) PROVE Goal
    BY <1>1, <1>4, <1>12, <2>1, <2>4 DEF Reverts, Goal
  <2>5. ASSUME NEW m, To("provider.models", Locals([wanted |-> m, was |-> host])) PROVE Goal
    BY <1>2, <1>5, <1>7, <1>8, <1>12, <2>1, <2>5
  <2> QED BY <2>2, <2>3, <2>4, <2>5
<1>14. ASSUME NEW at, at # "set_model_provider", NEW h, Spares(h), h.linked = host.linked, NEW next, NEW exc,
              Writes(at, h, {}, next, exc) \/ Runs(at, {h}, {}, next, exc, exc),
              next \in (Steps \ (UnsetConfig \cup {"provider.link", "provider.linked"})) \cup {"ok"},
              exc \in Steps \ (UnsetConfig \cup {"provider.link", "provider.linked"})
       PROVE  Goal
  <2>1. pc = at /\ (host' = h \/ host' = host) /\ (To(next, kept) \/ To(exc, kept))
    BY <1>14 DEF Writes, Runs
  <2>2. Spares(host') /\ host'.linked = host.linked
    BY <1>14, <2>1, SettingsSpare
  <2> QED BY <1>9, <1>10, <1>12, <1>14, <2>1, <2>2
<1>15. CASE Writes("provider.models", Widened, {},
            IF host.token = "none" THEN "provider.token" ELSE "provider.look", "provider.undo")
  <2>1. (IF host.token = "none" THEN "provider.token" ELSE "provider.look")
           \in (Steps \ (UnsetConfig \cup {"provider.link", "provider.linked"})) \cup {"ok"}
    BY <1>12
  <2> QED BY <1>12, <1>14, <1>15, <2>1, SettingsSpare
<1>16. CASE Writes("provider.token", WithToken, {}, "provider.look", "provider.undo")
  BY <1>12, <1>14, <1>16, SettingsSpare
<1>17. CASE Reads("provider.look", TRUE, kept, IF host.linked THEN "provider.model" ELSE "provider.link",
           "provider.undo", "provider.undo")
  <2>1. pc = "provider.look" /\ host' = host /\ Spares(host')
    BY <1>17, SettingsSpare DEF Reads
  <2>2. To("provider.undo", kept) \/ (To("provider.model", kept) /\ host.linked) \/ (To("provider.link", kept) /\ ~host.linked)
    BY <1>17 DEF Reads
  <2>3. "provider.link" \notin UnsetConfig
    BY DEF UnsetConfig, UnsetToken, UnsetModels
  <2> QED BY <1>5, <1>6, <1>7, <1>8, <1>9, <1>12, <2>1, <2>2, <2>3
<1>18. CASE Runs("provider.link", {[host EXCEPT !.linked = TRUE]}, {}, "provider.linked",
          "provider.undo", "provider.undo")
  <2>1. pc = "provider.link" /\ Spares(host') /\ ~Was.linked
    BY <1>18, SettingsSpare DEF Runs, ProvideBack
  <2>2. To("provider.undo", kept) \/ To("provider.linked", kept)
    BY <1>18 DEF Runs
  <2>3. "provider.linked" \notin UnsetConfig /\ "provider.undo" \notin UnsetConfig
    BY DEF UnsetConfig, UnsetToken, UnsetModels
  <2> QED BY <1>5, <1>6, <1>8, <1>12, <2>1, <2>2, <2>3
<1>19. CASE Decides("provider.linked", "provider.model", Locals([linked |-> TRUE]))
  <2>1. pc = "provider.linked" /\ host' = host /\ Spares(host') /\ ~Was.linked /\ To("provider.model", Locals([linked |-> TRUE]))
    BY <1>19, SettingsSpare DEF Decides, ProvideBack
  <2> QED BY <1>2, <1>5, <1>6, <1>8, <1>12, <2>1
<1>20. CASE Runs("provider.model", {WithModel}, {}, "provider.url", "provider.undo", "provider.undo")
  BY <1>12, <1>14, <1>20, SettingsSpare
<1>21. CASE Runs("provider.url", {host}, {}, "provider.key", "provider.undo", "provider.undo")
  BY <1>12, <1>14, <1>21, SettingsSpare
<1>22. CASE Runs("provider.key", {WithKey}, {}, "provider.mode", "provider.undo", "provider.undo")
  BY <1>12, <1>14, <1>22, SettingsSpare
<1>23. CASE Runs("provider.mode", {host}, {}, "provider.narrow", "provider.undo", "provider.undo")
  BY <1>12, <1>14, <1>23, SettingsSpare
<1>24. CASE Writes("provider.narrow", Narrowed, {}, "ok", "provider.undo")
  BY <1>12, <1>14, <1>24, SettingsSpare
<1>25. CASE Writes("provider.undo", ConfigBack, {Unconfigured}, "provider.undo.token", "provider.undo.config")
  <2>1. pc = "provider.undo" /\ Spares(host') /\ host'.linked = host.linked
    BY <1>25, SettingsSpare DEF Writes
  <2>2. (To("provider.undo.token", kept) /\ host' = ConfigBack) \/ To("provider.undo.config", kept)
    BY <1>25 DEF Writes
  <2>3. host' = ConfigBack => host'.key = Was.key /\ host'.model = Was.model
    BY <1>6, <2>1 DEF ConfigBack, Fields
  <2>4. "provider.undo.token" \notin UnsetToken /\ "provider.undo.token" \in UnsetConfig
    BY DEF UnsetConfig, UnsetToken, UnsetModels
  <2> QED BY <1>5, <1>6, <1>7, <1>8, <1>9, <1>12, <2>1, <2>2, <2>3, <2>4
<1>26. ASSUME NEW at, at # "set_model_provider", NEW t \in UnsetConfig, Decides(at, t, Failing)
       PROVE  Goal
  <2>1. pc = at /\ host' = host /\ Spares(host') /\ To(t, Failing)
    BY <1>26, SettingsSpare DEF Decides
  <2>2. t \notin {"provider.link", "provider.linked"}
    BY <1>26 DEF UnsetConfig, UnsetToken, UnsetModels
  <2> QED BY <1>2, <1>5, <1>6, <1>7, <1>12, <1>26, <2>1, <2>2
<1>27. /\ "provider.undo.token" \in UnsetConfig
       /\ {"provider.undo.models", "provider.undo.wide"} \subseteq UnsetToken
       /\ {"provider.undo.link", "provider.undo.joined", "provider.undo.end"} \subseteq UnsetModels
       /\ {"provider.undo.token", "provider.undo.untold"} \cap UnsetToken = {}
       /\ {"provider.undo.models", "provider.undo.wide"} \cap UnsetModels = {}
       /\ "provider.undo.untold" \in UnsetConfig
       /\ UnsetConfig \cap {"provider.link", "provider.linked"} = {}
  BY DEF UnsetConfig, UnsetToken, UnsetModels
<1>28. CASE Decides("provider.undo.config", "provider.undo.token", Failing)
  BY <1>26, <1>27, <1>28
<1>29. CASE Writes("provider.undo.token", TokenBack, {}, "provider.undo.models", "provider.undo.untold")
  <2>1. pc = "provider.undo.token" /\ Spares(host') /\ host'.linked = host.linked
    BY <1>29, SettingsSpare DEF Writes
  <2>2. /\ kept.failed \/ (host.key = Was.key /\ host.model = Was.model)
        /\ (To("provider.undo.models", kept) /\ host' = TokenBack) \/ (To("provider.undo.untold", kept) /\ host' = host)
    BY <1>27, <1>29 DEF Writes, ProvideBack
  <2>3. host' = TokenBack => host'.token = Was.token /\ host'.key = host.key /\ host'.model = host.model
    BY <1>6, <2>1 DEF TokenBack, Fields
  <2> QED BY <1>5, <1>6, <1>7, <1>8, <1>12, <1>27, <2>1, <2>2, <2>3
<1>30. CASE Decides("provider.undo.untold", "provider.undo.models", Failing)
  BY <1>8, <1>26, <1>27, <1>30
<1>31. CASE Writes("provider.undo.models", ModelsBack, {}, "provider.undo.link", "provider.undo.wide")
  <2>1. pc = "provider.undo.models" /\ Spares(host') /\ host'.linked = host.linked
    BY <1>31, SettingsSpare DEF Writes
  <2>2. /\ kept.failed \/ (host.key = Was.key /\ host.model = Was.model)
        /\ kept.failed \/ host.token = Was.token
        /\ (To("provider.undo.link", kept) /\ host' = ModelsBack) \/ (To("provider.undo.wide", kept) /\ host' = host)
    BY <1>8, <1>27, <1>31 DEF Writes, ProvideBack
  <2>3. host' = ModelsBack => /\ host'.models = Was.models /\ host'.token = host.token /\ host'.key = host.key
                              /\ host'.model = host.model
    BY <1>6, <2>1 DEF ModelsBack, Fields
  <2> QED BY <1>5, <1>6, <1>7, <1>8, <1>12, <1>27, <2>1, <2>2, <2>3
<1>32. CASE Decides("provider.undo.wide", "provider.undo.link", Failing)
  BY <1>8, <1>26, <1>27, <1>32
<1>33. ASSUME pc \in UnsetModels
       PROVE  kept.failed \/ (host.key = Was.key /\ host.model = Was.model /\ host.token = Was.token /\ host.models = Was.models)
  BY <1>8, <1>33 DEF ProvideBack
<1>34. CASE ~kept.linked /\ Decides("provider.undo.link", "provider.undo.end", kept)
  <2>1. pc = "provider.undo.link" /\ host' = host /\ Spares(host') /\ To("provider.undo.end", kept)
    BY <1>34, SettingsSpare DEF Decides
  <2> QED BY <1>5, <1>6, <1>7, <1>8, <1>12, <1>27, <1>33, <2>1
<1>35. CASE kept.linked /\ Runs("provider.undo.link", {[host EXCEPT !.linked = FALSE]}, {},
                         "provider.undo.end", "provider.undo.joined", "provider.undo.joined")
  <2>1. pc = "provider.undo.link" /\ Spares(host') /\ (To("provider.undo.end", kept) \/ To("provider.undo.joined", kept))
    BY <1>35, SettingsSpare DEF Runs
  <2>2. host'.key = host.key /\ host'.model = host.model /\ host'.token = host.token /\ host'.models = host.models
    BY <1>35 DEF Runs, Fields
  <2>3. ~Was.linked
    BY <1>7, <1>35
  <2> QED BY <1>5, <1>6, <1>8, <1>12, <1>27, <1>33, <2>1, <2>2, <2>3
<1>36. CASE Decides("provider.undo.joined", "provider.undo.end", Failing)
  BY <1>8, <1>26, <1>27, <1>36
<1>37. CASE Decides("provider.undo.end", IF kept.failed THEN "manual" ELSE "rolledback", kept)
  <2>1. pc = "provider.undo.end" /\ host' = host /\ Spares(host') /\ To(IF kept.failed THEN "manual" ELSE "rolledback", kept)
    BY <1>37, SettingsSpare DEF Decides
  <2>2. (kept.failed /\ To("manual", kept)) \/ (~kept.failed /\ To("rolledback", kept))
    BY <2>1
  <2> QED BY <1>10, <1>11, <1>12, <2>1, <2>2
<1> QED BY <1>13, <1>15, <1>16, <1>17, <1>18, <1>19, <1>20, <1>21, <1>22, <1>23, <1>24, <1>25, <1>28, <1>29, <1>30,
           <1>31, <1>32, <1>34, <1>35, <1>36, <1>37 DEF HermesProvider, ProxyJoins

------------------------------------------------------------------------------
(* A manifest is in the entry that is listed, and in no other. *)

\* the callers there are in the Hermes adapter
Outside == {Retracting, Passing, Outlet, Retracts, RestoreFrom, PublishFrom, HaltFrom}
Nested ==
  \/ stack = <<>>
  \/ \E c \in Outside : stack = <<c>>
  \/ \E c, d \in Outside : stack = <<c, d>>
  \/ \E c, d, e \in Outside : stack = <<c, d, e>>

LEMMA HermesNests ==
  ASSUME op \in HermesRequest, HermesUnder
  PROVE  Nested
<1> USE DEF Nested, Outside
<1>1. ASSUME HDeletes PROVE Nested
  BY <1>1 DEF HDeletes, Above, Over, Over2, Outlet
<1>2. CASE op \in {"start", "stop", "restart", "set_model_provider", "purge_deleted"}
  BY <1>2 DEF HermesUnder, HStarts, HStops, HRestarts, Sets, HPurges
<1>3. CASE op = "update_version"
  BY <1>3 DEF HermesUnder, HUpdates, HaltFrom
<1>4. CASE op = "refresh_ingress"
  BY <1>4 DEF HermesUnder, HRefreshes, Passing
<1>5. CASE op = "delete"
  BY <1>1, <1>5 DEF HermesUnder
<1>6. CASE op = "create"
  BY <1>1, <1>6 DEF HermesUnder, HCreates
<1>7. CASE op = "restore"
  BY <1>7 DEF HermesUnder, HRestores
<1> QED BY <1>2, <1>3, <1>4, <1>5, <1>6, <1>7 DEF HermesRequest

LEMMA NoneAsks ==
  ASSUME Nested, NEW t, NEW k, To(t, k), t \notin Asking
  PROVE  pc' \notin Asking
<1>1. "idle" \notin Asking /\ Results \cap Asking = {}
  BY DEF Asking, Results
<1>2. \A c \in Outside : \A u : Answer(c, u) \notin Asking
  <2>1. ASSUME NEW a, NEW b, NEW c, a \notin Asking, b \notin Asking, c \notin Asking
        PROVE  \A u : Answer(Caller(a, b, c), u) \notin Asking
    BY <2>1 DEF Answer, Caller
  <2>2. \A u : Answer(Retracting, u) \notin Asking /\ Answer(Passing, u) \notin Asking /\ Answer(Outlet, u) \notin Asking
    BY <2>1 DEF Asking, Retracting, Passing, Outlet
  <2>3. \A u : Answer(Retracts, u) \notin Asking /\ Answer(RestoreFrom, u) \notin Asking /\ Answer(HaltFrom, u) \notin Asking
    BY <2>1 DEF Asking, Retracts, RestoreFrom, HaltFrom
  <2>4. \A u : Answer(PublishFrom, u) \notin Asking
    BY <2>1 DEF Asking, PublishFrom
  <2> QED BY <2>2, <2>3, <2>4 DEF Outside
<1>3. CASE t \notin Results
  BY <1>3, Within DEF Went
<1>4. CASE t \in Results /\ stack = <<>>
  BY <1>1, <1>4, NoCaller DEF Ended
<1>5. ASSUME t \in Results, NEW c \in Outside, stack = <<c>>
      PROVE  pc' \notin Asking
  BY <1>1, <1>2, <1>5, OneCaller DEF Ended, Went
<1>6. ASSUME t \in Results, NEW c \in Outside, NEW d \in Outside, stack = <<c, d>>
      PROVE  pc' \notin Asking
  BY <1>1, <1>2, <1>6, TwoCallers DEF Ended, Went
<1>7. ASSUME t \in Results, NEW c \in Outside, NEW d \in Outside, NEW e \in Outside, stack = <<c, d, e>>
      PROVE  pc' \notin Asking
  BY <1>1, <1>2, <1>7, ThreeCallers DEF Ended, Went
<1> QED BY <1>3, <1>4, <1>5, <1>6, <1>7 DEF Nested

\* the entry and its manifest as they are
SameEntry(h) == h.recycle = host.recycle /\ h.note = host.note

LEMMA EntryLeft ==
  ASSUME DOMAIN host = Fields, Nested,
         HermesStop \/ HermesStart \/ HermesRestart \/ HermesIngress \/ HermesRuntime \/ HermesCreate \/ HermesUpdate
           \/ HermesRestoreUndo
  PROVE  SameEntry(host') /\ pc' \notin Asking
<1>1. CASE HermesStop
  <2>1. SameEntry(host')
    BY <1>1 DEF HermesStop, Decides, Writes, Runs, Tries, Reloaded, Loaded, Stopped, SameEntry, Fields
  <2>2. \E t, k : To(t, k) /\ t \notin Asking
    BY <1>1 DEF HermesStop, Decides, Writes, Runs, Tries, Asking
  <2> QED BY <2>1, <2>2, NoneAsks
<1>2. CASE HermesStart
  <2>1. SameEntry(host')
    BY <1>2 DEF HermesStart, WaitForDashboard, Decides, Reads, Writes, Runs, Tries, Reloaded, Loaded, Stopped, Started, SameEntry, Fields
  <2>2. \E t, k : To(t, k) /\ t \notin Asking
    BY <1>2 DEF HermesStart, WaitForDashboard, Decides, Reads, Writes, Runs, Tries, Asking
  <2> QED BY <2>1, <2>2, NoneAsks
<1>3. CASE HermesRestart
  <2>1. SameEntry(host')
    BY <1>3 DEF HermesRestart, WaitForDashboard, Reads, Runs, Started, SameEntry, Fields
  <2>2. \E t, k : To(t, k) /\ t \notin Asking
    BY <1>3 DEF HermesRestart, WaitForDashboard, Reads, Runs, Asking
  <2> QED BY <2>1, <2>2, NoneAsks
<1>4. CASE HermesIngress
  <2>1. SameEntry(host')
    BY <1>4, Effects DEF HermesIngress, Reads, Writes, Runs, Tries, Calls, SameEntry, Fields, Aside, Beside
  <2>2. (\E t, k : To(t, k) /\ t \notin Asking) \/ pc' = "ingress"
    BY <1>4 DEF HermesIngress, Reads, Writes, Runs, Tries, Calls, Asking
  <2> QED BY <2>1, <2>2, NoneAsks DEF Asking
<1>5. CASE HermesRuntime
  <2>1. SameEntry(host')
    BY <1>5, MainEffects DEF HermesRuntime, WaitForDashboard, Reads, Runs, Calls, SameEntry, Fields, Aside, Beside
  <2>2. (\E t, k : To(t, k) /\ t \notin Asking) \/ pc' \in {"ingress", "stop"}
    BY <1>5 DEF HermesRuntime, WaitForDashboard, Reads, Runs, Calls, Asking
  <2> QED BY <2>1, <2>2, NoneAsks DEF Asking
<1>6. CASE HermesCreate
  <2>1. SameEntry(host')
    BY <1>6, MainEffects DEF HermesCreate, WaitForDashboard, Decides, Reads, Writes, Runs, Tries, Calls, SameEntry, Fields, Aside, Beside
  <2>2. (\E t, k : To(t, k) /\ t \notin Asking) \/ pc' \in {"ingress", "delete"}
    BY <1>6 DEF HermesCreate, WaitForDashboard, Decides, Reads, Writes, Runs, Tries, Calls, Asking
  <2> QED BY <2>1, <2>2, NoneAsks DEF Asking
<1>7. CASE HermesUpdate
  <2>1. SameEntry(host')
    BY <1>7, MainEffects DEF HermesUpdate, WaitForDashboard, Decides, Reads, Writes, Runs, Tries, Calls, SameEntry, Fields, Aside, Beside
  <2>2. (\E t, k : To(t, k) /\ t \notin Asking) \/ pc' \in {"stop"}
    BY <1>7 DEF HermesUpdate, WaitForDashboard, Decides, Reads, Writes, Runs, Tries, Calls, Asking
  <2> QED BY <2>1, <2>2, NoneAsks DEF Asking
<1>8. CASE HermesRestoreUndo
  <2>1. SameEntry(host')
    <3>1. ASSUME NEW S, NEW next, NEW exc, Moves("restore.undo.move", S, "home", "bin", next, exc) PROVE SameEntry(host')
      BY <3>1, MovesOnly DEF SameEntry, Fields
    <3> QED BY <1>8, <3>1, Effects, MainEffects DEF HermesRestoreUndo, OldIngress, Decides, Writes, Runs, SameEntry, Fields, Aside, Beside
  <2>2. (\E t, k : To(t, k) /\ t \notin Asking)
    <3>1. ASSUME NEW S, Moves("restore.undo.move", S, "home", "bin", "restore.undo.end", "restore.undo.lost")
          PROVE \E t, k : To(t, k) /\ t \notin Asking
      <4>1. \/ To("restore.undo.end", kept) \/ To("restore.undo.move", kept) \/ To("restore.undo.lost", kept)
        BY <3>1 DEF Moves, Writes
      <4> QED BY <4>1 DEF Asking
    <3> QED BY <1>8, <3>1 DEF HermesRestoreUndo, Decides, Writes, Runs, Asking
  <2> QED BY <2>1, <2>2, NoneAsks DEF Asking
<1> QED BY <1>1, <1>2, <1>3, <1>4, <1>5, <1>6, <1>7, <1>8

LEMMA NotesOn ==
  ASSUME DOMAIN host = Fields, Nested, HermesStep \/ HermesProvider, Notes(host), pc \in Asking => host.recycle = "none"
  PROVE  Notes(host') /\ (pc' \in Asking => host'.recycle = "none")
<1> DEFINE Tidy == Notes(host') /\ (pc' \in Asking => host'.recycle = "none")
           Past(t) == t \notin Asking
<1> SUFFICES Tidy
  OBVIOUS
<1>1. \A t, k : To(t, k) /\ Past(t) => pc' \notin Asking
  BY NoneAsks
<1>2. \A h : SameEntry(h) => Notes(h)
  BY DEF SameEntry, Notes
<1>3. \A h : Aside(h) \/ Beside(h) => Notes(h)
  BY <1>2 DEF Aside, Beside, SameEntry
<1>4. /\ Notes(host) /\ \A h \in Reloaded \cup Applied : Notes(h)
      /\ \A h \in Started("main") \cup Stopped("main") \cup Removed({"main"}) : Notes(h)
      /\ \A i : \A h \in RanMain(i) \cup CreatedMain(i) : Notes(h)
  BY <1>3, Effects, MainEffects
<1>5. \A x, y, z : /\ Notes([host EXCEPT !.conf = x]) /\ Notes([host EXCEPT !.conf = x, !.mapped = y])
                   /\ Notes([host EXCEPT !.net = x]) /\ Notes([host EXCEPT !.linked = x])
                   /\ Notes([host EXCEPT !.home = x])
                   /\ Notes([host EXCEPT !.recycle = x, !.note = NoNote])
                   /\ Notes([host EXCEPT !.recycle = x, !.note = NoNote, !.bin = z])
                   /\ Notes([host EXCEPT !.recycle = x, !.bin = y, !.note = NoNote])
                   /\ Notes([host EXCEPT !.recycle = "listed", !.note = x])
  BY DEF Notes, Fields
<1>6. \A at, t, k : Decides(at, t, k) /\ Past(t) => Tidy
  BY <1>1 DEF Decides
<1>7. \A at, f, k, a, b, c : Calls(at, f, k, a, b, c) /\ Past(f) => Tidy
  BY DEF Calls
<1>8. \A at, found, k, next, bad, exc : Reads(at, found, k, next, bad, exc) /\ Past(next) /\ Past(bad) /\ Past(exc) => Tidy
  BY <1>1 DEF Reads
<1>9. \A at, h, part, next, exc : Writes(at, h, part, next, exc) /\ Past(next) /\ Past(exc) /\ Notes(h)
                                  /\ (\A g \in part : Notes(g)) => Tidy
  BY <1>1 DEF Writes
<1>10. \A at, good, k, next, exc : Tries(at, good, k, next, exc) /\ Past(next) /\ Past(exc) /\ (\A h \in good : Notes(h)) => Tidy
  BY <1>1 DEF Tries
<1>11. ASSUME NEW at, NEW S, NEW from \in {"home", "bin"}, NEW to \in {"home", "bin"}, NEW next, NEW exc,
              Moves(at, S, from, to, next, exc), Past(at), Past(next), Past(exc)
       PROVE  Tidy
  <2>1. /\ \A f \in Fields \ {"home", "bin"} : host'[f] = host[f]
        /\ To(next, kept) \/ To(at, kept) \/ To(exc, kept)
    BY <1>11, MovesOnly
  <2>2. SameEntry(host')
    BY <2>1 DEF SameEntry, Fields
  <2> QED BY <1>1, <1>2, <1>11, <2>1, <2>2
<1> HIDE DEF Tidy
<1> USE DEF Asking
<1>12. CASE HermesProvider
  <2>1. PICK k, t : t \in ProvideSteps \cup {"ok"} /\ To(t, k)
    BY <1>12, HermesProvides DEF Provides
  <2>2. Aside(host')
    BY <1>12, HermesProvides DEF Provides
  <2>3. Past(t)
    BY <2>1 DEF ProvideSteps, Providing
  <2> QED BY <1>1, <1>3, <2>1, <2>2, <2>3 DEF Tidy
<1>13. CASE \/ HermesStop \/ HermesStart \/ HermesRestart \/ HermesIngress \/ HermesRuntime \/ HermesCreate \/ HermesUpdate
          \/ HermesRestoreUndo
  BY <1>2, <1>13, EntryLeft DEF Tidy
<1>14. CASE HermesDelete
  <2> DEFINE k0 == Locals([image |-> host.image, running |-> host.main = "running",
                   conf |-> host.conf, mapped |-> host.mapped])
  <2> HIDE DEF k0
  <2>1. CASE Decides("delete", IF host.home = Parts /\ host.recycle = "none" THEN "delete.inspect" ELSE "fail", kept)
    <3>1. CASE host.recycle = "none"
      BY <2>1, <3>1 DEF Decides, Tidy
    <3>2. CASE host.recycle # "none"
      BY <1>6, <2>1, <3>2
    <3> QED BY <3>1, <3>2
  <2>2. CASE Reads("delete.inspect", host.main # "none", k0, "delete.ingress", "fail", "raise")
    BY <2>2 DEF Reads, Tidy
  <2>3. CASE Writes("delete.ingress", [host EXCEPT !.conf = {}, !.mapped = FALSE],
            {[host EXCEPT !.conf = {}]}, "delete.reload", "raise")
    <3>1. SameEntry(host') /\ pc = "delete.ingress"
      BY <2>3 DEF Writes, SameEntry, Fields
    <3> QED BY <1>2, <3>1 DEF SameEntry, Tidy
  <2>4. CASE Runs("delete.reload", Reloaded, {}, "delete.remove", "delete.back", "raise")
    <3>1. SameEntry(host') /\ pc = "delete.reload"
      BY <2>4, Effects DEF Runs, SameEntry, Aside, Beside
    <3> QED BY <1>2, <3>1 DEF SameEntry, Tidy
  <2>5. CASE Runs("delete.remove", Removed({"main"}), {}, "delete.entry", "delete.back", "raise")
    <3>1. SameEntry(host') /\ pc = "delete.remove"
      BY <2>5, MainEffects DEF Runs, SameEntry, Beside
    <3> QED BY <1>2, <3>1 DEF SameEntry, Tidy
  <2>6. CASE Writes("delete.back", OldIngress, {}, "delete.again", "raise")
    <3>1. Notes(OldIngress)
      BY <1>5 DEF OldIngress
    <3> QED BY <1>9, <2>6, <3>1
  <2>7. CASE Tries("delete.again", Reloaded, kept, "fail", "raise")
    BY <1>4, <1>10, <2>7
  <2>8. CASE Writes("delete.entry", [host EXCEPT !.recycle = "dir"], {}, "delete.move", "delete.undo")
    <3>1. pc = "delete.entry" /\ (host' = host \/ host' = [host EXCEPT !.recycle = "dir"]) /\ (To("delete.move", kept) \/ To("delete.undo", kept))
      BY <2>8 DEF Writes
    <3>2. host.note = NoNote
      BY <3>1 DEF Notes
    <3>3. Notes(host')
      BY <3>1, <3>2 DEF Notes, Fields
    <3> QED BY <1>1, <3>1, <3>3 DEF Tidy
  <2>9. CASE Moves("delete.move", host.home, "home", "bin", "delete.list", "delete.undo")
    BY <1>11, <2>9
  <2>10. CASE Writes("delete.list", [host EXCEPT !.recycle = "listed",
                              !.note = [image |-> kept.image, running |-> kept.running]],
            {}, "delete.unlink", "delete.undo")
    <3> DEFINE h == [host EXCEPT !.recycle = "listed", !.note = [image |-> kept.image, running |-> kept.running]]
    <3>1. Notes(h)
      BY <1>5
    <3>2. Writes("delete.list", h, {}, "delete.unlink", "delete.undo")
      BY <2>10
    <3> HIDE DEF h
    <3> QED BY <1>9, <3>1, <3>2
  <2>11. CASE Runs("delete.unlink", {[host EXCEPT !.linked = FALSE]}, {[host EXCEPT !.linked = FALSE]},
          "delete.net", "delete.undo", "raise")
    <3>1. SameEntry(host') /\ \E t, k : To(t, k) /\ t \notin Asking
      BY <2>11 DEF Runs, SameEntry, Fields
    <3> QED BY <1>1, <1>2, <3>1 DEF Tidy
  <2>12. CASE Runs("delete.net", {[host EXCEPT !.net = FALSE]}, {}, "ok", "delete.undo", "raise")
    <3>1. SameEntry(host') /\ \E t, k : To(t, k) /\ t \notin Asking
      BY <2>12 DEF Runs, SameEntry, Fields
    <3> QED BY <1>1, <1>2, <3>1 DEF Tidy
  <2> QED BY <1>14, <2>1, <2>2, <2>3, <2>4, <2>5, <2>6, <2>7, <2>8, <2>9, <2>10, <2>11, <2>12 DEF HermesDelete, k0
<1>15. CASE HermesDeleteUndo
  <2>1. Notes(EntryGone)
    BY <1>5 DEF EntryGone
  <2>2. CASE Moves("delete.undo", host.bin \ host.home, "bin", "home", "delete.undo.entry", "raise")
    <3>1. "bin" \in {"home", "bin"} /\ "home" \in {"home", "bin"}
      OBVIOUS
    <3>2. Past("delete.undo") /\ Past("delete.undo.entry") /\ Past("raise")
      OBVIOUS
    <3> QED BY <1>11, <2>2, <3>1, <3>2, Zenon
  <2>3. CASE Tries("delete.undo.entry", {EntryGone}, kept, "delete.undo.runtime", "delete.undo.runtime")
    BY <1>10, <2>1, <2>3
  <2>4. CASE Calls("delete.undo.runtime", "runtime", kept, "rolledback", "manual", "raise")
    BY <1>7, <2>4
  <2> QED BY <1>15, <2>2, <2>3, <2>4 DEF HermesDeleteUndo
<1>16. CASE HermesRestore
  <2>1. Notes([host EXCEPT !.recycle = "none", !.note = NoNote]) /\ Notes([host EXCEPT !.recycle = "dir", !.note = NoNote])
    BY <1>5
  <2>2. CASE Writes("restore.entry", [host EXCEPT !.recycle = "none", !.note = NoNote],
            {[host EXCEPT !.recycle = "dir", !.note = NoNote]}, "ok", "restore.undo")
    BY <1>9, <2>1, <2>2
  <2>3. CASE Moves("restore.move", host.bin, "bin", "home", "restore.client", "restore.undo")
    <3>1. "bin" \in {"home", "bin"} /\ "home" \in {"home", "bin"}
      OBVIOUS
    <3>2. Past("restore.move") /\ Past("restore.client") /\ Past("restore.undo")
      OBVIOUS
    <3> QED BY <1>11, <2>3, <3>1, <3>2, Zenon
  <2>4. CASE Writes("restore.client", host, {}, "restore.runtime", "restore.undo")
    BY <1>4, <1>9, <2>4
  <2> DEFINE k0 == Locals([image |-> host.note.image, running |-> host.note.running, net |-> host.net,
                   linked |-> host.linked, conf |-> host.conf, mapped |-> host.mapped])
  <2> HIDE DEF k0
  <2>5. CASE Decides("restore", IF host.home = {} /\ host.bin = Parts /\ host.recycle = "listed"
                        THEN "restore.look" ELSE "fail", kept)
    BY <1>6, <2>5
  <2>6. CASE Reads("restore.look", TRUE, k0, "restore.move", "fail", "raise")
    BY <1>8, <2>6
  <2>7. CASE Calls("restore.runtime", "runtime", kept, "restore.entry", "restore.undo", "restore.undo")
    BY <1>7, <2>7
  <2> QED BY <1>16, <2>2, <2>3, <2>4, <2>5, <2>6, <2>7 DEF HermesRestore, k0
<1>17. CASE HermesPurge
  <2>1. /\ Notes([host EXCEPT !.recycle = "none", !.bin = {}, !.note = NoNote])
        /\ Notes([host EXCEPT !.recycle = "dir", !.bin = {}, !.note = NoNote])
    BY DEF Notes, Fields
  <2> QED BY <1>6, <1>9, <1>17, <2>1 DEF HermesPurge
<1> QED BY <1>12, <1>13, <1>14, <1>15, <1>16, <1>17 DEF HermesStep

------------------------------------------------------------------------------
(* All the operations of Hermes. *)

\* which function works
LEMMA HermesWhere ==
  ASSUME DOMAIN host = Fields, HermesStep \/ HermesProvider
  PROVE  /\ pc \in HStop => HermesStop
         /\ pc \in HStart => HermesStart
         /\ pc \in HRestart => HermesRestart
         /\ pc \in HIngress \cup {"refresh_ingress"} => HermesIngress
         /\ pc \in HRuntime => HermesRuntime
         /\ pc \in HCreate => HermesCreate
         /\ pc \in HDelete => HermesDelete
         /\ pc \in HDeleteUndo => HermesDeleteUndo
         /\ pc \in HRestore => HermesRestore
         /\ pc \in HRestoreUndo => HermesRestoreUndo
         /\ pc \in {"purge_deleted", "purge.tree"} => HermesPurge
         /\ pc \in HUpdate \cup {"update_version"} => HermesUpdate
         /\ pc \in Providing => HermesProvider
<1>1. HermesProvider => pc \in Providing
  BY HermesProvides DEF Provides
<1> QED BY <1>1, HermesFunctions DEF HermesStep, HStop, HStart, HRestart, HIngress, HRuntime, HCreate, HDelete, HDeleteUndo, HRestore, HRestoreUndo, HUpdate, Providing

SettledAs(h) == (op # "set_model_provider" => SettingsAs(h)) /\ OthersAs(h)

LEMMA SettledOn ==
  ASSUME product = "hermes", DataInv, HermesStep, Whole(Was), SettledAs(host), op # "set_model_provider"
  PROVE  SettledAs(host')
<1>1. Same(host', KeyFields) /\ Calm(host')
  BY HermesCalm
<1>2. Was.auth = Was.asked
  BY DEF Whole, SettingsAgree
<1> QED BY <1>1, <1>2 DEF SettledAs, SettingsAs, OthersAs, Same, KeyFields, Calm

\* These operations never say "rolled back".
LEMMA PlainOn ==
  ASSUME op \in {"start", "stop", "restart", "refresh_ingress", "purge_deleted"}, DOMAIN host = Fields, Local(kept),
         HermesUnder, HermesStep \/ HermesProvider
  PROVE  (\E p, s, k : Went(p, s, k) /\ p # "idle") \/ Reverts(FALSE)
<1> DEFINE Goal == (\E p, s, k : Went(p, s, k) /\ p # "idle") \/ Reverts(FALSE)
           Plain == {"ok", "fail", "raise"}
<1> SUFFICES Goal
  OBVIOUS
<1>1. ASSUME stack = <<>>, NEW k, NEW t \in HStart \cup HStop \cup HRestart \cup {"purge.tree"} \cup Plain, To(t, k)
      PROVE  Goal
  <2>1. IF t \in Results THEN Ended(t) ELSE Went(t, <<>>, k)
    BY <1>1, Alone
  <2>2. t # "idle" /\ t # "rolledback"
    BY <1>1 DEF HStart, HStop, HRestart
  <2> QED BY <2>1, <2>2 DEF Reverts
<1> HIDE DEF Goal
<1>2. CASE op = "start"
  <2>1. pc \in HStart /\ stack = <<>>
    BY <1>2 DEF HermesUnder, HStarts
  <2>2. HermesStart
    BY <2>1, HermesWhere
  <2>3. \E t \in HStart \cup Plain : To(t, kept)
    BY <2>2 DEF HermesStart, WaitForDashboard, Decides, Reads, Writes, Runs, Tries, HStart
  <2> QED BY <1>1, <2>1, <2>3
<1>3. CASE op = "stop"
  <2>1. pc \in HStop /\ stack = <<>>
    BY <1>3 DEF HermesUnder, HStops
  <2>2. HermesStop
    BY <2>1, HermesWhere
  <2> QED BY <1>1, <2>1, <2>2, HermesStopping
<1>4. CASE op = "restart"
  <2>1. pc \in HRestart /\ stack = <<>>
    BY <1>4 DEF HermesUnder, HRestarts
  <2>2. HermesRestart
    BY <2>1, HermesWhere
  <2>3. \E t \in HRestart \cup Plain : To(t, kept)
    BY <2>2 DEF HermesRestart, WaitForDashboard, Reads, Runs, HRestart
  <2> QED BY <1>1, <2>1, <2>3
<1>5. CASE op = "purge_deleted"
  <2>1. pc \in {"purge_deleted", "purge.tree"} /\ stack = <<>>
    BY <1>5 DEF HermesUnder, HPurges
  <2>2. HermesPurge
    BY <2>1, HermesWhere
  <2>3. \E t \in {"purge.tree"} \cup Plain : To(t, kept)
    BY <2>2 DEF HermesPurge, Decides, Writes
  <2> QED BY <1>1, <2>1, <2>3
<1>6. CASE op = "refresh_ingress" /\ pc = "refresh_ingress"
  <2>1. HermesIngress
    BY <1>6, HermesWhere
  <2>2. Went("ingress", stack', kept')
    BY <1>6, <2>1 DEF HermesIngress, Reads, Writes, Runs, Tries, Calls, Went
  <2>3. \E p, s, k : Went(p, s, k) /\ p # "idle"
    BY <2>2
  <2> QED BY <2>3 DEF Goal
<1>7. CASE op = "refresh_ingress" /\ pc # "refresh_ingress"
  <2>1. pc \in HIngress /\ stack = <<Passing>>
    BY <1>7 DEF HermesUnder, HRefreshes, Passing
  <2>2. HermesIngress
    BY <2>1, HermesWhere
  <2>3. PICK k : \E t \in HIngress \cup Plain : To(t, k)
    BY <1>7, <2>2, HermesPublishing
  <2>4. PICK t \in HIngress \cup Plain : To(t, k)
    BY <2>3
  <2>5. CASE t \in HIngress
    <3>1. t \notin Results /\ t # "idle"
      BY <2>5 DEF HIngress, Results
    <3> QED BY <2>4, <3>1, Within DEF Goal
  <2>6. CASE t \in Plain
    <3>1. Answer(Passing, t) = t
      BY <2>6, Answers DEF Passing
    <3>2. t \in Results /\ t # "rolledback"
      BY <2>6 DEF Results
    <3>3. Ended(t)
      BY <2>1, <2>4, <3>1, <3>2, OneCaller
    <3> QED BY <3>2, <3>3 DEF Goal, Reverts
  <2> QED BY <2>4, <2>5, <2>6
<1> QED BY <1>2, <1>3, <1>4, <1>5, <1>6, <1>7

CourseAt(p, s, k, h, n) ==
  CASE op = "update_version" -> RenewBack(p, s, k, h)
    [] op = "delete" -> DropBack(p, s, k, h, n)
    [] op = "create" -> BuildBack(p, s, k, h, n)
    [] op = "restore" -> ReviveBack(p, s, k, h)
    [] op = "set_model_provider" -> ProvideBack(p, k, h)
    [] OTHER -> TRUE
BackAt(p, s, k, h, n) == SettledAs(h) /\ CourseAt(p, s, k, h, n)

\* an operation that has met one failure at most, on an instance that was sound
Slight == faults <= before.faults + 1 /\ Whole(Was)
Slighter == faults' <= before.faults + 1
Courses == (\E p, s, k : Went(p, s, k) /\ p # "idle" /\ CourseAt(p, s, k, host', faults'))
           \/ Reverts(PutBack(host') /\ (op = "set_model_provider" => SettingsAs(host')))

\* what is known of an operation before it takes its next step
Knows ==
  /\ product = "hermes" /\ DOMAIN host = Fields /\ Local(kept) /\ op \in HermesRequest /\ HermesUnder
  /\ HermesFit(host) /\ HermesFit(Was) /\ HermesRested(Was, row) /\ Admitted(op) /\ ~CleanedUp
  /\ Counted /\ Whole(Was) /\ (HermesStep \/ HermesProvider)

LEMMA UpdateOn ==
  ASSUME Knows, op = "update_version", CourseAt(pc, stack, kept, host, faults)
  PROVE  Courses
<1>1. HermesServes(host) /\ HUpdates /\ RenewBack(pc, stack, kept, host)
  BY DEF Knows, HermesUnder, CourseAt
<1>2. HermesUpdate \/ HermesStop
  BY <1>1, HermesWhere DEF HUpdates, Knows
<1>3. \/ \E p, s, k : Went(p, s, k) /\ p # "idle" /\ RenewBack(p, s, k, host')
      \/ Reverts(PutBack(host'))
  BY <1>1, <1>2, RenewsBack DEF Knows
<1> QED BY <1>3 DEF Courses, CourseAt, Reverts

LEMMA ProviderOn ==
  ASSUME Knows, op = "set_model_provider", CourseAt(pc, stack, kept, host, faults)
  PROVE  Courses /\ host'.proxy = host.proxy /\ host'.ingress = host.ingress
<1>1. CoreAs(host) /\ Sets /\ ProvideBack(pc, kept, host)
  BY DEF Knows, HermesUnder, CourseAt
<1>2. HermesProvider /\ stack = <<>>
  BY <1>1, HermesWhere DEF Sets, Knows
<1>3. CoreAs(host')
  BY <1>1, <1>2, HermesProvides, ProvidesOn DEF Knows
<1>4. /\ (\E p, s, k : Went(p, s, k) /\ p # "idle" /\ ProvideBack(p, k, host')) \/ Reverts(PutBack(host') /\ SettingsAs(host'))
      /\ host'.proxy = host.proxy /\ host'.ingress = host.ingress
  BY <1>1, <1>2, <1>3, ProvidesBack DEF Knows
<1> QED BY <1>4 DEF Courses, CourseAt, Reverts

LEMMA DeleteOn ==
  ASSUME Knows, op = "delete", CourseAt(pc, stack, kept, host, faults), Slighter, Notes(Was)
  PROVE  Courses
<1>1. DropBack(pc, stack, kept, host, faults)
  BY DEF CourseAt
<1>2. ASSUME faults > before.faults
      PROVE  ~Fault
  BY <1>2 DEF Fault, Slighter, Counted, Knows
<1>3. SUFFICES \/ \E p, s, k : Went(p, s, k) /\ p # "idle" /\ DropBack(p, s, k, host', faults')
               \/ Reverts(PutBack(host'))
  BY DEF Courses, CourseAt, Reverts
<1>4. CASE pc \in HDelete
  <2>1. stack = <<>> /\ (pc \in {"delete.entry", "delete.move", "delete.list", "delete.unlink", "delete.net"} => host.main = "none")
    BY <1>4 DEF Knows, HermesUnder, HDeletes, DeleteAt, Above, HDelete, HRuntime, HIngress, HStop
  <2>2. HermesDelete
    BY <1>4, HermesWhere DEF Knows
  <2> QED BY <1>1, <2>1, <2>2, DropsBack DEF Knows
<1>5. CASE pc \notin HDelete
  <2>1. HermesDeletes(host) /\ HDeletes
    BY <1>5 DEF Knows, HermesUnder, HDelete
  <2>2. Above = <<>> /\ Over(Retracting) = <<Retracting>> /\ Over2(Passing, Retracting) = <<Passing, Retracting>>
        /\ Over2(Outlet, Retracting) = <<Outlet, Retracting>>
    BY DEF Above, Over, Over2
  <2>3. faults > before.faults
    BY <1>1, <1>5, <2>1 DEF DropBack, HDeletes, InRuntime
  <2>4. CASE pc \in HDeleteUndo
    <3>1. stack = <<>>
      BY <2>1, <2>2, <2>4 DEF HDeletes, HDeleteUndo, HRuntime, HIngress, HStop
    <3>2. HermesDeleteUndo
      BY <2>4, HermesWhere DEF Knows
    <3> QED BY <1>1, <1>2, <2>3, <2>4, <3>1, <3>2, DropsUndone DEF Knows
  <2>5. CASE pc \in HRuntime
    <3>1. stack = <<Retracting>>
      BY <1>5, <2>1, <2>2, <2>5 DEF HDeletes, HDeleteUndo, HRuntime, HIngress, HStop
    <3>2. HermesRuntime
      BY <2>5, HermesWhere DEF Knows
    <3> QED BY <1>1, <1>2, <2>3, <2>5, <3>1, <3>2, DropsRuntime DEF Knows
  <2>6. CASE pc \in HIngress \cup HStop
    <3>1. HermesIngress \/ HermesStop
      BY <2>6, HermesWhere DEF Knows
    <3>2. host.home = Parts
      BY <1>5, <2>1, <2>6 DEF HDeletes, HDeleteUndo, HIngress, HStop
    <3>3. Was.home = Parts /\ Was.bin = {} /\ Was.recycle = "none" /\ Was.note = NoNote
      BY <2>1 DEF HermesDeletes, Notes
    <3>4. Parts # {}
      BY HermesLooks DEF Knows, HermesFit
    <3>5. host.bin = {}
      BY <2>1, <3>2, <3>4 DEF HermesDeletes
    <3> QED BY <1>1, <1>2, <2>1, <2>3, <2>6, <3>1, <3>2, <3>3, <3>5, DropsSite DEF Knows
  <2> QED BY <1>5, <2>1, <2>4, <2>5, <2>6 DEF HDeletes
<1> QED BY <1>4, <1>5

LEMMA CreateOn ==
  ASSUME Knows, op = "create", CourseAt(pc, stack, kept, host, faults), Slighter
  PROVE  Courses
<1>1. BuildBack(pc, stack, kept, host, faults) /\ HCreates
  BY DEF CourseAt, Knows, HermesUnder
<1>2. Was = BareHost
  BY DEF Knows, Admitted, HermesRested
<1>3. SUFFICES \/ \E p, s, k : Went(p, s, k) /\ p # "idle" /\ BuildBack(p, s, k, host', faults')
               \/ Reverts(PutBack(host')) \/ Reverts(FALSE)
  BY DEF Courses, CourseAt, Reverts
<1>4. CASE pc \in HCreate /\ stack = <<>>
  <2>1. HermesCreate
    BY <1>4, HermesWhere DEF Knows
  <2> QED BY <1>1, <1>2, <1>4, <2>1, BuildsBack DEF Knows, Slighter
<1>5. CASE pc \in HIngress /\ stack = <<Retracts>>
  <2>1. HermesIngress /\ pc # "refresh_ingress"
    BY <1>5, HermesWhere DEF Knows, HIngress
  <2> QED BY <1>5, <2>1, BuildsSite DEF Knows
<1>6. CASE HermesDeletes(host) /\ HDeletes /\ pc \in HDelete
  <2>1. stack = <<Retracting>> /\ DeleteAt(pc, kept, host)
    BY <1>6 DEF HDeletes, Above, HDelete, HRuntime, HIngress, HStop
  <2>2. HermesDelete
    BY <1>6, HermesWhere DEF Knows
  <2> QED BY <1>1, <1>2, <2>1, <2>2, BuildsDeleted DEF Knows, DeleteAt
<1>7. CASE HermesDeletes(host) /\ HDeletes /\ pc \notin HDelete
  <2>1. pc \in HDeleteUndo \cup HRuntime \cup HIngress \cup HStop /\ "refresh_ingress" \notin HIngress
    BY <1>7 DEF HDeletes, HIngress
  <2>2. HermesDeleteUndo \/ HermesRuntime \/ (HermesIngress /\ pc # "refresh_ingress") \/ HermesStop
    BY <2>1, HermesWhere DEF Knows, HDeleteUndo, HRuntime, HStop
  <2> QED BY <1>7, <2>2, BuildsRetracting DEF Knows
<1> QED BY <1>1, <1>4, <1>5, <1>6, <1>7 DEF HCreates

LEMMA RestoreOn ==
  ASSUME Knows, op = "restore", CourseAt(pc, stack, kept, host, faults), CoreAs(host') \/ HermesRestores(host')
  PROVE  Courses
<1>1. ReviveBack(pc, stack, kept, host) /\ HRestores
  BY DEF CourseAt, Knows, HermesUnder
<1>2. SUFFICES \/ \E p, s, k : Went(p, s, k) /\ p # "idle" /\ ReviveBack(p, s, k, host')
               \/ Reverts(PutBack(host')) \/ Reverts(FALSE)
  BY DEF Courses, CourseAt, Reverts
<1>3. CASE pc \in HRestore
  <2>1. stack = <<>>
    BY <1>1, <1>3 DEF HRestores, HRestore, HRuntime, HIngress, HStop
  <2>2. HermesRestore
    BY <1>3, HermesWhere DEF Knows
  <2> QED BY <1>1, <2>1, <2>2, RevivesBack DEF Knows
<1>4. CASE pc \in HRestoreUndo
  <2>1. stack = <<>> /\ HermesRestores(host)
    BY <1>1, <1>4 DEF HRestores, HRestoreUndo, HRuntime, HIngress, HStop
  <2>2. HermesRestoreUndo
    BY <1>4, HermesWhere DEF Knows
  <2>3. Was.home = {} /\ Was.bin = Parts /\ Was.recycle = "listed" /\ Was.older = {} /\ Was.main \in Container /\ Parts # {}
    BY <2>1, HermesLooks DEF HermesRestores, Knows, HermesFit
  <2>4. RuntimeOf(Was) # "broken"
    BY DEF Knows, Whole
  <2>5. Was.main = "none"
    BY <2>3, <2>4, HermesLooks DEF Knows
  <2>6. HermesRestores(host')
    <3>1. CASE CoreAs(host')
      BY <2>3, <3>1 DEF CoreAs, DataAs, HermesRestores
    <3> QED BY <3>1
  <2> QED BY <1>1, <2>1, <2>2, <2>5, <2>6, RevivesUndone DEF Knows
<1>5. CASE pc \in InRuntime
  <2>1. "refresh_ingress" \notin HIngress
    BY DEF HIngress
  <2>2. HermesRuntime \/ (HermesIngress /\ pc # "refresh_ingress") \/ HermesStop
    BY <1>5, <2>1, HermesWhere DEF Knows, InRuntime, HRuntime, HStop
  <2> QED BY <1>1, <1>5, <2>2, RevivesInside DEF Knows
<1> QED BY <1>1, <1>3, <1>4, <1>5 DEF HRestores, InRuntime, HRestore

LEMMA BackStays ==
  ASSUME op' = op, before' = before, product' = product, op \in HermesRequest, BackAt(pc', stack', kept', host', faults')
  PROVE  BackAt(pc, stack, kept, host, faults)'
<1>1. Was' = Was /\ before'.faults = before.faults
  BY DEF Was
<1>2. SettledAs(host') => SettledAs(host)'
  BY <1>1 DEF SettledAs, SettingsAs, OthersAs
<1>3. Passing' = Passing /\ Outlet' = Outlet /\ Retracting' = Retracting
  BY DEF Passing, Outlet, Retracting, Caller
<1> HIDE DEF Passing, Outlet, Retracting
<1>4. RenewBack(pc', stack', kept', host') => RenewBack(pc, stack, kept, host)'
  BY <1>1, <1>3 DEF RenewBack, HStop
<1>5. DropBack(pc', stack', kept', host', faults') => DropBack(pc, stack, kept, host, faults)'
  BY <1>1, <1>3 DEF DropBack, PubBack, StopBack, Taking, HDeleteUndo, InRuntime, HRuntime, HIngress, HStop
<1>6. BuildBack(pc', stack', kept', host', faults') => BuildBack(pc, stack, kept, host, faults)'
  BY <1>1 DEF BuildBack, Bare, HCreate, Taking, Unbuilding
<1>7. ReviveBack(pc', stack', kept', host') => ReviveBack(pc, stack, kept, host)'
  BY <1>1 DEF ReviveBack, Noting, HRestoreUndo
<1>8. ProvideBack(pc', kept', host') => ProvideBack(pc, kept, host)'
  BY <1>1 DEF ProvideBack, UnsetConfig, UnsetToken, UnsetModels
<1> QED BY <1>2, <1>4, <1>5, <1>6, <1>7, <1>8 DEF BackAt, CourseAt

\* The inductive invariant: where an operation is that has met one failure at most, and
\* that the entry listed is the one with a manifest.
BackInv ==
  product = "hermes" =>
    /\ pc = "idle" => kept = NoLocals
    /\ Notes(host) /\ (pc \in Asking => host.recycle = "none")
    /\ pc # "idle" => Notes(Was)
    /\ pc # "idle" /\ Slight => BackAt(pc, stack, kept, host, faults)
    /\ RolledBack

LEMMA RevertsLater ==
  ASSUME product' = product, op' = op, before' = before, CleanedUp' <=> CleanedUp, op \in HermesRequest,
         outcome' = "rolledback" /\ faults' = before.faults + 1 /\ Whole(Was)
           => PutBack(host') /\ SettingsAs(host') /\ OthersAs(host')
  PROVE  RolledBack'
<1>1. Was' = Was /\ before.host = Was /\ before'.host = Was /\ before'.faults = before.faults
  BY DEF Was
<1>2. Whole(before.host)' <=> Whole(Was)
  BY <1>1, SoundLater DEF Was
<1>3. SUFFICES ASSUME outcome' = "rolledback", faults' = before.faults + 1, Whole(Was)
               PROVE  IF op = "create" THEN AsBefore({"home", "main", "proxy", "ingress", "conf", "mapped"})'
                      ELSE /\ AsBefore({"home", "bin", "main", "proxy", "conf"})'
                           /\ AsBefore({"token", "models", "model", "key", "skills", "auth", "asked"})'
                           /\ \A f \in {"mapped", "net", "linked"} : Was[f] => host'[f]
                           /\ op # "restore" => AsBefore({"recycle", "note"})'
                           /\ Was.ingress # "none" => host'.ingress # "none"
                           /\ host'.main # "none" => host'.image = Was.image
  BY <1>1, <1>2 DEF RolledBack, HermesRequest
<1>4. PutBack(host') /\ SettingsAs(host') /\ OthersAs(host')
  BY <1>3
<1>5. CASE op = "create"
  BY <1>1, <1>4, <1>5 DEF PutBack, OthersAs, AsBefore
<1>6. CASE op # "create"
  <2>1. AsBefore({"home", "bin", "main", "proxy", "conf"})'
    BY <1>1, <1>4, <1>6 DEF PutBack, OthersAs, AsBefore
  <2>2. AsBefore({"token", "models", "model", "key", "skills", "auth", "asked"})'
    BY <1>1, <1>4 DEF SettingsAs, AsBefore
  <2>3. op # "restore" => AsBefore({"recycle", "note"})'
    BY <1>1, <1>4, <1>6 DEF PutBack, AsBefore
  <2> QED BY <1>4, <1>6, <2>1, <2>2, <2>3 DEF PutBack, OthersAs
<1> QED BY <1>5, <1>6

LEMMA BackSteps ==
  ASSUME product = "hermes", DataInv, HermesInv, ClearInv, BackInv, pc # "idle", HermesStep \/ HermesProvider
  PROVE  BackInv'
<1>1. /\ op # "cleanup_failed" /\ op \in HermesRequest /\ HermesUnder /\ HermesFit(host)
      /\ HermesFit(Was) /\ HermesRested(Was, row) /\ Admitted(op) /\ Counted /\ DOMAIN host = Fields /\ Local(kept)
  BY DEF HermesInv, ClearInv, DataInv, Placed
<1>2. HermesInv' /\ (GoesOn \/ Concluded)
  BY HermesMoves
<1>3. HermesGoes \/ HermesCloses
  BY HermesWorks
<1>4. HermesGoes => Onward
  BY DEF HermesGoes
<1>5. HermesCloses => \E r \in Results : Ended(r)
  BY DEF HermesCloses
<1>6. UNCHANGED <<product, op, before>> /\ Was' = Was /\ ~CleanedUp /\ ~CleanedUp'
  BY <1>1, <1>2 DEF GoesOn, Onward, Concluded, Was, CleanedUp
<1>7. faults' = faults \/ Fault
  BY StepsCount
<1>8. pc' = "idle" => kept' = NoLocals
  BY <1>3, <1>4, <1>5 DEF Onward, Ended
<1>9. Notes(host') /\ (pc' \in Asking => host'.recycle = "none")
  BY <1>1, HermesNests, NotesOn DEF BackInv
<1>10. Notes(Was)
  BY DEF BackInv
<1>11. ASSUME faults' <= before.faults + 1, Whole(Was)
       PROVE  /\ Courses
              /\ op # "set_model_provider" => SettledAs(host')
              /\ op = "set_model_provider" => OthersAs(host')
  <2>1. faults <= before.faults + 1 /\ Slighter
    BY <1>1, <1>7, <1>11 DEF Counted, Fault, Slighter
  <2>2. SettledAs(host) /\ CourseAt(pc, stack, kept, host, faults)
    BY <1>11, <2>1 DEF BackInv, Slight, BackAt
  <2>3. Knows
    BY <1>1, <1>6, <1>11 DEF Knows
  <2>4. op = "set_model_provider" <=> pc \in Providing
    BY <1>1, HermesPlaces
  <2>5. op # "set_model_provider" => HermesStep
    BY <1>1, <2>4, HermesProvides DEF Provides
  <2>6. op # "set_model_provider" => SettledAs(host')
    BY <1>11, <2>2, <2>5, SettledOn
  <2>7. op = "set_model_provider" => Courses /\ OthersAs(host')
    BY <2>2, <2>3, ProviderOn DEF SettledAs, OthersAs
  <2>8. op = "restore" => CoreAs(host') \/ HermesRestores(host')
    BY <1>3 DEF HermesGoes, HermesCloses, HermesLeaves, HermesDone
  <2>9. op \in {"update_version", "delete", "create", "restore"} => Courses
    BY <1>10, <2>1, <2>2, <2>3, <2>8, UpdateOn, DeleteOn, CreateOn, RestoreOn
  <2>10. ASSUME op \in {"start", "stop", "restart", "refresh_ingress", "purge_deleted"}
         PROVE  Courses
    <3>1. (\E p, s, k : Went(p, s, k) /\ p # "idle") \/ Reverts(FALSE)
      BY <1>1, <2>10, PlainOn
    <3>2. \A p, s, k : CourseAt(p, s, k, host', faults')
      BY <2>10 DEF CourseAt
    <3> QED BY <3>1, <3>2 DEF Courses, Reverts
  <2> QED BY <1>1, <2>6, <2>7, <2>9, <2>10 DEF HermesRequest
<1>12. ASSUME pc' # "idle", Slight'
       PROVE  BackAt(pc, stack, kept, host, faults)'
  <2>1. faults' <= before.faults + 1 /\ Whole(Was)
    BY <1>6, <1>12, SoundLater DEF Slight
  <2>2. ~Reverts(PutBack(host') /\ (op = "set_model_provider" => SettingsAs(host')))
    BY <1>12 DEF Reverts, Ended
  <2>3. PICK p, s, k : Went(p, s, k) /\ p # "idle" /\ CourseAt(p, s, k, host', faults')
    BY <1>11, <2>1, <2>2 DEF Courses
  <2>4. BackAt(pc', stack', kept', host', faults')
    BY <1>11, <2>1, <2>3 DEF BackAt, SettledAs, Went
  <2> QED BY <1>1, <1>6, <2>4, BackStays
<1>13. ASSUME outcome' = "rolledback", faults' = before.faults + 1, Whole(Was)
       PROVE  PutBack(host') /\ SettingsAs(host') /\ OthersAs(host')
  <2>1. before.faults + 1 <= before.faults + 1
    BY <1>1 DEF Counted
  <2>2. Courses /\ (op # "set_model_provider" => SettledAs(host')) /\ (op = "set_model_provider" => OthersAs(host'))
    BY <1>11, <1>13, <2>1
  <2>3. \A p, s, k : ~Went(p, s, k)
    BY <1>1, <1>13 DEF Went, Counted
  <2>4. Reverts(PutBack(host') /\ (op = "set_model_provider" => SettingsAs(host')))
    BY <2>2, <2>3 DEF Courses
  <2>5. PutBack(host') /\ (op = "set_model_provider" => SettingsAs(host'))
    BY <1>13, <2>4 DEF Reverts, Ended
  <2> QED BY <2>2, <2>5 DEF SettledAs
<1>14. RolledBack'
  BY <1>1, <1>6, <1>13, RevertsLater
<1>15. Notes(host)' /\ Notes(Was)' /\ Asking' = Asking
  BY <1>6, <1>9, <1>10 DEF Notes, Asking
<1> QED BY <1>8, <1>9, <1>12, <1>14, <1>15 DEF BackInv

LEMMA BackBegins ==
  ASSUME product = "hermes", DataInv, HermesInv, BackInv, NEW a \in HermesRequest, Admitted(a), Begin(a)
  PROVE  BackInv'
<1>1. pc = "idle" /\ HermesRested(host, row) /\ ~CleanedUp /\ a \in Promised!Operation /\ kept = NoLocals
  BY DEF HermesInv, BackInv, Begin, CleanedUp, HermesRequest, Promised!Operation
<1>2. /\ op' = a /\ pc' = a /\ stack' = <<>> /\ kept' = kept /\ host' = host /\ Was' = host /\ product' = product
      /\ outcome' = "none" /\ faults' = faults /\ before'.faults = faults
  BY <1>1, BeginOpens DEF Begin
<1>3. RolledBack'
  BY <1>2 DEF RolledBack
<1>4. Notes(host)' /\ Notes(Was)' /\ pc' # "idle" /\ pc' \notin Asking
  BY <1>2 DEF BackInv, Notes, Asking, HermesRequest
<1>5. SettledAs(host)'
  BY <1>2 DEF SettledAs, SettingsAs, OthersAs
<1>6. a = "create" => Bare(host)'
  BY <1>1, <1>2 DEF Admitted, HermesRested, BareHost, Bare
<1>8. CourseAt(pc, stack, kept, host, faults)'
  <2>1. CASE a = "update_version"
    <3>1. <<>> # <<Retracting'>>
      OBVIOUS
    <3>2. RenewBack(pc, stack, kept, host)'
      BY <1>2, <2>1, <3>1 DEF RenewBack, HStop
    <3> QED BY <1>2, <2>1, <3>2 DEF CourseAt
  <2>2. CASE a = "delete"
    BY <1>2, <2>2 DEF CourseAt, DropBack, Taking, HDeleteUndo, InRuntime, HRuntime, HIngress, HStop
  <2>3. CASE a = "create"
    <3>1. host.main = "none"
      BY <1>1, <2>3 DEF Admitted, HermesRested, BareHost
    <3> QED BY <1>2, <1>6, <2>3, <3>1 DEF CourseAt, BuildBack, HCreate, Taking, Unbuilding
  <2>4. CASE a = "restore"
    BY <1>2, <2>4 DEF CourseAt, ReviveBack, Noting, HRestoreUndo
  <2>5. CASE a = "set_model_provider"
    <3>1. ~kept.linked
      BY <1>1 DEF NoLocals
    <3> QED BY <1>2, <2>5, <3>1 DEF CourseAt, ProvideBack, UnsetConfig, UnsetToken, UnsetModels
  <2>6. CASE a \notin {"update_version", "delete", "create", "restore", "set_model_provider"}
    BY <1>2, <2>6 DEF CourseAt
  <2> QED BY <2>1, <2>2, <2>3, <2>4, <2>5, <2>6
<1> QED BY <1>3, <1>4, <1>5, <1>8 DEF BackInv, BackAt, Asking

LEMMA BackKilled ==
  ASSUME BackInv, Killed
  PROVE  BackInv'
<1>1. pc' = "idle" /\ kept' = NoLocals /\ outcome' = "killed" /\ host' = host /\ product' = product
  BY DEF Killed
<1> QED BY <1>1 DEF BackInv, RolledBack, Notes, Asking

LEMMA BackIdles ==
  ASSUME BackInv, HermesInv, UNCHANGED lvars
  PROVE  BackInv'
<1>1. product' = product /\ op' = op /\ before' = before /\ Was' = Was /\ (CleanedUp' <=> CleanedUp) /\ host' = host
      /\ pc' = pc /\ stack' = stack /\ kept' = kept /\ outcome' = outcome /\ faults' = faults
  BY DEF lvars, Was, CleanedUp
<1>2. Slight' => Slight
  BY <1>1, SoundLater DEF Slight
<1>3. ASSUME product = "hermes", pc # "idle", BackAt(pc, stack, kept, host, faults)
      PROVE  BackAt(pc, stack, kept, host, faults)'
  <2>1. op \in HermesRequest
    BY <1>3 DEF HermesInv
  <2> QED BY <1>1, <1>3, <2>1, BackStays
<1>4. RolledBack => RolledBack'
  <2>1. Whole(before.host)' <=> Whole(before.host)
    BY <1>1, SoundLater DEF Was
  <2>2. \A S : AsBefore(S)' <=> AsBefore(S)
    BY <1>1 DEF AsBefore
  <2> QED BY <1>1, <2>1, <2>2 DEF RolledBack
<1>5. Notes(host)' = Notes(host) /\ Notes(Was)' = Notes(Was) /\ Asking' = Asking
  BY <1>1 DEF Notes, Asking
<1> QED BY <1>1, <1>2, <1>3, <1>4, <1>5 DEF BackInv

LEMMA BackNext ==
  ASSUME DataInv, HermesInv, ClearInv, BackInv, AdaptersNext, product' = product
  PROVE  BackInv'
<1> SUFFICES ASSUME product = "hermes" PROVE BackInv'
  BY DEF BackInv
<1>1. HermesNext \/ SettingsNext
  BY DEF AdaptersNext, ClawNext, EvoNext
<1>2. CASE HermesBegin \/ SettingsBegin
  <2>1. \E a \in HermesRequest : Admitted(a) /\ Begin(a)
    BY <1>2 DEF HermesBegin, SettingsBegin, HermesRequest
  <2> QED BY <2>1, BackBegins
<1>3. CASE HermesStep \/ SettingsStep
  <2>1. HermesStep \/ HermesProvider
    BY <1>3 DEF SettingsStep
  <2>2. pc # "idle"
    BY <1>3, StepsRun
  <2> QED BY <2>1, <2>2, BackSteps
<1>4. CASE Killed
  BY <1>4, BackKilled
<1> QED BY <1>1, <1>2, <1>3, <1>4 DEF HermesNext, SettingsNext

\* What a Hermes adapter reports as rolled back it has put back, whichever command has
\* failed: the data, the container with its image, the site and the settings are as they
\* were, and a creation leaves neither of them. For any number of requests in any order,
\* on an instance that was sound and in an operation that met one failure, whatever had
\* failed or died before.
THEOREM HermesRollsBack == AdaptersSpec => [](product = "hermes" => RolledBack)
<1> DEFINE Inv == PromiseInv /\ ClearInv /\ BackInv
<1>1. AdaptersInit => Inv
  <2>1. SUFFICES ASSUME AdaptersInit PROVE Inv
    OBVIOUS
  <2>2. PromiseInv
    BY <2>1, PromiseStarts
  <2>3. ClearInv
    BY <2>1 DEF AdaptersInit, HostInit, ClearInv, Counted, Delivered
  <2>4. BackInv
    BY <2>1 DEF AdaptersInit, HostInit, BackInv, RolledBack, Notes, BareHost, Asking
  <2> QED BY <2>2, <2>3, <2>4
<1>2. Inv /\ [AdaptersNext]_lvars => Inv'
  <2>1. SUFFICES ASSUME Inv, [AdaptersNext]_lvars PROVE Inv'
    OBVIOUS
  <2>2. DataInv /\ HermesInv
    BY <2>1 DEF PromiseInv
  <2>3. CASE UNCHANGED lvars
    <3>1. DataInv'
      BY <2>2, <2>3 DEF lvars, DataInv, Placed, Chain, Suits, Kind, Leaves, Local
    <3> QED BY <2>1, <2>3, <3>1, HermesIdles, ClawIdles, EvoIdles, ClearIdles, BackIdles DEF PromiseInv
  <2>4. CASE AdaptersNext
    <3>1. PromiseInv' /\ product' = product
      BY <2>1, <2>4, PromiseSteps DEF Opened, GoesOn, Onward, Concluded, Cleared
    <3> QED BY <2>1, <2>2, <2>4, <3>1, ClearNext, BackNext
  <2> QED BY <2>1, <2>3, <2>4
<1>3. Inv => (product = "hermes" => RolledBack)
  BY DEF BackInv
<1> QED BY <1>1, <1>2, <1>3, PTL DEF AdaptersSpec
=============================================================================
