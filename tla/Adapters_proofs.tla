--------------------------- MODULE Adapters_proofs ---------------------------
(***************************************************************************)
(* Theorems about the adapters for any number of faults: where the running *)
(* operation stands, that no sequence of operations loses an instance's    *)
(* data, and that a change of the model provider locks no instance out;    *)
(* then what AdaptersPromise_proofs rests on, how an operation ends and    *)
(* what its commands may do, and that the Hermes adapter keeps the promise *)
(* of HostPromise.                                                         *)
(***************************************************************************)
EXTENDS Adapters, Integers, TLAPS

------------------------------------------------------------------------------
(* The functions of the adapters, by the names of their steps *)

Creating == {"create", "create.port", "create.files", "create.conf", "create.mapping",
             "create.run", "create.link", "create.publish", "create.reload", "create.retract",
             "create.net", "create.prepare", "create.wait", "create.look",
             "create.undo", "create.undo.run", "create.undo.net", "create.undo.mapping",
             "create.undo.conf", "create.undo.files", "create.undo.same"}
Deleting == {"delete", "delete.unlink", "delete.down", "delete.net", "delete.entry", "delete.move",
             "delete.conf", "delete.mapping", "delete.apply", "delete.reload", "delete.row",
             "delete.written", "delete.inspect", "delete.containers", "delete.ingress",
             "delete.list", "delete.remove", "delete.back", "delete.again",
             "delete.undo", "delete.undo.move", "delete.undo.entry", "delete.undo.run",
             "delete.undo.failed", "delete.undo.stop", "delete.undo.ingress",
             "delete.undo.runtime"}
Purging   == {"purge_deleted", "purge.tree"}
Providing == {"set_model_provider", "provider.token", "provider.models", "provider.config",
              "provider.own", "provider.look", "provider.link", "provider.linked",
              "provider.restart", "provider.model", "provider.url", "provider.key",
              "provider.mode", "provider.narrow", "provider.validate",
              "provider.undo", "provider.undo.config", "provider.undo.token",
              "provider.undo.untold", "provider.undo.models", "provider.undo.wide",
              "provider.undo.link", "provider.undo.joined", "provider.undo.end"}
Restarting == {"restart", "restart.next", "restart.wait"}
Serving    == {"runtime", "runtime.run", "runtime.wait", "runtime.link", "runtime.ingress",
               "runtime.stop"}
\* functions that call no other; OpenClaw's stop does
Leaves ==
  CASE product = "openclaw" ->
         {"enable", "enable.reload", "enable.undo", "enable.again",
          "disable", "disable.reload", "disable.undo", "disable.again",
          "skills", "skills.aside", "skills.put", "skills.back"}
    [] product = "hermes" ->
         {"ingress", "ingress.write", "ingress.apply", "ingress.reload", "ingress.undo",
          "ingress.undo.apply", "ingress.undo.reload",
          "stop", "stop.main", "stop.reload", "stop.back", "stop.again"}
    [] product = "evoscientist" ->
         {"run", "run.proxy", "run.undo", "remove", "remove.main",
          "ingress", "ingress.rm", "ingress.run", "ingress.connect", "ingress.undo",
          "ingress.unlink", "stop", "stop.next", "stop.undo"}

Kind(p) ==
  IF p \in Creating THEN "creating" ELSE IF p \in Deleting THEN "deleting"
  ELSE IF p \in Purging THEN "purging" ELSE IF p \in Providing THEN "providing"
  ELSE IF p \in Restarting THEN "restarting" ELSE IF p \in Serving THEN "serving"
  ELSE IF p \in Leaves THEN "leaf" ELSE "own"

\* the callers a function may have
Callers == [creating |-> 0, purging |-> 0, providing |-> 0, own |-> 0,
            deleting |-> 1, serving |-> 2, restarting |-> 3, leaf |-> 3]

\* A step of this kind may be taken by the running operation with d callers.
Suits(kind, d) ==
  /\ d <= Callers[kind]
  /\ kind = "creating" => op = "create"
  /\ kind = "purging" => op = "purge_deleted"
  /\ kind = "providing" => op = "set_model_provider"
  /\ op = "set_model_provider" => kind \in {"providing", "restarting"}

Ways  == {"ok", "fail", "raise"}
\* where the functions that call others go on
Returns == {"start.stop", "stop.main", "skills.run", "provider.undo", "runtime.stop",
            "create.wait", "create.undo", "create.undo.files", "create.retract",
            "delete.entry", "delete.undo", "delete.undo.ingress", "delete.undo.stop", "delete.undo.failed",
            "restore.ingress", "restore.undo", "restore.entry", "restore.stop", "restore.undo.move",
            "update.run", "update.wait", "update.undo", "update.undo.run", "update.undo.wait"}
Frame == [Ways -> Results \cup Returns]

\* Steps that are only reached from within their function, and before which
\* something more is known; and one that only a request leads to
Inner == {"set_model_provider", "delete.move", "delete.undo.entry",
          "provider.config", "provider.model", "provider.url", "provider.key", "provider.mode",
          "provider.narrow", "provider.token", "provider.look", "provider.link", "provider.linked",
          "provider.undo.token", "provider.undo.models"}

\* Each caller goes on with a step that suits, or passes the result on.
Chain(s) ==
  /\ s \in Seq(Frame)
  /\ \A j \in 1..Len(s) : \A w \in Ways :
       s[j][w] \in Results \/ (Suits(Kind(s[j][w]), Len(s) - j) /\ s[j][w] \notin {"idle"} \cup Inner)

Fields == {"home", "bin", "recycle", "note", "site", "older", "main", "proxy", "ingress", "image",
           "file", "conf", "mapped", "served", "net", "linked", "token", "models", "model", "key",
           "skills", "snap", "auth", "asked"}
LocalNames == {"image", "running", "target", "conf", "mapped", "inner", "net", "linked", "failed",
               "todo", "done", "wanted", "was"}
Local(k) == DOMAIN k = LocalNames /\ k.todo \in Seq(Containers) /\ k.done \in Seq(Containers)

\* Where the running operation stands: its step and its callers suit each other,
\* and Control has not heard of its end.
Placed ==
  /\ product \in {"openclaw", "hermes", "evoscientist"}
  /\ DOMAIN host = Fields /\ Local(kept)
  /\ Chain(stack)
  /\ IF pc = "idle" THEN stack = <<>> ELSE pc \notin Results /\ Suits(Kind(pc), Len(stack))
  /\ op = "create" /\ pc # "idle" => row = "new"

\* The parts of an instance's data are not taken out of the recycle bin before they
\* are back, and OpenClaw has data in the bin only with an entry.
DataInv ==
  /\ Placed
  /\ pc = "delete.undo.entry" => host.bin \subseteq host.home
  /\ product = "openclaw" /\ pc = "delete.move" => host.recycle # "none"
  /\ product = "openclaw" /\ host.bin # {} => host.recycle # "none"

------------------------------------------------------------------------------
(* The course of an operation *)

LEMMA Pair ==
  ASSUME NEW x, NEW y
  PROVE  <<x, y>>[1] = x /\ <<x, y>>[2] = y
OBVIOUS

\* A result on its way through the callers, of which there are at most n, or the step
\* that one of them goes on with.
Landed(at, n) ==
  /\ at = <<at[1], at[2]>> /\ Chain(at[2])
  /\ IF at[1] \in Results THEN Len(at[2]) \in 0..n
     ELSE Suits(Kind(at[1]), Len(at[2])) /\ at[1] \notin {"idle"} \cup Inner

LEMMA LandsOnce ==
  ASSUME NEW n \in Nat, NEW m \in Nat, m = n + 1, NEW at, Landed(at, m)
  PROVE  Landed(Land(at), n)
<1> DEFINE t == at[1]
           s == at[2]
           w == IF t \in {"ok", "raise"} THEN t ELSE "fail"
<1>1. CASE t \notin Results \/ s = <<>>
  <2>1. Land(at) = at
    BY <1>1 DEF Land
  <2> QED BY <1>1, <2>1 DEF Landed
<1>2. CASE t \in Results /\ s # <<>>
  <2>1. s \in Seq(Frame) /\ Len(s) \in Nat /\ Len(s) > 0 /\ Head(s) = s[1] /\ Len(s) \in 1..m
    <3>1. s \in Seq(Frame) /\ Len(s) \in 0..m
      BY <1>2 DEF Landed, Chain
    <3> QED BY <1>2, <3>1
  <2>2. w \in Ways /\ Land(at) = <<Head(s)[w], Tail(s)>>
    <3>1. w \in Ways
      BY DEF Ways
    <3> QED BY <1>2, <3>1, Zenon DEF Land
  <2> HIDE DEF w
  <2>3. /\ Tail(s) \in Seq(Frame) /\ Len(Tail(s)) = Len(s) - 1
        /\ \A j \in 1..Len(Tail(s)) : Tail(s)[j] = s[j + 1]
    BY <2>1
  <2>4. Chain(Tail(s))
    <3>1. SUFFICES ASSUME NEW j \in 1..Len(Tail(s)), NEW v \in Ways
                   PROVE  \/ Tail(s)[j][v] \in Results
                          \/ /\ Suits(Kind(Tail(s)[j][v]), Len(Tail(s)) - j)
                             /\ Tail(s)[j][v] \notin {"idle"} \cup Inner
      BY <2>3 DEF Chain
    <3>2. j + 1 \in 1..Len(s) /\ Len(Tail(s)) - j = Len(s) - (j + 1) /\ Tail(s)[j] = s[j + 1]
      BY <2>1, <2>3
    <3> QED BY <3>2 DEF Chain, Landed
  <2>5. \/ s[1][w] \in Results
        \/ Suits(Kind(s[1][w]), Len(Tail(s))) /\ s[1][w] \notin {"idle"} \cup Inner
    <3>1. 1 \in 1..Len(s)
      BY <2>1
    <3> QED BY <2>2, <2>3, <3>1 DEF Chain, Landed
  <2>6. Land(at)[1] = s[1][w] /\ Land(at)[2] = Tail(s)
    <3>1. Head(s)[w] = s[1][w]
      BY <2>1
    <3>2. /\ Land(at)[1] = <<Head(s)[w], Tail(s)>>[1]
          /\ Land(at)[2] = <<Head(s)[w], Tail(s)>>[2]
      BY <2>2, Zenon
    <3>3. <<Head(s)[w], Tail(s)>>[1] = Head(s)[w] /\ <<Head(s)[w], Tail(s)>>[2] = Tail(s)
      BY Pair
    <3> QED BY <3>1, <3>2, <3>3, Zenon
  <2>7. Land(at) = <<Land(at)[1], Land(at)[2]>>
    <3>1. Head(s)[w] = s[1][w]
      BY <2>1
    <3> QED BY <2>2, <2>6, <3>1, Zenon
  <2>8. Len(Tail(s)) \in 0..n
    BY <2>1, <2>3
  <2> HIDE DEF s, t
  <2> QED BY <2>4, <2>5, <2>6, <2>7, <2>8, Zenon DEF Landed
<1> QED BY <1>1, <1>2

LEMMA Between == ASSUME NEW m \in Nat, NEW n \in 0..3, m <= n PROVE m \in 0..3
OBVIOUS

LEMMA FewCallers ==
  ASSUME Placed
  PROVE  Len(stack) \in 0..3 /\ stack \in Seq(Frame)
<1>1. stack \in Seq(Frame) /\ Len(stack) \in Nat
  BY DEF Placed, Chain
<1>2. Kind(pc) \in {"creating", "deleting", "purging", "providing", "restarting", "serving", "leaf", "own"}
  BY DEF Kind
<1>3. Callers[Kind(pc)] \in 0..3
  BY <1>2 DEF Callers
<1>4. CASE pc = "idle"
  BY <1>1, <1>4 DEF Placed
<1>5. CASE pc # "idle"
  <2>1. Len(stack) <= Callers[Kind(pc)]
    BY <1>5 DEF Placed, Suits
  <2>2. Len(stack) \in 0..3
    BY <1>1, <1>3, <2>1, Between, Zenon
  <2> QED BY <1>1, <2>2
<1> QED BY <1>1, <1>4, <1>5

\* A function goes on with a step of its own, or ends.
Goes(t, k) ==
  /\ To(t, k) /\ Local(k)
  /\ t \in Results \/ (Kind(t) = Kind(pc) /\ t # "idle")

LEMMA Lands ==
  ASSUME Placed, pc # "idle", NEW t, NEW k, Goes(t, k)
  PROVE  /\ Chain(stack')
         /\ \/ pc' = "idle" /\ stack' = <<>> /\ kept' = NoLocals
            \/ /\ Suits(Kind(pc'), Len(stack')) /\ pc' \notin Results \cup {"idle"}
               /\ kept' = k /\ row' = row
               /\ (pc' = t /\ stack' = stack) \/ pc' \notin Inner
         /\ UNCHANGED <<product, menu, op, before>>
         /\ outcome' = IF pc' = "idle" THEN Landing(t)[1] ELSE outcome
<1> DEFINE a == Land(<<t, stack>>)
           b == Land(a)
           c == Land(b)
<1>1. Len(stack) \in 0..3 /\ stack \in Seq(Frame)
  BY FewCallers
<1>2. Landing(t) = c
  BY DEF Landing
<1>3. t \in Results \/ (Suits(Kind(t), Len(stack)) /\ t # "idle")
  BY DEF Goes, Placed
<1>4. CASE t \notin Results
  <2>1. a = <<t, stack>>
    <3>1. <<t, stack>>[1] = t
      BY Pair
    <3> QED BY <1>4, <3>1, Zenon DEF Land
  <2>2. c = <<t, stack>>
    BY <2>1, Zenon
  <2>3. pc' = t /\ stack' = stack /\ kept' = k /\ UNCHANGED <<row, outcome, product, menu, op, before>>
    BY <1>2, <1>4, <2>2 DEF Goes, To
  <2> QED
    BY <1>3, <1>4, <2>3 DEF Placed
<1>5. CASE t \in Results
  <2>1. Landed(<<t, stack>>, 3)
    BY <1>1, <1>5 DEF Landed, Placed
  <2>2. Landed(c, 0)
    <3>1. Landed(a, 2)
      BY <2>1, LandsOnce
    <3>2. Landed(b, 1)
      BY <3>1, LandsOnce
    <3> QED BY <3>2, LandsOnce
  <2>3. CASE c[1] \in Results
    <3>1. Chain(c[2]) /\ Len(c[2]) = 0
      BY <2>2, <2>3 DEF Landed
    <3>2. c[2] = <<>>
      BY <3>1 DEF Chain
    <3> QED
      BY <1>2, <2>3, <3>1, <3>2 DEF Goes, To
  <2>4. CASE c[1] \notin Results
    BY <1>2, <2>2, <2>4 DEF Goes, To, Landed
  <2> QED BY <2>3, <2>4
<1> QED
  BY <1>4, <1>5

\* One function calls another, and goes on itself when that has ended.
Enters ==
  \E f, k, caller :
    /\ pc' = f /\ kept' = k /\ stack' = <<caller>> \o stack
    /\ Local(k) /\ caller \in Frame
    /\ Kind(f) # "creating" /\ Kind(f) # "purging" /\ Kind(f) # "providing"
    /\ f \notin Results \cup {"idle"} \cup Inner
    /\ Callers[Kind(pc)] < Callers[Kind(f)]
    /\ Kind(pc) = "providing" => Kind(f) = "restarting"
    /\ \A w \in Ways : caller[w] \in Results \/ (Kind(caller[w]) = Kind(pc)
                                                 /\ caller[w] \notin {"idle"} \cup Inner)
    /\ UNCHANGED <<product, menu, row, op, before, outcome>>

\* A step of the running operation, but for what it does to the host; of the inner
\* steps it leads to one of N at most.
Proceeds(N) ==
  \/ \E t, k : Goes(t, k) /\ t \notin Inner \ N
  \/ Enters

LEMMA KindsKnown ==
  ASSUME NEW p
  PROVE  /\ Kind(p) \in {"creating", "deleting", "purging", "providing", "restarting", "serving", "leaf", "own"}
         /\ Callers[Kind(p)] \in 0..3
<1>1. Kind(p) \in {"creating", "deleting", "purging", "providing", "restarting", "serving", "leaf", "own"}
  BY DEF Kind
<1> QED BY <1>1 DEF Callers

LEMMA CallsChain ==
  ASSUME NEW s, Chain(s), NEW caller \in Frame,
         \A w \in Ways : \/ caller[w] \in Results
                         \/ /\ Suits(Kind(caller[w]), Len(s))
                            /\ caller[w] \notin {"idle"} \cup Inner
  PROVE  Chain(<<caller>> \o s) /\ Len(<<caller>> \o s) = Len(s) + 1
<1>1. s \in Seq(Frame) /\ Len(s) \in Nat
  BY DEF Chain
<1>2. /\ <<caller>> \o s \in Seq(Frame) /\ Len(<<caller>> \o s) = Len(s) + 1
      /\ (<<caller>> \o s)[1] = caller
      /\ \A j \in 1..Len(s) : (<<caller>> \o s)[j + 1] = s[j]
  BY <1>1
<1>3. ASSUME NEW j \in 1..(Len(s) + 1), NEW w \in Ways
      PROVE  \/ (<<caller>> \o s)[j][w] \in Results
             \/ /\ Suits(Kind((<<caller>> \o s)[j][w]), Len(s) + 1 - j)
                /\ (<<caller>> \o s)[j][w] \notin {"idle"} \cup Inner
  <2>1. CASE j = 1
    <3>1. Len(s) + 1 - j = Len(s)
      BY <1>1, <2>1
    <3> QED BY <1>2, <2>1, <3>1
  <2>2. CASE j # 1
    <3>1. PICK i \in 1..Len(s) : j = i + 1
      <4>1. j - 1 \in 1..Len(s) /\ j = (j - 1) + 1
        BY <1>1, <2>2
      <4> QED BY <4>1
    <3>2. (<<caller>> \o s)[j] = s[i] /\ Len(s) + 1 - j = Len(s) - i
      BY <1>1, <1>2, <3>1
    <3> QED BY <3>1, <3>2 DEF Chain
  <2> QED BY <2>1, <2>2
<1> QED BY <1>2, <1>3 DEF Chain

LEMMA SameOperation ==
  ASSUME UNCHANGED <<product, op>>
  PROVE  /\ Chain(stack') => Chain(stack)'
         /\ Suits(Kind(pc'), Len(stack')) => Suits(Kind(pc), Len(stack))'
<1>1. Leaves' = Leaves
  BY DEF Leaves
<1>2. \A p : Kind(p)' = Kind(p)
  BY <1>1 DEF Kind
<1>3. \A k, d : Suits(k, d)' = Suits(k, d)
  BY DEF Suits
<1> QED BY <1>2, <1>3 DEF Chain

LEMMA StaysPlaced ==
  ASSUME Placed, pc # "idle", NEW N, Proceeds(N), DOMAIN host' = Fields
  PROVE  Placed' /\ pc' \notin Inner \ N /\ UNCHANGED <<product, menu, op, before>>
<1>1. ASSUME NEW t, NEW k, Goes(t, k), t \notin Inner \ N
      PROVE  Placed' /\ pc' \notin Inner \ N /\ UNCHANGED <<product, menu, op, before>>
  <2>1. /\ Chain(stack') /\ UNCHANGED <<product, menu, op, before>>
        /\ \/ pc' = "idle" /\ stack' = <<>> /\ kept' = NoLocals
           \/ /\ Suits(Kind(pc'), Len(stack')) /\ pc' \notin Results \cup {"idle"}
              /\ kept' = k /\ row' = row
              /\ (pc' = t /\ stack' = stack) \/ pc' \notin Inner
    BY <1>1, Lands
  <2>2. Local(NoLocals)
    BY DEF Local, NoLocals, LocalNames
  <2>3. Local(kept')
    BY <1>1, <2>1, <2>2 DEF Goes
  <2>4. Chain(stack)' /\ (Suits(Kind(pc'), Len(stack')) => Suits(Kind(pc), Len(stack))')
    BY <2>1, SameOperation
  <2> QED BY <1>1, <2>1, <2>3, <2>4 DEF Placed, Local, Inner
<1>2. ASSUME Enters
      PROVE  Placed' /\ pc' \notin Inner \ N /\ UNCHANGED <<product, menu, op, before>>
  <2>1. PICK f, k, caller :
          /\ pc' = f /\ kept' = k /\ stack' = <<caller>> \o stack
          /\ Local(k) /\ caller \in Frame
          /\ Kind(f) # "creating" /\ Kind(f) # "purging" /\ Kind(f) # "providing"
          /\ f \notin Results \cup {"idle"} \cup Inner
          /\ Callers[Kind(pc)] < Callers[Kind(f)]
          /\ Kind(pc) = "providing" => Kind(f) = "restarting"
          /\ \A w \in Ways : caller[w] \in Results \/ (Kind(caller[w]) = Kind(pc)
                                                       /\ caller[w] \notin {"idle"} \cup Inner)
          /\ UNCHANGED <<product, menu, row, op, before, outcome>>
    BY <1>2 DEF Enters
  <2>2. Chain(stack) /\ Suits(Kind(pc), Len(stack)) /\ Len(stack) \in 0..3
    BY FewCallers DEF Placed
  <2>3. Chain(stack') /\ Len(stack') = Len(stack) + 1
    BY <2>1, <2>2, CallsChain
  <2>4. Suits(Kind(f), Len(stack) + 1)
    <3>1. Callers[Kind(pc)] \in 0..3 /\ Callers[Kind(f)] \in 0..3
      BY KindsKnown
    <3>2. Len(stack) <= Callers[Kind(pc)]
      BY <2>2 DEF Suits
    <3>3. Len(stack) + 1 <= Callers[Kind(f)]
      BY <2>1, <2>2, <3>1, <3>2
    <3>4. op = "set_model_provider" => Kind(f) = "restarting"
      BY <2>1, <2>2, <3>1 DEF Suits, Callers
    <3> QED BY <2>1, <3>3, <3>4 DEF Suits
  <2>5. Chain(stack)' /\ (Suits(Kind(pc'), Len(stack')) => Suits(Kind(pc), Len(stack))')
    BY <2>1, <2>3, SameOperation
  <2> QED BY <2>1, <2>3, <2>4, <2>5 DEF Placed, Local
<1> QED BY <1>1, <1>2 DEF Proceeds

------------------------------------------------------------------------------
(* What the steps do to the host *)

DataFields == {"home", "bin", "older", "recycle"}
KeyFields  == {"token", "models", "model", "key"}

\* h is the host but for what neither the data nor the model proxy are about.
Same(h, S) == DOMAIN h = Fields /\ \A f \in S : h[f] = host[f]
Untouched(h) == Same(h, DataFields \cup KeyFields)

LEMMA DockerSame ==
  ASSUME DOMAIN host = Fields
  PROVE  /\ Untouched(host)
         /\ \A c \in Containers : \A h \in Created(c) \cup Ran(c) \cup Started(c) \cup Stopped(c) : Untouched(h)
         /\ \A i : \A h \in RanMain(i) \cup CreatedMain(i) : Untouched(h)
         /\ \A S \in SUBSET Containers : \A h \in Removed(S) : Untouched(h)
         /\ \A h \in Reloaded \cup Applied \cup Composed \cup HalfComposed \cup Unneeded : Untouched(h)
<1> USE DEF Untouched, Same, DataFields, KeyFields, Fields, Containers
<1>1. Untouched(host)
  OBVIOUS
<1>2. ASSUME NEW c \in Containers, NEW h \in Created(c) \cup Ran(c) \cup Started(c) \cup Stopped(c)
      PROVE  Untouched(h)
  BY <1>2 DEF Created, Ran, Started, Stopped
<1>3. ASSUME NEW i, NEW h \in RanMain(i) \cup CreatedMain(i)
      PROVE  Untouched(h)
  <2>1. PICK g \in Ran("main") \cup Created("main") : h = [g EXCEPT !.image = i]
    BY <1>3 DEF RanMain, CreatedMain
  <2>2. Untouched(g)
    BY <1>2, <2>1
  <2> QED BY <2>1, <2>2
<1>4. ASSUME NEW S \in SUBSET Containers, NEW h \in Removed(S)
      PROVE  Untouched(h)
  BY <1>4 DEF Removed
<1>5. ASSUME NEW h \in Reloaded \cup Applied
      PROVE  Untouched(h)
  BY <1>5 DEF Reloaded, Applied, Loaded
<1>6. ASSUME NEW h \in Composed \cup HalfComposed \cup Unneeded
      PROVE  Untouched(h)
  BY <1>6 DEF Composed, HalfComposed, Unneeded
<1> QED BY <1>1, <1>2, <1>3, <1>4, <1>5, <1>6

LEMMA LocalsStay ==
  ASSUME Local(kept), NEW r,
         "todo" \in DOMAIN r => r.todo \in Seq(Containers),
         "done" \in DOMAIN r => r.done \in Seq(Containers)
  PROVE  Local(Locals(r))
BY DEF Local, Locals, LocalNames

LEMMA NoLocalsLocal == Local(NoLocals)
BY DEF Local, NoLocals, LocalNames

\* what a caller may go on with
Fits(t) == t \in Results \cup Returns /\ (t \in Results \/ (Kind(t) = Kind(pc) /\ t \notin {"idle"} \cup Inner))
Callable(f) ==
  /\ Kind(f) \notin {"creating", "purging", "providing"} /\ f \notin Results \cup {"idle"} \cup Inner
  /\ Callers[Kind(pc)] < Callers[Kind(f)]
  /\ Kind(pc) = "providing" => Kind(f) = "restarting"

LEMMA CallsEnter ==
  ASSUME NEW at, NEW f, NEW k, NEW ok, NEW bad, NEW exc,
         Calls(at, f, k, ok, bad, exc), Local(k), Callable(f), Fits(ok), Fits(bad), Fits(exc)
  PROVE  Enters /\ host' = host
<1> DEFINE caller == [w \in Ways |-> IF w = "ok" THEN ok ELSE IF w = "fail" THEN bad ELSE exc]
<1>1. caller \in Frame /\ \A w \in Ways : Fits(caller[w])
  BY DEF Frame, Fits
<1>2. caller = [ok |-> ok, fail |-> bad, raise |-> exc]
  BY DEF Ways
<1>3. pc' = f /\ kept' = k /\ stack' = <<caller>> \o stack
      /\ UNCHANGED <<product, menu, row, op, before, outcome, host>>
  BY <1>2 DEF Calls
<1> HIDE DEF caller
<1> QED BY <1>1, <1>3 DEF Enters, Fits, Callable

LEMMA CallersAre ==
  /\ Callers["creating"] = 0 /\ Callers["purging"] = 0 /\ Callers["providing"] = 0 /\ Callers["own"] = 0
  /\ Callers["deleting"] = 1 /\ Callers["serving"] = 2
  /\ Callers["restarting"] = 3 /\ Callers["leaf"] = 3
BY DEF Callers

------------------------------------------------------------------------------
(* The functions that neither move the data nor change the model provider *)

LEMMA EnableSteps ==
  ASSUME Placed, pc # "idle", product = "openclaw", EnableConf
  PROVE  Proceeds({}) /\ Untouched(host')
<1>1. \A p \in {"enable", "enable.reload", "enable.undo", "enable.again"} :
        Kind(p) = "leaf" /\ p \notin {"idle"} \cup Inner
  BY DEF Kind, Creating, Deleting, Purging, Providing, Restarting, Serving, Leaves, Inner
<1>2. DOMAIN host = Fields /\ Local(kept)
  BY DEF Placed
<1>3. Untouched(host')
  BY <1>2, DockerSame
     DEF EnableConf, Decides, Writes, Runs, Tries, Reads, Calls, Untouched, Same, Fields,
          DataFields, KeyFields,
         Containers
<1> QED
  BY <1>1, <1>2, <1>3 DEF EnableConf, Decides, Writes, Runs, Tries, Reads, Proceeds, Goes, Results,
       Inner

LEMMA DisableSteps ==
  ASSUME Placed, pc # "idle", product = "openclaw", DisableConf
  PROVE  Proceeds({}) /\ Untouched(host')
<1>1. \A p \in {"disable", "disable.reload", "disable.undo", "disable.again"} :
        Kind(p) = "leaf" /\ p \notin {"idle"} \cup Inner
  BY DEF Kind, Creating, Deleting, Purging, Providing, Restarting, Serving, Leaves, Inner
<1>2. DOMAIN host = Fields /\ Local(kept)
  BY DEF Placed
<1>3. Untouched(host')
  BY <1>2, DockerSame
     DEF DisableConf, Decides, Writes, Runs, Tries, Reads, Calls, Untouched, Same, Fields,
          DataFields, KeyFields,
         Containers
<1> QED
  BY <1>1, <1>2, <1>3 DEF DisableConf, Decides, Writes, Runs, Tries, Reads, Proceeds, Goes, Results,
       Inner

LEMMA ClawStartSteps ==
  ASSUME Placed, pc # "idle", product = "openclaw", ClawStart
  PROVE  Proceeds({}) /\ Untouched(host')
<1>1. \A p \in {"start", "start.link", "start.enable", "start.stop"} :
        Kind(p) = "own" /\ p \notin {"idle"} \cup Inner
  BY DEF Kind, Creating, Deleting, Purging, Providing, Restarting, Serving, Leaves, Inner
<1>2. DOMAIN host = Fields /\ Local(kept)
  BY DEF Placed
<1>3. Untouched(host')
  BY <1>2, DockerSame
     DEF ClawStart, Decides, Writes, Runs, Tries, Reads, Calls, Untouched, Same, Fields, DataFields,
          KeyFields,
         Containers
<1>4. \A p \in {"enable"} : Kind(p) = "leaf" /\ p \notin Results \cup {"idle"} \cup Inner
  BY DEF Results, Kind, Creating, Deleting, Purging, Providing, Restarting, Serving, Leaves, Inner
<1>5. ASSUME Calls("start.enable", "enable", kept, "ok", "start.stop", "raise")
      PROVE  Enters
  <2>1. pc = "start.enable"
    BY <1>5 DEF Calls
  <2>2. Callable("enable")
    BY <1>1, <1>4, <2>1, CallersAre DEF Callable
  <2>3. Fits("ok") /\ Fits("start.stop") /\ Fits("raise")
    BY <1>1, <2>1 DEF Fits, Results, Returns
  <2>4. Local(kept)
    BY <1>2
  <2> QED BY <1>5, <2>2, <2>3, <2>4, CallsEnter, Zenon
<1> QED
  BY <1>1, <1>2, <1>3, <1>4, <1>5 DEF ClawStart, Decides, Writes, Runs, Tries, Reads, Proceeds,
       Goes, Results, Inner

LEMMA ClawStopSteps ==
  ASSUME Placed, pc # "idle", product = "openclaw", ClawStop
  PROVE  Proceeds({}) /\ Untouched(host')
<1>1. \A p \in {"stop", "stop.main", "stop.enable"} :
        Kind(p) = "own" /\ p \notin {"idle"} \cup Inner
  BY DEF Kind, Creating, Deleting, Purging, Providing, Restarting, Serving, Leaves, Inner
<1>2. DOMAIN host = Fields /\ Local(kept)
  BY DEF Placed
<1>3. Untouched(host')
  BY <1>2, DockerSame
     DEF ClawStop, Decides, Writes, Runs, Tries, Reads, Calls, Untouched, Same, Fields, DataFields,
          KeyFields,
         Containers
<1>4. \A p \in {"enable", "disable"} : Kind(p) = "leaf" /\ p \notin Results \cup {"idle"} \cup Inner
  BY DEF Results, Kind, Creating, Deleting, Purging, Providing, Restarting, Serving, Leaves, Inner
<1>5. ASSUME Calls("stop", "disable", kept, "stop.main", "fail", "raise")
      PROVE  Enters
  <2>1. pc = "stop"
    BY <1>5 DEF Calls
  <2>2. Callable("disable")
    BY <1>1, <1>4, <2>1, CallersAre DEF Callable
  <2>3. Fits("stop.main") /\ Fits("fail") /\ Fits("raise")
    BY <1>1, <2>1 DEF Fits, Results, Returns
  <2>4. Local(kept)
    BY <1>2
  <2> QED BY <1>5, <2>2, <2>3, <2>4, CallsEnter, Zenon
<1>6. ASSUME Calls("stop.enable", "enable", kept, "fail", "fail", "raise")
      PROVE  Enters
  <2>1. pc = "stop.enable"
    BY <1>6 DEF Calls
  <2>2. Callable("enable")
    BY <1>1, <1>4, <2>1, CallersAre DEF Callable
  <2>3. Fits("fail") /\ Fits("fail") /\ Fits("raise")
    BY <1>1, <2>1 DEF Fits, Results, Returns
  <2>4. Local(kept)
    BY <1>2
  <2> QED BY <1>6, <2>2, <2>3, <2>4, CallsEnter, Zenon
<1> QED
  BY <1>1, <1>2, <1>3, <1>4, <1>5, <1>6 DEF ClawStop, Decides, Writes, Runs, Tries, Reads, Proceeds,
       Goes, Results, Inner

LEMMA ClawRestartSteps ==
  ASSUME Placed, pc # "idle", product = "openclaw", ClawRestart
  PROVE  Proceeds({}) /\ Untouched(host')
<1>1. \A p \in {"restart"} :
        Kind(p) = "restarting" /\ p \notin {"idle"} \cup Inner
  BY DEF Kind, Creating, Deleting, Purging, Providing, Restarting, Serving, Leaves, Inner
<1>2. DOMAIN host = Fields /\ Local(kept)
  BY DEF Placed
<1>3. Untouched(host')
  BY <1>2, DockerSame
     DEF ClawRestart, Decides, Writes, Runs, Tries, Reads, Calls, Untouched, Same, Fields,
          DataFields, KeyFields,
         Containers
<1> QED
  BY <1>1, <1>2, <1>3 DEF ClawRestart, Decides, Writes, Runs, Tries, Reads, Proceeds, Goes, Results,
       Inner

LEMMA ClawUpdateSteps ==
  ASSUME Placed, pc # "idle", product = "openclaw", ClawUpdate
  PROVE  Proceeds({}) /\ Untouched(host')
<1>1. \A p \in {"update_version", "update.look", "update.file", "update.run",
                    "update.wait", "update.undo", "update.undo.data", "update.undo.run"} :
        Kind(p) = "own" /\ p \notin {"idle"} \cup Inner
  BY DEF Kind, Creating, Deleting, Purging, Providing, Restarting, Serving, Leaves, Inner
<1>2. DOMAIN host = Fields /\ Local(kept)
  BY DEF Placed
<1>3. Untouched(host')
  BY <1>2, DockerSame
     DEF ClawUpdate, Decides, Writes, Runs, Tries, Reads, Calls, Untouched, Same, Fields,
          DataFields, KeyFields,
         Containers
<1>4. Local(Old)
  BY <1>2, LocalsStay DEF Old
<1> QED
  BY <1>1, <1>2, <1>3, <1>4 DEF ClawUpdate, Decides, Writes, Runs, Tries, Reads, Proceeds, Goes,
       Results, Inner

LEMMA SkillSteps ==
  ASSUME Placed, pc # "idle", product = "openclaw", InstallSkill
  PROVE  Proceeds({}) /\ Untouched(host')
<1>1. \A p \in {"install_skill", "skills.check", "skills.snap", "skills.again",
                    "skills.run", "skills.end", "skills.failed", "skills.stop",
                    "skills.stopped"} :
        Kind(p) = "own" /\ p \notin {"idle"} \cup Inner
  BY DEF Kind, Creating, Deleting, Purging, Providing, Restarting, Serving, Leaves, Inner
<1>2. DOMAIN host = Fields /\ Local(kept)
  BY DEF Placed
<1>3. Untouched(host')
  BY <1>2, DockerSame
     DEF InstallSkill, Verified, Snapshot, Decides, Writes, Runs, Tries, Reads, Calls, Untouched,
          Same, Fields, DataFields, KeyFields,
         Containers
<1>4. \A p \in {"skills"} : Kind(p) = "leaf" /\ p \notin Results \cup {"idle"} \cup Inner
  BY DEF Results, Kind, Creating, Deleting, Purging, Providing, Restarting, Serving, Leaves, Inner
<1>5. ASSUME Calls("skills.again", "skills", kept, "skills.run", "raise", "raise")
      PROVE  Enters
  <2>1. pc = "skills.again"
    BY <1>5 DEF Calls
  <2>2. Callable("skills")
    BY <1>1, <1>4, <2>1, CallersAre DEF Callable
  <2>3. Fits("skills.run") /\ Fits("raise") /\ Fits("raise")
    BY <1>1, <2>1 DEF Fits, Results, Returns
  <2>4. Local(kept)
    BY <1>2
  <2> QED BY <1>5, <2>2, <2>3, <2>4, CallsEnter, Zenon
<1>6. ASSUME Calls("skills.failed", "skills", kept, "rolledback", "raise", "raise")
      PROVE  Enters
  <2>1. pc = "skills.failed"
    BY <1>6 DEF Calls
  <2>2. Callable("skills")
    BY <1>1, <1>4, <2>1, CallersAre DEF Callable
  <2>3. Fits("rolledback") /\ Fits("raise") /\ Fits("raise")
    BY <1>1, <2>1 DEF Fits, Results, Returns
  <2>4. Local(kept)
    BY <1>2
  <2> QED BY <1>6, <2>2, <2>3, <2>4, CallsEnter, Zenon
<1>7. ASSUME Calls("skills.stopped", "skills", kept, "raise", "raise", "raise")
      PROVE  Enters
  <2>1. pc = "skills.stopped"
    BY <1>7 DEF Calls
  <2>2. Callable("skills")
    BY <1>1, <1>4, <2>1, CallersAre DEF Callable
  <2>3. Fits("raise") /\ Fits("raise") /\ Fits("raise")
    BY <1>1, <2>1 DEF Fits, Results, Returns
  <2>4. Local(kept)
    BY <1>2
  <2> QED BY <1>7, <2>2, <2>3, <2>4, CallsEnter, Zenon
<1> QED
  BY <1>1, <1>2, <1>3, <1>4, <1>5, <1>6, <1>7 DEF InstallSkill, Verified, Snapshot, Decides, Writes,
       Runs, Tries, Reads, Proceeds, Goes, Results, Inner

LEMMA RestoreSkillsSteps ==
  ASSUME Placed, pc # "idle", product = "openclaw", RestoreSkills
  PROVE  Proceeds({}) /\ Untouched(host')
<1>1. \A p \in {"skills", "skills.aside", "skills.put", "skills.back"} :
        Kind(p) = "leaf" /\ p \notin {"idle"} \cup Inner
  BY DEF Kind, Creating, Deleting, Purging, Providing, Restarting, Serving, Leaves, Inner
<1>2. DOMAIN host = Fields /\ Local(kept)
  BY DEF Placed
<1>3. Untouched(host')
  BY <1>2, DockerSame
     DEF RestoreSkills, Decides, Writes, Runs, Tries, Reads, Calls, Untouched, Same, Fields,
          DataFields, KeyFields,
         Containers
<1>4. Local(Locals([was |-> host]))
  BY <1>2, LocalsStay
<1> QED
  BY <1>1, <1>2, <1>3, <1>4 DEF RestoreSkills, Decides, Writes, Runs, Tries, Reads, Proceeds, Goes,
       Results, Inner

LEMMA BasicAuthSteps ==
  ASSUME Placed, pc # "idle", product = "openclaw", BasicAuth
  PROVE  Proceeds({}) /\ Untouched(host')
<1>1. \A p \in {"set_basic_auth", "auth.script", "auth.reload", "auth.undo.script",
                    "auth.raised.script", "auth.undo", "auth.undo.reload", "auth.raised",
                    "auth.raised.reload"} :
        Kind(p) = "own" /\ p \notin {"idle"} \cup Inner
  BY DEF Kind, Creating, Deleting, Purging, Providing, Restarting, Serving, Leaves, Inner
<1>2. DOMAIN host = Fields /\ Local(kept)
  BY DEF Placed
<1>3. Untouched(host')
  BY <1>2, DockerSame
     DEF BasicAuth, AuthBack, Decides, Writes, Runs, Tries, Reads, Calls, Untouched, Same, Fields,
          DataFields, KeyFields,
         Containers
<1>4. Local(Locals([was |-> host]))
  BY <1>2, LocalsStay
<1> QED
  BY <1>1, <1>2, <1>3, <1>4 DEF BasicAuth, AuthBack, Decides, Writes, Runs, Tries, Reads, Proceeds,
       Goes, Results, Inner

LEMMA RunSteps ==
  ASSUME Placed, pc # "idle", product = "evoscientist", RunContainers
  PROVE  Proceeds({}) /\ Untouched(host')
<1>1. \A p \in {"run", "run.proxy", "run.undo"} :
        Kind(p) = "leaf" /\ p \notin {"idle"} \cup Inner
  BY DEF Kind, Creating, Deleting, Purging, Providing, Restarting, Serving, Leaves, Inner
<1>2. DOMAIN host = Fields /\ Local(kept)
  BY DEF Placed
<1>3. Untouched(host')
  BY <1>2, DockerSame
     DEF RunContainers, Decides, Writes, Runs, Tries, Reads, Moves, Calls, Untouched, Same, Fields,
          DataFields, KeyFields,
         Containers
<1> QED
  BY <1>1, <1>2, <1>3
     DEF RunContainers, Decides, Writes, Runs, Tries, Reads, Proceeds, Goes, Results, Inner

LEMMA RemoveSteps ==
  ASSUME Placed, pc # "idle", product = "evoscientist", RemoveContainers
  PROVE  Proceeds({}) /\ Untouched(host')
<1>1. \A p \in {"remove", "remove.main"} :
        Kind(p) = "leaf" /\ p \notin {"idle"} \cup Inner
  BY DEF Kind, Creating, Deleting, Purging, Providing, Restarting, Serving, Leaves, Inner
<1>2. DOMAIN host = Fields /\ Local(kept)
  BY DEF Placed
<1>3. Untouched(host')
  BY <1>2, DockerSame
     DEF RemoveContainers, Decides, Writes, Runs, Tries, Reads, Moves, Calls, Untouched, Same,
          Fields, DataFields, KeyFields,
         Containers
<1> QED
  BY <1>1, <1>2, <1>3
     DEF RemoveContainers, Decides, Writes, Runs, Tries, Reads, Proceeds, Goes, Results, Inner

LEMMA EvoIngressSteps ==
  ASSUME Placed, pc # "idle", product = "evoscientist", ConfigureIngress
  PROVE  Proceeds({}) /\ Untouched(host')
<1>1. \A p \in {"ingress", "ingress.rm", "ingress.run", "ingress.connect",
                    "ingress.undo", "ingress.unlink"} :
        Kind(p) = "leaf" /\ p \notin {"idle"} \cup Inner
  BY DEF Kind, Creating, Deleting, Purging, Providing, Restarting, Serving, Leaves, Inner
<1>2. DOMAIN host = Fields /\ Local(kept)
  BY DEF Placed
<1>3. Untouched(host')
  BY <1>2, DockerSame
     DEF ConfigureIngress, Decides, Writes, Runs, Tries, Reads, Moves, Calls, Untouched, Same,
          Fields, DataFields, KeyFields,
         Containers
<1> QED
  BY <1>1, <1>2, <1>3
     DEF ConfigureIngress, Decides, Writes, Runs, Tries, Reads, Proceeds, Goes, Results, Inner

LEMMA ListsOfContainers ==
  ASSUME Local(kept)
  PROVE  /\ Local(Locals([todo |-> Names, done |-> <<>>]))
         /\ Local(Locals([todo |-> Backwards(Names), done |-> <<>>]))
         /\ kept.todo # <<>> => Head(kept.todo) \in Containers /\ Local(Popped)
         /\ kept.done # <<>> => Head(kept.done) \in Containers /\ Local(Undone)
<1>1. Names \in Seq(Containers)
  <2>1. <<"main", "proxy">> \in Seq(Containers) /\ <<>> \in Seq(Containers) /\ <<"ingress">> \in Seq(Containers)
    BY DEF Containers
  <2>2. Names \in {<<"main", "proxy">> \o <<>>, <<"main", "proxy">> \o <<"ingress">>}
    BY DEF Names
  <2>3. \A a, b \in Seq(Containers) : a \o b \in Seq(Containers)
    OBVIOUS
  <2> QED BY <2>1, <2>2, <2>3
<1>2. ASSUME NEW s \in Seq(Containers)
      PROVE  Backwards(s) \in Seq(Containers)
  <2>1. DOMAIN s = 1..Len(s) /\ Len(s) \in Nat
    OBVIOUS
  <2>2. \A k \in 1..Len(s) : Len(s) + 1 - k \in 1..Len(s)
    BY <2>1
  <2> QED BY <2>1, <2>2 DEF Backwards
<1>3. kept.todo \in Seq(Containers) /\ kept.done \in Seq(Containers)
  BY DEF Local
<1>4. kept.todo # <<>> => /\ Head(kept.todo) \in Containers /\ Tail(kept.todo) \in Seq(Containers)
                          /\ <<Head(kept.todo)>> \o kept.done \in Seq(Containers)
  BY <1>3
<1>5. kept.done # <<>> => Head(kept.done) \in Containers /\ Tail(kept.done) \in Seq(Containers)
  BY <1>3
<1>6. <<>> \in Seq(Containers) /\ Backwards(Names) \in Seq(Containers)
  BY <1>1, <1>2
<1>7. /\ Local(Locals([todo |-> Names, done |-> <<>>]))
      /\ Local(Locals([todo |-> Backwards(Names), done |-> <<>>]))
  BY <1>1, <1>6, LocalsStay
<1>8. kept.todo # <<>> => Local(Popped)
  BY <1>4, LocalsStay DEF Popped
<1>9. kept.done # <<>> => Local(Undone)
  BY <1>5, LocalsStay DEF Undone
<1> QED
  BY <1>4, <1>5, <1>7, <1>8, <1>9

LEMMA EvoStartSteps ==
  ASSUME Placed, pc # "idle", product = "evoscientist", Start
  PROVE  Proceeds({}) /\ Untouched(host')
<1>1. \A p \in {"start", "start.next", "start.undo"} :
        Kind(p) = "own" /\ p \notin {"idle"} \cup Inner
  BY DEF Kind, Creating, Deleting, Purging, Providing, Restarting, Serving, Leaves, Inner
<1>2. DOMAIN host = Fields /\ Local(kept)
  BY DEF Placed
<1>3. Untouched(host')
  BY <1>2, DockerSame, ListsOfContainers
     DEF Start, Decides, Writes, Runs, Tries, Reads, Moves, Calls, Untouched, Same, Fields,
          DataFields, KeyFields,
         Containers
<1> QED
  BY <1>1, <1>2, <1>3, ListsOfContainers
     DEF Start, Decides, Writes, Runs, Tries, Reads, Proceeds, Goes, Results, Inner

LEMMA EvoStopSteps ==
  ASSUME Placed, pc # "idle", product = "evoscientist", Stop
  PROVE  Proceeds({}) /\ Untouched(host')
<1>1. \A p \in {"stop", "stop.next", "stop.undo"} :
        Kind(p) = "leaf" /\ p \notin {"idle"} \cup Inner
  BY DEF Kind, Creating, Deleting, Purging, Providing, Restarting, Serving, Leaves, Inner
<1>2. DOMAIN host = Fields /\ Local(kept)
  BY DEF Placed
<1>3. Untouched(host')
  BY <1>2, DockerSame, ListsOfContainers
     DEF Stop, Decides, Writes, Runs, Tries, Reads, Moves, Calls, Untouched, Same, Fields,
          DataFields, KeyFields,
         Containers
<1> QED
  BY <1>1, <1>2, <1>3, ListsOfContainers
     DEF Stop, Decides, Writes, Runs, Tries, Reads, Proceeds, Goes, Results, Inner

LEMMA EvoRestartSteps ==
  ASSUME Placed, pc # "idle", product = "evoscientist", Restart
  PROVE  Proceeds({}) /\ Untouched(host')
<1>1. \A p \in {"restart", "restart.next"} :
        Kind(p) = "restarting" /\ p \notin {"idle"} \cup Inner
  BY DEF Kind, Creating, Deleting, Purging, Providing, Restarting, Serving, Leaves, Inner
<1>2. DOMAIN host = Fields /\ Local(kept)
  BY DEF Placed
<1>3. Untouched(host')
  BY <1>2, DockerSame, ListsOfContainers
     DEF Restart, Decides, Writes, Runs, Tries, Reads, Moves, Calls, Untouched, Same, Fields,
          DataFields, KeyFields,
         Containers
<1> QED
  BY <1>1, <1>2, <1>3, ListsOfContainers
     DEF Restart, Decides, Writes, Runs, Tries, Reads, Proceeds, Goes, Results, Inner

LEMMA EvoCleanupSteps ==
  ASSUME Placed, pc # "idle", product = "evoscientist", CleanupFailed
  PROVE  Proceeds({}) /\ Untouched(host')
<1>1. \A p \in {"cleanup_failed", "cleanup.proxy", "cleanup.ingress", "cleanup.conf",
                    "cleanup.net"} :
        Kind(p) = "own" /\ p \notin {"idle"} \cup Inner
  BY DEF Kind, Creating, Deleting, Purging, Providing, Restarting, Serving, Leaves, Inner
<1>2. DOMAIN host = Fields /\ Local(kept)
  BY DEF Placed
<1>3. Untouched(host')
  BY <1>2, DockerSame
     DEF CleanupFailed, Decides, Writes, Runs, Tries, Reads, Moves, Calls, Untouched, Same, Fields,
          DataFields, KeyFields,
         Containers
<1> QED
  BY <1>1, <1>2, <1>3
     DEF CleanupFailed, Decides, Writes, Runs, Tries, Reads, Proceeds, Goes, Results, Inner

LEMMA EvoUpdateSteps ==
  ASSUME Placed, pc # "idle", product = "evoscientist", UpdateForward
  PROVE  Proceeds({}) /\ Untouched(host')
<1>1. \A p \in {"update_version", "update.inspect", "update.look", "update.remove",
                    "update.run", "update.wait", "update.stop", "update.undo"} :
        Kind(p) = "own" /\ p \notin {"idle"} \cup Inner
  BY DEF Kind, Creating, Deleting, Purging, Providing, Restarting, Serving, Leaves, Inner
<1>2. DOMAIN host = Fields /\ Local(kept)
  BY DEF Placed
<1>3. Untouched(host')
  BY <1>2, DockerSame
     DEF UpdateForward, Decides, Writes, Runs, Tries, Reads, Moves, Calls, Untouched, Same, Fields,
          DataFields, KeyFields,
         Containers
<1>4. \A p \in {"remove", "run", "stop"} : Kind(p) = "leaf" /\ p \notin Results \cup {"idle"} \cup Inner
  BY DEF Results, Kind, Creating, Deleting, Purging, Providing, Restarting, Serving, Leaves, Inner
<1>5. ASSUME Calls("update.remove", "remove", kept, "update.run", "fail", "update.undo")
      PROVE  Enters
  <2>1. pc = "update.remove"
    BY <1>5 DEF Calls
  <2>2. Callable("remove")
    BY <1>1, <1>4, <2>1, CallersAre DEF Callable
  <2>3. Fits("update.run") /\ Fits("fail") /\ Fits("update.undo")
    BY <1>1, <2>1 DEF Fits, Results, Returns
  <2>4. Local(kept)
    BY <1>2
  <2> QED BY <1>5, <2>2, <2>3, <2>4, CallsEnter, Zenon
<1>6. ASSUME Calls("update.run", "run", kept, "update.wait", "update.undo", "update.undo")
      PROVE  Enters
  <2>1. pc = "update.run"
    BY <1>6 DEF Calls
  <2>2. Callable("run")
    BY <1>1, <1>4, <2>1, CallersAre DEF Callable
  <2>3. Fits("update.wait") /\ Fits("update.undo") /\ Fits("update.undo")
    BY <1>1, <2>1 DEF Fits, Results, Returns
  <2>4. Local(kept)
    BY <1>2
  <2> QED BY <1>6, <2>2, <2>3, <2>4, CallsEnter, Zenon
<1>7. ASSUME Calls("update.stop", "stop", kept, "ok", "ok", "update.undo")
      PROVE  Enters
  <2>1. pc = "update.stop"
    BY <1>7 DEF Calls
  <2>2. Callable("stop")
    BY <1>1, <1>4, <2>1, CallersAre DEF Callable
  <2>3. Fits("ok") /\ Fits("ok") /\ Fits("update.undo")
    BY <1>1, <2>1 DEF Fits, Results, Returns
  <2>4. Local(kept)
    BY <1>2
  <2> QED BY <1>7, <2>2, <2>3, <2>4, CallsEnter, Zenon
<1>8. Local(Locals([image |-> host.image, running |-> host.main = "running", target |-> "new"]))
  BY <1>2, LocalsStay
<1> QED
  BY <1>1, <1>2, <1>3, <1>4, <1>5, <1>6, <1>7, <1>8
     DEF UpdateForward, Decides, Writes, Runs, Tries, Reads, Proceeds, Goes, Results, Inner

LEMMA EvoUpdateUndoSteps ==
  ASSUME Placed, pc # "idle", product = "evoscientist", UpdateUndo
  PROVE  Proceeds({}) /\ Untouched(host')
<1>1. \A p \in {"update.undo", "update.undo.run", "update.undo.wait", "update.undo.stop"} :
        Kind(p) = "own" /\ p \notin {"idle"} \cup Inner
  BY DEF Kind, Creating, Deleting, Purging, Providing, Restarting, Serving, Leaves, Inner
<1>2. DOMAIN host = Fields /\ Local(kept)
  BY DEF Placed
<1>3. Untouched(host')
  BY <1>2, DockerSame
     DEF UpdateUndo, Decides, Writes, Runs, Tries, Reads, Moves, Calls, Untouched, Same, Fields,
          DataFields, KeyFields,
         Containers
<1>4. \A p \in {"remove", "run", "stop"} : Kind(p) = "leaf" /\ p \notin Results \cup {"idle"} \cup Inner
  BY DEF Results, Kind, Creating, Deleting, Purging, Providing, Restarting, Serving, Leaves, Inner
<1>5. ASSUME Calls("update.undo", "remove", kept, "update.undo.run", "update.undo.run", "raise")
      PROVE  Enters
  <2>1. pc = "update.undo"
    BY <1>5 DEF Calls
  <2>2. Callable("remove")
    BY <1>1, <1>4, <2>1, CallersAre DEF Callable
  <2>3. Fits("update.undo.run") /\ Fits("update.undo.run") /\ Fits("raise")
    BY <1>1, <2>1 DEF Fits, Results, Returns
  <2>4. Local(kept)
    BY <1>2
  <2> QED BY <1>5, <2>2, <2>3, <2>4, CallsEnter, Zenon
<1>6. ASSUME Calls("update.undo.run", "run", Locals([target |-> kept.image]), "update.undo.wait", "manual", "manual")
      PROVE  Enters
  <2>1. pc = "update.undo.run"
    BY <1>6 DEF Calls
  <2>2. Callable("run")
    BY <1>1, <1>4, <2>1, CallersAre DEF Callable
  <2>3. Fits("update.undo.wait") /\ Fits("manual") /\ Fits("manual")
    BY <1>1, <2>1 DEF Fits, Results, Returns
  <2>4. Local(Locals([target |-> kept.image]))
    BY <1>2, LocalsStay
  <2> QED BY <1>6, <2>2, <2>3, <2>4, CallsEnter, Zenon
<1>7. ASSUME Calls("update.undo.stop", "stop", kept, "rolledback", "rolledback", "manual")
      PROVE  Enters
  <2>1. pc = "update.undo.stop"
    BY <1>7 DEF Calls
  <2>2. Callable("stop")
    BY <1>1, <1>4, <2>1, CallersAre DEF Callable
  <2>3. Fits("rolledback") /\ Fits("rolledback") /\ Fits("manual")
    BY <1>1, <2>1 DEF Fits, Results, Returns
  <2>4. Local(kept)
    BY <1>2
  <2> QED BY <1>7, <2>2, <2>3, <2>4, CallsEnter, Zenon
<1> QED
  BY <1>1, <1>2, <1>3, <1>4, <1>5, <1>6, <1>7
     DEF UpdateUndo, Decides, Writes, Runs, Tries, Reads, Proceeds, Goes, Results, Inner

LEMMA HermesStopSteps ==
  ASSUME Placed, pc # "idle", product = "hermes", HermesStop
  PROVE  Proceeds({}) /\ Untouched(host')
<1>1. \A p \in {"stop", "stop.main", "stop.reload", "stop.back", "stop.again"} :
        Kind(p) = "leaf" /\ p \notin {"idle"} \cup Inner
  BY DEF Kind, Creating, Deleting, Purging, Providing, Restarting, Serving, Leaves, Inner
<1>2. DOMAIN host = Fields /\ Local(kept)
  BY DEF Placed
<1>3. Untouched(host')
  BY <1>2, DockerSame
     DEF HermesStop, Decides, Writes, Runs, Tries, Reads, Moves, Calls, Untouched, Same, Fields,
          DataFields, KeyFields,
         Containers
<1> QED
  BY <1>1, <1>2, <1>3
     DEF HermesStop, Decides, Writes, Runs, Tries, Reads, Proceeds, Goes, Results, Inner

LEMMA HermesStartSteps ==
  ASSUME Placed, pc # "idle", product = "hermes", HermesStart
  PROVE  Proceeds({}) /\ Untouched(host')
<1>1. \A p \in {"start", "start.wait", "start.enable", "start.reload",
                    "start.disable", "start.stop"} :
        Kind(p) = "own" /\ p \notin {"idle"} \cup Inner
  BY DEF Kind, Creating, Deleting, Purging, Providing, Restarting, Serving, Leaves, Inner
<1>2. DOMAIN host = Fields /\ Local(kept)
  BY DEF Placed
<1>3. Untouched(host')
  BY <1>2, DockerSame
     DEF HermesStart, WaitForDashboard, Decides, Writes, Runs, Tries, Reads, Moves, Calls,
          Untouched, Same, Fields, DataFields, KeyFields,
         Containers
<1> QED
  BY <1>1, <1>2, <1>3
     DEF HermesStart, WaitForDashboard, Decides, Writes, Runs, Tries, Reads, Proceeds, Goes,
          Results, Inner

LEMMA HermesRestartSteps ==
  ASSUME Placed, pc # "idle", product = "hermes", HermesRestart
  PROVE  Proceeds({}) /\ Untouched(host')
<1>1. \A p \in {"restart", "restart.wait"} :
        Kind(p) = "restarting" /\ p \notin {"idle"} \cup Inner
  BY DEF Kind, Creating, Deleting, Purging, Providing, Restarting, Serving, Leaves, Inner
<1>2. DOMAIN host = Fields /\ Local(kept)
  BY DEF Placed
<1>3. Untouched(host')
  BY <1>2, DockerSame
     DEF HermesRestart, WaitForDashboard, Decides, Writes, Runs, Tries, Reads, Moves, Calls,
          Untouched, Same, Fields, DataFields, KeyFields,
         Containers
<1> QED
  BY <1>1, <1>2, <1>3
     DEF HermesRestart, WaitForDashboard, Decides, Writes, Runs, Tries, Reads, Proceeds, Goes,
          Results, Inner

LEMMA HermesIngressSteps ==
  ASSUME Placed, pc # "idle", product = "hermes", HermesIngress
  PROVE  Proceeds({}) /\ Untouched(host')
<1>1. /\ \A p \in {"ingress", "ingress.write", "ingress.apply", "ingress.reload",
                    "ingress.undo", "ingress.undo.apply", "ingress.undo.reload"} :
           Kind(p) = "leaf" /\ p \notin {"idle"} \cup Inner
      /\ \A p \in {"refresh_ingress"} :
           Kind(p) = "own" /\ p \notin {"idle"} \cup Inner
  BY DEF Kind, Creating, Deleting, Purging, Providing, Restarting, Serving, Leaves, Inner
<1>2. DOMAIN host = Fields /\ Local(kept)
  BY DEF Placed
<1>3. Untouched(host')
  BY <1>2, DockerSame
     DEF HermesIngress, NoteIngress, Decides, Writes, Runs, Tries, Reads, Moves, Calls, Untouched,
          Same, Fields, DataFields, KeyFields,
         Containers
<1>4. \A p \in {"ingress"} : Kind(p) = "leaf" /\ p \notin Results \cup {"idle"} \cup Inner
  BY DEF Results, Kind, Creating, Deleting, Purging, Providing, Restarting, Serving, Leaves, Inner
<1>5. ASSUME Calls("refresh_ingress", "ingress", kept, "ok", "fail", "raise")
      PROVE  Enters
  <2>1. pc = "refresh_ingress"
    BY <1>5 DEF Calls
  <2>2. Callable("ingress")
    BY <1>1, <1>4, <2>1, CallersAre DEF Callable
  <2>3. Fits("ok") /\ Fits("fail") /\ Fits("raise")
    BY <1>1, <2>1 DEF Fits, Results, Returns
  <2>4. Local(kept)
    BY <1>2
  <2> QED BY <1>5, <2>2, <2>3, <2>4, CallsEnter, Zenon
<1>6. Local(Locals([inner |-> NoteIngress]))
  BY <1>2, LocalsStay
<1> QED
  BY <1>1, <1>2, <1>3, <1>4, <1>5, <1>6
     DEF HermesIngress, NoteIngress, Decides, Writes, Runs, Tries, Reads, Proceeds, Goes, Results,
          Inner

LEMMA HermesRuntimeSteps ==
  ASSUME Placed, pc # "idle", product = "hermes", HermesRuntime
  PROVE  Proceeds({}) /\ Untouched(host')
<1>1. \A p \in {"runtime", "runtime.run", "runtime.wait", "runtime.link",
                    "runtime.ingress", "runtime.stop"} :
        Kind(p) = "serving" /\ p \notin {"idle"} \cup Inner
  BY DEF Kind, Creating, Deleting, Purging, Providing, Restarting, Serving, Leaves, Inner
<1>2. DOMAIN host = Fields /\ Local(kept)
  BY DEF Placed
<1>3. Untouched(host')
  BY <1>2, DockerSame
     DEF HermesRuntime, WaitForDashboard, Decides, Writes, Runs, Tries, Reads, Moves, Calls,
          Untouched, Same, Fields, DataFields, KeyFields,
         Containers
<1>4. \A p \in {"ingress", "stop"} : Kind(p) = "leaf" /\ p \notin Results \cup {"idle"} \cup Inner
  BY DEF Results, Kind, Creating, Deleting, Purging, Providing, Restarting, Serving, Leaves, Inner
<1>5. ASSUME Calls("runtime.ingress", "ingress", kept, IF kept.running THEN "ok" ELSE "runtime.stop", "fail", "raise")
      PROVE  Enters
  <2>1. pc = "runtime.ingress"
    BY <1>5 DEF Calls
  <2>2. Callable("ingress")
    BY <1>1, <1>4, <2>1, CallersAre DEF Callable
  <2>3. Fits(IF kept.running THEN "ok" ELSE "runtime.stop") /\ Fits("fail") /\ Fits("raise")
    BY <1>1, <2>1 DEF Fits, Results, Returns
  <2>4. Local(kept)
    BY <1>2
  <2> QED BY <1>5, <2>2, <2>3, <2>4, CallsEnter, Zenon
<1>6. ASSUME Calls("runtime.stop", "stop", kept, "ok", "fail", "raise")
      PROVE  Enters
  <2>1. pc = "runtime.stop"
    BY <1>6 DEF Calls
  <2>2. Callable("stop")
    BY <1>1, <1>4, <2>1, CallersAre DEF Callable
  <2>3. Fits("ok") /\ Fits("fail") /\ Fits("raise")
    BY <1>1, <2>1 DEF Fits, Results, Returns
  <2>4. Local(kept)
    BY <1>2
  <2> QED BY <1>6, <2>2, <2>3, <2>4, CallsEnter, Zenon
<1> QED
  BY <1>1, <1>2, <1>3, <1>4, <1>5, <1>6
     DEF HermesRuntime, WaitForDashboard, Decides, Writes, Runs, Tries, Reads, Proceeds, Goes,
          Results, Inner

LEMMA HermesUpdateSteps ==
  ASSUME Placed, pc # "idle", product = "hermes", HermesUpdate
  PROVE  Proceeds({}) /\ Untouched(host')
<1>1. \A p \in {"update_version", "update.look", "update.remove", "update.run",
                    "update.wait", "update.stop", "update.undo", "update.undo.run",
                    "update.undo.wait", "update.undo.stop"} :
        Kind(p) = "own" /\ p \notin {"idle"} \cup Inner
  BY DEF Kind, Creating, Deleting, Purging, Providing, Restarting, Serving, Leaves, Inner
<1>2. DOMAIN host = Fields /\ Local(kept)
  BY DEF Placed
<1>3. Untouched(host')
  BY <1>2, DockerSame
     DEF HermesUpdate, WaitForDashboard, Decides, Writes, Runs, Tries, Reads, Moves, Calls,
          Untouched, Same, Fields, DataFields, KeyFields,
         Containers
<1>4. \A p \in {"stop"} : Kind(p) = "leaf" /\ p \notin Results \cup {"idle"} \cup Inner
  BY DEF Results, Kind, Creating, Deleting, Purging, Providing, Restarting, Serving, Leaves, Inner
<1>5. ASSUME Calls("update.stop", "stop", kept, "ok", "update.undo", "update.undo")
      PROVE  Enters
  <2>1. pc = "update.stop"
    BY <1>5 DEF Calls
  <2>2. Callable("stop")
    BY <1>1, <1>4, <2>1, CallersAre DEF Callable
  <2>3. Fits("ok") /\ Fits("update.undo") /\ Fits("update.undo")
    BY <1>1, <2>1 DEF Fits, Results, Returns
  <2>4. Local(kept)
    BY <1>2
  <2> QED BY <1>5, <2>2, <2>3, <2>4, CallsEnter, Zenon
<1>6. ASSUME Calls("update.undo.stop", "stop", kept, "rolledback", "manual", "raise")
      PROVE  Enters
  <2>1. pc = "update.undo.stop"
    BY <1>6 DEF Calls
  <2>2. Callable("stop")
    BY <1>1, <1>4, <2>1, CallersAre DEF Callable
  <2>3. Fits("rolledback") /\ Fits("manual") /\ Fits("raise")
    BY <1>1, <2>1 DEF Fits, Results, Returns
  <2>4. Local(kept)
    BY <1>2
  <2> QED BY <1>6, <2>2, <2>3, <2>4, CallsEnter, Zenon
<1>7. Local(Locals([image |-> host.image, running |-> host.main = "running"]))
  BY <1>2, LocalsStay
<1> QED
  BY <1>1, <1>2, <1>3, <1>4, <1>5, <1>6, <1>7
     DEF HermesUpdate, WaitForDashboard, Decides, Writes, Runs, Tries, Reads, Proceeds, Goes,
          Results, Inner

------------------------------------------------------------------------------
(* The functions that move the data *)

LEMMA ClawCreateSteps ==
  ASSUME Placed, pc # "idle", product = "openclaw", ClawCreate
  PROVE  Proceeds({}) /\ Same(host', KeyFields \cup {"bin", "recycle"}) /\ (pc \notin {"create.files"} => Untouched(host'))
<1>1. \A p \in {"create", "create.port", "create.files", "create.conf",
                    "create.mapping", "create.run", "create.link", "create.publish",
                    "create.reload", "create.retract", "create.undo"} :
        Kind(p) = "creating" /\ p \notin {"idle"} \cup Inner
  BY DEF Kind, Creating, Deleting, Purging, Providing, Restarting, Serving, Leaves, Inner
<1>2. DOMAIN host = Fields /\ Local(kept)
  BY DEF Placed
<1>3. Same(host', KeyFields \cup {"bin", "recycle"}) /\ (pc \notin {"create.files"} => Untouched(host'))
  <2>1. CASE pc \in {"create.files"}
    <3>1. Same(host', KeyFields \cup {"bin", "recycle"})
      BY <1>2, <2>1, DockerSame
         DEF ClawCreate, Decides, Writes, Runs, Tries, Reads, Moves, Calls, Untouched, Same,
             Fields, DataFields, KeyFields, Containers
    <3> QED BY <2>1, <3>1
  <2>2. CASE pc \notin {"create.files"}
    <3>1. Untouched(host')
      BY <1>2, <2>2, DockerSame
         DEF ClawCreate, Decides, Writes, Runs, Tries, Reads, Moves, Calls, Untouched, Same,
             Fields, DataFields, KeyFields, Containers
    <3> QED BY <3>1 DEF Untouched, Same, DataFields, KeyFields
  <2> QED BY <2>1, <2>2
<1>4. \A p \in {"delete"} : Kind(p) = "deleting" /\ p \notin Results \cup {"idle"} \cup Inner
  BY DEF Results, Kind, Creating, Deleting, Purging, Providing, Restarting, Serving, Leaves, Inner
<1>5. ASSUME Calls("create.retract", "delete", NoLocals, "rolledback", "manual", "raise")
      PROVE  Enters
  <2>1. pc = "create.retract"
    BY <1>5 DEF Calls
  <2>2. Callable("delete")
    BY <1>1, <1>4, <2>1, CallersAre DEF Callable
  <2>3. Fits("rolledback") /\ Fits("manual") /\ Fits("raise")
    BY <1>1, <2>1 DEF Fits, Results, Returns
  <2>4. Local(NoLocals)
    BY <1>2, NoLocalsLocal
  <2> QED BY <1>5, <2>2, <2>3, <2>4, CallsEnter, Zenon
<1> QED
  BY <1>1, <1>2, <1>3, <1>4, <1>5
     DEF ClawCreate, Decides, Writes, Runs, Tries, Reads, Proceeds, Goes, Results, Inner

LEMMA ClawCreateUndoSteps ==
  ASSUME Placed, pc # "idle", product = "openclaw", ClawCreateUndo
  PROVE  Proceeds({}) /\ Same(host', KeyFields \cup {"bin", "recycle"}) /\ (pc \notin {"create.undo.files"} => Untouched(host'))
<1>1. \A p \in {"create.undo", "create.undo.run", "create.undo.net",
                    "create.undo.mapping", "create.undo.conf", "create.undo.files"} :
        Kind(p) = "creating" /\ p \notin {"idle"} \cup Inner
  BY DEF Kind, Creating, Deleting, Purging, Providing, Restarting, Serving, Leaves, Inner
<1>2. DOMAIN host = Fields /\ Local(kept)
  BY DEF Placed
<1>3. Same(host', KeyFields \cup {"bin", "recycle"}) /\ (pc \notin {"create.undo.files"} => Untouched(host'))
  <2>1. CASE pc \in {"create.undo.files"}
    <3>1. Same(host', KeyFields \cup {"bin", "recycle"})
      BY <1>2, <2>1, DockerSame
         DEF ClawCreateUndo, Decides, Writes, Runs, Tries, Reads, Moves, Calls, Untouched, Same,
             Fields, DataFields, KeyFields, Containers
    <3> QED BY <2>1, <3>1
  <2>2. CASE pc \notin {"create.undo.files"}
    <3>1. Untouched(host')
      BY <1>2, <2>2, DockerSame
         DEF ClawCreateUndo, Decides, Writes, Runs, Tries, Reads, Moves, Calls, Untouched, Same,
             Fields, DataFields, KeyFields, Containers
    <3> QED BY <3>1 DEF Untouched, Same, DataFields, KeyFields
  <2> QED BY <2>1, <2>2
<1> QED
  BY <1>1, <1>2, <1>3
     DEF ClawCreateUndo, Decides, Writes, Runs, Tries, Reads, Proceeds, Goes, Results, Inner

LEMMA ClawDeleteSteps ==
  ASSUME Placed, pc # "idle", product = "openclaw", ClawDelete
  PROVE  /\ Proceeds({"delete.move"}) /\ (pc \notin {"delete.entry", "delete.move"} => Proceeds({}))
         /\ Same(host', KeyFields) /\ (pc \notin {"delete.entry", "delete.move"} => Untouched(host'))
<1>1. \A p \in {"delete", "delete.unlink", "delete.down", "delete.net",
                    "delete.entry", "delete.move", "delete.conf", "delete.mapping",
                    "delete.apply", "delete.reload", "delete.row", "delete.written"} :
        Kind(p) = "deleting" /\ p \notin {"idle"} \cup (Inner \ {"delete.move"})
  BY DEF Kind, Creating, Deleting, Purging, Providing, Restarting, Serving, Leaves, Inner
<1>2. DOMAIN host = Fields /\ Local(kept)
  BY DEF Placed
<1>3. Same(host', KeyFields) /\ (pc \notin {"delete.entry", "delete.move"} => Untouched(host'))
  <2>1. CASE pc \in {"delete.entry", "delete.move"}
    <3>1. Same(host', KeyFields)
      BY <1>2, <2>1, DockerSame
         DEF ClawDelete, NewEntry, SiteMoved, Decides, Writes, Runs, Tries, Reads, Moves, Calls,
             Untouched, Same, Fields, DataFields, KeyFields, Containers
    <3> QED BY <2>1, <3>1
  <2>2. CASE pc \notin {"delete.entry", "delete.move"}
    <3>1. Untouched(host')
      BY <1>2, <2>2, DockerSame
         DEF ClawDelete, NewEntry, SiteMoved, Decides, Writes, Runs, Tries, Reads, Moves, Calls,
             Untouched, Same, Fields, DataFields, KeyFields, Containers
    <3> QED BY <3>1 DEF Untouched, Same, DataFields, KeyFields
  <2> QED BY <2>1, <2>2
<1> QED
  BY <1>1, <1>2, <1>3
     DEF ClawDelete, NewEntry, SiteMoved, Decides, Writes, Runs, Tries, Reads, Moves, Proceeds,
          Goes, Results, Inner

LEMMA ClawRestoreSteps ==
  ASSUME Placed, pc # "idle", product = "openclaw", ClawRestore
  PROVE  Proceeds({}) /\ Same(host', KeyFields) /\ (pc \notin {"restore.move"} => Untouched(host'))
<1>1. \A p \in {"restore", "restore.move", "restore.net", "restore.conf",
                    "restore.mapping", "restore.run", "restore.link", "restore.apply",
                    "restore.test", "restore.reload", "restore.row", "restore.written",
                    "restore.undo", "restore.undo.conf", "restore.undo.apply"} :
        Kind(p) = "own" /\ p \notin {"idle"} \cup Inner
  BY DEF Kind, Creating, Deleting, Purging, Providing, Restarting, Serving, Leaves, Inner
<1>2. DOMAIN host = Fields /\ Local(kept)
  BY DEF Placed
<1>3. Same(host', KeyFields) /\ (pc \notin {"restore.move"} => Untouched(host'))
  <2>1. CASE pc = "restore.move"
    <3>1. Same(host', KeyFields)
      BY <1>2, <2>1
         DEF ClawRestore, Decides, Writes, Runs, Tries, Reads, Moves, Same, Fields, KeyFields
    <3> QED BY <2>1, <3>1
  <2>2. CASE pc # "restore.move"
    <3>1. Untouched(host')
      BY <1>2, <2>2, DockerSame
         DEF ClawRestore, Decides, Writes, Runs, Tries, Reads, Moves, Untouched, Same, Fields,
              DataFields,
             KeyFields
    <3> QED BY <3>1 DEF Untouched, Same
  <2> QED BY <2>1, <2>2
<1> QED
  BY <1>1, <1>2, <1>3
     DEF ClawRestore, Decides, Writes, Runs, Tries, Reads, Moves, Proceeds, Goes, Results, Inner

LEMMA ClawPurgeSteps ==
  ASSUME Placed, pc # "idle", product = "openclaw", ClawPurge
  PROVE  Proceeds({}) /\ Same(host', KeyFields) /\ (pc \notin {"purge.tree"} => Untouched(host'))
<1>1. \A p \in {"purge_deleted", "purge.tree"} :
        Kind(p) = "purging" /\ p \notin {"idle"} \cup Inner
  BY DEF Kind, Creating, Deleting, Purging, Providing, Restarting, Serving, Leaves, Inner
<1>2. DOMAIN host = Fields /\ Local(kept)
  BY DEF Placed
<1>3. ASSUME NEW h \in Purged \cup {host, [host EXCEPT !.bin = {}, !.site = FALSE]}
      PROVE  Same(h, KeyFields)
  <2>1. ASSUME NEW k, NEW gone, h = [Uncovered(k) EXCEPT !.older = @ \ gone]
        PROVE  Same(h, KeyFields)
    <3>1. DOMAIN Uncovered(k) = Fields /\ \A f \in KeyFields : Uncovered(k)[f] = host[f]
      BY <1>2 DEF Uncovered, KeyFields, Fields
    <3> QED BY <2>1, <3>1 DEF Same, KeyFields, Fields
  <2>2. ASSUME host.older = {} \/ h \notin Purged
        PROVE  Same(h, KeyFields)
    BY <1>2, <2>2 DEF Purged, Same, KeyFields, Fields
  <2>3. CASE host.older # {} /\ h \in Purged
    <3>1. PICK k \in host.older : h \in {[Uncovered(k) EXCEPT !.older = @ \ gone] : gone \in {{}, {k}}}
      BY <2>3, Zenon DEF Purged
    <3> QED BY <2>1, <3>1
  <2> QED BY <2>2, <2>3
<1>4. CASE Decides("purge_deleted", IF host.recycle = "none" THEN "fail" ELSE "purge.tree", kept)
  <2>1. Untouched(host) /\ Same(host, KeyFields)
    BY <1>2, DockerSame DEF Untouched, Same
  <2>2. host' = host
    BY <1>4 DEF Decides
  <2>3. Untouched(host') /\ Same(host', KeyFields)
    BY <2>1, <2>2
  <2>4. Proceeds({})
    BY <1>1, <1>2, <1>4 DEF Decides, Proceeds, Goes, Results, Inner
  <2> QED BY <2>3, <2>4
<1>5. CASE pc = "purge.tree" /\ (To("ok", kept) \/ To("fail", kept))
           /\ host' \in Purged \cup {host, [host EXCEPT !.bin = {}, !.site = FALSE]}
  BY <1>1, <1>2, <1>3, <1>5 DEF Proceeds, Goes, Results, Inner
<1> HIDE DEF Purged
<1> QED BY <1>4, <1>5 DEF ClawPurge

LEMMA EvoCreateSteps ==
  ASSUME Placed, pc # "idle", product = "evoscientist", Create
  PROVE  Proceeds({}) /\ Same(host', KeyFields) /\ (pc \notin {"create.files", "create.undo.files"} => Untouched(host'))
<1>1. \A p \in {"create", "create.net", "create.files", "create.prepare",
                    "create.run", "create.wait", "create.port", "create.undo",
                    "create.undo.files", "create.undo.net", "create.publish",
                    "create.retract"} :
        Kind(p) = "creating" /\ p \notin {"idle"} \cup Inner
  BY DEF Kind, Creating, Deleting, Purging, Providing, Restarting, Serving, Leaves, Inner
<1>2. DOMAIN host = Fields /\ Local(kept)
  BY DEF Placed
<1>3. Same(host', KeyFields) /\ (pc \notin {"create.files", "create.undo.files"} => Untouched(host'))
  <2>1. CASE pc \in {"create.files", "create.undo.files"}
    <3>1. Same(host', KeyFields)
      BY <1>2, <2>1, DockerSame
         DEF Create, Decides, Writes, Runs, Tries, Reads, Moves, Calls, Untouched, Same, Fields,
             DataFields, KeyFields, Containers
    <3> QED BY <2>1, <3>1
  <2>2. CASE pc \notin {"create.files", "create.undo.files"}
    <3>1. Untouched(host')
      BY <1>2, <2>2, DockerSame
         DEF Create, Decides, Writes, Runs, Tries, Reads, Moves, Calls, Untouched, Same, Fields,
             DataFields, KeyFields, Containers
    <3> QED BY <3>1 DEF Untouched, Same, DataFields, KeyFields
  <2> QED BY <2>1, <2>2
<1>4. /\ \A p \in {"run", "remove", "ingress"} : Kind(p) = "leaf" /\ p \notin Results \cup {"idle"} \cup Inner
      /\ \A p \in {"delete"} : Kind(p) = "deleting" /\ p \notin Results \cup {"idle"} \cup Inner
  BY DEF Results, Kind, Creating, Deleting, Purging, Providing, Restarting, Serving, Leaves, Inner
<1>5. ASSUME Calls("create.run", "run", kept, "create.wait", "create.undo", "create.undo")
      PROVE  Enters
  <2>1. pc = "create.run"
    BY <1>5 DEF Calls
  <2>2. Callable("run")
    BY <1>1, <1>4, <2>1, CallersAre DEF Callable
  <2>3. Fits("create.wait") /\ Fits("create.undo") /\ Fits("create.undo")
    BY <1>1, <2>1 DEF Fits, Results, Returns
  <2>4. Local(kept)
    BY <1>2
  <2> QED BY <1>5, <2>2, <2>3, <2>4, CallsEnter, Zenon
<1>6. ASSUME Calls("create.undo", "remove", kept, "create.undo.files", "create.undo.files", "raise")
      PROVE  Enters
  <2>1. pc = "create.undo"
    BY <1>6 DEF Calls
  <2>2. Callable("remove")
    BY <1>1, <1>4, <2>1, CallersAre DEF Callable
  <2>3. Fits("create.undo.files") /\ Fits("create.undo.files") /\ Fits("raise")
    BY <1>1, <2>1 DEF Fits, Results, Returns
  <2>4. Local(kept)
    BY <1>2
  <2> QED BY <1>6, <2>2, <2>3, <2>4, CallsEnter, Zenon
<1>7. ASSUME Calls("create.publish", "ingress", kept, "ok", "create.retract", "raise")
      PROVE  Enters
  <2>1. pc = "create.publish"
    BY <1>7 DEF Calls
  <2>2. Callable("ingress")
    BY <1>1, <1>4, <2>1, CallersAre DEF Callable
  <2>3. Fits("ok") /\ Fits("create.retract") /\ Fits("raise")
    BY <1>1, <2>1 DEF Fits, Results, Returns
  <2>4. Local(kept)
    BY <1>2
  <2> QED BY <1>7, <2>2, <2>3, <2>4, CallsEnter, Zenon
<1>8. ASSUME Calls("create.retract", "delete", NoLocals, "rolledback", "manual", "raise")
      PROVE  Enters
  <2>1. pc = "create.retract"
    BY <1>8 DEF Calls
  <2>2. Callable("delete")
    BY <1>1, <1>4, <2>1, CallersAre DEF Callable
  <2>3. Fits("rolledback") /\ Fits("manual") /\ Fits("raise")
    BY <1>1, <2>1 DEF Fits, Results, Returns
  <2>4. Local(NoLocals)
    BY <1>2, NoLocalsLocal
  <2> QED BY <1>8, <2>2, <2>3, <2>4, CallsEnter, Zenon
<1>9. Local(Locals([net |-> host.net, target |-> "old"]))
  BY <1>2, LocalsStay
<1> QED
  BY <1>1, <1>2, <1>3, <1>4, <1>5, <1>6, <1>7, <1>8, <1>9
     DEF Create, Decides, Writes, Runs, Tries, Reads, Proceeds, Goes, Results, Inner

LEMMA EvoDeleteSteps ==
  ASSUME Placed, pc # "idle", product = "evoscientist", DeleteForward
  PROVE  Proceeds({"delete.move"}) /\ Same(host', KeyFields) /\ (pc \notin {"delete.entry", "delete.move", "delete.list"} => Untouched(host'))
<1>1. \A p \in {"delete", "delete.inspect", "delete.containers", "delete.entry",
                    "delete.move", "delete.ingress", "delete.conf", "delete.list",
                    "delete.undo"} :
        Kind(p) = "deleting" /\ p \notin {"idle"} \cup (Inner \ {"delete.move"})
  BY DEF Kind, Creating, Deleting, Purging, Providing, Restarting, Serving, Leaves, Inner
<1>2. DOMAIN host = Fields /\ Local(kept)
  BY DEF Placed
<1>3. Same(host', KeyFields) /\ (pc \notin {"delete.entry", "delete.move", "delete.list"} => Untouched(host'))
  <2>1. CASE pc \in {"delete.entry", "delete.move", "delete.list"}
    <3>1. Same(host', KeyFields)
      BY <1>2, <2>1, DockerSame
         DEF DeleteForward, Decides, Writes, Runs, Tries, Reads, Moves, Calls, Untouched, Same,
             Fields, DataFields, KeyFields, Containers
    <3> QED BY <2>1, <3>1
  <2>2. CASE pc \notin {"delete.entry", "delete.move", "delete.list"}
    <3>1. Untouched(host')
      BY <1>2, <2>2, DockerSame
         DEF DeleteForward, Decides, Writes, Runs, Tries, Reads, Moves, Calls, Untouched, Same,
             Fields, DataFields, KeyFields, Containers
    <3> QED BY <3>1 DEF Untouched, Same, DataFields, KeyFields
  <2> QED BY <2>1, <2>2
<1>4. \A p \in {"remove"} : Kind(p) = "leaf" /\ p \notin Results \cup {"idle"} \cup Inner
  BY DEF Results, Kind, Creating, Deleting, Purging, Providing, Restarting, Serving, Leaves, Inner
<1>5. ASSUME Calls("delete.containers", "remove", kept, "delete.entry", "fail", "delete.undo")
      PROVE  Enters
  <2>1. pc = "delete.containers"
    BY <1>5 DEF Calls
  <2>2. Callable("remove")
    BY <1>1, <1>4, <2>1, CallersAre DEF Callable
  <2>3. Fits("delete.entry") /\ Fits("fail") /\ Fits("delete.undo")
    BY <1>1, <2>1 DEF Fits, Results, Returns, Inner
  <2>4. Local(kept)
    BY <1>2
  <2> QED BY <1>5, <2>2, <2>3, <2>4, CallsEnter, Zenon
<1>6. Local(Locals([image |-> host.image, target |-> host.image, running |-> host.main = "running",
                   conf |-> host.conf]))
  BY <1>2, LocalsStay
<1> QED
  BY <1>1, <1>2, <1>3, <1>4, <1>5, <1>6
     DEF DeleteForward, Decides, Writes, Runs, Tries, Reads, Moves, Proceeds, Goes, Results, Inner

LEMMA EvoDeleteUndoSteps ==
  ASSUME Placed, pc # "idle", product = "evoscientist", DeleteUndo
  PROVE  /\ Proceeds({"delete.undo.entry"}) /\ (pc \notin {"delete.undo.move"} => Proceeds({}))
         /\ Same(host', KeyFields) /\ (pc \notin {"delete.undo.move", "delete.undo.entry"} => Untouched(host'))
<1>1. \A p \in {"delete.undo", "delete.undo.move", "delete.undo.entry",
                    "delete.undo.run", "delete.undo.failed", "delete.undo.stop",
                    "delete.undo.ingress"} :
        Kind(p) = "deleting" /\ p \notin {"idle"} \cup (Inner \ {"delete.undo.entry"})
  BY DEF Kind, Creating, Deleting, Purging, Providing, Restarting, Serving, Leaves, Inner
<1>2. DOMAIN host = Fields /\ Local(kept)
  BY DEF Placed
<1>3. Same(host', KeyFields) /\ (pc \notin {"delete.undo.move", "delete.undo.entry"} => Untouched(host'))
  <2>1. CASE pc \in {"delete.undo.move", "delete.undo.entry"}
    <3>1. Same(host', KeyFields)
      BY <1>2, <2>1, DockerSame
         DEF DeleteUndo, Decides, Writes, Runs, Tries, Reads, Moves, Calls, Untouched, Same,
             Fields, DataFields, KeyFields, Containers
    <3> QED BY <2>1, <3>1
  <2>2. CASE pc \notin {"delete.undo.move", "delete.undo.entry"}
    <3>1. Untouched(host')
      BY <1>2, <2>2, DockerSame
         DEF DeleteUndo, Decides, Writes, Runs, Tries, Reads, Moves, Calls, Untouched, Same,
             Fields, DataFields, KeyFields, Containers
    <3> QED BY <3>1 DEF Untouched, Same, DataFields, KeyFields
  <2> QED BY <2>1, <2>2
<1>4. \A p \in {"run", "stop", "ingress"} : Kind(p) = "leaf" /\ p \notin Results \cup {"idle"} \cup Inner
  BY DEF Results, Kind, Creating, Deleting, Purging, Providing, Restarting, Serving, Leaves, Inner
<1>5. ASSUME Calls("delete.undo.run", "run", kept,
          IF kept.running THEN "delete.undo.ingress" ELSE "delete.undo.stop", "delete.undo.failed", "manual")
      PROVE  Enters
  <2>1. pc = "delete.undo.run"
    BY <1>5 DEF Calls
  <2>2. Callable("run")
    BY <1>1, <1>4, <2>1, CallersAre DEF Callable
  <2>3. Fits(IF kept.running THEN "delete.undo.ingress" ELSE "delete.undo.stop") /\ Fits("delete.undo.failed") /\ Fits("manual")
    BY <1>1, <2>1 DEF Fits, Results, Returns, Inner
  <2>4. Local(kept)
    BY <1>2
  <2> QED BY <1>5, <2>2, <2>3, <2>4, CallsEnter, Zenon
<1>6. ASSUME Calls("delete.undo.stop", "stop", kept, "delete.undo.ingress", "delete.undo.ingress", "manual")
      PROVE  Enters
  <2>1. pc = "delete.undo.stop"
    BY <1>6 DEF Calls
  <2>2. Callable("stop")
    BY <1>1, <1>4, <2>1, CallersAre DEF Callable
  <2>3. Fits("delete.undo.ingress") /\ Fits("delete.undo.ingress") /\ Fits("manual")
    BY <1>1, <2>1 DEF Fits, Results, Returns, Inner
  <2>4. Local(kept)
    BY <1>2
  <2> QED BY <1>6, <2>2, <2>3, <2>4, CallsEnter, Zenon
<1>7. ASSUME Calls("delete.undo.ingress", "ingress", kept, IF kept.failed THEN "manual" ELSE "rolledback", "manual", "manual")
      PROVE  Enters
  <2>1. pc = "delete.undo.ingress"
    BY <1>7 DEF Calls
  <2>2. Callable("ingress")
    BY <1>1, <1>4, <2>1, CallersAre DEF Callable
  <2>3. Fits(IF kept.failed THEN "manual" ELSE "rolledback") /\ Fits("manual") /\ Fits("manual")
    BY <1>1, <2>1 DEF Fits, Results, Returns, Inner
  <2>4. Local(kept)
    BY <1>2
  <2> QED BY <1>7, <2>2, <2>3, <2>4, CallsEnter, Zenon
<1>8. Local(Locals([failed |-> TRUE]))
  BY <1>2, LocalsStay
<1> QED
  BY <1>1, <1>2, <1>3, <1>4, <1>5, <1>6, <1>7, <1>8
     DEF DeleteUndo, Decides, Writes, Runs, Tries, Reads, Moves, Proceeds, Goes, Results, Inner

LEMMA EvoRestoreSteps ==
  ASSUME Placed, pc # "idle", product = "evoscientist", RestoreForward
  PROVE  Proceeds({}) /\ Same(host', KeyFields) /\ (pc \notin {"restore.move", "restore.entry"} => Untouched(host'))
<1>1. \A p \in {"restore", "restore.read", "restore.net", "restore.move",
                    "restore.run", "restore.ingress", "restore.entry", "restore.stop",
                    "restore.undo"} :
        Kind(p) = "own" /\ p \notin {"idle"} \cup Inner
  BY DEF Kind, Creating, Deleting, Purging, Providing, Restarting, Serving, Leaves, Inner
<1>2. DOMAIN host = Fields /\ Local(kept)
  BY DEF Placed
<1>3. Same(host', KeyFields) /\ (pc \notin {"restore.move", "restore.entry"} => Untouched(host'))
  <2>1. CASE pc \in {"restore.move", "restore.entry"}
    <3>1. Same(host', KeyFields)
      BY <1>2, <2>1, DockerSame
         DEF RestoreForward, Decides, Writes, Runs, Tries, Reads, Moves, Calls, Untouched, Same,
             Fields, DataFields, KeyFields, Containers
    <3> QED BY <2>1, <3>1
  <2>2. CASE pc \notin {"restore.move", "restore.entry"}
    <3>1. Untouched(host')
      BY <1>2, <2>2, DockerSame
         DEF RestoreForward, Decides, Writes, Runs, Tries, Reads, Moves, Calls, Untouched, Same,
             Fields, DataFields, KeyFields, Containers
    <3> QED BY <3>1 DEF Untouched, Same, DataFields, KeyFields
  <2> QED BY <2>1, <2>2
<1>4. \A p \in {"run", "ingress", "stop"} : Kind(p) = "leaf" /\ p \notin Results \cup {"idle"} \cup Inner
  BY DEF Results, Kind, Creating, Deleting, Purging, Providing, Restarting, Serving, Leaves, Inner
<1>5. ASSUME Calls("restore.run", "run", kept, "restore.ingress", "restore.undo", "restore.undo")
      PROVE  Enters
  <2>1. pc = "restore.run"
    BY <1>5 DEF Calls
  <2>2. Callable("run")
    BY <1>1, <1>4, <2>1, CallersAre DEF Callable
  <2>3. Fits("restore.ingress") /\ Fits("restore.undo") /\ Fits("restore.undo")
    BY <1>1, <2>1 DEF Fits, Results, Returns
  <2>4. Local(kept)
    BY <1>2
  <2> QED BY <1>5, <2>2, <2>3, <2>4, CallsEnter, Zenon
<1>6. ASSUME Calls("restore.ingress", "ingress", kept, "restore.entry", "restore.undo", "restore.undo")
      PROVE  Enters
  <2>1. pc = "restore.ingress"
    BY <1>6 DEF Calls
  <2>2. Callable("ingress")
    BY <1>1, <1>4, <2>1, CallersAre DEF Callable
  <2>3. Fits("restore.entry") /\ Fits("restore.undo") /\ Fits("restore.undo")
    BY <1>1, <2>1 DEF Fits, Results, Returns
  <2>4. Local(kept)
    BY <1>2
  <2> QED BY <1>6, <2>2, <2>3, <2>4, CallsEnter, Zenon
<1>7. ASSUME Calls("restore.stop", "stop", kept, "ok", "ok", "restore.undo")
      PROVE  Enters
  <2>1. pc = "restore.stop"
    BY <1>7 DEF Calls
  <2>2. Callable("stop")
    BY <1>1, <1>4, <2>1, CallersAre DEF Callable
  <2>3. Fits("ok") /\ Fits("ok") /\ Fits("restore.undo")
    BY <1>1, <2>1 DEF Fits, Results, Returns
  <2>4. Local(kept)
    BY <1>2
  <2> QED BY <1>7, <2>2, <2>3, <2>4, CallsEnter, Zenon
<1>8. Local(Locals([image |-> host.note.image, target |-> host.note.image, running |-> host.note.running]))
  BY <1>2, LocalsStay
<1> QED
  BY <1>1, <1>2, <1>3, <1>4, <1>5, <1>6, <1>7, <1>8
     DEF RestoreForward, Decides, Writes, Runs, Tries, Reads, Moves, Proceeds, Goes, Results, Inner

LEMMA EvoRestoreUndoSteps ==
  ASSUME Placed, pc # "idle", product = "evoscientist", RestoreUndo
  PROVE  Proceeds({}) /\ Same(host', KeyFields) /\ (pc \notin {"restore.undo.move"} => Untouched(host'))
<1>1. \A p \in {"restore.undo", "restore.undo.move"} :
        Kind(p) = "own" /\ p \notin {"idle"} \cup Inner
  BY DEF Kind, Creating, Deleting, Purging, Providing, Restarting, Serving, Leaves, Inner
<1>2. DOMAIN host = Fields /\ Local(kept)
  BY DEF Placed
<1>3. Same(host', KeyFields) /\ (pc \notin {"restore.undo.move"} => Untouched(host'))
  <2>1. CASE pc \in {"restore.undo.move"}
    <3>1. Same(host', KeyFields)
      BY <1>2, <2>1, DockerSame
         DEF RestoreUndo, Decides, Writes, Runs, Tries, Reads, Moves, Calls, Untouched, Same,
             Fields, DataFields, KeyFields, Containers
    <3> QED BY <2>1, <3>1
  <2>2. CASE pc \notin {"restore.undo.move"}
    <3>1. Untouched(host')
      BY <1>2, <2>2, DockerSame
         DEF RestoreUndo, Decides, Writes, Runs, Tries, Reads, Moves, Calls, Untouched, Same,
             Fields, DataFields, KeyFields, Containers
    <3> QED BY <3>1 DEF Untouched, Same, DataFields, KeyFields
  <2> QED BY <2>1, <2>2
<1>4. \A p \in {"remove"} : Kind(p) = "leaf" /\ p \notin Results \cup {"idle"} \cup Inner
  BY DEF Results, Kind, Creating, Deleting, Purging, Providing, Restarting, Serving, Leaves, Inner
<1>5. ASSUME Calls("restore.undo", "remove", kept, "restore.undo.move", "restore.undo.move", "raise")
      PROVE  Enters
  <2>1. pc = "restore.undo"
    BY <1>5 DEF Calls
  <2>2. Callable("remove")
    BY <1>1, <1>4, <2>1, CallersAre DEF Callable
  <2>3. Fits("restore.undo.move") /\ Fits("restore.undo.move") /\ Fits("raise")
    BY <1>1, <2>1 DEF Fits, Results, Returns
  <2>4. Local(kept)
    BY <1>2
  <2> QED BY <1>5, <2>2, <2>3, <2>4, CallsEnter, Zenon
<1> QED
  BY <1>1, <1>2, <1>3, <1>4, <1>5
     DEF RestoreUndo, Decides, Writes, Runs, Tries, Reads, Moves, Proceeds, Goes, Results, Inner

LEMMA EvoPurgeSteps ==
  ASSUME Placed, pc # "idle", product = "evoscientist", PurgeDeleted
  PROVE  Proceeds({}) /\ Same(host', KeyFields) /\ (pc \notin {"purge.tree"} => Untouched(host'))
<1>1. \A p \in {"purge_deleted", "purge.tree"} :
        Kind(p) = "purging" /\ p \notin {"idle"} \cup Inner
  BY DEF Kind, Creating, Deleting, Purging, Providing, Restarting, Serving, Leaves, Inner
<1>2. DOMAIN host = Fields /\ Local(kept)
  BY DEF Placed
<1>3. Same(host', KeyFields) /\ (pc \notin {"purge.tree"} => Untouched(host'))
  <2>1. CASE pc \in {"purge.tree"}
    <3>1. Same(host', KeyFields)
      BY <1>2, <2>1, DockerSame
         DEF PurgeDeleted, Decides, Writes, Runs, Tries, Reads, Moves, Calls, Untouched, Same,
             Fields, DataFields, KeyFields, Containers
    <3> QED BY <2>1, <3>1
  <2>2. CASE pc \notin {"purge.tree"}
    <3>1. Untouched(host')
      BY <1>2, <2>2, DockerSame
         DEF PurgeDeleted, Decides, Writes, Runs, Tries, Reads, Moves, Calls, Untouched, Same,
             Fields, DataFields, KeyFields, Containers
    <3> QED BY <3>1 DEF Untouched, Same, DataFields, KeyFields
  <2> QED BY <2>1, <2>2
<1>4. CASE Decides("purge_deleted", IF host.recycle = "none" THEN "fail" ELSE "purge.tree", kept)
  BY <1>1, <1>2, <1>3, <1>4 DEF Decides, Proceeds, Goes, Results, Inner
<1>5. CASE pc = "purge.tree" /\ (To("ok", kept) \/ To("fail", kept))
  BY <1>1, <1>2, <1>3, <1>5 DEF Proceeds, Goes, Results, Inner
<1> QED BY <1>4, <1>5 DEF PurgeDeleted, Writes

LEMMA HermesCreateSteps ==
  ASSUME Placed, pc # "idle", product = "hermes", HermesCreate
  PROVE  Proceeds({}) /\ Same(host', KeyFields) /\ (pc \notin {"create", "create.undo.files"} => Untouched(host'))
<1>1. \A p \in {"create", "create.look", "create.net", "create.port", "create.run",
                    "create.wait", "create.undo.same", "create.undo", "create.undo.files",
                    "create.undo.net", "create.publish", "create.retract"} :
        Kind(p) = "creating" /\ p \notin {"idle"} \cup Inner
  BY DEF Kind, Creating, Deleting, Purging, Providing, Restarting, Serving, Leaves, Inner
<1>2. DOMAIN host = Fields /\ Local(kept)
  BY DEF Placed
<1>3. Same(host', KeyFields) /\ (pc \notin {"create", "create.undo.files"} => Untouched(host'))
  <2>1. CASE pc \in {"create", "create.undo.files"}
    <3>1. Same(host', KeyFields)
      BY <1>2, <2>1, DockerSame
         DEF HermesCreate, WaitForDashboard, Decides, Writes, Runs, Tries, Reads, Moves, Calls,
             Untouched, Same, Fields, DataFields, KeyFields, Containers
    <3> QED BY <2>1, <3>1
  <2>2. CASE pc \notin {"create", "create.undo.files"}
    <3>1. Untouched(host')
      BY <1>2, <2>2, DockerSame
         DEF HermesCreate, WaitForDashboard, Decides, Writes, Runs, Tries, Reads, Moves, Calls,
             Untouched, Same, Fields, DataFields, KeyFields, Containers
    <3> QED BY <3>1 DEF Untouched, Same, DataFields, KeyFields
  <2> QED BY <2>1, <2>2
<1>4. /\ \A p \in {"ingress"} : Kind(p) = "leaf" /\ p \notin Results \cup {"idle"} \cup Inner
      /\ \A p \in {"delete"} : Kind(p) = "deleting" /\ p \notin Results \cup {"idle"} \cup Inner
  BY DEF Results, Kind, Creating, Deleting, Purging, Providing, Restarting, Serving, Leaves, Inner
<1>5. ASSUME Calls("create.publish", "ingress", NoLocals, "ok", "create.retract", "raise")
      PROVE  Enters
  <2>1. pc = "create.publish"
    BY <1>5 DEF Calls
  <2>2. Callable("ingress")
    BY <1>1, <1>4, <2>1, CallersAre DEF Callable
  <2>3. Fits("ok") /\ Fits("create.retract") /\ Fits("raise")
    BY <1>1, <2>1 DEF Fits, Results, Returns
  <2>4. Local(NoLocals)
    BY <1>2, NoLocalsLocal
  <2> QED BY <1>5, <2>2, <2>3, <2>4, CallsEnter, Zenon
<1>6. ASSUME Calls("create.retract", "delete", NoLocals, "rolledback", "manual", "raise")
      PROVE  Enters
  <2>1. pc = "create.retract"
    BY <1>6 DEF Calls
  <2>2. Callable("delete")
    BY <1>1, <1>4, <2>1, CallersAre DEF Callable
  <2>3. Fits("rolledback") /\ Fits("manual") /\ Fits("raise")
    BY <1>1, <2>1 DEF Fits, Results, Returns
  <2>4. Local(NoLocals)
    BY <1>2, NoLocalsLocal
  <2> QED BY <1>6, <2>2, <2>3, <2>4, CallsEnter, Zenon
<1>7. Local(Locals([net |-> host.net]))
  BY <1>2, LocalsStay
<1>8. Local(Locals([net |-> TRUE]))
  BY <1>2, LocalsStay
<1> QED
  BY <1>1, <1>2, <1>3, <1>4, <1>5, <1>6, <1>7, <1>8
     DEF HermesCreate, WaitForDashboard, Decides, Writes, Runs, Tries, Reads, Proceeds, Goes,
          Results, Inner

LEMMA HermesDeleteSteps ==
  ASSUME Placed, pc # "idle", product = "hermes", HermesDelete
  PROVE  Proceeds({"delete.move"}) /\ Same(host', KeyFields) /\ (pc \notin {"delete.entry", "delete.move", "delete.list"} => Untouched(host'))
<1>1. \A p \in {"delete", "delete.inspect", "delete.ingress", "delete.reload",
                    "delete.remove", "delete.back", "delete.again", "delete.entry",
                    "delete.move", "delete.list", "delete.unlink", "delete.net",
                    "delete.undo"} :
        Kind(p) = "deleting" /\ p \notin {"idle"} \cup (Inner \ {"delete.move"})
  BY DEF Kind, Creating, Deleting, Purging, Providing, Restarting, Serving, Leaves, Inner
<1>2. DOMAIN host = Fields /\ Local(kept)
  BY DEF Placed
<1>3. Same(host', KeyFields) /\ (pc \notin {"delete.entry", "delete.move", "delete.list"} => Untouched(host'))
  <2>1. CASE pc \in {"delete.entry", "delete.move", "delete.list"}
    <3>1. Same(host', KeyFields)
      BY <1>2, <2>1, DockerSame
         DEF HermesDelete, OldIngress, Decides, Writes, Runs, Tries, Reads, Moves, Calls,
             Untouched, Same, Fields, DataFields, KeyFields, Containers
    <3> QED BY <2>1, <3>1
  <2>2. CASE pc \notin {"delete.entry", "delete.move", "delete.list"}
    <3>1. Untouched(host')
      BY <1>2, <2>2, DockerSame
         DEF HermesDelete, OldIngress, Decides, Writes, Runs, Tries, Reads, Moves, Calls,
             Untouched, Same, Fields, DataFields, KeyFields, Containers
    <3> QED BY <3>1 DEF Untouched, Same, DataFields, KeyFields
  <2> QED BY <2>1, <2>2
<1>4. Local(Locals([image |-> host.image, running |-> host.main = "running",
                   conf |-> host.conf, mapped |-> host.mapped]))
  BY <1>2, LocalsStay
<1> QED
  BY <1>1, <1>2, <1>3, <1>4
     DEF HermesDelete, OldIngress, Decides, Writes, Runs, Tries, Reads, Moves, Proceeds, Goes,
          Results, Inner

LEMMA HermesDeleteUndoSteps ==
  ASSUME Placed, pc # "idle", product = "hermes", HermesDeleteUndo
  PROVE  /\ Proceeds({"delete.undo.entry"}) /\ (pc \notin {"delete.undo"} => Proceeds({}))
         /\ Same(host', KeyFields) /\ (pc \notin {"delete.undo", "delete.undo.entry"} => Untouched(host'))
<1>1. \A p \in {"delete.undo", "delete.undo.entry", "delete.undo.runtime"} :
        Kind(p) = "deleting" /\ p \notin {"idle"} \cup (Inner \ {"delete.undo.entry"})
  BY DEF Kind, Creating, Deleting, Purging, Providing, Restarting, Serving, Leaves, Inner
<1>2. DOMAIN host = Fields /\ Local(kept)
  BY DEF Placed
<1>3. Same(host', KeyFields) /\ (pc \notin {"delete.undo", "delete.undo.entry"} => Untouched(host'))
  <2>1. CASE pc \in {"delete.undo", "delete.undo.entry"}
    <3>1. Same(host', KeyFields)
      BY <1>2, <2>1, DockerSame
         DEF HermesDeleteUndo, EntryGone, Decides, Writes, Runs, Tries, Reads, Moves, Calls,
             Untouched, Same, Fields, DataFields, KeyFields, Containers
    <3> QED BY <2>1, <3>1
  <2>2. CASE pc \notin {"delete.undo", "delete.undo.entry"}
    <3>1. Untouched(host')
      BY <1>2, <2>2, DockerSame
         DEF HermesDeleteUndo, EntryGone, Decides, Writes, Runs, Tries, Reads, Moves, Calls,
             Untouched, Same, Fields, DataFields, KeyFields, Containers
    <3> QED BY <3>1 DEF Untouched, Same, DataFields, KeyFields
  <2> QED BY <2>1, <2>2
<1>4. \A p \in {"runtime"} : Kind(p) = "serving" /\ p \notin Results \cup {"idle"} \cup Inner
  BY DEF Results, Kind, Creating, Deleting, Purging, Providing, Restarting, Serving, Leaves, Inner
<1>5. ASSUME Calls("delete.undo.runtime", "runtime", kept, "rolledback", "manual", "raise")
      PROVE  Enters
  <2>1. pc = "delete.undo.runtime"
    BY <1>5 DEF Calls
  <2>2. Callable("runtime")
    BY <1>1, <1>4, <2>1, CallersAre DEF Callable
  <2>3. Fits("rolledback") /\ Fits("manual") /\ Fits("raise")
    BY <1>1, <2>1 DEF Fits, Results, Returns, Inner
  <2>4. Local(kept)
    BY <1>2
  <2> QED BY <1>5, <2>2, <2>3, <2>4, CallsEnter, Zenon
<1> QED
  BY <1>1, <1>2, <1>3, <1>4, <1>5
     DEF HermesDeleteUndo, EntryGone, Decides, Writes, Runs, Tries, Reads, Moves, Proceeds, Goes,
          Results, Inner

LEMMA HermesRestoreSteps ==
  ASSUME Placed, pc # "idle", product = "hermes", HermesRestore
  PROVE  Proceeds({}) /\ Same(host', KeyFields) /\ (pc \notin {"restore.move", "restore.entry"} => Untouched(host'))
<1>1. \A p \in {"restore", "restore.look", "restore.move", "restore.client",
                    "restore.runtime", "restore.entry", "restore.undo"} :
        Kind(p) = "own" /\ p \notin {"idle"} \cup Inner
  BY DEF Kind, Creating, Deleting, Purging, Providing, Restarting, Serving, Leaves, Inner
<1>2. DOMAIN host = Fields /\ Local(kept)
  BY DEF Placed
<1>3. Same(host', KeyFields) /\ (pc \notin {"restore.move", "restore.entry"} => Untouched(host'))
  <2>1. CASE pc \in {"restore.move", "restore.entry"}
    <3>1. Same(host', KeyFields)
      BY <1>2, <2>1, DockerSame
         DEF HermesRestore, Decides, Writes, Runs, Tries, Reads, Moves, Calls, Untouched, Same,
             Fields, DataFields, KeyFields, Containers
    <3> QED BY <2>1, <3>1
  <2>2. CASE pc \notin {"restore.move", "restore.entry"}
    <3>1. Untouched(host')
      BY <1>2, <2>2, DockerSame
         DEF HermesRestore, Decides, Writes, Runs, Tries, Reads, Moves, Calls, Untouched, Same,
             Fields, DataFields, KeyFields, Containers
    <3> QED BY <3>1 DEF Untouched, Same, DataFields, KeyFields
  <2> QED BY <2>1, <2>2
<1>4. \A p \in {"runtime"} : Kind(p) = "serving" /\ p \notin Results \cup {"idle"} \cup Inner
  BY DEF Results, Kind, Creating, Deleting, Purging, Providing, Restarting, Serving, Leaves, Inner
<1>5. ASSUME Calls("restore.runtime", "runtime", kept, "restore.entry", "restore.undo", "restore.undo")
      PROVE  Enters
  <2>1. pc = "restore.runtime"
    BY <1>5 DEF Calls
  <2>2. Callable("runtime")
    BY <1>1, <1>4, <2>1, CallersAre DEF Callable
  <2>3. Fits("restore.entry") /\ Fits("restore.undo") /\ Fits("restore.undo")
    BY <1>1, <2>1 DEF Fits, Results, Returns
  <2>4. Local(kept)
    BY <1>2
  <2> QED BY <1>5, <2>2, <2>3, <2>4, CallsEnter, Zenon
<1>6. Local(Locals([image |-> host.note.image, running |-> host.note.running, net |-> host.net,
                   linked |-> host.linked, conf |-> host.conf, mapped |-> host.mapped]))
  BY <1>2, LocalsStay
<1> QED
  BY <1>1, <1>2, <1>3, <1>4, <1>5, <1>6
     DEF HermesRestore, Decides, Writes, Runs, Tries, Reads, Moves, Proceeds, Goes, Results, Inner

LEMMA HermesRestoreUndoSteps ==
  ASSUME Placed, pc # "idle", product = "hermes", HermesRestoreUndo
  PROVE  Proceeds({}) /\ Same(host', KeyFields) /\ (pc \notin {"restore.undo.move"} => Untouched(host'))
<1>1. \A p \in {"restore.undo", "restore.undo.failed", "restore.undo.files",
                    "restore.undo.reload", "restore.undo.unloaded", "restore.undo.link",
                    "restore.undo.linked", "restore.undo.net", "restore.undo.kept",
                    "restore.undo.move", "restore.undo.lost", "restore.undo.end"} :
        Kind(p) = "own" /\ p \notin {"idle"} \cup Inner
  BY DEF Kind, Creating, Deleting, Purging, Providing, Restarting, Serving, Leaves, Inner
<1>2. DOMAIN host = Fields /\ Local(kept)
  BY DEF Placed
<1>3. Same(host', KeyFields) /\ (pc \notin {"restore.undo.move"} => Untouched(host'))
  <2>1. CASE pc \in {"restore.undo.move"}
    <3>1. Same(host', KeyFields)
      BY <1>2, <2>1, DockerSame
         DEF HermesRestoreUndo, OldIngress, Decides, Writes, Runs, Tries, Reads, Moves, Calls,
             Untouched, Same, Fields, DataFields, KeyFields, Containers
    <3> QED BY <2>1, <3>1
  <2>2. CASE pc \notin {"restore.undo.move"}
    <3>1. Untouched(host')
      BY <1>2, <2>2, DockerSame
         DEF HermesRestoreUndo, OldIngress, Decides, Writes, Runs, Tries, Reads, Moves, Calls,
             Untouched, Same, Fields, DataFields, KeyFields, Containers
    <3> QED BY <3>1 DEF Untouched, Same, DataFields, KeyFields
  <2> QED BY <2>1, <2>2
<1>4. Local(Failed)
  BY <1>2, LocalsStay DEF Failed
<1> QED
  BY <1>1, <1>2, <1>3, <1>4
     DEF HermesRestoreUndo, OldIngress, Decides, Writes, Runs, Tries, Reads, Moves, Proceeds, Goes,
          Results, Inner

LEMMA HermesPurgeSteps ==
  ASSUME Placed, pc # "idle", product = "hermes", HermesPurge
  PROVE  Proceeds({}) /\ Same(host', KeyFields) /\ (pc \notin {"purge.tree"} => Untouched(host'))
<1>1. \A p \in {"purge_deleted", "purge.tree"} :
        Kind(p) = "purging" /\ p \notin {"idle"} \cup Inner
  BY DEF Kind, Creating, Deleting, Purging, Providing, Restarting, Serving, Leaves, Inner
<1>2. DOMAIN host = Fields /\ Local(kept)
  BY DEF Placed
<1>3. Same(host', KeyFields) /\ (pc \notin {"purge.tree"} => Untouched(host'))
  <2>1. CASE pc \in {"purge.tree"}
    <3>1. Same(host', KeyFields)
      BY <1>2, <2>1, DockerSame
         DEF HermesPurge, Decides, Writes, Runs, Tries, Reads, Moves, Calls, Untouched, Same,
             Fields, DataFields, KeyFields, Containers
    <3> QED BY <2>1, <3>1
  <2>2. CASE pc \notin {"purge.tree"}
    <3>1. Untouched(host')
      BY <1>2, <2>2, DockerSame
         DEF HermesPurge, Decides, Writes, Runs, Tries, Reads, Moves, Calls, Untouched, Same,
             Fields, DataFields, KeyFields, Containers
    <3> QED BY <3>1 DEF Untouched, Same, DataFields, KeyFields
  <2> QED BY <2>1, <2>2
<1> QED
  BY <1>1, <1>2, <1>3
     DEF HermesPurge, Decides, Writes, Runs, Tries, Reads, Proceeds, Goes, Results, Inner

------------------------------------------------------------------------------
(* The functions that change the model provider *)

Asked == Inner \ {"delete.move", "delete.undo.entry"}

LEMMA EvoProviderSteps ==
  ASSUME Placed, pc # "idle", product = "evoscientist", EvoProvider
  PROVE  Proceeds(Asked) /\ Same(host', DataFields)
<1>1. \A p \in {"set_model_provider", "provider.token", "provider.models", "provider.config", "provider.own", "provider.look", "provider.link", "provider.linked", "provider.restart", "provider.undo", "provider.undo.token", "provider.undo.models", "provider.undo.link"} :
        Kind(p) = "providing" /\ p \notin {"idle"} \cup (Inner \ Asked)
  BY DEF Kind, Creating, Deleting, Purging, Providing, Restarting, Serving, Leaves, Inner, Asked
<1>2. /\ DOMAIN host = Fields /\ Local(kept)
      /\ \A r \in Results : r \notin Inner \ Asked
  BY DEF Placed, Results, Inner, Asked
<1>3. Same(host', DataFields)
  <2>1. Untouched(host)
    BY <1>2, DockerSame
  <2> QED
    BY <1>2, <2>1
       DEF EvoProvider, Provide, ProxyJoins, WithToken, WithKey, WithModel, Narrowed, Widened,
            Unconfigured,
           ConfigBack, TokenBack, ModelsBack, Decides, Writes, Runs, Tries, Reads, Calls, Untouched, Same,
           Fields, DataFields, KeyFields
<1>4. Kind("restart") = "restarting" /\ "restart" \notin Results \cup {"idle"} \cup Inner
  BY DEF Results, Kind, Creating, Deleting, Purging, Providing, Restarting, Serving, Leaves, Inner
<1>5. /\ Local(Failing) /\ Local(Locals([linked |-> TRUE]))
      /\ \A m \in Models : Local(Locals([wanted |-> m, was |-> host]))
  BY <1>2, LocalsStay DEF Failing
<1>6. ASSUME Calls("provider.restart", "restart", kept, "ok", "provider.undo", "provider.undo")
      PROVE  Enters
  <2>1. pc = "provider.restart"
    BY <1>6 DEF Calls
  <2>2. Callable("restart")
    BY <1>1, <1>4, <2>1, CallersAre DEF Callable
  <2>3. Fits("ok") /\ Fits("provider.undo") /\ Fits("provider.undo")
    BY <1>1, <2>1 DEF Fits, Results, Returns, Inner
  <2>4. Local(kept)
    BY <1>2
  <2> QED BY <1>6, <2>2, <2>3, <2>4, CallsEnter, Zenon
<1> QED
  BY <1>1, <1>2, <1>3, <1>4, <1>5, <1>6
     DEF EvoProvider, Provide, ProxyJoins, Decides, Writes, Runs, Tries, Reads, Proceeds, Goes,
          Results

LEMMA HermesProviderSteps ==
  ASSUME Placed, pc # "idle", product = "hermes", HermesProvider
  PROVE  Proceeds(Asked) /\ Same(host', DataFields)
<1>1. \A p \in {"set_model_provider", "provider.models", "provider.token", "provider.look", "provider.link", "provider.linked", "provider.model", "provider.url", "provider.key", "provider.mode", "provider.narrow", "provider.undo", "provider.undo.config", "provider.undo.token", "provider.undo.untold", "provider.undo.models", "provider.undo.wide", "provider.undo.link", "provider.undo.joined", "provider.undo.end"} :
        Kind(p) = "providing" /\ p \notin {"idle"} \cup (Inner \ Asked)
  BY DEF Kind, Creating, Deleting, Purging, Providing, Restarting, Serving, Leaves, Inner, Asked
<1>2. /\ DOMAIN host = Fields /\ Local(kept)
      /\ \A r \in Results : r \notin Inner \ Asked
  BY DEF Placed, Results, Inner, Asked
<1>3. Same(host', DataFields)
  <2>1. Untouched(host)
    BY <1>2, DockerSame
  <2> QED
    BY <1>2, <2>1
       DEF HermesProvider, Provide, ProxyJoins, WithToken, WithKey, WithModel, Narrowed, Widened,
            Unconfigured,
           ConfigBack, TokenBack, ModelsBack, Decides, Writes, Runs, Tries, Reads, Calls, Untouched, Same,
           Fields, DataFields, KeyFields
<1>4. /\ Local(Failing) /\ Local(Locals([linked |-> TRUE]))
      /\ \A m \in Models : Local(Locals([wanted |-> m, was |-> host]))
  BY <1>2, LocalsStay DEF Failing
<1> QED
  BY <1>1, <1>2, <1>3, <1>4
     DEF HermesProvider, Provide, ProxyJoins, Decides, Writes, Runs, Tries, Reads, Proceeds, Goes,
          Results

LEMMA ClawProviderSteps ==
  ASSUME Placed, pc # "idle", product = "openclaw", ClawProvider
  PROVE  Proceeds(Asked) /\ Same(host', DataFields)
<1>1. \A p \in {"set_model_provider", "provider.token", "provider.models", "provider.key", "provider.model", "provider.validate", "provider.restart"} :
        Kind(p) = "providing" /\ p \notin {"idle"} \cup (Inner \ Asked)
  BY DEF Kind, Creating, Deleting, Purging, Providing, Restarting, Serving, Leaves, Inner, Asked
<1>2. /\ DOMAIN host = Fields /\ Local(kept)
      /\ \A r \in Results : r \notin Inner \ Asked
  BY DEF Placed, Results, Inner, Asked
<1>3. Same(host', DataFields)
  <2>1. Untouched(host)
    BY <1>2, DockerSame
  <2> QED
    BY <1>2, <2>1
       DEF ClawProvider, Provide, ProxyJoins, WithToken, WithKey, WithModel, Narrowed, Widened,
            Unconfigured,
           ConfigBack, TokenBack, ModelsBack, Decides, Writes, Runs, Tries, Reads, Calls, Untouched, Same,
           Fields, DataFields, KeyFields
<1>4. Kind("restart") = "restarting" /\ "restart" \notin Results \cup {"idle"} \cup Inner
  BY DEF Results, Kind, Creating, Deleting, Purging, Providing, Restarting, Serving, Leaves, Inner
<1>5. /\ Local(Failing) /\ Local(Locals([linked |-> TRUE]))
      /\ \A m \in Models : Local(Locals([wanted |-> m, was |-> host]))
  BY <1>2, LocalsStay DEF Failing
<1>6. ASSUME Calls("provider.restart", "restart", kept, "ok", "fail", "raise")
      PROVE  Enters
  <2>1. pc = "provider.restart"
    BY <1>6 DEF Calls
  <2>2. Callable("restart")
    BY <1>1, <1>4, <2>1, CallersAre DEF Callable
  <2>3. Fits("ok") /\ Fits("fail") /\ Fits("raise")
    BY <1>1, <2>1 DEF Fits, Results, Returns, Inner
  <2>4. Local(kept)
    BY <1>2
  <2> QED BY <1>6, <2>2, <2>3, <2>4, CallsEnter, Zenon
<1> QED
  BY <1>1, <1>2, <1>3, <1>4, <1>5, <1>6
     DEF ClawProvider, Provide, ProxyJoins, Decides, Writes, Runs, Tries, Reads, Proceeds, Goes,
          Results

------------------------------------------------------------------------------
(* The data *)

\* A step keeps the data, and what is known of them.
Kept ==
  /\ DataInv' /\ UNCHANGED <<product, menu, op, before>>
  /\ row \in {"live", "deleted"} /\ op # "purge_deleted" /\ Intact(host) => Intact(host')

LEMMA KeptIf ==
  ASSUME DataInv, pc # "idle", NEW N, Proceeds(N), DOMAIN host' = Fields,
         row \in {"live", "deleted"} /\ op # "purge_deleted" /\ Intact(host) => Intact(host'),
         pc' = "delete.undo.entry" => host'.bin \subseteq host'.home,
         product = "openclaw" /\ pc' = "delete.move" => host'.recycle # "none",
         product = "openclaw" /\ host'.bin # {} => host'.recycle # "none"
  PROVE  Kept
<1>1. Placed' /\ UNCHANGED <<product, menu, op, before>>
  BY StaysPlaced DEF DataInv
<1> QED BY <1>1 DEF Kept, DataInv

LEMMA IntactSame ==
  ASSUME NEW h, h.home = host.home, h.bin = host.bin, h.older = host.older
  PROVE  Intact(host) => Intact(h)
BY DEF Intact, Buried

LEMMA KeptWhenSame ==
  ASSUME DataInv, pc # "idle", NEW N, Proceeds(N), N \subseteq Asked, Same(host', DataFields)
  PROVE  Kept
<1>1. /\ host'.home = host.home /\ host'.bin = host.bin /\ host'.older = host.older
      /\ host'.recycle = host.recycle /\ DOMAIN host' = Fields
  BY DEF Same, DataFields
<1>2. Placed' /\ pc' \notin Inner \ N
  BY <1>1, StaysPlaced DEF DataInv
<1>3. pc' \notin {"delete.move", "delete.undo.entry"}
  BY <1>2 DEF Inner, Asked
<1>4. Intact(host) => Intact(host')
  BY <1>1, IntactSame
<1> QED BY <1>1, <1>3, <1>4, KeptIf DEF DataInv

\* the step that makes the instance, or deletes it for good
LEMMA KeptWhenNoneCounts ==
  ASSUME DataInv, pc # "idle", Proceeds({}), DOMAIN host' = Fields,
         Kind(pc) \in {"creating", "purging"},
         product = "openclaw" /\ host'.bin # {} => host'.recycle # "none"
  PROVE  Kept
<1>1. ~(row \in {"live", "deleted"} /\ op # "purge_deleted")
  BY DEF DataInv, Placed, Suits
<1>2. Placed' /\ pc' \notin Inner \ {}
  BY StaysPlaced DEF DataInv
<1>3. pc' \notin {"delete.move", "delete.undo.entry"}
  BY <1>2 DEF Inner
<1> QED BY <1>1, <1>3, KeptIf

LEMMA FirstOf ==
  ASSUME product \in {"openclaw", "hermes", "evoscientist"}, NEW S \in SUBSET Parts, S # {}
  PROVE  First(S) \in S
<1> DEFINE P == PartsOf[product]
           Leads(k) == P[k] \in S /\ \A j \in 1..(k - 1) : P[j] \notin S
<1>1. DOMAIN P \in {1..1, 1..3} /\ Parts = {P[k] : k \in DOMAIN P}
  BY DEF PartsOf, Parts
<1>2. PICK k \in DOMAIN P : P[k] \in S
  BY <1>1
<1>3. \E i \in DOMAIN P : Leads(i)
  <2>1. CASE P[1] \in S
    BY <1>1, <2>1
  <2>2. CASE P[1] \notin S /\ P[2] \in S /\ 2 \in DOMAIN P
    BY <1>1, <2>2
  <2>3. CASE P[1] \notin S /\ (P[2] \notin S \/ 2 \notin DOMAIN P)
    <3>1. k = 3
      BY <1>1, <1>2, <2>3
    <3> QED BY <1>1, <1>2, <2>3, <3>1
  <2> QED BY <1>1, <2>1, <2>2, <2>3
<1>4. First(S) = P[CHOOSE i \in DOMAIN P : Leads(i)]
  BY DEF First
<1> HIDE DEF P, Leads
<1>5. Leads(CHOOSE i \in DOMAIN P : Leads(i))
  BY <1>3
<1> QED BY <1>4, <1>5 DEF Leads

\* Moving parts from one place to the other loses none, and makes no second copy.
LEMMA MovesKeep ==
  ASSUME Placed, pc # "idle", NEW at, NEW S, NEW from, NEW to, NEW next, NEW exc,
         Moves(at, S, from, to, next, exc),
         <<from, to>> \in {<<"home", "bin">>, <<"bin", "home">>}, S \subseteq host[from]
  PROVE  /\ Same(host', Fields \ {"home", "bin"})
         /\ Intact(host) => Intact(host')
         /\ from = "bin" => host'.bin \subseteq host.bin
<1>1. DOMAIN host = Fields /\ product \in {"openclaw", "hermes", "evoscientist"}
  BY DEF Placed
<1>2. from \in {"home", "bin"} /\ to \in {"home", "bin"} /\ from # to
  OBVIOUS
<1>3. CASE host' = host
  BY <1>1, <1>3 DEF Same
<1>4. CASE S # {} /\ host' = [host EXCEPT ![from] = @ \ {First(S)}, ![to] = @ \cup {First(S)}]
  <2>1. /\ Same(host', Fields \ {"home", "bin"})
        /\ host'[from] = host[from] \ {First(S)} /\ host'[to] = host[to] \cup {First(S)}
    BY <1>1, <1>2, <1>4 DEF Same, Fields
  <2>2. ASSUME Intact(host)
        PROVE  Intact(host')
    <3>1. S \in SUBSET Parts
      BY <1>2, <2>2 DEF Intact
    <3>2. First(S) \in S
      BY <1>1, <1>4, <3>1, FirstOf
    <3>3. Buried(host') = Buried(host)
      BY <2>1 DEF Buried, Same, Fields
    <3>4. /\ host[from] \cup host[to] \cup Buried(host) = Parts /\ host[from] \cap host[to] = {}
          /\ Buried(host) \cap (host[from] \cup host[to]) = {}
      BY <1>2, <2>2 DEF Intact
    <3>5. /\ host'[from] \cup host'[to] = host[from] \cup host[to]
          /\ host'[from] \cap host'[to] = {}
      BY <2>1, <3>2, <3>4
    <3> QED BY <1>2, <3>3, <3>4, <3>5 DEF Intact
  <2> QED BY <1>2, <2>1, <2>2
<1> QED BY <1>3, <1>4 DEF Moves, Writes

\* the creations

LEMMA ClawCreateKeeps ==
  ASSUME DataInv, pc # "idle", product = "openclaw", ClawCreate
  PROVE  Kept
<1>1. Placed
  BY DEF DataInv
<1>2. Proceeds({}) /\ DOMAIN host' = Fields
  BY <1>1, ClawCreateSteps DEF Same
<1>3. pc \in Creating
  BY DEF ClawCreate, WaitForDashboard, Decides, Writes, Runs, Tries, Reads, Calls, Creating
<1>4. Kind(pc) = "creating"
  BY <1>3 DEF Kind
<1>5. host'.bin = host.bin /\ host'.recycle = host.recycle
  BY <1>1, ClawCreateSteps DEF Same
<1> QED BY <1>2, <1>4, <1>5, KeptWhenNoneCounts DEF DataInv

LEMMA ClawCreateUndoKeeps ==
  ASSUME DataInv, pc # "idle", product = "openclaw", ClawCreateUndo
  PROVE  Kept
<1>1. Placed
  BY DEF DataInv
<1>2. Proceeds({}) /\ DOMAIN host' = Fields
  BY <1>1, ClawCreateUndoSteps DEF Same
<1>3. pc \in Creating
  BY DEF ClawCreateUndo, WaitForDashboard, Decides, Writes, Runs, Tries, Reads, Calls, Creating
<1>4. Kind(pc) = "creating"
  BY <1>3 DEF Kind
<1>5. host'.bin = host.bin /\ host'.recycle = host.recycle
  BY <1>1, ClawCreateUndoSteps DEF Same
<1> QED BY <1>2, <1>4, <1>5, KeptWhenNoneCounts DEF DataInv

LEMMA EvoCreateKeeps ==
  ASSUME DataInv, pc # "idle", product = "evoscientist", Create
  PROVE  Kept
<1>1. Placed
  BY DEF DataInv
<1>2. Proceeds({}) /\ DOMAIN host' = Fields
  BY <1>1, EvoCreateSteps DEF Same
<1>3. pc \in Creating
  BY DEF Create, WaitForDashboard, Decides, Writes, Runs, Tries, Reads, Calls, Creating
<1>4. Kind(pc) = "creating"
  BY <1>3 DEF Kind
<1> QED BY <1>2, <1>4, KeptWhenNoneCounts

LEMMA HermesCreateKeeps ==
  ASSUME DataInv, pc # "idle", product = "hermes", HermesCreate
  PROVE  Kept
<1>1. Placed
  BY DEF DataInv
<1>2. Proceeds({}) /\ DOMAIN host' = Fields
  BY <1>1, HermesCreateSteps DEF Same
<1>3. pc \in Creating
  BY DEF HermesCreate, WaitForDashboard, Decides, Writes, Runs, Tries, Reads, Calls, Creating
<1>4. Kind(pc) = "creating"
  BY <1>3 DEF Kind
<1> QED BY <1>2, <1>4, KeptWhenNoneCounts

\* the permanent deletions

LEMMA ClawPurgeKeeps ==
  ASSUME DataInv, pc # "idle", product = "openclaw", ClawPurge
  PROVE  Kept
<1>1. Placed
  BY DEF DataInv
<1>2. Proceeds({}) /\ DOMAIN host' = Fields
  BY <1>1, ClawPurgeSteps DEF Same
<1>3. pc \in Purging
  BY DEF ClawPurge, Decides, Writes, Purging
<1>4. Kind(pc) = "purging"
  BY <1>3 DEF Kind, Creating, Deleting, Purging
<1>5. host'.bin # {} => host'.recycle # "none"
  <2>1. CASE host' \in {host, [host EXCEPT !.bin = {}, !.site = FALSE]}
    BY <1>1, <2>1 DEF DataInv, Placed, Fields
  <2>2. CASE host' \in Purged
    <3>1. CASE host.older = {}
      BY <1>1, <2>2, <3>1 DEF Purged, Placed, Fields
    <3>2. CASE host.older # {}
      <4>1. PICK k, gone : host' = [Uncovered(k) EXCEPT !.older = @ \ gone]
        <5>1. PICK k \in host.older : host' \in {[Uncovered(k) EXCEPT !.older = @ \ gone] : gone \in {{}, {k}}}
          BY <2>2, <3>2, Zenon DEF Purged
        <5> QED BY <5>1
      <4> QED BY <1>1, <4>1 DEF Uncovered, Placed, Fields
    <3> QED BY <3>1, <3>2
  <2>3. host' \in Purged \cup {host, [host EXCEPT !.bin = {}, !.site = FALSE]}
    <3> HIDE DEF Purged
    <3> QED BY DEF ClawPurge, Decides
  <2> QED BY <2>1, <2>2, <2>3
<1> QED BY <1>2, <1>4, <1>5, KeptWhenNoneCounts

LEMMA EvoPurgeKeeps ==
  ASSUME DataInv, pc # "idle", product = "evoscientist", PurgeDeleted
  PROVE  Kept
<1>1. Placed
  BY DEF DataInv
<1>2. Proceeds({}) /\ DOMAIN host' = Fields
  BY <1>1, EvoPurgeSteps DEF Same
<1>3. pc \in Purging
  BY DEF PurgeDeleted, Decides, Writes, Purging
<1>4. Kind(pc) = "purging"
  BY <1>3 DEF Kind, Creating, Deleting, Purging
<1> QED BY <1>2, <1>4, KeptWhenNoneCounts

LEMMA HermesPurgeKeeps ==
  ASSUME DataInv, pc # "idle", product = "hermes", HermesPurge
  PROVE  Kept
<1>1. Placed
  BY DEF DataInv
<1>2. Proceeds({}) /\ DOMAIN host' = Fields
  BY <1>1, HermesPurgeSteps DEF Same
<1>3. pc \in Purging
  BY DEF HermesPurge, Decides, Writes, Purging
<1>4. Kind(pc) = "purging"
  BY <1>3 DEF Kind, Creating, Deleting, Purging
<1> QED BY <1>2, <1>4, KeptWhenNoneCounts

\* the deletions and restores

LEMMA ClawDeleteKeeps ==
  ASSUME DataInv, pc # "idle", product = "openclaw", ClawDelete
  PROVE  Kept
<1>1. Placed /\ DOMAIN host = Fields /\ Local(kept)
  BY DEF DataInv, Placed
<1>2. CASE pc \notin {"delete.entry", "delete.move"}
  <2>1. Proceeds({}) /\ Same(host', DataFields)
    BY <1>1, <1>2, ClawDeleteSteps DEF Untouched, Same
  <2> QED BY <2>1, KeptWhenSame
<1>3. CASE pc = "delete.entry"
  <2>1. \/ host' = NewEntry
        \/ host' = host /\ To("fail", kept)
    BY <1>3 DEF ClawDelete, Decides, Writes, Runs, Tries, Moves
  <2>2. Proceeds({"delete.move"}) /\ DOMAIN host' = Fields
    BY <1>1, ClawDeleteSteps DEF Same
  <2>3. CASE host' = NewEntry
    <3>1. /\ host'.home = host.home /\ host'.bin = {} /\ host'.recycle = "dir"
          /\ host'.older = host.older \cup (IF host.recycle = "none" THEN {}
                                           ELSE IF host.bin = Parts THEN {"data"} ELSE {"empty"})
      BY <1>1, <2>3 DEF NewEntry, Fields
    <3>2. ASSUME Intact(host)
          PROVE  Intact(host')
      <4>1. Parts = {"user"}
        BY DEF Parts, PartsOf
      <4>2. host.bin = {} \/ (host.bin = Parts /\ host.recycle # "none")
        BY <3>2, <4>1 DEF Intact, DataInv
      <4>3. CASE host.bin = {}
        BY <3>1, <3>2, <4>1, <4>3 DEF Intact, Buried
      <4>4. CASE host.bin = Parts /\ host.recycle # "none"
        BY <3>1, <3>2, <4>1, <4>4 DEF Intact, Buried
      <4> QED BY <4>2, <4>3, <4>4
    <3> QED BY <2>2, <3>1, <3>2, KeptIf
  <2>4. CASE host' = host /\ To("fail", kept)
    <3>1. Proceeds({}) /\ Same(host', DataFields)
      BY <1>1, <2>4 DEF Proceeds, Goes, Results, Inner, Same
    <3> QED BY <3>1, KeptWhenSame
  <2> QED BY <2>1, <2>3, <2>4
<1>4. CASE pc = "delete.move"
  <2>1. Moves("delete.move", host.home, "home", "bin", "delete.conf", "fail")
    BY <1>4 DEF ClawDelete, Decides, Writes, Runs, Tries
  <2>2. Same(host', Fields \ {"home", "bin"}) /\ (Intact(host) => Intact(host'))
    BY <1>1, <2>1, MovesKeep
  <2>3. host'.recycle = host.recycle /\ host.recycle # "none" /\ DOMAIN host' = Fields
    BY <1>4, <2>2 DEF Same, Fields, DataInv
  <2>4. Proceeds({"delete.move"})
    BY <1>1, ClawDeleteSteps
  <2>5. pc' # "delete.undo.entry"
    <3>1. pc' \notin Inner \ {"delete.move"}
      BY <1>1, <2>3, <2>4, StaysPlaced
    <3> QED BY <3>1 DEF Inner
  <2> QED BY <2>2, <2>3, <2>4, <2>5, KeptIf
<1> QED BY <1>2, <1>3, <1>4

LEMMA ClawRestoreKeeps ==
  ASSUME DataInv, pc # "idle", product = "openclaw", ClawRestore
  PROVE  Kept
<1>1. Placed /\ DOMAIN host = Fields /\ Proceeds({})
  BY ClawRestoreSteps DEF DataInv, Placed
<1>2. CASE pc # "restore.move"
  <2>1. Same(host', DataFields)
    BY <1>1, <1>2, ClawRestoreSteps DEF Untouched, Same
  <2> QED BY <1>1, <2>1, KeptWhenSame
<1>3. CASE pc = "restore.move"
  <2>1. Moves("restore.move", host.bin, "bin", "home", "restore.net", "fail")
    BY <1>3 DEF ClawRestore, Decides, Writes, Runs, Tries
  <2>2. /\ Same(host', Fields \ {"home", "bin"}) /\ (Intact(host) => Intact(host'))
        /\ host'.bin \subseteq host.bin
    BY <1>1, <2>1, MovesKeep
  <2>3. host'.recycle = host.recycle /\ DOMAIN host' = Fields
    BY <2>2 DEF Same, Fields
  <2>4. pc' \notin {"delete.undo.entry", "delete.move"}
    <3>1. pc' \notin Inner \ {}
      BY <1>1, <2>3, StaysPlaced
    <3> QED BY <3>1 DEF Inner
  <2> QED BY <1>1, <2>2, <2>3, <2>4, KeptIf DEF DataInv
<1> QED BY <1>2, <1>3

LEMMA EvoDeleteKeeps ==
  ASSUME DataInv, pc # "idle", product = "evoscientist", DeleteForward
  PROVE  Kept
<1>1. Placed /\ DOMAIN host = Fields /\ Proceeds({"delete.move"}) /\ DOMAIN host' = Fields
  BY EvoDeleteSteps DEF DataInv, Placed, Same
<1>2. pc' # "delete.undo.entry"
  <2>1. pc' \notin Inner \ {"delete.move"}
    BY <1>1, StaysPlaced
  <2> QED BY <2>1 DEF Inner
<1>3. CASE pc # "delete.move"
  <2>1. host'.home = host.home /\ host'.bin = host.bin /\ host'.older = host.older
    <3>1. CASE pc \in {"delete.entry", "delete.list"}
      BY <1>1, <3>1 DEF DeleteForward, Decides, Writes, Runs, Tries, Reads, Calls, Moves, Fields
    <3>2. CASE pc \notin {"delete.entry", "delete.list", "delete.move"}
      BY <1>1, <3>2, EvoDeleteSteps DEF Untouched, Same, DataFields
    <3> QED BY <1>3, <3>1, <3>2
  <2> QED BY <1>1, <1>2, <2>1, IntactSame, KeptIf
<1>4. CASE pc = "delete.move"
  <2>1. Moves("delete.move", host.home, "home", "bin", "delete.ingress", "delete.undo")
    BY <1>4 DEF DeleteForward, Decides, Writes, Runs, Tries, Reads, Calls
  <2>2. Intact(host) => Intact(host')
    BY <1>1, <2>1, MovesKeep
  <2> QED BY <1>1, <1>2, <2>2, KeptIf
<1> QED BY <1>3, <1>4

LEMMA HermesDeleteKeeps ==
  ASSUME DataInv, pc # "idle", product = "hermes", HermesDelete
  PROVE  Kept
<1>1. Placed /\ DOMAIN host = Fields /\ Proceeds({"delete.move"}) /\ DOMAIN host' = Fields
  BY HermesDeleteSteps DEF DataInv, Placed, Same
<1>2. pc' # "delete.undo.entry"
  <2>1. pc' \notin Inner \ {"delete.move"}
    BY <1>1, StaysPlaced
  <2> QED BY <2>1 DEF Inner
<1>3. CASE pc # "delete.move"
  <2>1. host'.home = host.home /\ host'.bin = host.bin /\ host'.older = host.older
    <3>1. CASE pc \in {"delete.entry", "delete.list"}
      BY <1>1, <3>1 DEF HermesDelete, Decides, Writes, Runs, Tries, Reads, Calls, Moves, Fields
    <3>2. CASE pc \notin {"delete.entry", "delete.list", "delete.move"}
      BY <1>1, <3>2, HermesDeleteSteps DEF Untouched, Same, DataFields
    <3> QED BY <1>3, <3>1, <3>2
  <2> QED BY <1>1, <1>2, <2>1, IntactSame, KeptIf
<1>4. CASE pc = "delete.move"
  <2>1. Moves("delete.move", host.home, "home", "bin", "delete.list", "delete.undo")
    BY <1>4 DEF HermesDelete, Decides, Writes, Runs, Tries, Reads, Calls
  <2>2. Intact(host) => Intact(host')
    BY <1>1, <2>1, MovesKeep
  <2> QED BY <1>1, <1>2, <2>2, KeptIf
<1> QED BY <1>3, <1>4

LEMMA EvoDeleteUndoKeeps ==
  ASSUME DataInv, pc # "idle", product = "evoscientist", DeleteUndo
  PROVE  Kept
<1>1. Placed /\ DOMAIN host = Fields /\ Local(kept) /\ DOMAIN host' = Fields
  BY EvoDeleteUndoSteps DEF DataInv, Placed, Same
<1>2. CASE pc \notin {"delete.undo.move", "delete.undo.entry"}
  <2>1. Proceeds({}) /\ Same(host', DataFields)
    BY <1>1, <1>2, EvoDeleteUndoSteps DEF Untouched, Same
  <2> QED BY <2>1, KeptWhenSame
<1>3. CASE pc = "delete.undo.move"
  <2>1. Moves("delete.undo.move", host.bin \ host.home, "bin", "home", "delete.undo.entry", "manual")
    BY <1>3 DEF DeleteUndo, Moved, Decides, Writes, Runs, Tries, Reads, Calls
  <2>2. Intact(host) => Intact(host')
    BY <1>1, <2>1, MovesKeep
  <2>3. CASE host.bin \subseteq host.home /\ host' = host
    <3>1. Proceeds({"delete.undo.entry"})
      BY <1>1, EvoDeleteUndoSteps DEF DataInv
    <3> QED BY <1>1, <2>2, <2>3, <3>1, KeptIf
  <2>4. CASE ~(host.bin \subseteq host.home)
    <3>1. Proceeds({})
      <4>1. \E t \in {"delete.undo.move", "manual"} : To(t, kept)
        BY <2>1, <2>4 DEF Moves, Writes
      <4>2. Kind("delete.undo.move") = Kind(pc)
        BY <1>3
      <4> QED BY <1>1, <4>1, <4>2 DEF Proceeds, Goes, Results, Inner
    <3>2. pc' # "delete.undo.entry"
      <4>1. pc' \notin Inner \ {}
        BY <1>1, <3>1, StaysPlaced
      <4> QED BY <4>1 DEF Inner
    <3> QED BY <1>1, <2>2, <3>1, <3>2, KeptIf
  <2> QED BY <2>1, <2>3, <2>4 DEF Moves
<1>4. CASE pc = "delete.undo.entry"
  <2>1. host' \in {host, [host EXCEPT !.recycle = "none", !.bin = {}, !.note = NoNote]}
    BY <1>4 DEF DeleteUndo, EntryGone, Decides, Writes, Runs, Tries, Reads, Calls, Moves
  <2>2. Proceeds({})
    BY <1>1, <1>4, EvoDeleteUndoSteps
  <2>3. pc' # "delete.undo.entry"
    <3>1. pc' \notin Inner \ {}
      BY <1>1, <2>2, StaysPlaced
    <3> QED BY <3>1 DEF Inner
  <2>4. ASSUME Intact(host)
        PROVE  Intact(host')
    <3>1. host.bin = {}
      BY <1>4, <2>4 DEF DataInv, Intact
    <3>2. host'.home = host.home /\ host'.bin = host.bin /\ host'.older = host.older
      BY <1>1, <2>1, <3>1 DEF Fields
    <3> QED BY <2>4, <3>2, IntactSame
  <2> QED BY <1>1, <2>2, <2>3, <2>4, KeptIf
<1> QED BY <1>2, <1>3, <1>4

LEMMA HermesDeleteUndoKeeps ==
  ASSUME DataInv, pc # "idle", product = "hermes", HermesDeleteUndo
  PROVE  Kept
<1>1. Placed /\ DOMAIN host = Fields /\ Local(kept) /\ DOMAIN host' = Fields
  BY HermesDeleteUndoSteps DEF DataInv, Placed, Same
<1>2. CASE pc \notin {"delete.undo", "delete.undo.entry"}
  <2>1. Proceeds({}) /\ Same(host', DataFields)
    BY <1>1, <1>2, HermesDeleteUndoSteps DEF Untouched, Same
  <2> QED BY <2>1, KeptWhenSame
<1>3. CASE pc = "delete.undo"
  <2>1. Moves("delete.undo", host.bin \ host.home, "bin", "home", "delete.undo.entry", "raise")
    BY <1>3 DEF HermesDeleteUndo, Decides, Writes, Runs, Tries, Reads, Calls
  <2>2. Intact(host) => Intact(host')
    BY <1>1, <2>1, MovesKeep
  <2>3. CASE host.bin \subseteq host.home /\ host' = host
    <3>1. Proceeds({"delete.undo.entry"})
      BY <1>1, HermesDeleteUndoSteps DEF DataInv
    <3> QED BY <1>1, <2>2, <2>3, <3>1, KeptIf
  <2>4. CASE ~(host.bin \subseteq host.home)
    <3>1. Proceeds({})
      <4>1. \E t \in {"delete.undo", "raise"} : To(t, kept)
        BY <2>1, <2>4 DEF Moves, Writes
      <4>2. Kind("delete.undo") = Kind(pc)
        BY <1>3
      <4> QED BY <1>1, <4>1, <4>2 DEF Proceeds, Goes, Results, Inner
    <3>2. pc' # "delete.undo.entry"
      <4>1. pc' \notin Inner \ {}
        BY <1>1, <3>1, StaysPlaced
      <4> QED BY <4>1 DEF Inner
    <3> QED BY <1>1, <2>2, <3>1, <3>2, KeptIf
  <2> QED BY <2>1, <2>3, <2>4 DEF Moves
<1>4. CASE pc = "delete.undo.entry"
  <2>1. host' \in {host, [host EXCEPT !.recycle = "none", !.note = NoNote, !.bin = {}]}
    BY <1>4 DEF HermesDeleteUndo, EntryGone, Decides, Writes, Runs, Tries, Reads, Calls, Moves
  <2>2. Proceeds({})
    BY <1>1, <1>4, HermesDeleteUndoSteps
  <2>3. pc' # "delete.undo.entry"
    <3>1. pc' \notin Inner \ {}
      BY <1>1, <2>2, StaysPlaced
    <3> QED BY <3>1 DEF Inner
  <2>4. ASSUME Intact(host)
        PROVE  Intact(host')
    <3>1. host.bin = {}
      BY <1>4, <2>4 DEF DataInv, Intact
    <3>2. host'.home = host.home /\ host'.bin = host.bin /\ host'.older = host.older
      BY <1>1, <2>1, <3>1 DEF Fields
    <3> QED BY <2>4, <3>2, IntactSame
  <2> QED BY <1>1, <2>2, <2>3, <2>4, KeptIf
<1> QED BY <1>2, <1>3, <1>4

LEMMA EvoRestoreKeeps ==
  ASSUME DataInv, pc # "idle", product = "evoscientist", RestoreForward
  PROVE  Kept
<1>1. Placed /\ DOMAIN host = Fields /\ Proceeds({}) /\ DOMAIN host' = Fields
  BY EvoRestoreSteps DEF DataInv, Placed, Same
<1>2. pc' # "delete.undo.entry"
  <2>1. pc' \notin Inner \ {}
    BY <1>1, StaysPlaced
  <2> QED BY <2>1 DEF Inner
<1>3. CASE pc # "restore.move"
  <2>1. host'.home = host.home /\ host'.bin = host.bin /\ host'.older = host.older
    <3>1. CASE pc = "restore.entry"
      BY <1>1, <3>1 DEF RestoreForward, Decides, Writes, Runs, Tries, Reads, Calls, Moves, Fields
    <3>2. CASE pc \notin {"restore.entry", "restore.move"}
      BY <1>1, <3>2, EvoRestoreSteps DEF Untouched, Same, DataFields
    <3> QED BY <1>3, <3>1, <3>2
  <2> QED BY <1>1, <1>2, <2>1, IntactSame, KeptIf
<1>4. CASE pc = "restore.move"
  <2>1. Moves("restore.move", host.bin, "bin", "home", "restore.run", "restore.undo")
    BY <1>4 DEF RestoreForward, Moved, Decides, Writes, Runs, Tries, Reads, Calls
  <2>2. Intact(host) => Intact(host')
    BY <1>1, <2>1, MovesKeep
  <2> QED BY <1>1, <1>2, <2>2, KeptIf
<1> QED BY <1>3, <1>4

LEMMA EvoRestoreUndoKeeps ==
  ASSUME DataInv, pc # "idle", product = "evoscientist", RestoreUndo
  PROVE  Kept
<1>1. Placed /\ DOMAIN host = Fields /\ Proceeds({}) /\ DOMAIN host' = Fields
  BY EvoRestoreUndoSteps DEF DataInv, Placed, Same
<1>2. pc' # "delete.undo.entry"
  <2>1. pc' \notin Inner \ {}
    BY <1>1, StaysPlaced
  <2> QED BY <2>1 DEF Inner
<1>3. CASE pc # "restore.undo.move"
  <2>1. host'.home = host.home /\ host'.bin = host.bin /\ host'.older = host.older
    BY <1>1, <1>3, EvoRestoreUndoSteps DEF Untouched, Same, DataFields
  <2> QED BY <1>1, <1>2, <2>1, IntactSame, KeptIf
<1>4. CASE pc = "restore.undo.move"
  <2>1. Moves("restore.undo.move", host.bin \ host.home, "bin", "home", "fail", "raise")
    BY <1>4 DEF RestoreUndo, Moved, Decides, Writes, Runs, Tries, Reads, Calls
  <2>2. Intact(host) => Intact(host')
    BY <1>1, <2>1, MovesKeep
  <2> QED BY <1>1, <1>2, <2>2, KeptIf
<1> QED BY <1>3, <1>4

LEMMA HermesRestoreKeeps ==
  ASSUME DataInv, pc # "idle", product = "hermes", HermesRestore
  PROVE  Kept
<1>1. Placed /\ DOMAIN host = Fields /\ Proceeds({}) /\ DOMAIN host' = Fields
  BY HermesRestoreSteps DEF DataInv, Placed, Same
<1>2. pc' # "delete.undo.entry"
  <2>1. pc' \notin Inner \ {}
    BY <1>1, StaysPlaced
  <2> QED BY <2>1 DEF Inner
<1>3. CASE pc # "restore.move"
  <2>1. host'.home = host.home /\ host'.bin = host.bin /\ host'.older = host.older
    <3>1. CASE pc = "restore.entry"
      BY <1>1, <3>1 DEF HermesRestore, Decides, Writes, Runs, Tries, Reads, Calls, Moves, Fields
    <3>2. CASE pc \notin {"restore.entry", "restore.move"}
      BY <1>1, <3>2, HermesRestoreSteps DEF Untouched, Same, DataFields
    <3> QED BY <1>3, <3>1, <3>2
  <2> QED BY <1>1, <1>2, <2>1, IntactSame, KeptIf
<1>4. CASE pc = "restore.move"
  <2>1. Moves("restore.move", host.bin, "bin", "home", "restore.client", "restore.undo")
    BY <1>4 DEF HermesRestore, Moved, Decides, Writes, Runs, Tries, Reads, Calls
  <2>2. Intact(host) => Intact(host')
    BY <1>1, <2>1, MovesKeep
  <2> QED BY <1>1, <1>2, <2>2, KeptIf
<1> QED BY <1>3, <1>4

LEMMA HermesRestoreUndoKeeps ==
  ASSUME DataInv, pc # "idle", product = "hermes", HermesRestoreUndo
  PROVE  Kept
<1>1. Placed /\ DOMAIN host = Fields /\ Proceeds({}) /\ DOMAIN host' = Fields
  BY HermesRestoreUndoSteps DEF DataInv, Placed, Same
<1>2. pc' # "delete.undo.entry"
  <2>1. pc' \notin Inner \ {}
    BY <1>1, StaysPlaced
  <2> QED BY <2>1 DEF Inner
<1>3. CASE pc # "restore.undo.move"
  <2>1. host'.home = host.home /\ host'.bin = host.bin /\ host'.older = host.older
    BY <1>1, <1>3, HermesRestoreUndoSteps DEF Untouched, Same, DataFields
  <2> QED BY <1>1, <1>2, <2>1, IntactSame, KeptIf
<1>4. CASE pc = "restore.undo.move"
  <2>1. Moves("restore.undo.move", host.home \ host.bin, "home", "bin", "restore.undo.end", "restore.undo.lost")
    BY <1>4 DEF HermesRestoreUndo, Moved, Decides, Writes, Runs, Tries, Reads, Calls
  <2>2. Intact(host) => Intact(host')
    BY <1>1, <2>1, MovesKeep
  <2> QED BY <1>1, <1>2, <2>2, KeptIf
<1> QED BY <1>3, <1>4

------------------------------------------------------------------------------
(* Requests and deaths of the executor; all steps together *)

Requests == {"create", "delete", "restore", "purge_deleted", "cleanup_failed", "update_version",
             "start", "stop", "restart", "refresh_ingress", "set_model_provider",
             "set_basic_auth", "install_skill"}

\* What is kept of the data by any step, of a running operation or not
Keeps ==
  /\ DataInv'
  /\ row \in {"live", "deleted"} /\ op' # "purge_deleted" /\ Intact(host) => Intact(host')

LEMMA BeginKeeps ==
  ASSUME DataInv, pc = "idle", NEW a \in Requests, Admitted(a), op' = a, pc' = a,
         UNCHANGED <<product, row, stack, kept>>, Same(host', DataFields)
  PROVE  Keeps
<1>1. stack = <<>> /\ Placed
  BY DEF DataInv, Placed
<1>2. a \notin Results \cup {"idle", "delete.move", "delete.undo.entry"}
  BY DEF Requests, Results
<1>3. /\ Kind(a)' = "creating" => a = "create"
      /\ Kind(a)' = "purging" => a = "purge_deleted"
      /\ Kind(a)' = "providing" <=> a = "set_model_provider"
  BY DEF Requests, Kind, Creating, Deleting, Purging, Providing, Restarting, Serving
<1>4. Suits(Kind(pc), Len(stack))'
  <2>1. Len(stack') = 0
    BY <1>1
  <2>2. Callers[Kind(a)'] \in 0..3
    <3>1. Kind(a)' \in {"creating", "deleting", "purging", "providing", "restarting", "serving", "leaf", "own"}
      BY DEF Kind
    <3> QED BY <3>1 DEF Callers
  <2>3. Kind(pc)' = Kind(a)'
    BY DEF Kind, Leaves
  <2> QED BY <1>3, <2>1, <2>2, <2>3 DEF Suits
<1>5. Chain(stack)'
  BY <1>1 DEF Chain
<1>6. a = "create" => row = "new"
  BY DEF Admitted
<1>7. Placed'
  BY <1>1, <1>2, <1>4, <1>5, <1>6 DEF Placed, Local, Same
<1>8. DataInv'
  BY <1>2, <1>7 DEF DataInv, Same, DataFields
<1>9. Intact(host) => Intact(host')
  BY IntactSame DEF Same, DataFields
<1> QED BY <1>8, <1>9 DEF Keeps

LEMMA BeginsKeep ==
  ASSUME DataInv, ClawBegin \/ EvoBegin \/ HermesBegin \/ SettingsBegin
  PROVE  Keeps
<1>1. DOMAIN host = Fields
  BY DEF DataInv, Placed
<1>2. ASSUME NEW a \in Requests, Admitted(a), Begin(a)
      PROVE  Keeps
  BY <1>1, <1>2, BeginKeeps DEF Begin, Same
<1>3. CASE ClawBegin
  BY <1>2, <1>3 DEF ClawBegin, Requests
<1>4. CASE EvoBegin
  BY <1>2, <1>4 DEF EvoBegin, Requests
<1>5. CASE HermesBegin
  BY <1>2, <1>5 DEF HermesBegin, Requests
<1>6. CASE SettingsBegin
  <2>1. CASE BeginInstall
    <3>1. Same(host', DataFields)
      BY <1>1, <2>1 DEF BeginInstall, Same, Fields, DataFields
    <3> QED BY <2>1, <3>1, BeginKeeps DEF BeginInstall, Requests
  <2>2. CASE InstallAgain
    <3>1. Same(host', DataFields) /\ Admitted("install_skill")
      BY <1>1, <2>2 DEF InstallAgain, Same, Admitted
    <3> QED BY <2>2, <3>1, BeginKeeps DEF InstallAgain, Requests
  <2> QED BY <1>2, <1>6, <2>1, <2>2 DEF SettingsBegin, Requests
<1> QED BY <1>3, <1>4, <1>5, <1>6

LEMMA KilledKeeps ==
  ASSUME DataInv, Killed
  PROVE  Keeps
<1>1. UNCHANGED <<product, host, op>> /\ pc' = "idle" /\ stack' = <<>> /\ kept' = NoLocals
  BY DEF Killed
<1>2. Placed'
  BY <1>1, NoLocalsLocal DEF DataInv, Placed, Chain, Local
<1> QED BY <1>1, <1>2 DEF Keeps, DataInv

LEMMA StepsRun ==
  /\ ClawStep \/ EvoStep \/ HermesStep \/ SettingsStep => pc # "idle"
<1> USE DEF Decides, Writes, Runs, Tries, Reads, Calls, Moves
<1>1. ClawStep => pc # "idle"
  BY DEF ClawStep, EnableConf, DisableConf, ClawStart, ClawStop, ClawRestart, ClawCreate,
       ClawCreateUndo,
         ClawDelete, ClawRestore, ClawPurge, ClawUpdate
<1>2. EvoStep => pc # "idle"
  BY DEF EvoStep, RunContainers, RemoveContainers, ConfigureIngress, Start, Stop, Restart, Create,
         DeleteForward, DeleteUndo, RestoreForward, RestoreUndo, PurgeDeleted, CleanupFailed,
         UpdateForward, UpdateUndo
<1>3. HermesStep => pc # "idle"
  BY DEF HermesStep, HermesStop, HermesStart, HermesRestart, HermesIngress, HermesRuntime,
       HermesCreate,
         HermesDelete, HermesDeleteUndo, HermesRestore, HermesRestoreUndo, HermesPurge, HermesUpdate,
         WaitForDashboard
<1>4. SettingsStep => pc # "idle"
  BY DEF SettingsStep, EvoProvider, HermesProvider, ClawProvider, InstallSkill, RestoreSkills,
       BasicAuth,
         Provide, ProxyJoins, Verified
<1> QED BY <1>1, <1>2, <1>3, <1>4

LEMMA ClawKeeps ==
  ASSUME DataInv, product = "openclaw", ClawStep
  PROVE  Kept
<1>1. pc # "idle" /\ Placed
  BY StepsRun DEF DataInv
<1>2. ASSUME Proceeds({}) /\ Untouched(host')
      PROVE  Kept
  BY <1>1, <1>2, KeptWhenSame DEF Untouched, Same
<1> HIDE DEF DataInv, Placed, Kept, Proceeds, Untouched
<1>3. CASE EnableConf \/ DisableConf \/ ClawStart \/ ClawStop \/ ClawRestart \/ ClawUpdate
  BY <1>1, <1>2, <1>3, EnableSteps, DisableSteps, ClawStartSteps, ClawStopSteps, ClawRestartSteps,
     ClawUpdateSteps
<1>4. CASE ClawCreate \/ ClawCreateUndo \/ ClawDelete \/ ClawRestore \/ ClawPurge
  BY <1>1, <1>4, ClawCreateKeeps, ClawCreateUndoKeeps, ClawDeleteKeeps, ClawRestoreKeeps,
       ClawPurgeKeeps
<1> QED BY <1>3, <1>4 DEF ClawStep

LEMMA EvoKeeps ==
  ASSUME DataInv, product = "evoscientist", EvoStep
  PROVE  Kept
<1>1. pc # "idle" /\ Placed
  BY StepsRun DEF DataInv
<1>2. ASSUME Proceeds({}) /\ Untouched(host')
      PROVE  Kept
  BY <1>1, <1>2, KeptWhenSame DEF Untouched, Same
<1>3. CASE \/ RunContainers \/ RemoveContainers \/ ConfigureIngress \/ Start \/ Stop \/ Restart
           \/ CleanupFailed \/ UpdateForward \/ UpdateUndo
  BY <1>1, <1>2, <1>3, RunSteps, RemoveSteps, EvoIngressSteps, EvoStartSteps, EvoStopSteps,
     EvoRestartSteps, EvoCleanupSteps, EvoUpdateSteps, EvoUpdateUndoSteps
<1>4. CASE Create \/ DeleteForward \/ DeleteUndo \/ RestoreForward \/ RestoreUndo \/ PurgeDeleted
  BY <1>1, <1>4, EvoCreateKeeps, EvoDeleteKeeps, EvoDeleteUndoKeeps, EvoRestoreKeeps,
       EvoRestoreUndoKeeps,
     EvoPurgeKeeps
<1> QED BY <1>3, <1>4 DEF EvoStep

LEMMA HermesKeeps ==
  ASSUME DataInv, product = "hermes", HermesStep
  PROVE  Kept
<1>1. pc # "idle" /\ Placed
  BY StepsRun DEF DataInv
<1>2. ASSUME Proceeds({}) /\ Untouched(host')
      PROVE  Kept
  BY <1>1, <1>2, KeptWhenSame DEF Untouched, Same
<1>3. CASE HermesStop \/ HermesStart \/ HermesRestart \/ HermesIngress \/ HermesRuntime \/ HermesUpdate
  BY <1>1, <1>2, <1>3, HermesStopSteps, HermesStartSteps, HermesRestartSteps, HermesIngressSteps,
     HermesRuntimeSteps, HermesUpdateSteps
<1>4. CASE \/ HermesCreate \/ HermesDelete \/ HermesDeleteUndo \/ HermesRestore \/ HermesRestoreUndo
           \/ HermesPurge
  BY <1>1, <1>4, HermesCreateKeeps, HermesDeleteKeeps, HermesDeleteUndoKeeps, HermesRestoreKeeps,
     HermesRestoreUndoKeeps, HermesPurgeKeeps
<1> QED BY <1>3, <1>4 DEF HermesStep

LEMMA SettingsKeep ==
  ASSUME DataInv, SettingsStep
  PROVE  Kept
<1>1. pc # "idle" /\ Placed
  BY StepsRun DEF DataInv
<1>2. ASSUME NEW N \in {{}, Asked}, Proceeds(N), Same(host', DataFields)
      PROVE  Kept
  BY <1>1, <1>2, KeptWhenSame
<1>3. Untouched(host') => Same(host', DataFields)
  BY DEF Untouched, Same
<1>4. CASE product = "evoscientist" /\ EvoProvider
  BY <1>1, <1>2, <1>4, EvoProviderSteps
<1>5. CASE product = "hermes" /\ HermesProvider
  BY <1>1, <1>2, <1>5, HermesProviderSteps
<1>6. CASE product = "openclaw" /\ ClawProvider
  BY <1>1, <1>2, <1>6, ClawProviderSteps
<1>7. CASE product = "openclaw" /\ (InstallSkill \/ RestoreSkills \/ BasicAuth)
  BY <1>1, <1>2, <1>3, <1>7, SkillSteps, RestoreSkillsSteps, BasicAuthSteps
<1> QED BY <1>4, <1>5, <1>6, <1>7 DEF SettingsStep

LEMMA DataSteps ==
  ASSUME DataInv, AdaptersNext
  PROVE  Keeps
<1>1. ASSUME Kept PROVE Keeps
  BY <1>1 DEF Kept, Keeps
<1>2. CASE ClawNext
  BY <1>1, <1>2, ClawKeeps, BeginsKeep, KilledKeeps DEF ClawNext
<1>3. CASE EvoNext
  BY <1>1, <1>3, EvoKeeps, BeginsKeep, KilledKeeps DEF EvoNext
<1>4. CASE HermesNext
  BY <1>1, <1>4, HermesKeeps, BeginsKeep, KilledKeeps DEF HermesNext
<1>5. CASE SettingsNext
  BY <1>1, <1>5, SettingsKeep, BeginsKeep DEF SettingsNext
<1> QED BY <1>2, <1>3, <1>4, <1>5 DEF AdaptersNext

LEMMA DataInit ==
  ASSUME AdaptersInit
  PROVE  DataInv
<1>1. Local(kept) /\ DOMAIN host = Fields /\ host.bin = {}
  BY NoLocalsLocal DEF AdaptersInit, HostInit, BareHost, Fields
<1>2. Chain(stack) /\ stack = <<>> /\ pc = "idle"
  BY DEF AdaptersInit, HostInit, Chain
<1>3. product \in {"openclaw", "hermes", "evoscientist"}
  BY HostAssumption DEF AdaptersInit, HostInit
<1> QED BY <1>1, <1>2, <1>3 DEF DataInv, Placed

\* The running operation of an adapter stands at a step that its callers may have led to,
\* and a deletion takes the recycle entry away when its data are back, whatever failed
\* before and however often the executor died.
THEOREM AdaptersPlaced == AdaptersSpec => []DataInv
<1>1. ASSUME DataInv, [AdaptersNext]_lvars
      PROVE  DataInv'
  <2>1. CASE UNCHANGED lvars
    BY <1>1, <2>1 DEF lvars, DataInv, Placed, Chain, Suits, Kind, Leaves, Local
  <2> QED BY <1>1, <2>1, DataSteps DEF Keeps
<1> QED BY <1>1, DataInit, PTL DEF AdaptersSpec

\* No sequence of the adapters' steps but a permanent deletion loses a part of an
\* instance's data or leaves two copies of it (OpenClawDockerAdapter, HermesDockerAdapter
\* and EvoScientistDockerAdapter, delete and restore with their roll-backs), with any
\* number of failing commands and deaths of the executor.
THEOREM DataStays == AdaptersSpec => DataKept
<1>1. ASSUME DataInv, [AdaptersNext]_lvars
      PROVE  [(row \in {"live", "deleted"} /\ op' # "purge_deleted" /\ Intact(host)) => Intact(host')]_lvars
  BY <1>1, DataSteps DEF Keeps
<1> QED BY <1>1, AdaptersPlaced, PTL DEF AdaptersSpec, DataKept

------------------------------------------------------------------------------
(* The model provider *)

\* What a change of the model provider goes back to is what it has found, and until it
\* has ended the model proxy lets through what it let through before.
Noted(h, k) ==
  /\ \A f \in KeyFields : k.was[f] = before.host[f]
  /\ before.host.models \subseteq h.models
  /\ before.host.token # "none" => h.token = before.host.token

\* the wanted model is allowed
Widening == IF product = "evoscientist" THEN {"provider.config"}
            ELSE {"provider.token", "provider.look", "provider.link", "provider.linked",
                  "provider.model", "provider.url", "provider.key", "provider.mode", "provider.narrow"}
\* the instance's configuration names it
Naming   == IF product = "evoscientist" THEN {}
            ELSE {"provider.url", "provider.key", "provider.mode", "provider.narrow"}
\* the instance's configuration has been put back
Undoing  == {"provider.undo.token", "provider.undo.models"}

Granted ==
  /\ pc = "set_model_provider" => \A f \in KeyFields : host[f] = before.host[f]
  /\ op = "set_model_provider" /\ pc \notin {"idle", "set_model_provider"} => Noted(host, kept)
  /\ pc \in Widening => kept.wanted \in host.models
  /\ pc \in Naming => host.model = kept.wanted
  /\ pc \in Undoing /\ ~kept.failed => host.key = kept.was.key /\ host.model = kept.was.model

KeyInv == DataInv /\ (product # "openclaw" => Granted)

\* A step locks no instance out.
Admits == Answered(before.host) /\ Answered(host) => Answered(host') \/ kept.failed

LEMMA GrantedSame ==
  ASSUME KeyInv, product # "openclaw", DataInv', UNCHANGED <<product, op, before>>,
         Same(host', KeyFields), pc' \notin Asked,
         \/ pc' = "idle" \/ op # "set_model_provider"
         \/ kept'.was = kept.was /\ pc \notin {"set_model_provider", "idle"}
  PROVE  KeyInv' /\ Admits
<1>1. /\ host'.key = host.key /\ host'.token = host.token /\ host'.model = host.model
      /\ host'.models = host.models
  BY DEF Same, KeyFields
<1>2. Admits
  BY <1>1 DEF Admits, Answered
<1>3. pc' \notin Widening' \cup Naming' \cup Undoing
  BY DEF Widening, Naming, Undoing, Inner, Asked
<1>4. pc' # "set_model_provider"
  BY DEF Inner, Asked
<1>5. op = "set_model_provider" /\ pc' # "idle" => Noted(host', kept')
  BY <1>1 DEF KeyInv, Granted, Noted
<1>6. Granted'
  BY <1>3, <1>4, <1>5 DEF Granted, Noted, Undoing
<1> QED BY <1>2, <1>6 DEF KeyInv

\* No function calls the change of the model provider: its results are the operation's.
Leads(t, k) == IF t \in Results THEN pc' = "idle" ELSE pc' = t /\ kept' = k

LEMMA ToLeads ==
  ASSUME Placed, Kind(pc) = "providing", pc # "idle", NEW t, NEW k, To(t, k)
  PROVE  Leads(t, k)
<1>1. stack = <<>>
  <2>1. stack \in Seq(Frame) /\ Len(stack) <= 0 /\ Len(stack) \in Nat
    BY CallersAre DEF Placed, Chain, Suits
  <2> QED BY <2>1
<1>2. Land(<<t, stack>>) = <<t, stack>>
  <2>1. <<t, stack>>[2] = stack
    BY Pair
  <2> QED BY <1>1, <2>1, Zenon DEF Land
<1>3. Landing(t) = <<t, stack>>
  BY <1>2, Zenon DEF Landing
<1>4. Landing(t)[1] = t
  <2>1. <<t, stack>>[1] = t
    BY Pair
  <2> QED BY <1>3, <2>1, Zenon
<1> QED BY <1>4 DEF To, Leads

LEMMA WriteOf ==
  ASSUME Placed, Kind(pc) = "providing", pc # "idle",
         NEW at, NEW h, NEW part, NEW next, NEW exc, Writes(at, h, part, next, exc)
  PROVE  (host' = h /\ Leads(next, kept)) \/ (host' \in part \cup {host} /\ Leads(exc, kept))
<1>1. \A t : To(t, kept) => Leads(t, kept)
  BY ToLeads
<1> QED BY <1>1 DEF Writes

LEMMA RunOf ==
  ASSUME Placed, Kind(pc) = "providing", pc # "idle",
         NEW at, NEW h, NEW next, NEW exc, NEW bad, Runs(at, {h}, {}, next, bad, exc)
  PROVE  host' \in {h, host} /\ ((host' = h /\ Leads(next, kept)) \/ Leads(bad, kept) \/ Leads(exc, kept))
<1>1. \A t : To(t, kept) => Leads(t, kept)
  BY ToLeads
<1> QED BY <1>1 DEF Runs

LEMMA ReadOf ==
  ASSUME Placed, Kind(pc) = "providing", pc # "idle",
         NEW at, NEW found, NEW k, NEW next, NEW exc, NEW bad, Reads(at, found, k, next, bad, exc)
  PROVE  host' = host /\ (Leads(next, k) \/ Leads(bad, kept) \/ Leads(exc, kept))
<1>1. \A t : (To(t, kept) => Leads(t, kept)) /\ (To(t, k) => Leads(t, k))
  BY ToLeads
<1> QED BY <1>1 DEF Reads

LEMMA TryOf ==
  ASSUME Placed, Kind(pc) = "providing", pc # "idle",
         NEW at, NEW h, NEW k, NEW next, NEW exc, Tries(at, {h}, k, next, exc)
  PROVE  host' \in {h, host} /\ (Leads(next, k) \/ Leads(exc, kept))
<1>1. \A t : (To(t, kept) => Leads(t, kept)) /\ (To(t, k) => Leads(t, k))
  BY ToLeads
<1> QED BY <1>1 DEF Tries

LEMMA DecisionOf ==
  ASSUME Placed, Kind(pc) = "providing", pc # "idle",
         NEW at, NEW t, NEW k, Decides(at, t, k)
  PROVE  host' = host /\ Leads(t, k)
BY ToLeads DEF Decides

\* what a change of the model provider makes of the instance's key and models
Holds(h, key, token, model, models) ==
  h.key = key /\ h.token = token /\ h.model = model /\ h.models = models

LEMMA KeysWritten ==
  ASSUME DOMAIN host = Fields
  PROVE  /\ Holds(WithToken, host.key, Token, host.model, host.models)
         /\ host.token # "none" => Token = host.token
         /\ Holds(WithKey, host.token, host.token, host.model, host.models)
         /\ Holds(WithModel, host.key, host.token, kept.wanted, host.models)
         /\ Holds([WithModel EXCEPT !.key = host.token], host.token, host.token, kept.wanted, host.models)
         /\ Holds(Narrowed, host.key, host.token, host.model, {kept.wanted})
         /\ Holds(Widened, host.key, host.token, host.model, host.models \cup {kept.wanted})
         /\ Holds(Unconfigured, "none", host.token, "none", host.models)
         /\ Holds(ConfigBack, kept.was.key, host.token, kept.was.model, host.models)
         /\ Holds(TokenBack, host.key, kept.was.token, host.model, host.models)
         /\ Holds(ModelsBack, host.key, host.token, host.model, kept.was.models)
         /\ Holds([host EXCEPT !.linked = TRUE], host.key, host.token, host.model, host.models)
         /\ Holds([host EXCEPT !.linked = FALSE], host.key, host.token, host.model, host.models)
BY DEF Holds, WithToken, Token, WithKey, WithModel, Narrowed, Widened, Unconfigured, ConfigBack,
     TokenBack,
       ModelsBack, Fields

LEMMA LocalsOf ==
  ASSUME Local(kept)
  PROVE  /\ \A m : LET k == Locals([wanted |-> m, was |-> host]) IN k.was = host /\ k.failed = kept.failed
         /\ Locals([linked |-> TRUE]).was = kept.was /\ Locals([linked |-> TRUE]).wanted = kept.wanted
         /\ Locals([linked |-> TRUE]).failed = kept.failed
         /\ Failing.was = kept.was /\ Failing.failed
BY DEF Local, LocalNames, Locals, Failing

WasBefore ==
  /\ kept.was.key = before.host.key /\ kept.was.token = before.host.token
  /\ kept.was.model = before.host.model /\ kept.was.models = before.host.models

LEMMA EvoAdmits ==
  ASSUME KeyInv, product = "evoscientist", EvoProvider
  PROVE  KeyInv' /\ Admits
<1>1. /\ pc # "idle" /\ Placed /\ DOMAIN host = Fields /\ Local(kept) /\ product # "openclaw"
      /\ DataInv' /\ UNCHANGED <<product, op, before>>
  <2>1. DataInv /\ SettingsStep
    BY DEF KeyInv, SettingsStep
  <2> QED BY <2>1, SettingsKeep, StepsRun DEF DataInv, Placed, Kept
<1>2. pc \in Providing
  BY DEF EvoProvider, Provide, ProxyJoins, Decides, Writes, Runs, Tries, Reads, Calls, Providing
<1>3. Kind(pc) = "providing" /\ op = "set_model_provider"
  <2>1. Kind(pc) = "providing"
    BY <1>2 DEF Kind, Creating, Deleting, Purging, Providing
  <2> QED BY <1>1, <2>1 DEF Placed, Suits
<1>4. Granted
  BY <1>1 DEF KeyInv
<1>5. pc # "set_model_provider" => Noted(host, kept)
  BY <1>1, <1>3, <1>4 DEF Granted
<1>6. SUFFICES Granted' /\ Admits
  BY <1>1 DEF KeyInv
<1> USE <1>1, <1>3
<1>7. CASE pc = "set_model_provider"
  <2>1. \/ Decides("set_model_provider", "fail", kept)
        \/ \E m \in Models : Decides("set_model_provider", "provider.token", Locals([wanted |-> m, was |-> host]))
    BY <1>7 DEF EvoProvider, Provide, ProxyJoins, Decides, Writes, Runs, Tries, Reads, Calls
  <2>2. \E k : /\ k.was = host /\ host' = host
               /\ pc' = "idle" \/ (pc' \in {"provider.token", "provider.models"} /\ kept' = k
                                 /\ pc' \notin Widening)
    <3>1. CASE Decides("set_model_provider", "fail", kept)
      <4>1. host' = host /\ pc' = "idle"
        BY <3>1, DecisionOf DEF Leads, Results
      <4>2. \E k : k.was = host
        <5>1. [was |-> host].was = host
          OBVIOUS
        <5> QED BY <5>1
      <4> QED BY <4>1, <4>2
    <3>2. ASSUME NEW m \in Models,
                 Decides("set_model_provider", "provider.token", Locals([wanted |-> m, was |-> host]))
          PROVE  \E k : /\ k.was = host /\ host' = host
                        /\ pc' = "idle" \/ (pc' \in {"provider.token", "provider.models"} /\ kept' = k
                                          /\ pc' \notin Widening)
      <4> DEFINE k == Locals([wanted |-> m, was |-> host])
      <4>1. host' = host /\ Leads("provider.token", k)
        BY <3>2, DecisionOf
      <4>2. k.was = host
        BY LocalsOf
      <4> HIDE DEF k
      <4> QED BY <4>1, <4>2 DEF Leads, Results, Widening
    <3> QED BY <2>1, <3>1, <3>2
  <2>3. \A f \in KeyFields : host[f] = before.host[f]
    BY <1>4, <1>7 DEF Granted
  <2>4. before.host.models = host.models /\ before.host.token = host.token
    BY <2>3 DEF KeyFields
  <2> QED BY <2>2, <2>3, <2>4 DEF Granted, Noted, Admits, Widening, Naming, Undoing
<1>8. CASE pc = "provider.token"
  <2>1. Writes("provider.token", WithToken, {}, "provider.models", "provider.undo")
    BY <1>8 DEF EvoProvider, Provide, ProxyJoins, Decides, Writes, Runs, Tries, Reads, Calls
  <2>2. (host' = WithToken /\ Leads("provider.models", kept)) \/ (host' \in {} \cup {host} /\ Leads("provider.undo", kept))
    BY <2>1, WriteOf
  <2>3. Noted(host, kept) /\ WasBefore
    BY <1>5, <1>8 DEF Noted, WasBefore, KeyFields
  <2>4. Granted'
    BY <1>4, <1>8, <2>2, <2>3, KeysWritten, LocalsOf
       DEF Leads, Results, Granted, Noted, WasBefore, Holds, Widening, Naming, Undoing
  <2>5. Admits
    BY <1>4, <1>8, <2>2, <2>3, KeysWritten
       DEF Granted, Noted, WasBefore, Holds, Widening, Naming, Undoing, Admits, Answered
  <2> QED BY <2>4, <2>5
<1>9. CASE pc = "provider.models"
  <2>1. Writes("provider.models", Widened, {}, "provider.config", "provider.undo")
    BY <1>9 DEF EvoProvider, Provide, ProxyJoins, Decides, Writes, Runs, Tries, Reads, Calls
  <2>2. (host' = Widened /\ Leads("provider.config", kept)) \/ (host' \in {} \cup {host} /\ Leads("provider.undo", kept))
    BY <2>1, WriteOf
  <2>3. Noted(host, kept) /\ WasBefore
    BY <1>5, <1>9 DEF Noted, WasBefore, KeyFields
  <2>4. Granted'
    BY <1>4, <1>9, <2>2, <2>3, KeysWritten, LocalsOf
       DEF Leads, Results, Granted, Noted, WasBefore, Holds, Widening, Naming, Undoing
  <2>5. Admits
    BY <1>4, <1>9, <2>2, <2>3, KeysWritten
       DEF Granted, Noted, WasBefore, Holds, Widening, Naming, Undoing, Admits, Answered
  <2> QED BY <2>4, <2>5
<1>10. CASE pc = "provider.config"
  <2>1. Writes("provider.config", [WithModel EXCEPT !.key = host.token], {Unconfigured}, "provider.own", "provider.undo")
    BY <1>10 DEF EvoProvider, Provide, ProxyJoins, Decides, Writes, Runs, Tries, Reads, Calls
  <2>2. (host' = [WithModel EXCEPT !.key = host.token] /\ Leads("provider.own", kept)) \/ (host' \in {Unconfigured} \cup {host} /\ Leads("provider.undo", kept))
    BY <2>1, WriteOf
  <2>3. Noted(host, kept) /\ WasBefore
    BY <1>5, <1>10 DEF Noted, WasBefore, KeyFields
  <2>4. Granted'
    BY <1>4, <1>10, <2>2, <2>3, KeysWritten, LocalsOf
       DEF Leads, Results, Granted, Noted, WasBefore, Holds, Widening, Naming, Undoing
  <2>5. Admits
    BY <1>4, <1>10, <2>2, <2>3, KeysWritten
       DEF Granted, Noted, WasBefore, Holds, Widening, Naming, Undoing, Admits, Answered
  <2> QED BY <2>4, <2>5
<1>11. CASE pc = "provider.own"
  <2>1. Runs("provider.own", {host}, {}, "provider.look", "provider.undo", "provider.undo")
    BY <1>11 DEF EvoProvider, Provide, ProxyJoins, Decides, Writes, Runs, Tries, Reads, Calls
  <2>2. host' \in {host, host} /\ ((host' = host /\ Leads("provider.look", kept)) \/ Leads("provider.undo", kept) \/ Leads("provider.undo", kept))
    BY <2>1, RunOf
  <2>3. Noted(host, kept) /\ WasBefore
    BY <1>5, <1>11 DEF Noted, WasBefore, KeyFields
  <2>4. Granted'
    BY <1>4, <1>11, <2>2, <2>3, KeysWritten, LocalsOf
       DEF Leads, Results, Granted, Noted, WasBefore, Holds, Widening, Naming, Undoing
  <2>5. Admits
    BY <1>4, <1>11, <2>2, <2>3, KeysWritten
       DEF Granted, Noted, WasBefore, Holds, Widening, Naming, Undoing, Admits, Answered
  <2> QED BY <2>4, <2>5
<1>12. CASE pc = "provider.look"
  <2>1. Reads("provider.look", TRUE, kept, IF host.linked THEN "provider.restart" ELSE "provider.link", "provider.undo", "provider.undo")
    BY <1>12 DEF EvoProvider, Provide, ProxyJoins, Decides, Writes, Runs, Tries, Reads, Calls
  <2>2. host' = host /\ (Leads(IF host.linked THEN "provider.restart" ELSE "provider.link", kept) \/ Leads("provider.undo", kept) \/ Leads("provider.undo", kept))
    BY <2>1, ReadOf
  <2>3. Noted(host, kept) /\ WasBefore
    BY <1>5, <1>12 DEF Noted, WasBefore, KeyFields
  <2>4. Granted'
    BY <1>4, <1>12, <2>2, <2>3, KeysWritten, LocalsOf
       DEF Leads, Results, Granted, Noted, WasBefore, Holds, Widening, Naming, Undoing
  <2>5. Admits
    BY <1>4, <1>12, <2>2, <2>3, KeysWritten
       DEF Granted, Noted, WasBefore, Holds, Widening, Naming, Undoing, Admits, Answered
  <2> QED BY <2>4, <2>5
<1>13. CASE pc = "provider.link"
  <2>1. Runs("provider.link", {[host EXCEPT !.linked = TRUE]}, {}, "provider.linked", "provider.undo", "provider.undo")
    BY <1>13 DEF EvoProvider, Provide, ProxyJoins, Decides, Writes, Runs, Tries, Reads, Calls
  <2>2. host' \in {[host EXCEPT !.linked = TRUE], host} /\ ((host' = [host EXCEPT !.linked = TRUE] /\ Leads("provider.linked", kept)) \/ Leads("provider.undo", kept) \/ Leads("provider.undo", kept))
    BY <2>1, RunOf
  <2>3. Noted(host, kept) /\ WasBefore
    BY <1>5, <1>13 DEF Noted, WasBefore, KeyFields
  <2>4. Granted'
    BY <1>4, <1>13, <2>2, <2>3, KeysWritten, LocalsOf
       DEF Leads, Results, Granted, Noted, WasBefore, Holds, Widening, Naming, Undoing
  <2>5. Admits
    BY <1>4, <1>13, <2>2, <2>3, KeysWritten
       DEF Granted, Noted, WasBefore, Holds, Widening, Naming, Undoing, Admits, Answered
  <2> QED BY <2>4, <2>5
<1>14. CASE pc = "provider.linked"
  <2>1. Decides("provider.linked", "provider.restart", Locals([linked |-> TRUE]))
    BY <1>14 DEF EvoProvider, Provide, ProxyJoins, Decides, Writes, Runs, Tries, Reads, Calls
  <2>2. host' = host /\ Leads("provider.restart", Locals([linked |-> TRUE]))
    BY <2>1, DecisionOf
  <2>3. Noted(host, kept) /\ WasBefore
    BY <1>5, <1>14 DEF Noted, WasBefore, KeyFields
  <2>4. Granted'
    BY <1>4, <1>14, <2>2, <2>3, KeysWritten, LocalsOf
       DEF Leads, Results, Granted, Noted, WasBefore, Holds, Widening, Naming, Undoing
  <2>5. Admits
    BY <1>4, <1>14, <2>2, <2>3, KeysWritten
       DEF Granted, Noted, WasBefore, Holds, Widening, Naming, Undoing, Admits, Answered
  <2> QED BY <2>4, <2>5
<1>15. CASE pc = "provider.undo"
  <2>1. Writes("provider.undo", ConfigBack, {Unconfigured}, "provider.undo.token", "raise")
    BY <1>15 DEF EvoProvider, Provide, ProxyJoins, Decides, Writes, Runs, Tries, Reads, Calls
  <2>2. (host' = ConfigBack /\ Leads("provider.undo.token", kept)) \/ (host' \in {Unconfigured} \cup {host} /\ Leads("raise", kept))
    BY <2>1, WriteOf
  <2>3. Noted(host, kept) /\ WasBefore
    BY <1>5, <1>15 DEF Noted, WasBefore, KeyFields
  <2>4. Granted'
    BY <1>4, <1>15, <2>2, <2>3, KeysWritten, LocalsOf
       DEF Leads, Results, Granted, Noted, WasBefore, Holds, Widening, Naming, Undoing
  <2>5. Admits
    BY <1>4, <1>15, <2>2, <2>3, KeysWritten
       DEF Granted, Noted, WasBefore, Holds, Widening, Naming, Undoing, Admits, Answered
  <2> QED BY <2>4, <2>5
<1>16. CASE pc = "provider.undo.token"
  <2>1. Writes("provider.undo.token", TokenBack, {}, "provider.undo.models", "raise")
    BY <1>16 DEF EvoProvider, Provide, ProxyJoins, Decides, Writes, Runs, Tries, Reads, Calls
  <2>2. (host' = TokenBack /\ Leads("provider.undo.models", kept)) \/ (host' \in {} \cup {host} /\ Leads("raise", kept))
    BY <2>1, WriteOf
  <2>3. Noted(host, kept) /\ WasBefore
    BY <1>5, <1>16 DEF Noted, WasBefore, KeyFields
  <2>4. Granted'
    BY <1>4, <1>16, <2>2, <2>3, KeysWritten, LocalsOf
       DEF Leads, Results, Granted, Noted, WasBefore, Holds, Widening, Naming, Undoing
  <2>5. Admits
    BY <1>4, <1>16, <2>2, <2>3, KeysWritten
       DEF Granted, Noted, WasBefore, Holds, Widening, Naming, Undoing, Admits, Answered
  <2> QED BY <2>4, <2>5
<1>17. CASE pc = "provider.undo.models"
  <2>1. Writes("provider.undo.models", ModelsBack, {}, "provider.undo.link", "raise")
    BY <1>17 DEF EvoProvider, Provide, ProxyJoins, Decides, Writes, Runs, Tries, Reads, Calls
  <2>2. (host' = ModelsBack /\ Leads("provider.undo.link", kept)) \/ (host' \in {} \cup {host} /\ Leads("raise", kept))
    BY <2>1, WriteOf
  <2>3. Noted(host, kept) /\ WasBefore
    BY <1>5, <1>17 DEF Noted, WasBefore, KeyFields
  <2>4. Granted'
    BY <1>4, <1>17, <2>2, <2>3, KeysWritten, LocalsOf
       DEF Leads, Results, Granted, Noted, WasBefore, Holds, Widening, Naming, Undoing
  <2>5. Admits
    BY <1>4, <1>17, <2>2, <2>3, KeysWritten
       DEF Granted, Noted, WasBefore, Holds, Widening, Naming, Undoing, Admits, Answered
  <2> QED BY <2>4, <2>5
<1>18. CASE pc = "provider.undo.link"
  <2>1. \/ Decides("provider.undo.link", "rolledback", kept)
        \/ Tries("provider.undo.link", {[host EXCEPT !.linked = FALSE]}, kept, "rolledback", "raise")
    BY <1>18 DEF EvoProvider, Provide, ProxyJoins, Decides, Writes, Runs, Tries, Reads, Calls
  <2>2. \/ host' = host /\ Leads("rolledback", kept)
        \/ host' \in {[host EXCEPT !.linked = FALSE], host} /\ (Leads("rolledback", kept) \/ Leads("raise", kept))
    BY <2>1, DecisionOf, TryOf
  <2>3. Noted(host, kept) /\ WasBefore
    BY <1>5, <1>18 DEF Noted, WasBefore, KeyFields
  <2>4. Granted'
    BY <1>4, <1>18, <2>2, <2>3, KeysWritten, LocalsOf
       DEF Leads, Results, Granted, Noted, WasBefore, Holds, Widening, Naming, Undoing
  <2>5. Admits
    BY <1>4, <1>18, <2>2, <2>3, KeysWritten
       DEF Granted, Noted, WasBefore, Holds, Widening, Naming, Undoing, Admits, Answered
  <2> QED BY <2>4, <2>5
<1>19. CASE pc = "provider.restart"
  <2>1. host' = host /\ pc' = "restart" /\ kept' = kept
    BY <1>19 DEF EvoProvider, Provide, ProxyJoins, Decides, Writes, Runs, Tries, Reads, Calls
  <2>2. Noted(host, kept)
    BY <1>5, <1>19
  <2> QED BY <2>1, <2>2 DEF Granted, Noted, Widening, Naming, Undoing, Admits
<1>20. pc \in {"set_model_provider", "provider.token", "provider.models", "provider.config",
     "provider.own", "provider.look", "provider.link", "provider.linked", "provider.undo",
     "provider.undo.token", "provider.undo.models", "provider.undo.link", "provider.restart"}
  BY DEF EvoProvider, Provide, ProxyJoins, Decides, Writes, Runs, Tries, Reads, Calls
<1> QED BY <1>7, <1>8, <1>9, <1>10, <1>11, <1>12, <1>13, <1>14, <1>15, <1>16, <1>17, <1>18, <1>19,
     <1>20

LEMMA HermesAdmits ==
  ASSUME KeyInv, product = "hermes", HermesProvider
  PROVE  KeyInv' /\ Admits
<1>1. /\ pc # "idle" /\ Placed /\ DOMAIN host = Fields /\ Local(kept) /\ product # "openclaw"
      /\ DataInv' /\ UNCHANGED <<product, op, before>>
  <2>1. DataInv /\ SettingsStep
    BY DEF KeyInv, SettingsStep
  <2> QED BY <2>1, SettingsKeep, StepsRun DEF DataInv, Placed, Kept
<1>2. pc \in Providing
  BY DEF HermesProvider, Provide, ProxyJoins, Decides, Writes, Runs, Tries, Reads, Calls, Providing
<1>3. Kind(pc) = "providing" /\ op = "set_model_provider"
  <2>1. Kind(pc) = "providing"
    BY <1>2 DEF Kind, Creating, Deleting, Purging, Providing
  <2> QED BY <1>1, <2>1 DEF Placed, Suits
<1>4. Granted
  BY <1>1 DEF KeyInv
<1>5. pc # "set_model_provider" => Noted(host, kept)
  BY <1>1, <1>3, <1>4 DEF Granted
<1>6. SUFFICES Granted' /\ Admits
  BY <1>1 DEF KeyInv
<1> USE <1>1, <1>3
<1>7. CASE pc = "set_model_provider"
  <2>1. \/ Decides("set_model_provider", "fail", kept)
        \/ \E m \in Models : Decides("set_model_provider", IF host.home = Parts THEN "provider.models" ELSE "fail", Locals([wanted |-> m, was |-> host]))
    BY <1>7 DEF HermesProvider, Provide, ProxyJoins, Decides, Writes, Runs, Tries, Reads, Calls
  <2>2. \E k : /\ k.was = host /\ host' = host
               /\ pc' = "idle" \/ (pc' \in {"provider.token", "provider.models"} /\ kept' = k
                                 /\ pc' \notin Widening)
    <3>1. CASE Decides("set_model_provider", "fail", kept)
      <4>1. host' = host /\ pc' = "idle"
        BY <3>1, DecisionOf DEF Leads, Results
      <4>2. \E k : k.was = host
        <5>1. [was |-> host].was = host
          OBVIOUS
        <5> QED BY <5>1
      <4> QED BY <4>1, <4>2
    <3>2. ASSUME NEW m \in Models,
                 Decides("set_model_provider", IF host.home = Parts THEN "provider.models" ELSE "fail", Locals([wanted |-> m, was |-> host]))
          PROVE  \E k : /\ k.was = host /\ host' = host
                        /\ pc' = "idle" \/ (pc' \in {"provider.token", "provider.models"} /\ kept' = k
                                          /\ pc' \notin Widening)
      <4> DEFINE k == Locals([wanted |-> m, was |-> host])
      <4>1. host' = host /\ Leads(IF host.home = Parts THEN "provider.models" ELSE "fail", k)
        BY <3>2, DecisionOf
      <4>2. k.was = host
        BY LocalsOf
      <4> HIDE DEF k
      <4> QED BY <4>1, <4>2 DEF Leads, Results, Widening
    <3> QED BY <2>1, <3>1, <3>2
  <2>3. \A f \in KeyFields : host[f] = before.host[f]
    BY <1>4, <1>7 DEF Granted
  <2>4. before.host.models = host.models /\ before.host.token = host.token
    BY <2>3 DEF KeyFields
  <2> QED BY <2>2, <2>3, <2>4 DEF Granted, Noted, Admits, Widening, Naming, Undoing
<1>8. CASE pc = "provider.models"
  <2>1. Writes("provider.models", Widened, {}, IF host.token = "none" THEN "provider.token" ELSE "provider.look", "provider.undo")
    BY <1>8 DEF HermesProvider, Provide, ProxyJoins, Decides, Writes, Runs, Tries, Reads, Calls
  <2>2. (host' = Widened /\ Leads(IF host.token = "none" THEN "provider.token" ELSE "provider.look", kept)) \/ (host' \in {} \cup {host} /\ Leads("provider.undo", kept))
    BY <2>1, WriteOf
  <2>3. Noted(host, kept) /\ WasBefore
    BY <1>5, <1>8 DEF Noted, WasBefore, KeyFields
  <2>4. Granted'
    BY <1>4, <1>8, <2>2, <2>3, KeysWritten, LocalsOf
       DEF Leads, Results, Granted, Noted, WasBefore, Holds, Widening, Naming, Undoing
  <2>5. Admits
    BY <1>4, <1>8, <2>2, <2>3, KeysWritten
       DEF Granted, Noted, WasBefore, Holds, Widening, Naming, Undoing, Admits, Answered
  <2> QED BY <2>4, <2>5
<1>9. CASE pc = "provider.token"
  <2>1. Writes("provider.token", WithToken, {}, "provider.look", "provider.undo")
    BY <1>9 DEF HermesProvider, Provide, ProxyJoins, Decides, Writes, Runs, Tries, Reads, Calls
  <2>2. (host' = WithToken /\ Leads("provider.look", kept)) \/ (host' \in {} \cup {host} /\ Leads("provider.undo", kept))
    BY <2>1, WriteOf
  <2>3. Noted(host, kept) /\ WasBefore
    BY <1>5, <1>9 DEF Noted, WasBefore, KeyFields
  <2>4. Granted'
    BY <1>4, <1>9, <2>2, <2>3, KeysWritten, LocalsOf
       DEF Leads, Results, Granted, Noted, WasBefore, Holds, Widening, Naming, Undoing
  <2>5. Admits
    BY <1>4, <1>9, <2>2, <2>3, KeysWritten
       DEF Granted, Noted, WasBefore, Holds, Widening, Naming, Undoing, Admits, Answered
  <2> QED BY <2>4, <2>5
<1>10. CASE pc = "provider.look"
  <2>1. Reads("provider.look", TRUE, kept, IF host.linked THEN "provider.model" ELSE "provider.link", "provider.undo", "provider.undo")
    BY <1>10 DEF HermesProvider, Provide, ProxyJoins, Decides, Writes, Runs, Tries, Reads, Calls
  <2>2. host' = host /\ (Leads(IF host.linked THEN "provider.model" ELSE "provider.link", kept) \/ Leads("provider.undo", kept) \/ Leads("provider.undo", kept))
    BY <2>1, ReadOf
  <2>3. Noted(host, kept) /\ WasBefore
    BY <1>5, <1>10 DEF Noted, WasBefore, KeyFields
  <2>4. Granted'
    BY <1>4, <1>10, <2>2, <2>3, KeysWritten, LocalsOf
       DEF Leads, Results, Granted, Noted, WasBefore, Holds, Widening, Naming, Undoing
  <2>5. Admits
    BY <1>4, <1>10, <2>2, <2>3, KeysWritten
       DEF Granted, Noted, WasBefore, Holds, Widening, Naming, Undoing, Admits, Answered
  <2> QED BY <2>4, <2>5
<1>11. CASE pc = "provider.link"
  <2>1. Runs("provider.link", {[host EXCEPT !.linked = TRUE]}, {}, "provider.linked", "provider.undo", "provider.undo")
    BY <1>11 DEF HermesProvider, Provide, ProxyJoins, Decides, Writes, Runs, Tries, Reads, Calls
  <2>2. host' \in {[host EXCEPT !.linked = TRUE], host} /\ ((host' = [host EXCEPT !.linked = TRUE] /\ Leads("provider.linked", kept)) \/ Leads("provider.undo", kept) \/ Leads("provider.undo", kept))
    BY <2>1, RunOf
  <2>3. Noted(host, kept) /\ WasBefore
    BY <1>5, <1>11 DEF Noted, WasBefore, KeyFields
  <2>4. Granted'
    BY <1>4, <1>11, <2>2, <2>3, KeysWritten, LocalsOf
       DEF Leads, Results, Granted, Noted, WasBefore, Holds, Widening, Naming, Undoing
  <2>5. Admits
    BY <1>4, <1>11, <2>2, <2>3, KeysWritten
       DEF Granted, Noted, WasBefore, Holds, Widening, Naming, Undoing, Admits, Answered
  <2> QED BY <2>4, <2>5
<1>12. CASE pc = "provider.linked"
  <2>1. Decides("provider.linked", "provider.model", Locals([linked |-> TRUE]))
    BY <1>12 DEF HermesProvider, Provide, ProxyJoins, Decides, Writes, Runs, Tries, Reads, Calls
  <2>2. host' = host /\ Leads("provider.model", Locals([linked |-> TRUE]))
    BY <2>1, DecisionOf
  <2>3. Noted(host, kept) /\ WasBefore
    BY <1>5, <1>12 DEF Noted, WasBefore, KeyFields
  <2>4. Granted'
    BY <1>4, <1>12, <2>2, <2>3, KeysWritten, LocalsOf
       DEF Leads, Results, Granted, Noted, WasBefore, Holds, Widening, Naming, Undoing
  <2>5. Admits
    BY <1>4, <1>12, <2>2, <2>3, KeysWritten
       DEF Granted, Noted, WasBefore, Holds, Widening, Naming, Undoing, Admits, Answered
  <2> QED BY <2>4, <2>5
<1>13. CASE pc = "provider.model"
  <2>1. Runs("provider.model", {WithModel}, {}, "provider.url", "provider.undo", "provider.undo")
    BY <1>13 DEF HermesProvider, Provide, ProxyJoins, Decides, Writes, Runs, Tries, Reads, Calls
  <2>2. host' \in {WithModel, host} /\ ((host' = WithModel /\ Leads("provider.url", kept)) \/ Leads("provider.undo", kept) \/ Leads("provider.undo", kept))
    BY <2>1, RunOf
  <2>3. Noted(host, kept) /\ WasBefore
    BY <1>5, <1>13 DEF Noted, WasBefore, KeyFields
  <2>4. Granted'
    BY <1>4, <1>13, <2>2, <2>3, KeysWritten, LocalsOf
       DEF Leads, Results, Granted, Noted, WasBefore, Holds, Widening, Naming, Undoing
  <2>5. Admits
    BY <1>4, <1>13, <2>2, <2>3, KeysWritten
       DEF Granted, Noted, WasBefore, Holds, Widening, Naming, Undoing, Admits, Answered
  <2> QED BY <2>4, <2>5
<1>14. CASE pc = "provider.url"
  <2>1. Runs("provider.url", {host}, {}, "provider.key", "provider.undo", "provider.undo")
    BY <1>14 DEF HermesProvider, Provide, ProxyJoins, Decides, Writes, Runs, Tries, Reads, Calls
  <2>2. host' \in {host, host} /\ ((host' = host /\ Leads("provider.key", kept)) \/ Leads("provider.undo", kept) \/ Leads("provider.undo", kept))
    BY <2>1, RunOf
  <2>3. Noted(host, kept) /\ WasBefore
    BY <1>5, <1>14 DEF Noted, WasBefore, KeyFields
  <2>4. Granted'
    BY <1>4, <1>14, <2>2, <2>3, KeysWritten, LocalsOf
       DEF Leads, Results, Granted, Noted, WasBefore, Holds, Widening, Naming, Undoing
  <2>5. Admits
    BY <1>4, <1>14, <2>2, <2>3, KeysWritten
       DEF Granted, Noted, WasBefore, Holds, Widening, Naming, Undoing, Admits, Answered
  <2> QED BY <2>4, <2>5
<1>15. CASE pc = "provider.key"
  <2>1. Runs("provider.key", {WithKey}, {}, "provider.mode", "provider.undo", "provider.undo")
    BY <1>15 DEF HermesProvider, Provide, ProxyJoins, Decides, Writes, Runs, Tries, Reads, Calls
  <2>2. host' \in {WithKey, host} /\ ((host' = WithKey /\ Leads("provider.mode", kept)) \/ Leads("provider.undo", kept) \/ Leads("provider.undo", kept))
    BY <2>1, RunOf
  <2>3. Noted(host, kept) /\ WasBefore
    BY <1>5, <1>15 DEF Noted, WasBefore, KeyFields
  <2>4. Granted'
    BY <1>4, <1>15, <2>2, <2>3, KeysWritten, LocalsOf
       DEF Leads, Results, Granted, Noted, WasBefore, Holds, Widening, Naming, Undoing
  <2>5. Admits
    BY <1>4, <1>15, <2>2, <2>3, KeysWritten
       DEF Granted, Noted, WasBefore, Holds, Widening, Naming, Undoing, Admits, Answered
  <2> QED BY <2>4, <2>5
<1>16. CASE pc = "provider.mode"
  <2>1. Runs("provider.mode", {host}, {}, "provider.narrow", "provider.undo", "provider.undo")
    BY <1>16 DEF HermesProvider, Provide, ProxyJoins, Decides, Writes, Runs, Tries, Reads, Calls
  <2>2. host' \in {host, host} /\ ((host' = host /\ Leads("provider.narrow", kept)) \/ Leads("provider.undo", kept) \/ Leads("provider.undo", kept))
    BY <2>1, RunOf
  <2>3. Noted(host, kept) /\ WasBefore
    BY <1>5, <1>16 DEF Noted, WasBefore, KeyFields
  <2>4. Granted'
    BY <1>4, <1>16, <2>2, <2>3, KeysWritten, LocalsOf
       DEF Leads, Results, Granted, Noted, WasBefore, Holds, Widening, Naming, Undoing
  <2>5. Admits
    BY <1>4, <1>16, <2>2, <2>3, KeysWritten
       DEF Granted, Noted, WasBefore, Holds, Widening, Naming, Undoing, Admits, Answered
  <2> QED BY <2>4, <2>5
<1>17. CASE pc = "provider.narrow"
  <2>1. Writes("provider.narrow", Narrowed, {}, "ok", "provider.undo")
    BY <1>17 DEF HermesProvider, Provide, ProxyJoins, Decides, Writes, Runs, Tries, Reads, Calls
  <2>2. (host' = Narrowed /\ Leads("ok", kept)) \/ (host' \in {} \cup {host} /\ Leads("provider.undo", kept))
    BY <2>1, WriteOf
  <2>3. Noted(host, kept) /\ WasBefore
    BY <1>5, <1>17 DEF Noted, WasBefore, KeyFields
  <2>4. Granted'
    BY <1>4, <1>17, <2>2, <2>3, KeysWritten, LocalsOf
       DEF Leads, Results, Granted, Noted, WasBefore, Holds, Widening, Naming, Undoing
  <2>5. Admits
    BY <1>4, <1>17, <2>2, <2>3, KeysWritten
       DEF Granted, Noted, WasBefore, Holds, Widening, Naming, Undoing, Admits, Answered
  <2> QED BY <2>4, <2>5
<1>18. CASE pc = "provider.undo"
  <2>1. Writes("provider.undo", ConfigBack, {Unconfigured}, "provider.undo.token", "provider.undo.config")
    BY <1>18 DEF HermesProvider, Provide, ProxyJoins, Decides, Writes, Runs, Tries, Reads, Calls
  <2>2. (host' = ConfigBack /\ Leads("provider.undo.token", kept)) \/ (host' \in {Unconfigured} \cup {host} /\ Leads("provider.undo.config", kept))
    BY <2>1, WriteOf
  <2>3. Noted(host, kept) /\ WasBefore
    BY <1>5, <1>18 DEF Noted, WasBefore, KeyFields
  <2>4. Granted'
    BY <1>4, <1>18, <2>2, <2>3, KeysWritten, LocalsOf
       DEF Leads, Results, Granted, Noted, WasBefore, Holds, Widening, Naming, Undoing
  <2>5. Admits
    BY <1>4, <1>18, <2>2, <2>3, KeysWritten
       DEF Granted, Noted, WasBefore, Holds, Widening, Naming, Undoing, Admits, Answered
  <2> QED BY <2>4, <2>5
<1>19. CASE pc = "provider.undo.config"
  <2>1. Decides("provider.undo.config", "provider.undo.token", Failing)
    BY <1>19 DEF HermesProvider, Provide, ProxyJoins, Decides, Writes, Runs, Tries, Reads, Calls
  <2>2. host' = host /\ Leads("provider.undo.token", Failing)
    BY <2>1, DecisionOf
  <2>3. Noted(host, kept) /\ WasBefore
    BY <1>5, <1>19 DEF Noted, WasBefore, KeyFields
  <2>4. Granted'
    BY <1>4, <1>19, <2>2, <2>3, KeysWritten, LocalsOf
       DEF Leads, Results, Granted, Noted, WasBefore, Holds, Widening, Naming, Undoing
  <2>5. Admits
    BY <1>4, <1>19, <2>2, <2>3, KeysWritten
       DEF Granted, Noted, WasBefore, Holds, Widening, Naming, Undoing, Admits, Answered
  <2> QED BY <2>4, <2>5
<1>20. CASE pc = "provider.undo.token"
  <2>1. Writes("provider.undo.token", TokenBack, {}, "provider.undo.models", "provider.undo.untold")
    BY <1>20 DEF HermesProvider, Provide, ProxyJoins, Decides, Writes, Runs, Tries, Reads, Calls
  <2>2. (host' = TokenBack /\ Leads("provider.undo.models", kept)) \/ (host' \in {} \cup {host} /\ Leads("provider.undo.untold", kept))
    BY <2>1, WriteOf
  <2>3. Noted(host, kept) /\ WasBefore
    BY <1>5, <1>20 DEF Noted, WasBefore, KeyFields
  <2>4. Granted'
    BY <1>4, <1>20, <2>2, <2>3, KeysWritten, LocalsOf
       DEF Leads, Results, Granted, Noted, WasBefore, Holds, Widening, Naming, Undoing
  <2>5. Admits
    BY <1>4, <1>20, <2>2, <2>3, KeysWritten
       DEF Granted, Noted, WasBefore, Holds, Widening, Naming, Undoing, Admits, Answered
  <2> QED BY <2>4, <2>5
<1>21. CASE pc = "provider.undo.untold"
  <2>1. Decides("provider.undo.untold", "provider.undo.models", Failing)
    BY <1>21 DEF HermesProvider, Provide, ProxyJoins, Decides, Writes, Runs, Tries, Reads, Calls
  <2>2. host' = host /\ Leads("provider.undo.models", Failing)
    BY <2>1, DecisionOf
  <2>3. Noted(host, kept) /\ WasBefore
    BY <1>5, <1>21 DEF Noted, WasBefore, KeyFields
  <2>4. Granted'
    BY <1>4, <1>21, <2>2, <2>3, KeysWritten, LocalsOf
       DEF Leads, Results, Granted, Noted, WasBefore, Holds, Widening, Naming, Undoing
  <2>5. Admits
    BY <1>4, <1>21, <2>2, <2>3, KeysWritten
       DEF Granted, Noted, WasBefore, Holds, Widening, Naming, Undoing, Admits, Answered
  <2> QED BY <2>4, <2>5
<1>22. CASE pc = "provider.undo.models"
  <2>1. Writes("provider.undo.models", ModelsBack, {}, "provider.undo.link", "provider.undo.wide")
    BY <1>22 DEF HermesProvider, Provide, ProxyJoins, Decides, Writes, Runs, Tries, Reads, Calls
  <2>2. (host' = ModelsBack /\ Leads("provider.undo.link", kept)) \/ (host' \in {} \cup {host} /\ Leads("provider.undo.wide", kept))
    BY <2>1, WriteOf
  <2>3. Noted(host, kept) /\ WasBefore
    BY <1>5, <1>22 DEF Noted, WasBefore, KeyFields
  <2>4. Granted'
    BY <1>4, <1>22, <2>2, <2>3, KeysWritten, LocalsOf
       DEF Leads, Results, Granted, Noted, WasBefore, Holds, Widening, Naming, Undoing
  <2>5. Admits
    BY <1>4, <1>22, <2>2, <2>3, KeysWritten
       DEF Granted, Noted, WasBefore, Holds, Widening, Naming, Undoing, Admits, Answered
  <2> QED BY <2>4, <2>5
<1>23. CASE pc = "provider.undo.wide"
  <2>1. Decides("provider.undo.wide", "provider.undo.link", Failing)
    BY <1>23 DEF HermesProvider, Provide, ProxyJoins, Decides, Writes, Runs, Tries, Reads, Calls
  <2>2. host' = host /\ Leads("provider.undo.link", Failing)
    BY <2>1, DecisionOf
  <2>3. Noted(host, kept) /\ WasBefore
    BY <1>5, <1>23 DEF Noted, WasBefore, KeyFields
  <2>4. Granted'
    BY <1>4, <1>23, <2>2, <2>3, KeysWritten, LocalsOf
       DEF Leads, Results, Granted, Noted, WasBefore, Holds, Widening, Naming, Undoing
  <2>5. Admits
    BY <1>4, <1>23, <2>2, <2>3, KeysWritten
       DEF Granted, Noted, WasBefore, Holds, Widening, Naming, Undoing, Admits, Answered
  <2> QED BY <2>4, <2>5
<1>24. CASE pc = "provider.undo.link"
  <2>1. \/ Decides("provider.undo.link", "provider.undo.end", kept)
        \/ Runs("provider.undo.link", {[host EXCEPT !.linked = FALSE]}, {}, "provider.undo.end", "provider.undo.joined", "provider.undo.joined")
    BY <1>24 DEF HermesProvider, Provide, ProxyJoins, Decides, Writes, Runs, Tries, Reads, Calls
  <2>2. \/ host' = host /\ Leads("provider.undo.end", kept)
        \/ host' \in {[host EXCEPT !.linked = FALSE], host} /\ ((host' = [host EXCEPT !.linked = FALSE] /\ Leads("provider.undo.end", kept)) \/ Leads("provider.undo.joined", kept) \/ Leads("provider.undo.joined", kept))
    BY <2>1, DecisionOf, RunOf
  <2>3. Noted(host, kept) /\ WasBefore
    BY <1>5, <1>24 DEF Noted, WasBefore, KeyFields
  <2>4. Granted'
    BY <1>4, <1>24, <2>2, <2>3, KeysWritten, LocalsOf
       DEF Leads, Results, Granted, Noted, WasBefore, Holds, Widening, Naming, Undoing
  <2>5. Admits
    BY <1>4, <1>24, <2>2, <2>3, KeysWritten
       DEF Granted, Noted, WasBefore, Holds, Widening, Naming, Undoing, Admits, Answered
  <2> QED BY <2>4, <2>5
<1>25. CASE pc = "provider.undo.joined"
  <2>1. Decides("provider.undo.joined", "provider.undo.end", Failing)
    BY <1>25 DEF HermesProvider, Provide, ProxyJoins, Decides, Writes, Runs, Tries, Reads, Calls
  <2>2. host' = host /\ Leads("provider.undo.end", Failing)
    BY <2>1, DecisionOf
  <2>3. Noted(host, kept) /\ WasBefore
    BY <1>5, <1>25 DEF Noted, WasBefore, KeyFields
  <2>4. Granted'
    BY <1>4, <1>25, <2>2, <2>3, KeysWritten, LocalsOf
       DEF Leads, Results, Granted, Noted, WasBefore, Holds, Widening, Naming, Undoing
  <2>5. Admits
    BY <1>4, <1>25, <2>2, <2>3, KeysWritten
       DEF Granted, Noted, WasBefore, Holds, Widening, Naming, Undoing, Admits, Answered
  <2> QED BY <2>4, <2>5
<1>26. CASE pc = "provider.undo.end"
  <2>1. Decides("provider.undo.end", IF kept.failed THEN "manual" ELSE "rolledback", kept)
    BY <1>26 DEF HermesProvider, Provide, ProxyJoins, Decides, Writes, Runs, Tries, Reads, Calls
  <2>2. host' = host /\ Leads(IF kept.failed THEN "manual" ELSE "rolledback", kept)
    BY <2>1, DecisionOf
  <2>3. Noted(host, kept) /\ WasBefore
    BY <1>5, <1>26 DEF Noted, WasBefore, KeyFields
  <2>4. Granted'
    BY <1>4, <1>26, <2>2, <2>3, KeysWritten, LocalsOf
       DEF Leads, Results, Granted, Noted, WasBefore, Holds, Widening, Naming, Undoing
  <2>5. Admits
    BY <1>4, <1>26, <2>2, <2>3, KeysWritten
       DEF Granted, Noted, WasBefore, Holds, Widening, Naming, Undoing, Admits, Answered
  <2> QED BY <2>4, <2>5
<1>27. pc \in {"set_model_provider", "provider.models", "provider.token", "provider.look",
     "provider.link", "provider.linked", "provider.model", "provider.url", "provider.key",
     "provider.mode", "provider.narrow", "provider.undo", "provider.undo.config",
     "provider.undo.token", "provider.undo.untold", "provider.undo.models", "provider.undo.wide",
     "provider.undo.link", "provider.undo.joined", "provider.undo.end"}
  BY DEF HermesProvider, Provide, ProxyJoins, Decides, Writes, Runs, Tries, Reads, Calls
<1> QED BY <1>7, <1>8, <1>9, <1>10, <1>11, <1>12, <1>13, <1>14, <1>15, <1>16, <1>17, <1>18, <1>19,
     <1>20, <1>21, <1>22, <1>23, <1>24, <1>25, <1>26, <1>27

\* With another function of the adapters' under way, only a restart can be part of a
\* change of the model provider.
LEMMA OthersAdmit ==
  ASSUME KeyInv, product # "openclaw", Kept, pc # "idle", Same(host', KeyFields),
         NEW N, Proceeds(N), N \subseteq {"delete.move", "delete.undo.entry"},
         pc \in Providing \cup Restarting => pc \in Restarting /\ (pc' = "idle" \/ kept'.was = kept.was)
  PROVE  KeyInv' /\ Admits
<1>1. Placed /\ DataInv' /\ UNCHANGED <<product, op, before>>
  BY DEF KeyInv, DataInv, Kept
<1>2. pc' \notin Asked
  <2>1. pc' \notin Inner \ N
    BY <1>1, StaysPlaced DEF Same
  <2> QED BY <2>1 DEF Asked
<1>3. op = "set_model_provider" => pc \in Providing \cup Restarting
  <2>1. Kind(pc) \in {"providing", "restarting"} => pc \in Providing \cup Restarting
    BY DEF Kind
  <2> QED BY <1>1, <2>1 DEF Placed, Suits
<1>4. pc \in Restarting => pc # "set_model_provider"
  BY DEF Restarting
<1> QED BY <1>1, <1>2, <1>3, <1>4, GrantedSame

LEMMA EvoOthersAdmit ==
  ASSUME KeyInv, product = "evoscientist", EvoStep
  PROVE  KeyInv' /\ Admits
<1>1. pc # "idle" /\ Placed /\ Kept /\ Local(kept)
  BY StepsRun, EvoKeeps DEF KeyInv, DataInv, Placed
<1>2. \E N \in {{}, {"delete.move"}, {"delete.undo.entry"}} : Proceeds(N) /\ Same(host', KeyFields)
  <2>1. Untouched(host') => Same(host', KeyFields)
    BY DEF Untouched, Same
  <2>2. CASE \/ RunContainers \/ RemoveContainers \/ ConfigureIngress \/ Start \/ Stop \/ Restart
             \/ CleanupFailed \/ UpdateForward \/ UpdateUndo
    BY <1>1, <2>1, <2>2, RunSteps, RemoveSteps, EvoIngressSteps, EvoStartSteps, EvoStopSteps,
       EvoRestartSteps, EvoCleanupSteps, EvoUpdateSteps, EvoUpdateUndoSteps
  <2>3. CASE Create \/ DeleteForward \/ DeleteUndo \/ RestoreForward \/ RestoreUndo \/ PurgeDeleted
    BY <1>1, <2>3, EvoCreateSteps, EvoDeleteSteps, EvoDeleteUndoSteps, EvoRestoreSteps,
         EvoRestoreUndoSteps,
       EvoPurgeSteps
  <2> QED BY <2>2, <2>3 DEF EvoStep
<1>3. ASSUME pc \in Providing \cup Restarting
      PROVE  pc \in Restarting /\ (pc' = "idle" \/ kept'.was = kept.was)
  <2>1. Restart
    BY <1>3
       DEF Providing, Restarting, Decides, Writes, Runs, Tries, Reads, Calls, Moves,
           EvoStep, RunContainers, RemoveContainers, ConfigureIngress, Start, Stop, Create,
           DeleteForward, DeleteUndo, RestoreForward, RestoreUndo, PurgeDeleted, CleanupFailed,
           UpdateForward, UpdateUndo
  <2>2. pc \in Restarting
    BY <2>1 DEF Restart, Decides, Restarting
  <2>3. \A t, k : To(t, k) => pc' = "idle" \/ kept' = k
    BY DEF To
  <2>4. Popped.was = kept.was /\ Locals([todo |-> Names, done |-> <<>>]).was = kept.was
    BY <1>1 DEF Popped, Locals, Local, LocalNames
  <2> QED BY <2>1, <2>2, <2>3, <2>4 DEF Restart, Decides
<1> QED BY <1>1, <1>2, <1>3, OthersAdmit

LEMMA HermesOthersAdmit ==
  ASSUME KeyInv, product = "hermes", HermesStep
  PROVE  KeyInv' /\ Admits
<1>1. pc # "idle" /\ Placed /\ Kept
  BY StepsRun, HermesKeeps DEF KeyInv, DataInv
<1>2. \E N \in {{}, {"delete.move"}, {"delete.undo.entry"}} : Proceeds(N) /\ Same(host', KeyFields)
  <2>1. Untouched(host') => Same(host', KeyFields)
    BY DEF Untouched, Same
  <2>2. CASE HermesStop \/ HermesStart \/ HermesRestart \/ HermesIngress \/ HermesRuntime \/ HermesUpdate
    BY <1>1, <2>1, <2>2, HermesStopSteps, HermesStartSteps, HermesRestartSteps, HermesIngressSteps,
       HermesRuntimeSteps, HermesUpdateSteps
  <2>3. CASE \/ HermesCreate \/ HermesDelete \/ HermesDeleteUndo \/ HermesRestore \/ HermesRestoreUndo
             \/ HermesPurge
    BY <1>1, <2>3, HermesCreateSteps, HermesDeleteSteps, HermesDeleteUndoSteps, HermesRestoreSteps,
       HermesRestoreUndoSteps, HermesPurgeSteps
  <2> QED BY <2>2, <2>3 DEF HermesStep
<1>3. ASSUME pc \in Providing \cup Restarting
      PROVE  pc \in Restarting /\ (pc' = "idle" \/ kept'.was = kept.was)
  <2>1. HermesRestart
    BY <1>3
       DEF Providing, Restarting, Decides, Writes, Runs, Tries, Reads, Calls, Moves,
            WaitForDashboard,
           HermesStep, HermesStop, HermesStart, HermesIngress, HermesRuntime, HermesCreate,
           HermesDelete, HermesDeleteUndo, HermesRestore, HermesRestoreUndo, HermesPurge, HermesUpdate
  <2>2. pc \in Restarting
    BY <2>1 DEF HermesRestart, WaitForDashboard, Runs, Reads, Restarting
  <2>3. \A t, k : To(t, k) => pc' = "idle" \/ kept' = k
    BY DEF To
  <2> QED BY <2>1, <2>2, <2>3 DEF HermesRestart, WaitForDashboard, Runs, Reads
<1> QED BY <1>1, <1>2, <1>3, OthersAdmit

LEMMA RequestAdmits ==
  ASSUME KeyInv, product # "openclaw",
         EvoBegin \/ HermesBegin \/ (Admitted("set_model_provider") /\ Begin("set_model_provider"))
  PROVE  KeyInv' /\ Admits
<1>1. PICK a \in Requests : Begin(a)
  BY DEF EvoBegin, HermesBegin, Requests
<1>2. DataInv'
  <2>1. CASE EvoBegin \/ HermesBegin
    BY <2>1, BeginsKeep DEF KeyInv, Keeps
  <2>2. CASE Admitted("set_model_provider") /\ Begin("set_model_provider")
    BY <2>2, BeginsKeep DEF KeyInv, Keeps, SettingsBegin
  <2> QED BY <2>1, <2>2
<1>3. pc' = a /\ op' = a /\ UNCHANGED <<product, host>> /\ before' = [host |-> host, faults |-> faults]
  BY <1>1 DEF Begin
<1>4. before'.host = host'
  BY <1>3
<1>5. a \notin Widening' \cup Naming' \cup Undoing
  BY DEF Requests, Widening, Naming, Undoing
<1> QED BY <1>2, <1>3, <1>4, <1>5 DEF KeyInv, Granted, Admits, Undoing

LEMMA KeySteps ==
  ASSUME KeyInv, AdaptersNext
  PROVE  KeyInv' /\ (product # "openclaw" => Admits)
<1>1. DataInv /\ DataInv'
  BY DataSteps DEF KeyInv, Keeps
<1>2. CASE Killed
  BY <1>1, <1>2 DEF Killed, KeyInv, Granted, Admits, Widening, Naming, Undoing
<1>3. CASE product = "openclaw"
  <2>1. UNCHANGED product
    <3>1. CASE ClawNext
      BY <1>1, <3>1, ClawKeeps DEF ClawNext, ClawBegin, Begin, Killed, Kept
    <3>2. CASE SettingsNext
      BY <1>1, <3>2, SettingsKeep DEF SettingsNext, SettingsBegin, Begin, BeginInstall,
           InstallAgain, Kept
    <3> QED BY <1>3, <3>1, <3>2 DEF AdaptersNext, EvoNext, HermesNext
  <2> QED BY <1>1, <1>3, <2>1 DEF KeyInv
<1>4. CASE product # "openclaw" /\ ~Killed
  <2>1. CASE EvoNext
    BY <1>4, <2>1, EvoOthersAdmit, RequestAdmits DEF EvoNext
  <2>2. CASE HermesNext
    BY <1>4, <2>2, HermesOthersAdmit, RequestAdmits DEF HermesNext
  <2>3. CASE SettingsNext
    BY <1>4, <2>3, EvoAdmits, HermesAdmits, RequestAdmits DEF SettingsNext, SettingsBegin,
         SettingsStep
  <2> QED BY <1>4, <2>1, <2>2, <2>3 DEF AdaptersNext, ClawNext
<1> QED BY <1>2, <1>3, <1>4

LEMMA KeyInit ==
  ASSUME AdaptersInit
  PROVE  KeyInv
<1>1. DataInv
  BY DataInit
<1>2. pc = "idle"
  BY DEF AdaptersInit, HostInit
<1> QED BY <1>1, <1>2 DEF KeyInv, Granted, Widening, Naming, Undoing

\* Changing the model of a Hermes or EvoScientist instance (set_model_provider), or failing
\* to, locks no instance out of the model proxy that it was let through by, for any number
\* of faults, unless a part of the roll-back has failed.
THEOREM ProviderStays == AdaptersSpec => ProviderAdmitted
<1>1. ASSUME KeyInv, [AdaptersNext]_lvars
      PROVE  KeyInv'
  <2>1. CASE UNCHANGED lvars
    <3>1. DataInv'
      BY <1>1, <2>1 DEF KeyInv, lvars, DataInv, Placed, Chain, Suits, Kind, Leaves, Local
    <3> QED BY <1>1, <2>1, <3>1 DEF KeyInv, lvars, Granted, Noted, Widening, Naming, Undoing
  <2> QED BY <1>1, <2>1, KeySteps
<1>2. ASSUME KeyInv, [AdaptersNext]_lvars
      PROVE  [(product # "openclaw" /\ Answered(before.host) /\ Answered(host))
                => (Answered(host') \/ kept.failed)]_lvars
  BY <1>2, KeySteps DEF Admits
<1> QED BY <1>1, <1>2, KeyInit, PTL DEF AdaptersSpec, ProviderAdmitted

------------------------------------------------------------------------------
(* How an operation ends *)

\* the instance as the running operation found it
Was   == before.host
Found == [product |-> product, runtime |-> RuntimeOf(Was), husk |-> HuskOf(Was), taken |-> FALSE]

\* h is one of the ends E.
Comes(E, h) == \E e \in E : e.runtime = RuntimeOf(h) /\ e.husk = HuskOf(h)
Retracted   == IF op = "create" THEN Promised!CutEnds([Found EXCEPT !.runtime = "up"], "delete") ELSE {}
EndsWell(h) == Comes(Promised!GoodEnds(Found, op) \cup Promised!SlackEnds(Found, op), h)
EndsBadly(h) == Comes(Promised!BadEnds(Found, op) \cup Retracted, h)

LEMMA EndWith ==
  ASSUME NEW s, NEW a, NEW X, NEW won, NEW x \in X, NEW k \in Promised!HuskAfter(s, a, x, won)
  PROVE  \E e \in Promised!Ends(s, a, X, won) : e.runtime = x /\ e.husk = k
<1>1. [runtime |-> x, husk |-> k] \in [runtime : {x}, husk : Promised!HuskAfter(s, a, x, won)]
  OBVIOUS
<1>2. [runtime |-> x, husk |-> k] \in Promised!Ends(s, a, X, won)
  BY <1>1 DEF Promised!Ends
<1> QED BY <1>2

LEMMA Fairly ==
  ASSUME NEW h
  PROVE  /\ /\ RuntimeOf(h) \in Promised!Succeeds(Found, op)
            /\ HuskOf(h) \in Promised!HuskAfter(Found, op, RuntimeOf(h), TRUE)
            => EndsWell(h)
         /\ /\ RuntimeOf(h) \in Promised!Slackens(Found, op)
            /\ HuskOf(h) \in Promised!HuskAfter(Found, op, RuntimeOf(h), TRUE)
            => EndsWell(h)
         /\ /\ RuntimeOf(h) \in Promised!Fails(Found, op)
            /\ HuskOf(h) \in Promised!HuskAfter(Found, op, RuntimeOf(h), FALSE)
            => EndsBadly(h)
<1>1. ASSUME NEW X, NEW won, RuntimeOf(h) \in X, HuskOf(h) \in Promised!HuskAfter(Found, op, RuntimeOf(h), won)
      PROVE  Comes(Promised!Ends(Found, op, X, won), h)
  BY <1>1, EndWith DEF Comes
<1> QED
  BY <1>1 DEF EndsWell, EndsBadly, Comes, Promised!GoodEnds, Promised!SlackEnds, Promised!BadEnds

LEMMA HermesLooks ==
  ASSUME product = "hermes", ~CleanedUp, NEW h, h.older = {}
  PROVE  /\ RuntimeOf(h) =
              IF h.main = "running" /\ h.home = Parts THEN "up"
              ELSE IF h.main = "stopped" /\ h.home = Parts THEN "stopped"
              ELSE IF h.main = "none" /\ h.home = {} /\ h.bin = Parts /\ h.recycle = "listed"
                   THEN IF h.note.running THEN "archived" ELSE "archived_off"
              ELSE IF h.main = "none" /\ h.home \cup h.bin = {} THEN "none" ELSE "broken"
         /\ HuskOf(h) = (h.recycle # "none" /\ RuntimeOf(h) \notin {"archived", "archived_off"})
         /\ Parts = {"data"}
<1>1. Parts = {"data"}
  BY DEF Parts, PartsOf
<1>2. Needed = {"main"}
  BY DEF Needed
<1>3. Buried(h) = {}
  BY DEF Buried
<1>4. RuntimeOf(h) =
              IF h.main = "running" /\ h.home = Parts THEN "up"
              ELSE IF h.main = "stopped" /\ h.home = Parts THEN "stopped"
              ELSE IF h.main = "none" /\ h.home = {} /\ h.bin = Parts /\ h.recycle = "listed"
                   THEN IF h.note.running THEN "archived" ELSE "archived_off"
              ELSE IF h.main = "none" /\ h.home \cup h.bin = {} THEN "none" ELSE "broken"
  BY <1>1, <1>2, <1>3 DEF RuntimeOf, AllOff
<1> QED BY <1>1, <1>4 DEF HuskOf

LEMMA EvoLooks ==
  ASSUME product = "evoscientist", ~CleanedUp, NEW h, h.older = {}
  PROVE  /\ RuntimeOf(h) =
              IF h.main = "running" /\ h.proxy = "running" /\ h.home = Parts THEN "up"
              ELSE IF h.main = "stopped" /\ h.proxy = "stopped" /\ h.home = Parts THEN "stopped"
              ELSE IF h.main = "none" /\ h.proxy = "none" /\ h.home = {} /\ h.bin = Parts /\ h.recycle = "listed"
                   THEN IF h.note.running THEN "archived" ELSE "archived_off"
              ELSE IF h.main = "none" /\ h.proxy = "none" /\ h.home \cup h.bin = {} THEN "none" ELSE "broken"
         /\ HuskOf(h) = (h.recycle # "none" /\ RuntimeOf(h) \notin {"archived", "archived_off"})
         /\ Parts # {}
<1>1. "tcp_proxy.py" \in Parts
  BY DEF Parts, PartsOf
<1>2. Needed = {"main", "proxy"}
  BY DEF Needed, Both
<1>3. Buried(h) = {}
  BY DEF Buried
<1>4. RuntimeOf(h) =
              IF h.main = "running" /\ h.proxy = "running" /\ h.home = Parts THEN "up"
              ELSE IF h.main = "stopped" /\ h.proxy = "stopped" /\ h.home = Parts THEN "stopped"
              ELSE IF h.main = "none" /\ h.proxy = "none" /\ h.home = {} /\ h.bin = Parts /\ h.recycle = "listed"
                   THEN IF h.note.running THEN "archived" ELSE "archived_off"
              ELSE IF h.main = "none" /\ h.proxy = "none" /\ h.home \cup h.bin = {} THEN "none" ELSE "broken"
  BY <1>1, <1>2, <1>3 DEF RuntimeOf, AllOff
<1> QED BY <1>1, <1>4 DEF HuskOf

LEMMA ClawLooks ==
  ASSUME product = "openclaw", ~CleanedUp, NEW h, h.recycle # "listed"
  PROVE  /\ RuntimeOf(h) =
              IF h.main = "running" /\ h.home = Parts THEN "up"
              ELSE IF h.main = "stopped" /\ h.home = Parts THEN "stopped"
              ELSE IF h.main = "none" /\ h.home = {} /\ h.bin = Parts THEN "archived"
              ELSE IF h.main = "none" /\ h.home = {} /\ "data" \in h.older THEN "buried"
              ELSE IF h.main = "none" /\ h.home \cup h.bin = {} THEN "none" ELSE "broken"
         /\ HuskOf(h) = ((h.recycle # "none" /\ h.bin = {}) \/ "empty" \in h.older)
         /\ Parts = {"user"}
<1>1. Parts = {"user"}
  BY DEF Parts, PartsOf
<1>2. Needed = {"main"}
  BY DEF Needed
<1>3. Buried(h) = Parts <=> "data" \in h.older
  BY <1>1 DEF Buried
<1>4. RuntimeOf(h) =
              IF h.main = "running" /\ h.home = Parts THEN "up"
              ELSE IF h.main = "stopped" /\ h.home = Parts THEN "stopped"
              ELSE IF h.main = "none" /\ h.home = {} /\ h.bin = Parts THEN "archived"
              ELSE IF h.main = "none" /\ h.home = {} /\ "data" \in h.older THEN "buried"
              ELSE IF h.main = "none" /\ h.home \cup h.bin = {} THEN "none" ELSE "broken"
  BY <1>1, <1>2, <1>3 DEF RuntimeOf, AllOff
<1> QED BY <1>1, <1>4 DEF HuskOf

------------------------------------------------------------------------------
\* What an operation on what serves, or could serve, must not touch: the data, and what
\* there is no data for.
DataAs(h) ==
  /\ h.home = Was.home /\ h.bin = Was.bin /\ h.older = Was.older
  /\ h.recycle = Was.recycle /\ h.note = Was.note
CoreAs(h) == DataAs(h) /\ h.main = Was.main /\ h.proxy = Was.proxy

LEMMA SameCore ==
  ASSUME NEW h, NEW g, h.home = g.home, h.bin = g.bin, h.older = g.older, h.recycle = g.recycle, h.note = g.note,
         h.main = g.main, h.proxy = g.proxy
  PROVE  RuntimeOf(h) = RuntimeOf(g) /\ HuskOf(h) = HuskOf(g)
<1>1. Needed \subseteq {"main", "proxy"}
  BY DEF Needed, Both
<1>2. \A c \in Needed : h[c] = g[c]
  BY <1>1
<1>3. RuntimeOf(h) = RuntimeOf(g)
  BY <1>2 DEF RuntimeOf, AllOff, Buried
<1> QED BY <1>3 DEF HuskOf

\* what every failure may leave
LEMMA Unchanged ==
  ASSUME NEW h, CoreAs(h), ~CleanedUp,
         product = "openclaw" /\ op = "delete" => RuntimeOf(Was) \notin {"none", "buried"} \/ HuskOf(Was)
  PROVE  EndsBadly(h)
<1> USE DEF Found
<1>1. RuntimeOf(h) = RuntimeOf(Was) /\ HuskOf(h) = HuskOf(Was)
  BY SameCore DEF CoreAs, DataAs
<1>2. RuntimeOf(h) \in Promised!Fails(Found, op)
  BY <1>1 DEF Promised!Fails
<1>3. /\ HuskOf(Was) \in BOOLEAN
      /\ product # "openclaw" /\ RuntimeOf(Was) \in {"archived", "archived_off"} => ~HuskOf(Was)
  BY DEF HuskOf
<1>4. HuskOf(Was) \in Promised!HuskAfter(Found, op, RuntimeOf(Was), FALSE)
  BY <1>3 DEF Promised!HuskAfter, Promised!Script, Promised!Deployed, Promised!Archived, Promised!Remains
<1> QED BY <1>1, <1>2, <1>4, Fairly

\* The data stay, and what there is no data for stays away.
Serves(h) == DataAs(h) /\ (h.home = Parts \/ (h.main = Was.main /\ h.proxy = Was.proxy))

\* the operations whose failures may leave some of the containers done
LEMMA HalfServed ==
  ASSUME NEW h, DataAs(h), h.home = Parts, ~CleanedUp, h.older = {}, product \in {"hermes", "evoscientist"},
         op \in {"start", "stop", "restart", "update_version"}
  PROVE  /\ EndsBadly(h)
         /\ RuntimeOf(h) \in {"up", "stopped", "broken"} /\ RuntimeOf(Was) \in {"up", "stopped", "broken"}
         /\ HuskOf(h) \in Promised!HuskAfter(Found, op, RuntimeOf(h), TRUE)
<1> USE DEF Found
<1>1. RuntimeOf(h) \in {"up", "stopped", "broken"} /\ RuntimeOf(Was) \in {"up", "stopped", "broken"}
  <2>1. CASE product = "hermes"
    BY <2>1, HermesLooks DEF DataAs
  <2>2. CASE product = "evoscientist"
    BY <2>2, EvoLooks DEF DataAs
  <2> QED BY <2>1, <2>2
<1>2. HuskOf(h) = HuskOf(Was)
  BY <1>1 DEF HuskOf, DataAs
<1>3. RuntimeOf(h) \in Promised!Fails(Found, op)
  BY <1>1 DEF Promised!Fails, Promised!OthersFail, Promised!Deployed
<1>4. \A won : HuskOf(h) \in Promised!HuskAfter(Found, op, RuntimeOf(h), won)
  BY <1>2 DEF Promised!HuskAfter
<1> QED BY <1>1, <1>3, <1>4, Fairly

------------------------------------------------------------------------------
(* The callers, one by one *)

Caller(a, b, c) == [ok |-> a, fail |-> b, raise |-> c]

Ended(r) ==
  /\ pc' = "idle" /\ stack' = <<>> /\ kept' = NoLocals
  /\ outcome' = r /\ row' = RowAfter(r)
  /\ UNCHANGED <<product, menu, op, before>>
Went(p, s, k) ==
  /\ pc' = p /\ stack' = s /\ kept' = k
  /\ UNCHANGED <<product, menu, op, before, outcome, row>>

\* the answer that a caller gets of a result
Answer(c, t) == c[IF t \in {"ok", "raise"} THEN t ELSE "fail"]

LEMMA LandOn ==
  ASSUME NEW t \in Results, NEW s, s # <<>>
  PROVE  Land(<<t, s>>) = <<Answer(Head(s), t), Tail(s)>>
BY Pair, Zenon DEF Land, Answer

LEMMA LandsOff ==
  /\ \A t, s : t \notin Results => Land(<<t, s>>) = <<t, s>>
  /\ \A t : Land(<<t, <<>>>>) = <<t, <<>>>>
BY Pair, Zenon DEF Land

LEMMA LandOnOne ==
  ASSUME NEW t \in Results, NEW c
  PROVE  Land(<<t, <<c>>>>) = <<Answer(c, t), <<>>>>
<1> DEFINE s == <<c>>
<1>1. s # <<>> /\ Head(s) = c /\ Tail(s) = <<>>
  OBVIOUS
<1> HIDE DEF s
<1>2. Land(<<t, s>>) = <<Answer(Head(s), t), Tail(s)>>
  BY <1>1, LandOn, Zenon
<1>3. Land(<<t, s>>) = <<Answer(c, t), <<>>>>
  BY <1>1, <1>2, Zenon
<1> QED BY <1>3 DEF s

LEMMA LandOnTwo ==
  ASSUME NEW t \in Results, NEW c, NEW d
  PROVE  Land(<<t, <<c, d>>>>) = <<Answer(c, t), <<d>>>>
<1> DEFINE s == <<c, d>>
<1>1. s # <<>> /\ Head(s) = c /\ Tail(s) = <<d>>
  OBVIOUS
<1> HIDE DEF s
<1>2. Land(<<t, s>>) = <<Answer(Head(s), t), Tail(s)>>
  BY <1>1, LandOn, Zenon
<1>3. Land(<<t, s>>) = <<Answer(c, t), <<d>>>>
  BY <1>1, <1>2, Zenon
<1> QED BY <1>3 DEF s

LEMMA LandOnThree ==
  ASSUME NEW t \in Results, NEW c, NEW d, NEW e
  PROVE  Land(<<t, <<c, d, e>>>>) = <<Answer(c, t), <<d, e>>>>
<1> DEFINE s == <<c, d, e>>
<1>1. s # <<>> /\ Head(s) = c /\ Tail(s) = <<d, e>>
  OBVIOUS
<1> HIDE DEF s
<1>2. Land(<<t, s>>) = <<Answer(Head(s), t), Tail(s)>>
  BY <1>1, LandOn, Zenon
<1>3. Land(<<t, s>>) = <<Answer(c, t), <<d, e>>>>
  BY <1>1, <1>2, Zenon
<1> QED BY <1>3 DEF s

LEMMA ThreeLands ==
  ASSUME NEW t, NEW a, NEW b, NEW c, Land(<<t, stack>>) = a, Land(a) = b, Land(b) = c
  PROVE  Landing(t) = c
BY Zenon DEF Landing

LEMMA Arrives ==
  ASSUME NEW t, NEW k, To(t, k), NEW x, NEW s, Landing(t) = <<x, s>>
  PROVE  IF x \in Results THEN s = <<>> => Ended(x) ELSE Went(x, s, k)
<1>1. Landing(t)[1] = x /\ Landing(t)[2] = s
  BY Pair
<1> QED BY <1>1 DEF To, Ended, Went

LEMMA Within ==
  ASSUME NEW t, NEW k, To(t, k), t \notin Results
  PROVE  Went(t, stack, k)
<1>1. Land(<<t, stack>>) = <<t, stack>>
  BY LandsOff, Zenon
<1>2. Landing(t) = <<t, stack>>
  BY <1>1, ThreeLands, Zenon
<1> QED BY <1>2, Arrives, Zenon

LEMMA NoCaller ==
  ASSUME NEW t, NEW k, To(t, k), stack = <<>>, t \in Results
  PROVE  Ended(t)
<1>1. Land(<<t, stack>>) = <<t, <<>>>> /\ Land(<<t, <<>>>>) = <<t, <<>>>>
  BY LandsOff, Zenon
<1>2. Landing(t) = <<t, <<>>>>
  BY <1>1, ThreeLands, Zenon
<1> QED BY <1>2, Arrives, Zenon

LEMMA OneCaller ==
  ASSUME NEW t \in Results, NEW k, To(t, k), NEW c, stack = <<c>>
  PROVE  IF Answer(c, t) \in Results THEN Ended(Answer(c, t)) ELSE Went(Answer(c, t), <<>>, k)
<1> DEFINE x == Answer(c, t)
<1>1. Land(<<t, stack>>) = <<x, <<>>>>
  BY LandOnOne
<1>2. Land(<<x, <<>>>>) = <<x, <<>>>>
  BY LandsOff, Zenon
<1>3. Landing(t) = <<x, <<>>>>
  BY <1>1, <1>2, ThreeLands, Zenon
<1> QED BY <1>3, Arrives, Zenon

LEMMA TwoCallers ==
  ASSUME NEW t \in Results, NEW k, To(t, k), NEW c, NEW d, stack = <<c, d>>
  PROVE  IF Answer(c, t) \notin Results THEN Went(Answer(c, t), <<d>>, k)
         ELSE IF Answer(d, Answer(c, t)) \in Results THEN Ended(Answer(d, Answer(c, t)))
         ELSE Went(Answer(d, Answer(c, t)), <<>>, k)
<1> DEFINE x == Answer(c, t)
           y == Answer(d, x)
<1>1. Land(<<t, stack>>) = <<x, <<d>>>>
  BY LandOnTwo
<1>2. CASE x \notin Results
  <2>1. Land(<<x, <<d>>>>) = <<x, <<d>>>>
    BY <1>2, LandsOff, Zenon
  <2>2. Landing(t) = <<x, <<d>>>>
    BY <1>1, <2>1, ThreeLands, Zenon
  <2> QED BY <1>2, <2>2, Arrives, Zenon
<1>3. CASE x \in Results
  <2>1. Land(<<x, <<d>>>>) = <<y, <<>>>>
    BY <1>3, LandOnOne
  <2>2. Land(<<y, <<>>>>) = <<y, <<>>>>
    BY LandsOff, Zenon
  <2>3. Landing(t) = <<y, <<>>>>
    BY <1>1, <2>1, <2>2, ThreeLands, Zenon
  <2> QED BY <1>3, <2>3, Arrives, Zenon
<1> QED BY <1>2, <1>3

LEMMA ThreeCallers ==
  ASSUME NEW t \in Results, NEW k, To(t, k), NEW c, NEW d, NEW e, stack = <<c, d, e>>
  PROVE  IF Answer(c, t) \notin Results THEN Went(Answer(c, t), <<d, e>>, k)
         ELSE IF Answer(d, Answer(c, t)) \notin Results THEN Went(Answer(d, Answer(c, t)), <<e>>, k)
         ELSE IF Answer(e, Answer(d, Answer(c, t))) \in Results THEN Ended(Answer(e, Answer(d, Answer(c, t))))
         ELSE Went(Answer(e, Answer(d, Answer(c, t))), <<>>, k)
<1> DEFINE x == Answer(c, t)
           y == Answer(d, x)
           z == Answer(e, y)
<1>1. Land(<<t, stack>>) = <<x, <<d, e>>>>
  BY LandOnThree
<1>2. CASE x \notin Results
  <2>1. Land(<<x, <<d, e>>>>) = <<x, <<d, e>>>>
    BY <1>2, LandsOff, Zenon
  <2>2. Landing(t) = <<x, <<d, e>>>>
    BY <1>1, <2>1, ThreeLands, Zenon
  <2> QED BY <1>2, <2>2, Arrives, Zenon
<1>3. CASE x \in Results /\ y \notin Results
  <2>1. Land(<<x, <<d, e>>>>) = <<y, <<e>>>>
    BY <1>3, LandOnTwo
  <2>2. Land(<<y, <<e>>>>) = <<y, <<e>>>>
    BY <1>3, LandsOff, Zenon
  <2>3. Landing(t) = <<y, <<e>>>>
    BY <1>1, <2>1, <2>2, ThreeLands, Zenon
  <2> QED BY <1>3, <2>3, Arrives, Zenon
<1>4. CASE x \in Results /\ y \in Results
  <2>1. Land(<<x, <<d, e>>>>) = <<y, <<e>>>>
    BY <1>4, LandOnTwo
  <2>2. Land(<<y, <<e>>>>) = <<z, <<>>>>
    BY <1>4, LandOnOne
  <2>3. Landing(t) = <<z, <<>>>>
    BY <1>1, <2>1, <2>2, ThreeLands, Zenon
  <2> QED BY <1>4, <2>3, Arrives, Zenon
<1> QED BY <1>2, <1>3, <1>4

LEMMA CallsFrom ==
  ASSUME NEW at, NEW f, NEW k, NEW a, NEW b, NEW c, Calls(at, f, k, a, b, c)
  PROVE  /\ pc = at /\ host' = host
         /\ stack = <<>> => Went(f, <<Caller(a, b, c)>>, k)
         /\ \A d : stack = <<d>> => Went(f, <<Caller(a, b, c), d>>, k)
         /\ \A d, e : stack = <<d, e>> => Went(f, <<Caller(a, b, c), d, e>>, k)
<1> DEFINE x == Caller(a, b, c)
<1> HIDE DEF x
<1>1. <<x>> \o <<>> = <<x>>
  OBVIOUS
<1>2. ASSUME NEW d PROVE <<x>> \o <<d>> = <<x, d>>
  <2>1. <<x>> \in Seq({x, d}) /\ <<d>> \in Seq({x, d}) /\ <<x, d>> \in Seq({x, d})
    OBVIOUS
  <2>2. /\ <<x>> \o <<d>> \in Seq({x, d}) /\ Len(<<x>> \o <<d>>) = 2
        /\ (<<x>> \o <<d>>)[1] = x /\ (<<x>> \o <<d>>)[2] = d
    BY <2>1
  <2>3. \A s \in Seq({x, d}) : Len(s) = 2 /\ s[1] = x /\ s[2] = d => s = <<x, d>>
    BY <2>1
  <2> QED BY <2>2, <2>3
<1>3. ASSUME NEW d, NEW e PROVE <<x>> \o <<d, e>> = <<x, d, e>>
  <2>1. <<x>> \in Seq({x, d, e}) /\ <<d, e>> \in Seq({x, d, e}) /\ <<x, d, e>> \in Seq({x, d, e})
    OBVIOUS
  <2>2. /\ <<x>> \o <<d, e>> \in Seq({x, d, e}) /\ Len(<<x>> \o <<d, e>>) = 3
        /\ (<<x>> \o <<d, e>>)[1] = x /\ (<<x>> \o <<d, e>>)[2] = d /\ (<<x>> \o <<d, e>>)[3] = e
    BY <2>1
  <2>3. \A s \in Seq({x, d, e}) : Len(s) = 3 /\ s[1] = x /\ s[2] = d /\ s[3] = e => s = <<x, d, e>>
    BY <2>1
  <2> QED BY <2>2, <2>3
<1>4. pc = at /\ host' = host /\ Went(f, <<x>> \o stack, k)
  BY DEF Calls, Went, Caller, x
<1>5. stack = <<>> => Went(f, <<x>>, k)
  BY <1>1, <1>4, Zenon
<1>6. \A d : stack = <<d>> => Went(f, <<x, d>>, k)
  BY <1>2, <1>4, Zenon
<1>7. \A d, e : stack = <<d, e>> => Went(f, <<x, d, e>>, k)
  BY <1>3, <1>4, Zenon
<1> QED BY <1>4, <1>5, <1>6, <1>7, Zenon DEF x

LEMMA Answers ==
  ASSUME NEW a, NEW b, NEW c
  PROVE  /\ Answer(Caller(a, b, c), "ok") = a
         /\ Answer(Caller(a, b, c), "raise") = c
         /\ \A t \in {"fail", "rolledback", "manual"} : Answer(Caller(a, b, c), t) = b
BY DEF Answer, Caller

\* a creation that cannot be published is taken back
Retracting == Caller("rolledback", "manual", "raise")
Final(t)   == IF op = "create" THEN Answer(Retracting, t) ELSE t

\* the callers above a deletion: none, or the creation; and those of what it calls
Above      == IF op = "create" THEN <<Retracting>> ELSE <<>>
Over(c)    == IF op = "create" THEN <<c, Retracting>> ELSE <<c>>
Over2(c, d) == IF op = "create" THEN <<c, d, Retracting>> ELSE <<c, d>>

LEMMA Finals ==
  /\ Final("ok") \in {"ok", "rolledback"} /\ (op # "create" => Final("ok") = "ok")
  /\ \A t \in Results \ {"ok"} : Final(t) \in Results \ {"ok"}
  /\ op = "create" => Final("ok") # "ok"
BY Answers DEF Final, Retracting, Results

LEMMA AboveOnly ==
  ASSUME stack = Above
  PROVE  \A t, k : To(t, k) => IF t \in Results THEN Ended(Final(t)) ELSE Went(t, Above, k)
<1>1. ASSUME NEW t \in Results, NEW k, To(t, k)
      PROVE  Ended(Final(t))
  <2>1. CASE op = "create"
    <3>1. stack = <<Retracting>> /\ Answer(Retracting, t) \in Results
      BY <2>1, Finals DEF Above, Final, Results
    <3> QED BY <1>1, <2>1, <3>1, OneCaller, Zenon DEF Final
  <2>2. CASE op # "create"
    BY <1>1, <2>2, NoCaller, Zenon DEF Final, Above
  <2> QED BY <2>1, <2>2
<1> QED BY <1>1, Within, Zenon

LEMMA OverOne ==
  ASSUME NEW c, stack = Over(c)
  PROVE  \A t, k : To(t, k) =>
           IF t \notin Results THEN Went(t, Over(c), k)
           ELSE IF Answer(c, t) \in Results THEN Ended(Final(Answer(c, t))) ELSE Went(Answer(c, t), Above, k)
<1>1. ASSUME NEW t \in Results, NEW k, To(t, k)
      PROVE  IF Answer(c, t) \in Results THEN Ended(Final(Answer(c, t))) ELSE Went(Answer(c, t), Above, k)
  <2>1. CASE op = "create"
    <3>1. stack = <<c, Retracting>> /\ Above = <<Retracting>>
      BY <2>1 DEF Over, Above
    <3>2. \A u \in Results : Answer(Retracting, u) \in Results /\ Final(u) = Answer(Retracting, u)
      BY <2>1, Finals DEF Final, Results
    <3>3. IF Answer(c, t) \notin Results THEN Went(Answer(c, t), <<Retracting>>, k)
          ELSE IF Answer(Retracting, Answer(c, t)) \in Results THEN Ended(Answer(Retracting, Answer(c, t)))
          ELSE Went(Answer(Retracting, Answer(c, t)), <<>>, k)
      BY <1>1, <3>1, TwoCallers
    <3> QED BY <3>1, <3>2, <3>3
  <2>2. CASE op # "create"
    <3>1. stack = <<c>> /\ Above = <<>> /\ Final(Answer(c, t)) = Answer(c, t)
      BY <2>2 DEF Over, Above, Final
    <3> QED BY <1>1, <3>1, OneCaller, Zenon
  <2> QED BY <2>1, <2>2
<1> QED BY <1>1, Within, Zenon

LEMMA OverTwo ==
  ASSUME NEW c, NEW d, stack = Over2(c, d)
  PROVE  \A t, k : To(t, k) =>
           IF t \notin Results THEN Went(t, Over2(c, d), k)
           ELSE IF Answer(c, t) \notin Results THEN Went(Answer(c, t), Over(d), k)
           ELSE IF Answer(d, Answer(c, t)) \in Results THEN Ended(Final(Answer(d, Answer(c, t))))
           ELSE Went(Answer(d, Answer(c, t)), Above, k)
<1>1. ASSUME NEW t \in Results, NEW k, To(t, k)
      PROVE  IF Answer(c, t) \notin Results THEN Went(Answer(c, t), Over(d), k)
             ELSE IF Answer(d, Answer(c, t)) \in Results THEN Ended(Final(Answer(d, Answer(c, t))))
             ELSE Went(Answer(d, Answer(c, t)), Above, k)
  <2>1. CASE op = "create"
    <3>1. stack = <<c, d, Retracting>> /\ Over(d) = <<d, Retracting>> /\ Above = <<Retracting>>
      BY <2>1 DEF Over, Over2, Above
    <3>2. \A u \in Results : Answer(Retracting, u) \in Results /\ Final(u) = Answer(Retracting, u)
      BY <2>1, Finals DEF Final, Results
    <3>3. IF Answer(c, t) \notin Results THEN Went(Answer(c, t), <<d, Retracting>>, k)
          ELSE IF Answer(d, Answer(c, t)) \notin Results THEN Went(Answer(d, Answer(c, t)), <<Retracting>>, k)
          ELSE IF Answer(Retracting, Answer(d, Answer(c, t))) \in Results
               THEN Ended(Answer(Retracting, Answer(d, Answer(c, t))))
          ELSE Went(Answer(Retracting, Answer(d, Answer(c, t))), <<>>, k)
      BY <1>1, <3>1, ThreeCallers
    <3> QED BY <3>1, <3>2, <3>3
  <2>2. CASE op # "create"
    <3>1. stack = <<c, d>> /\ Over(d) = <<d>> /\ Above = <<>> /\ \A u : Final(u) = u
      BY <2>2 DEF Over, Over2, Above, Final
    <3>2. IF Answer(c, t) \notin Results THEN Went(Answer(c, t), <<d>>, k)
          ELSE IF Answer(d, Answer(c, t)) \in Results THEN Ended(Answer(d, Answer(c, t)))
          ELSE Went(Answer(d, Answer(c, t)), <<>>, k)
      BY <1>1, <3>1, TwoCallers
    <3> QED BY <3>1, <3>2
  <2> QED BY <2>1, <2>2
<1> QED BY <1>1, Within, Zenon

LEMMA CallsAbove ==
  ASSUME NEW at, NEW f, NEW k, NEW a, NEW b, NEW c, Calls(at, f, k, a, b, c)
  PROVE  /\ pc = at /\ host' = host
         /\ stack = Above => Went(f, Over(Caller(a, b, c)), k)
         /\ \A d : stack = Over(d) => Went(f, Over2(Caller(a, b, c), d), k)
<1>1. CASE op = "create"
  BY <1>1, CallsFrom, Zenon DEF Above, Over, Over2
<1>2. CASE op # "create"
  BY <1>2, CallsFrom, Zenon DEF Above, Over, Over2
<1> QED BY <1>1, <1>2

------------------------------------------------------------------------------
(* What the commands do to the host *)

\* all that the promise is about but the containers is as it is
Beside(h) ==
  /\ h.home = host.home /\ h.bin = host.bin /\ h.older = host.older
  /\ h.recycle = host.recycle /\ h.note = host.note
Aside(h) == Beside(h) /\ h.main = host.main /\ h.proxy = host.proxy

LEMMA Effects ==
  ASSUME DOMAIN host = Fields
  PROVE  /\ Aside(host)
         /\ \A h \in Reloaded \cup Applied \cup Unneeded : Aside(h)
         /\ \A x, y : /\ Aside([host EXCEPT !.conf = x]) /\ Aside([host EXCEPT !.mapped = x])
                      /\ Aside([host EXCEPT !.conf = x, !.mapped = y]) /\ Aside([host EXCEPT !.conf = x, !.site = y])
                      /\ Aside([host EXCEPT !.net = x]) /\ Aside([host EXCEPT !.linked = x])
                      /\ Aside([host EXCEPT !.file = x])
<1> USE DEF Aside, Beside, Fields
<1>1. ASSUME NEW h \in Reloaded \cup Unneeded
      PROVE  Aside(h)
  BY <1>1 DEF Reloaded, Loaded, Unneeded
<1>2. ASSUME NEW h \in Applied
      PROVE  Aside(h)
  <2> DEFINE g == [host EXCEPT !.linked = @ \/ (host.main = "running" /\ host.net)]
  <2>1. Aside(g) /\ DOMAIN g = Fields
    OBVIOUS
  <2>2. Applied = {g, [g EXCEPT !.served = "active" \in g.conf, !.asked = g.auth]}
    BY DEF Applied, Loaded
  <2> HIDE DEF g
  <2>3. Aside([g EXCEPT !.served = "active" \in g.conf, !.asked = g.auth])
    BY <2>1
  <2> QED BY <1>2, <2>1, <2>2, <2>3
<1> QED BY <1>1, <1>2

LEMMA MainEffects ==
  ASSUME DOMAIN host = Fields
  PROVE  /\ \A h \in Started("main") : Beside(h) /\ h.proxy = host.proxy /\ host.main # "none" /\ h.main = "running"
         /\ \A h \in Stopped("main") : Beside(h) /\ h.proxy = host.proxy /\ host.main # "none" /\ h.main = "stopped"
         /\ Stopped("main") = {} => host.main = "none"
         /\ \A h \in Removed({"main"}) : Beside(h) /\ h.proxy = host.proxy /\ h.main = "none"
         /\ \A i : \A h \in RanMain(i) : Beside(h) /\ h.proxy = host.proxy /\ host.main = "none" /\ h.main = "running"
         /\ \A i : \A h \in CreatedMain(i) : Beside(h) /\ h.proxy = host.proxy /\ host.main = "none" /\ h.main = "stopped"
<1> USE DEF Beside, Fields, Joins
<1>1. \A h \in Started("main") : Beside(h) /\ h.proxy = host.proxy /\ host.main # "none" /\ h.main = "running"
  BY DEF Started
<1>2. /\ \A h \in Stopped("main") : Beside(h) /\ h.proxy = host.proxy /\ host.main # "none" /\ h.main = "stopped"
      /\ Stopped("main") = {} => host.main = "none"
  BY DEF Stopped
<1>3. \A h \in Removed({"main"}) : Beside(h) /\ h.proxy = host.proxy /\ h.main = "none"
  BY DEF Removed
<1>4. ASSUME NEW i, NEW h \in RanMain(i)
      PROVE  Beside(h) /\ h.proxy = host.proxy /\ host.main = "none" /\ h.main = "running"
  BY <1>4 DEF RanMain, Ran
<1>5. ASSUME NEW i, NEW h \in CreatedMain(i)
      PROVE  Beside(h) /\ h.proxy = host.proxy /\ host.main = "none" /\ h.main = "stopped"
  BY <1>5 DEF CreatedMain, Created
<1> QED BY <1>1, <1>2, <1>3, <1>4, <1>5

\* The running operation goes on, or its last function has come to a result, and Q
\* holds if that is a success.
Onward    == UNCHANGED <<product, menu, op, before, outcome, row>> /\ pc' # "idle"
Closes(Q) == \E r \in Results : Ended(r) /\ (r = "ok" => Q)

LEMMA Alone ==
  ASSUME stack = <<>>
  PROVE  \A t, k : To(t, k) => IF t \in Results THEN Ended(t) ELSE Went(t, <<>>, k)
BY NoCaller, Within, Zenon

------------------------------------------------------------------------------
(* Hermes: what a running operation may have made of the instance, at any moment, *)
(* and when it has succeeded *)

HermesServes(h) ==
  /\ DataAs(h) /\ h.proxy = Was.proxy /\ h.main \in Container
  /\ h.home = Parts \/ (h.main = "none" /\ Was.main = "none")

\* what is deleted did run
WasOn == IF op = "create" THEN TRUE ELSE Was.main = "running"

HermesDeletes(h) ==
  /\ h.older = {} /\ h.main \in Container
  /\ op = "delete" => Was.home = Parts /\ Was.bin = {} /\ Was.recycle = "none"
  /\ \/ h.home = Parts /\ h.bin = {}
     \/ h.home = {} /\ h.bin = Parts /\ h.main = "none"
  /\ h.recycle = "listed" => h.note.running = WasOn

HermesCreates(h) == h.older = {} /\ h.main \in Container /\ h.home \in {{}, Parts} /\ h.bin = {} /\ h.recycle = "none"

HermesRestores(h) ==
  /\ h.older = {} /\ h.main \in Container
  /\ Was.home = {} /\ Was.bin = Parts /\ Was.recycle = "listed"
  /\ (h.home = Parts /\ h.bin = {}) \/ (h.home = {} /\ h.bin = Parts)
  /\ h.recycle = "listed" => h.note = Was.note

\* the entry has gone, or is empty
HermesPurges(h) ==
  /\ h.older = {}
  /\ Was.recycle # "none"
  /\ h.home = Was.home /\ h.main = Was.main /\ h.proxy = Was.proxy /\ h.bin = {}
  /\ h.recycle \in {"none", "dir"}

HermesLeaves(h) ==
  CASE op \in {"start", "stop", "restart", "update_version"} -> HermesServes(h)
    [] op \in {"refresh_ingress", "set_model_provider"}      -> CoreAs(h)
    [] op = "delete"        -> CoreAs(h) \/ HermesDeletes(h)
    [] op = "create"        -> HermesCreates(h) \/ HermesDeletes(h)
    [] op = "restore"       -> CoreAs(h) \/ HermesRestores(h)
    [] op = "purge_deleted" -> CoreAs(h) \/ (HermesPurges(h) /\ h.recycle = "dir")

HermesDone(h) ==
  CASE op \in {"start", "restart"} -> h.main = "running"
    [] op = "stop"                 -> h.main = "stopped"
    [] op \in {"update_version", "refresh_ingress", "set_model_provider"} ->
         h.main = Was.main /\ h.main \in {"running", "stopped"}
    [] op = "delete"  -> HermesDeletes(h) /\ h.home = {} /\ h.recycle = "listed"
    [] op = "create"  -> HermesCreates(h) /\ h.home = Parts /\ h.main = "running"
    [] op = "restore" -> /\ HermesRestores(h) /\ h.home = Parts /\ h.recycle = "none"
                         /\ h.main = (IF Was.note.running THEN "running" ELSE "stopped")
    [] op = "purge_deleted" -> HermesPurges(h) /\ h.recycle = "none"

HermesRequest == {"create", "delete", "restore", "purge_deleted", "update_version",
                  "start", "stop", "restart", "refresh_ingress", "set_model_provider"}

LEMMA HermesDeleteEnds ==
  ASSUME product = "hermes", ~CleanedUp, NEW h, h.older = {}, HermesDeletes(h),
         NEW s, s.product = "hermes", s.husk = FALSE, s.runtime \in {"up", "stopped", "broken"},
         IF WasOn THEN s.runtime # "stopped" ELSE s.runtime # "up"
  PROVE  /\ \E e \in Promised!BadEnds(s, "delete") : e.runtime = RuntimeOf(h) /\ e.husk = HuskOf(h)
         /\ h.home = {} /\ h.recycle = "listed" =>
              RuntimeOf(h) \in Promised!Succeeds(s, "delete") /\ HuskOf(h) = FALSE
<1> DEFINE x == RuntimeOf(h)
<1>1. /\ h.home = {} /\ h.recycle = "listed" => x = IF WasOn THEN "archived" ELSE "archived_off"
      /\ ~(h.home = {} /\ h.recycle = "listed") => x \in {"up", "stopped", "broken"}
  BY HermesLooks DEF HermesDeletes
<1>2. h.home = {} /\ h.recycle = "listed" => x \in Promised!DeleteEnds(s)
  BY <1>1 DEF Promised!DeleteEnds, Promised!Script, Promised!AdapterDeletes, Promised!Archived
<1>3. x \in Promised!Fails(s, "delete")
  BY <1>1, <1>2 DEF Promised!Fails, Promised!DeleteFails, Promised!Deployed
<1>4. HuskOf(h) \in Promised!HuskAfter(s, "delete", x, FALSE)
  BY DEF HuskOf, Promised!HuskAfter, Promised!Script
<1>5. h.home = {} /\ h.recycle = "listed" => HuskOf(h) = FALSE
  BY <1>1 DEF HuskOf
<1>6. ASSUME NEW X, NEW won, x \in X, HuskOf(h) \in Promised!HuskAfter(s, "delete", x, won)
      PROVE  \E e \in Promised!Ends(s, "delete", X, won) : e.runtime = x /\ e.husk = HuskOf(h)
  BY <1>6, EndWith
<1>7. \E e \in Promised!BadEnds(s, "delete") : e.runtime = x /\ e.husk = HuskOf(h)
  BY <1>3, <1>4, <1>6 DEF Promised!BadEnds
<1> QED BY <1>2, <1>5, <1>7 DEF Promised!Succeeds

LEMMA HermesBad ==
  ASSUME product = "hermes", ~CleanedUp, NEW h, h.older = {}, Was.older = {}, op \in HermesRequest, HermesLeaves(h),
         op = "create" => Was = BareHost
  PROVE  EndsBadly(h)
<1>1. CASE CoreAs(h)
  BY <1>1, Unchanged
<1>2. CASE op \in {"start", "stop", "restart", "update_version"}
  <2>1. HermesServes(h)
    BY <1>2 DEF HermesLeaves
  <2>2. CASE h.home = Parts
    BY <1>2, <2>1, <2>2, HalfServed DEF HermesServes
  <2>3. CASE h.home # Parts
    BY <1>1, <2>1, <2>3 DEF HermesServes, CoreAs
  <2> QED BY <2>2, <2>3
<1>3. CASE op = "delete" /\ HermesDeletes(h)
  <2>1. Was.home = Parts /\ Was.bin = {} /\ Was.recycle = "none"
    BY <1>3 DEF HermesDeletes
  <2>2. Found.product = "hermes" /\ Found.husk = FALSE /\ Found.runtime \in {"up", "stopped", "broken"}
        /\ IF WasOn THEN Found.runtime # "stopped" ELSE Found.runtime # "up"
    BY <1>3, <2>1, HermesLooks DEF Found, WasOn
  <2> QED BY <1>3, <2>2, HermesDeleteEnds DEF EndsBadly, Comes
<1>4. CASE op = "create" /\ HermesDeletes(h)
  <2> DEFINE s == [Found EXCEPT !.runtime = "up"]
  <2>1. HuskOf(Was) = FALSE
    BY <1>4 DEF HuskOf, BareHost
  <2>2. s.product = "hermes" /\ s.husk = FALSE /\ s.runtime = "up" /\ WasOn
    BY <1>4, <2>1 DEF Found, WasOn
  <2>3. \E e \in Promised!BadEnds(s, "delete") : e.runtime = RuntimeOf(h) /\ e.husk = HuskOf(h)
    BY <1>4, <2>2, HermesDeleteEnds
  <2> QED BY <1>4, <2>3 DEF EndsBadly, Comes, Retracted, Promised!CutEnds
<1>5. CASE op = "create" /\ HermesCreates(h)
  <2>1. Found.runtime = "none" /\ Found.husk = FALSE
    <3>1. Was.main = "none" /\ Was.home = {} /\ Was.bin = {} /\ Was.recycle = "none"
      BY <1>5 DEF BareHost
    <3>2. RuntimeOf(Was) = "none" /\ HuskOf(Was) = FALSE
      BY <3>1, HermesLooks
    <3> QED BY <3>2 DEF Found
  <2>2. RuntimeOf(h) \in {"none", "up", "stopped", "broken"} /\ HuskOf(h) = FALSE
    BY <1>5, HermesLooks DEF HermesCreates
  <2>3. RuntimeOf(h) \in Promised!Fails(Found, op)
    BY <1>5, <2>1, <2>2 DEF Promised!Fails, Promised!Deployed
  <2>4. HuskOf(h) \in Promised!HuskAfter(Found, op, RuntimeOf(h), FALSE)
    BY <1>5, <2>1, <2>2 DEF Promised!HuskAfter
  <2> QED BY <2>3, <2>4, Fairly
<1>6. CASE op = "restore" /\ HermesRestores(h)
  <2>1. /\ Found.product = "hermes"
        /\ \/ Found.runtime = (IF Was.note.running THEN "archived" ELSE "archived_off")
           \/ Found.runtime = "broken" /\ Found.husk
    BY <1>6, HermesLooks DEF Found, HermesRestores
  <2>2. \/ RuntimeOf(h) \in {"up", "stopped", "broken"}
        \/ RuntimeOf(h) = (IF Was.note.running THEN "archived" ELSE "archived_off") /\ ~HuskOf(h)
    BY <1>6, HermesLooks DEF HermesRestores
  <2>3. RuntimeOf(h) \in Promised!Fails(Found, op)
    BY <1>6, <2>1, <2>2 DEF Promised!Fails, Promised!RestoreFails, Promised!Deployed, Promised!Archived,
         Promised!Halfway, Promised!Remains, Promised!Script
  <2>4. HuskOf(h) \in Promised!HuskAfter(Found, op, RuntimeOf(h), FALSE)
    BY <1>6, <2>1, <2>2 DEF Promised!HuskAfter, Promised!Script, Promised!Deployed, Promised!Archived, HuskOf
  <2> QED BY <2>3, <2>4, Fairly
<1>7. CASE op = "purge_deleted" /\ HermesPurges(h) /\ h.recycle = "dir"
  <2>1. /\ Found.product = "hermes" /\ HuskOf(h) = TRUE
        /\ \/ Found.runtime \in {"archived", "archived_off"} /\ RuntimeOf(h) = "none"
           \/ Found.runtime = "broken" /\ Found.husk /\ RuntimeOf(h) \in {"broken", "none"}
           \/ Found.runtime \in {"none", "up", "stopped"} /\ Found.husk /\ RuntimeOf(h) = Found.runtime
    BY <1>7, HermesLooks DEF Found, HermesPurges
  <2>2. RuntimeOf(h) \in Promised!Fails(Found, op)
    BY <1>7, <2>1 DEF Promised!Fails, Promised!Archived
  <2>3. HuskOf(h) \in Promised!HuskAfter(Found, op, RuntimeOf(h), FALSE)
    BY <1>7, <2>1 DEF Promised!HuskAfter, Promised!Script, Promised!Remains
  <2> QED BY <2>2, <2>3, Fairly
<1> QED BY <1>1, <1>2, <1>3, <1>4, <1>5, <1>6, <1>7 DEF HermesLeaves, HermesRequest

LEMMA HermesGood ==
  ASSUME product = "hermes", ~CleanedUp, NEW h, h.older = {}, Was.older = {}, op \in HermesRequest,
         HermesLeaves(h) \/ op = "purge_deleted", HermesDone(h),
         op = "create" => Was = BareHost
  PROVE  EndsWell(h)
<1>1. CASE op \in {"start", "stop", "restart", "update_version", "refresh_ingress", "set_model_provider"}
  <2>1. DataAs(h) /\ HermesDone(h) /\ (h.home = Parts \/ h.main = Was.main)
    BY <1>1 DEF HermesLeaves, HermesServes, CoreAs
  <2>2. HuskOf(Was) = HuskOf(h) /\ Found.product = "hermes"
    <3>1. RuntimeOf(h) \in {"archived", "archived_off"} <=> RuntimeOf(Was) \in {"archived", "archived_off"}
      BY <1>1, <2>1, HermesLooks DEF HermesDone, DataAs, HermesServes, CoreAs, HermesLeaves
    <3> QED BY <2>1, <3>1 DEF HuskOf, DataAs, Found
  <2>3. /\ RuntimeOf(Was) \in {"up", "stopped", "broken"}
        /\ op \in {"start", "restart"} => RuntimeOf(h) = "up"
        /\ op = "stop" => RuntimeOf(h) = "stopped"
        /\ op = "update_version" => RuntimeOf(h) \in {"up", "stopped"}
        /\ op = "update_version" => RuntimeOf(Was) \in {RuntimeOf(h), "broken"}
        /\ op \in {"refresh_ingress", "set_model_provider"} => RuntimeOf(h) = RuntimeOf(Was)
    BY <1>1, <2>1, HermesLooks DEF HermesDone, DataAs, HermesServes, CoreAs, HermesLeaves
  <2>4. RuntimeOf(h) \in Promised!Succeeds(Found, op)
    BY <1>1, <2>2, <2>3 DEF Found, Promised!Succeeds, Promised!Serves, Promised!Deployed
  <2>5. HuskOf(h) \in Promised!HuskAfter(Found, op, RuntimeOf(h), TRUE)
    BY <1>1, <2>2 DEF Found, Promised!HuskAfter
  <2> QED BY <2>4, <2>5, Fairly
<1>3. CASE op = "delete"
  <2>1. HermesDeletes(h) /\ h.home = {} /\ h.recycle = "listed"
    BY <1>3 DEF HermesDone
  <2>2. Was.home = Parts /\ Was.bin = {} /\ Was.recycle = "none"
    BY <1>3, <2>1 DEF HermesDeletes
  <2>3. Found.product = "hermes" /\ Found.husk = FALSE /\ Found.runtime \in {"up", "stopped", "broken"}
        /\ IF WasOn THEN Found.runtime # "stopped" ELSE Found.runtime # "up"
    BY <1>3, <2>2, HermesLooks DEF Found, WasOn
  <2>4. RuntimeOf(h) \in Promised!Succeeds(Found, "delete") /\ HuskOf(h) = FALSE
    BY <2>1, <2>3, HermesDeleteEnds
  <2>5. RuntimeOf(h) \in {"archived", "archived_off"}
    BY <2>1, HermesLooks DEF HermesDeletes
  <2>6. HuskOf(h) \in Promised!HuskAfter(Found, op, RuntimeOf(h), TRUE)
    BY <1>3, <2>3, <2>4, <2>5 DEF Promised!HuskAfter, Promised!Script, Promised!Deployed
  <2> QED BY <1>3, <2>4, <2>6, Fairly
<1>4. CASE op = "create"
  <2>1. Found.runtime = "none" /\ Found.husk = FALSE
    <3>1. Was.main = "none" /\ Was.home = {} /\ Was.bin = {} /\ Was.recycle = "none"
      BY <1>4 DEF BareHost
    <3>2. RuntimeOf(Was) = "none" /\ HuskOf(Was) = FALSE
      BY <3>1, HermesLooks
    <3> QED BY <3>2 DEF Found
  <2>2. RuntimeOf(h) = "up" /\ HuskOf(h) = FALSE
    BY <1>4, HermesLooks DEF HermesDone, HermesCreates
  <2>3. RuntimeOf(h) \in Promised!Succeeds(Found, op)
    BY <1>4, <2>1, <2>2 DEF Promised!Succeeds, Promised!CreateEnds
  <2>4. HuskOf(h) \in Promised!HuskAfter(Found, op, RuntimeOf(h), TRUE)
    BY <1>4, <2>1, <2>2 DEF Promised!HuskAfter
  <2> QED BY <2>3, <2>4, Fairly
<1>5. CASE op = "restore"
  <2>1. /\ Found.product = "hermes"
        /\ \/ Found.runtime = (IF Was.note.running THEN "archived" ELSE "archived_off")
           \/ Found.runtime = "broken" /\ Found.husk
    BY <1>5, HermesLooks DEF Found, HermesRestores, HermesDone
  <2>2. RuntimeOf(h) = (IF Was.note.running THEN "up" ELSE "stopped") /\ HuskOf(h) = FALSE
    BY <1>5, HermesLooks DEF HermesRestores, HermesDone
  <2>3. RuntimeOf(h) \in Promised!Succeeds(Found, op)
    BY <1>5, <2>1, <2>2 DEF Promised!Succeeds, Promised!RestoreEnds, Promised!Deployed,
         Promised!Halfway, Promised!Script, Promised!Remains
  <2>4. HuskOf(h) \in Promised!HuskAfter(Found, op, RuntimeOf(h), TRUE)
    BY <1>5, <2>1, <2>2 DEF Promised!HuskAfter, Promised!Script, Promised!Deployed
  <2> QED BY <2>3, <2>4, Fairly
<1>6. CASE op = "purge_deleted"
  <2>1. /\ Found.product = "hermes" /\ HuskOf(h) = FALSE
        /\ \/ Found.runtime \in {"archived", "archived_off"} /\ RuntimeOf(h) = "none" /\ Found.husk = FALSE
           \/ Found.runtime = "broken" /\ Found.husk /\ RuntimeOf(h) \in {"broken", "none"}
           \/ Found.runtime \in {"none", "up", "stopped"} /\ Found.husk /\ RuntimeOf(h) = Found.runtime
    BY <1>6, HermesLooks DEF Found, HermesPurges, HermesDone
  <2>2. RuntimeOf(h) \in Promised!Succeeds(Found, op)
    BY <1>6, <2>1 DEF Promised!Succeeds, Promised!PurgeEnds, Promised!Archived
  <2>3. HuskOf(h) \in Promised!HuskAfter(Found, op, RuntimeOf(h), TRUE)
    BY <1>6, <2>1 DEF Promised!HuskAfter, Promised!Script, Promised!Remains, Promised!Archived
  <2> QED BY <2>2, <2>3, Fairly
<1> QED BY <1>1, <1>3, <1>4, <1>5, <1>6 DEF HermesRequest

------------------------------------------------------------------------------
(* Hermes: where a running operation stands *)

HStop    == {"stop", "stop.main", "stop.reload", "stop.back", "stop.again"}
HIngress == {"ingress", "ingress.write", "ingress.apply", "ingress.reload", "ingress.undo",
             "ingress.undo.apply", "ingress.undo.reload"}
HStart   == {"start", "start.wait", "start.enable", "start.reload", "start.disable", "start.stop"}
HRestart == {"restart", "restart.wait"}
HUpdate  == {"update.look", "update.remove", "update.run", "update.wait", "update.stop",
             "update.undo", "update.undo.run", "update.undo.wait", "update.undo.stop"}

HStarts ==
  /\ pc \in HStart /\ stack = <<>>
  /\ pc \in {"start.enable", "start.reload"} => host.main = "running"
HStops    == pc \in HStop /\ stack = <<>>
HRestarts == pc \in HRestart /\ stack = <<>>

LEMMA HermesStarting ==
  ASSUME DOMAIN host = Fields, HermesServes(host), HStarts, HermesStart
  PROVE  HermesServes(host') /\ ((HStarts' /\ Onward) \/ Closes(host'.main = "running"))
<1> USE DEF Container, HStarts, HermesServes, DataAs, Beside, Aside, HStart, Results, Went, Onward, Closes
<1>1. \A t, k : To(t, k) => IF t \in Results THEN Ended(t) ELSE Went(t, <<>>, k)
  BY Alone
<1>2. CASE Runs("start", Started("main"), {}, "start.wait", "fail", "raise")
  BY <1>1, <1>2, MainEffects, Effects DEF Runs
<1>3. CASE WaitForDashboard("start.wait",
           IF "disabled" \in host.conf THEN "start.enable" ELSE "ok", "start.stop", "raise")
  BY <1>1, <1>3, Effects DEF WaitForDashboard, Reads, AllUp
<1>4. CASE Writes("start.enable", [host EXCEPT !.conf = {"active"}], {}, "start.reload", "raise")
  BY <1>1, <1>4 DEF Writes, Fields
<1>5. CASE Runs("start.reload", Reloaded, {}, "ok", "start.disable", "raise")
  BY <1>1, <1>5, Effects DEF Runs
<1>6. CASE Writes("start.disable", [host EXCEPT !.conf = {"disabled"}], {}, "start.stop", "raise")
  BY <1>1, <1>6 DEF Writes, Fields
<1>7. CASE Tries("start.stop", Stopped("main"), kept, "fail", "raise")
  BY <1>1, <1>7, MainEffects, Effects DEF Tries
<1> QED BY <1>2, <1>3, <1>4, <1>5, <1>6, <1>7 DEF HermesStart

LEMMA HermesRestarting ==
  ASSUME DOMAIN host = Fields, HermesServes(host), HRestarts, HermesRestart
  PROVE  HermesServes(host') /\ ((HRestarts' /\ Onward) \/ Closes(host'.main = "running"))
<1> USE DEF Container, HRestarts, HermesServes, DataAs, Beside, Aside, HRestart, Results, Went, Onward, Closes
<1>1. \A t, k : To(t, k) => IF t \in Results THEN Ended(t) ELSE Went(t, <<>>, k)
  BY Alone
<1>2. CASE Runs("restart", Started("main"), {}, "restart.wait", "fail", "raise")
  BY <1>1, <1>2, MainEffects, Effects DEF Runs
<1>3. CASE WaitForDashboard("restart.wait", "ok", "fail", "raise")
  BY <1>1, <1>3, Effects DEF WaitForDashboard, Reads, AllUp
<1> QED BY <1>2, <1>3 DEF HermesRestart

\* stop, whoever calls it
LEMMA HermesStopping ==
  ASSUME DOMAIN host = Fields, HermesStop
  PROVE  /\ pc \in HStop /\ Beside(host') /\ host'.proxy = host.proxy
         /\ host'.main # host.main => host.main # "none" /\ host'.main = "stopped"
         /\ \E t \in HStop \cup {"ok", "fail", "raise"} : To(t, kept) /\ (t = "ok" => host'.main = "stopped")
<1> USE DEF Beside, Aside, HStop
<1>1. CASE "active" \notin host.conf /\ Decides("stop", "stop.main", kept)
  BY <1>1 DEF Decides
<1>2. CASE "active" \in host.conf /\ Writes("stop", [host EXCEPT !.conf = {"disabled"}], {}, "stop.reload", "raise")
  BY <1>2 DEF Writes, Fields
<1>3. CASE Runs("stop.reload", Reloaded, {}, "stop.main", "stop.back", "raise")
  BY <1>3, Effects DEF Runs
<1>4. CASE Writes("stop.back", [host EXCEPT !.conf = {"active"}], {}, "stop.again", "raise")
  BY <1>4 DEF Writes, Fields
<1>5. CASE Runs("stop.main", Stopped("main"), {}, "ok",
          IF "disabled" \in host.conf THEN "stop.back" ELSE "fail", "raise")
  BY <1>5, MainEffects, Effects DEF Runs
<1>6. CASE Tries("stop.again", Reloaded, kept, "fail", "raise")
  BY <1>6, Effects DEF Tries
<1> QED BY <1>1, <1>2, <1>3, <1>4, <1>5, <1>6 DEF HermesStop

LEMMA HermesStopped ==
  ASSUME DOMAIN host = Fields, HermesServes(host), HStops, HermesStop
  PROVE  HermesServes(host') /\ ((HStops' /\ Onward) \/ Closes(host'.main = "stopped"))
<1>1. \A t, k : To(t, k) => IF t \in Results THEN Ended(t) ELSE Went(t, <<>>, k)
  BY Alone DEF HStops
<1>2. HermesServes(host')
  BY HermesStopping DEF HermesServes, DataAs, Beside, Container
<1>3. PICK t \in HStop \cup {"ok", "fail", "raise"} : To(t, kept) /\ (t = "ok" => host'.main = "stopped")
  BY HermesStopping
<1> QED BY <1>1, <1>2, <1>3 DEF HStops, HStop, Results, Went, Onward, Closes

\* configure_ingress, whoever calls it
LEMMA HermesPublishing ==
  ASSUME DOMAIN host = Fields, Local(kept), HermesIngress, pc # "refresh_ingress"
  PROVE  /\ pc \in HIngress /\ Aside(host')
         /\ \E k : \E t \in HIngress \cup {"ok", "fail", "raise"} :
              /\ To(t, k) /\ k.running = kept.running
              /\ t = "ok" => pc # "ingress"
              /\ t \notin {"fail", "raise"} => host.main # "none" \/ pc # "ingress"
<1> USE DEF HIngress
<1>1. Locals([inner |-> NoteIngress]).running = kept.running
  BY DEF Locals, Local, LocalNames
<1>2. CASE Reads("ingress", host.main # "none", Locals([inner |-> NoteIngress]), "ingress.write", "fail", "raise")
  BY <1>1, <1>2, Effects DEF Reads
<1>3. CASE Writes("ingress.write", [host EXCEPT !.conf = @ \cup {"active"}, !.mapped = TRUE],
            {[host EXCEPT !.conf = @ \cup {"active"}]}, "ingress.apply", "ingress.undo")
  BY <1>3 DEF Writes, Fields, Aside, Beside
<1>4. CASE Runs("ingress.apply", Applied, Applied, "ingress.reload", "ingress.undo", "ingress.undo")
  BY <1>4, Effects DEF Runs
<1>5. CASE Runs("ingress.reload", Reloaded, {}, "ok", "ingress.undo", "ingress.undo")
  BY <1>5, Effects DEF Runs
<1>6. CASE Writes("ingress.undo", [host EXCEPT !.conf = kept.inner.conf, !.mapped = kept.inner.mapped], {},
            "ingress.undo.apply", "raise")
  BY <1>6 DEF Writes, Fields, Aside, Beside
<1>7. CASE Tries("ingress.undo.apply", Applied, kept, "ingress.undo.reload", "raise")
  BY <1>7, Effects DEF Tries
<1>8. CASE Tries("ingress.undo.reload", Reloaded, kept, "fail", "raise")
  BY <1>8, Effects DEF Tries
<1>9. ~Calls("refresh_ingress", "ingress", kept, "ok", "fail", "raise")
  BY DEF Calls
<1> QED BY <1>2, <1>3, <1>4, <1>5, <1>6, <1>7, <1>8, <1>9 DEF HermesIngress

HRefreshes ==
  \/ pc = "refresh_ingress" /\ stack = <<>>
  \/ pc \in HIngress /\ stack = <<Caller("ok", "fail", "raise")>> /\ (pc # "ingress" => host.main # "none")

LEMMA HermesRefreshing ==
  ASSUME DOMAIN host = Fields, Local(kept), host.main \in Container, CoreAs(host), HRefreshes, HermesIngress
  PROVE  CoreAs(host') /\ ((HRefreshes' /\ Onward) \/ Closes(host'.main = Was.main /\ host'.main \in {"running", "stopped"}))
<1>1. CASE pc = "refresh_ingress"
  <2>1. Calls("refresh_ingress", "ingress", kept, "ok", "fail", "raise")
    BY <1>1 DEF HermesIngress, Reads, Writes, Runs, Tries
  <2>2. stack = <<>>
    BY <1>1 DEF HRefreshes, HIngress
  <2>3. host' = host /\ Went("ingress", <<Caller("ok", "fail", "raise")>>, kept)
    BY <2>1, <2>2, CallsFrom
  <2> QED BY <2>3 DEF Went, HRefreshes, HIngress, Onward, CoreAs, DataAs
<1>2. CASE pc # "refresh_ingress"
  <2>1. stack = <<Caller("ok", "fail", "raise")>> /\ (pc # "ingress" => host.main # "none")
    BY <1>2 DEF HRefreshes
  <2>2. \A t \in {"ok", "fail", "raise"} : \A k : To(t, k) => Ended(t)
    <3>1. \A t \in {"ok", "fail", "raise"} : Answer(Caller("ok", "fail", "raise"), t) = t
      BY Answers
    <3> QED BY <2>1, <3>1, OneCaller DEF Results
  <2>3. PICK k, t :
              /\ t \in HIngress \cup {"ok", "fail", "raise"}
              /\ To(t, k) /\ k.running = kept.running
              /\ t = "ok" => pc # "ingress"
              /\ t \notin {"fail", "raise"} => host.main # "none" \/ pc # "ingress"
    BY <1>2, HermesPublishing
  <2>4. CoreAs(host') /\ host'.main = host.main
    BY <1>2, HermesPublishing DEF CoreAs, DataAs, Aside, Beside
  <2>5. CASE t \in HIngress
    <3>1. Went(t, stack, k)
      BY <2>3, <2>5, Within DEF Results, HIngress
    <3> QED BY <2>1, <2>3, <2>4, <2>5, <3>1 DEF Went, HRefreshes, HIngress, Onward
  <2>6. CASE t \in {"ok", "fail", "raise"}
    BY <2>1, <2>2, <2>3, <2>4, <2>6 DEF Closes, Results, CoreAs, Container
  <2> QED BY <2>3, <2>5, <2>6
<1> QED BY <1>1, <1>2

HUpdates ==
  \/ pc = "update_version" /\ stack = <<>> /\ host.main = Was.main
  \/ /\ Was.main # "none" /\ kept.running = (Was.main = "running")
     /\ \/ pc \in HUpdate /\ stack = <<>> /\ (pc = "update.stop" => ~kept.running)
        \/ pc \in HStop /\ stack = <<Caller("ok", "update.undo", "update.undo")>> /\ ~kept.running
        \/ pc \in HStop /\ stack = <<Retracting>>

LEMMA HermesUpdating ==
  ASSUME DOMAIN host = Fields, Local(kept), Was.main \in Container, HermesServes(host), HUpdates, HermesUpdate
  PROVE  HermesServes(host') /\ ((HUpdates' /\ Onward) \/ Closes(host'.main = Was.main /\ host'.main \in {"running", "stopped"}))
<1> USE DEF HermesServes, DataAs, Beside, Aside, HUpdate, Results, Onward, Closes, Container
<1> DEFINE k0 == Locals([image |-> host.image, running |-> host.main = "running"])
<1>1. k0.running = (host.main = "running")
  BY DEF Locals, Local, LocalNames
<1>2. pc \notin HStop => stack = <<>>
  BY DEF HUpdates
<1>3. pc \notin HStop => \A t, k : To(t, k) => IF t \in Results THEN Ended(t) ELSE Went(t, <<>>, k)
  BY <1>2, Alone
<1>4. pc \in HUpdate => /\ Was.main # "none" /\ kept.running = (Was.main = "running") /\ stack = <<>>
                        /\ pc = "update.stop" => ~kept.running
  BY DEF HUpdates, HStop
<1>5. ASSUME pc = "update_version" PROVE host.main = Was.main
  BY <1>5 DEF HUpdates, HStop
<1> HIDE DEF k0
<1>6. CASE Reads("update_version", host.main # "none", k0,
           IF host.image = "new" THEN "ok" ELSE "update.look", "fail", "raise")
  BY <1>1, <1>3, <1>5, <1>6 DEF Reads, HUpdates, Went, HStop, Was
<1>7. CASE Reads("update.look", TRUE, kept, "update.remove", "fail", "raise")
  BY <1>3, <1>4, <1>7 DEF Reads, HUpdates, Went, HStop, Was
<1>8. CASE Runs("update.remove", Removed({"main"}), {}, "update.run", "fail", "raise")
  BY <1>3, <1>4, <1>8, MainEffects DEF Runs, HUpdates, Went, HStop, Was
<1>9. CASE Runs("update.run", RanMain("new"), CreatedMain("new"), "update.wait", "update.undo", "update.undo")
  BY <1>3, <1>4, <1>9, MainEffects DEF Runs, HUpdates, Went, HStop, Was
<1>10. CASE WaitForDashboard("update.wait", IF kept.running THEN "ok" ELSE "update.stop",
           "update.undo", "update.undo")
  <2>1. CASE kept.running
    <3>1. Reads("update.wait", AllUp({"main"}), kept, "ok", "update.undo", "update.undo")
      BY <1>10, <2>1 DEF WaitForDashboard
    <3>2. pc = "update.wait" /\ Was.main = "running"
      BY <1>4, <2>1, <3>1 DEF Reads
    <3> QED BY <1>3, <1>4, <3>1, <3>2 DEF Reads, AllUp, HUpdates, Went, HStop, Was
  <2>2. CASE ~kept.running
    <3>1. Reads("update.wait", AllUp({"main"}), kept, "update.stop", "update.undo", "update.undo")
      BY <1>10, <2>2 DEF WaitForDashboard
    <3> QED BY <1>3, <1>4, <2>2, <3>1 DEF Reads, AllUp, HUpdates, Went, HStop, Was
  <2> QED BY <2>1, <2>2
<1>11. CASE Calls("update.stop", "stop", kept, "ok", "update.undo", "update.undo")
  <2>1. host' = host /\ Went("stop", <<Caller("ok", "update.undo", "update.undo")>>, kept)
    BY <1>4, <1>11, CallsFrom
  <2> QED BY <1>4, <1>11, <2>1 DEF Went, HUpdates, HStop, Calls, Was
<1>12. CASE Tries("update.undo", Removed({"main"}), kept, "update.undo.run", "raise")
  BY <1>3, <1>4, <1>12, MainEffects DEF Tries, HUpdates, Went, HStop, Was
<1>13. CASE Runs("update.undo.run", RanMain(kept.image), CreatedMain(kept.image), "update.undo.wait", "manual", "raise")
  BY <1>3, <1>4, <1>13, MainEffects DEF Runs, HUpdates, Went, HStop, Was
<1>14. CASE WaitForDashboard("update.undo.wait",
           IF kept.running THEN "rolledback" ELSE "update.undo.stop", "manual", "raise")
  BY <1>3, <1>4, <1>14 DEF WaitForDashboard, Reads, AllUp, HUpdates, Went, HStop, Was
<1>15. CASE Calls("update.undo.stop", "stop", kept, "rolledback", "manual", "raise")
  <2>1. host' = host /\ Went("stop", <<Retracting>>, kept)
    BY <1>4, <1>15, CallsFrom DEF Retracting
  <2> QED BY <1>4, <1>15, <2>1 DEF Went, HUpdates, HStop, Calls, Was
<1> QED BY <1>6, <1>7, <1>8, <1>9, <1>10, <1>11, <1>12, <1>13, <1>14, <1>15 DEF HermesUpdate, k0

LEMMA HermesUpdateStopping ==
  ASSUME DOMAIN host = Fields, Was.main \in Container, HermesServes(host), HUpdates, HermesStop
  PROVE  HermesServes(host') /\ ((HUpdates' /\ Onward) \/ Closes(host'.main = Was.main /\ host'.main \in {"running", "stopped"}))
<1>1. PICK t \in HStop \cup {"ok", "fail", "raise"} : To(t, kept) /\ (t = "ok" => host'.main = "stopped")
  BY HermesStopping
<1>2. HermesServes(host') /\ pc \in HStop
  BY HermesStopping DEF HermesServes, DataAs, Beside, Container
<1>3. CASE t \in HStop
  <2>1. Went(t, stack, kept)
    BY <1>1, <1>3, Within DEF Results, HStop
  <2> QED BY <1>2, <1>3, <2>1 DEF HUpdates, HUpdate, Went, Onward, HStop, Was
<1>4. CASE t \in {"ok", "fail", "raise"}
  <2>1. Was.main # "none" /\ kept.running = (Was.main = "running")
    BY <1>2 DEF HUpdates, HUpdate, HStop
  <2>2. CASE stack = <<Caller("ok", "update.undo", "update.undo")>> /\ ~kept.running
    <3>1. IF t = "ok" THEN Ended("ok") ELSE Went("update.undo", <<>>, kept)
      <4>1. Answer(Caller("ok", "update.undo", "update.undo"), t) = IF t = "ok" THEN "ok" ELSE "update.undo"
        BY <1>4, Answers
      <4> QED BY <1>1, <1>4, <2>2, <4>1, OneCaller DEF Results
    <3> QED BY <1>1, <1>2, <2>1, <2>2, <3>1 DEF Went, HUpdates, HUpdate, Onward, Closes, Results, Container, Was
  <2>3. CASE stack = <<Retracting>>
    <3>1. \E r \in Results \ {"ok"} : Ended(r)
      <4>1. Answer(Retracting, t) \in Results \ {"ok"}
        BY <1>4, Answers DEF Retracting, Results
      <4> QED BY <1>1, <1>4, <2>3, <4>1, OneCaller DEF Results
    <3> QED BY <1>2, <3>1 DEF Closes
  <2> QED BY <1>2, <2>2, <2>3 DEF HUpdates, HUpdate, HStop
<1> QED BY <1>1, <1>3, <1>4

HPurges == pc \in {"purge_deleted", "purge.tree"} /\ stack = <<>> /\ (pc = "purge.tree" => host.recycle # "none")

LEMMA HermesPurging ==
  ASSUME DOMAIN host = Fields, CoreAs(host), Was.older = {}, HPurges, HermesPurge
  PROVE  \/ CoreAs(host') /\ HPurges' /\ Onward
         \/ \E r \in Results : Ended(r) /\ IF r = "ok" THEN HermesPurges(host') /\ host'.recycle = "none"
                                           ELSE CoreAs(host') \/ (HermesPurges(host') /\ host'.recycle = "dir")
<1> USE DEF HPurges, Results, Onward
<1>1. \A t, k : To(t, k) => IF t \in Results THEN Ended(t) ELSE Went(t, <<>>, k)
  BY Alone
<1>2. CASE Decides("purge_deleted", IF host.recycle = "none" THEN "fail" ELSE "purge.tree", kept)
  BY <1>1, <1>2 DEF Decides, CoreAs, DataAs, Went
<1>3. CASE Writes("purge.tree", [host EXCEPT !.recycle = "none", !.bin = {}, !.note = NoNote],
            {[host EXCEPT !.recycle = "dir", !.bin = {}, !.note = NoNote]}, "ok", "fail")
  <2>1. host' = host => CoreAs(host')
    BY DEF CoreAs, DataAs
  <2>2. host' = [host EXCEPT !.recycle = "none", !.bin = {}, !.note = NoNote]
        => HermesPurges(host') /\ host'.recycle = "none"
    BY <1>3 DEF CoreAs, DataAs, HermesPurges, Fields, Writes
  <2>3. host' = [host EXCEPT !.recycle = "dir", !.bin = {}, !.note = NoNote]
        => HermesPurges(host') /\ host'.recycle = "dir"
    BY <1>3 DEF CoreAs, DataAs, HermesPurges, Fields, Writes
  <2> QED BY <1>1, <1>3, <2>1, <2>2, <2>3 DEF Writes
<1> QED BY <1>2, <1>3 DEF HermesPurge

------------------------------------------------------------------------------
(* The model provider is set on containers that run, and touches none. *)

LEMMA SettingEffects ==
  ASSUME DOMAIN host = Fields
  PROVE  /\ Aside(host) /\ Aside(WithToken) /\ Aside(WithKey) /\ Aside(WithModel) /\ Aside([WithModel EXCEPT !.key = host.token])
         /\ Aside(Narrowed) /\ Aside(Unconfigured) /\ Aside(Widened) /\ Aside(ConfigBack)
         /\ Aside(TokenBack) /\ Aside(ModelsBack) /\ Aside([host EXCEPT !.models = {}])
         /\ Aside([host EXCEPT !.linked = TRUE]) /\ Aside([host EXCEPT !.linked = FALSE])
<1> USE DEF Aside, Beside, Fields
<1>1. Aside(host) /\ Aside(WithToken) /\ Aside(WithKey) /\ Aside(WithModel)
  BY DEF WithToken, WithKey, WithModel
<1>2. Aside(Narrowed) /\ Aside(Unconfigured) /\ Aside(Widened) /\ Aside(ConfigBack)
  BY DEF Narrowed, Unconfigured, Widened, ConfigBack
<1>3. Aside(TokenBack) /\ Aside(ModelsBack) /\ Aside([host EXCEPT !.models = {}])
  BY DEF TokenBack, ModelsBack
<1>4. Aside([WithModel EXCEPT !.key = host.token])
  BY DEF WithModel
<1>5. Aside([host EXCEPT !.linked = TRUE]) /\ Aside([host EXCEPT !.linked = FALSE])
  OBVIOUS
<1> QED BY <1>1, <1>2, <1>3, <1>4, <1>5

\* A step of a change of the model provider, which leads to t
Provides(T) ==
  /\ Aside(host') /\ pc \in Providing
  /\ \E k : \E t \in T : To(t, k) /\ (pc = "set_model_provider" => t = "fail" \/ Up)

ProvideSteps == (Providing \ {"set_model_provider"}) \cup {"fail", "raise", "rolledback", "manual"}

LEMMA ProvideOf ==
  ASSUME DOMAIN host = Fields, NEW next \in ProvideSteps, Provide(next)
  PROVE  Provides(ProvideSteps)
<1>1. Aside(host') /\ pc = "set_model_provider"
  BY Effects DEF Provide, Decides, Aside, Beside
<1>2. \E k : \E t \in ProvideSteps : To(t, k) /\ (t = "fail" \/ Up)
  <2>1. CASE ~Up
    BY <2>1 DEF Provide, Decides, ProvideSteps
  <2>2. CASE Up
    BY <2>2 DEF Provide, Decides, ProvideSteps
  <2> QED BY <2>1, <2>2
<1> QED BY <1>1, <1>2 DEF Provides, Providing

LEMMA ProvideWrites ==
  ASSUME DOMAIN host = Fields, NEW at \in Providing \ {"set_model_provider"}, NEW h, NEW p, NEW next, NEW exc,
         Writes(at, h, p, next, exc), Aside(h), \A g \in p : Aside(g)
  PROVE  \A T : next \in T /\ exc \in T => Provides(T)
<1>1. Aside(host') /\ pc = at
  BY Effects DEF Writes, Aside, Beside
<1> QED BY <1>1 DEF Writes, Provides

LEMMA ProvideRuns ==
  ASSUME DOMAIN host = Fields, NEW at \in Providing \ {"set_model_provider"}, NEW h, NEW next, NEW bad, NEW exc,
         Runs(at, {h}, {}, next, bad, exc), Aside(h)
  PROVE  \A T : next \in T /\ bad \in T /\ exc \in T => Provides(T)
<1>1. Aside(host') /\ pc = at
  BY Effects DEF Runs, Aside, Beside
<1> QED BY <1>1 DEF Runs, Provides

LEMMA ProvideDecides ==
  ASSUME DOMAIN host = Fields, NEW at \in Providing \ {"set_model_provider"}, NEW t, NEW k, Decides(at, t, k)
  PROVE  \A T : t \in T => Provides(T)
<1>1. Aside(host') /\ pc = at
  BY Effects DEF Decides, Aside, Beside
<1> QED BY <1>1 DEF Decides, Provides

LEMMA ProvideJoins ==
  ASSUME DOMAIN host = Fields, NEW next \in ProvideSteps, ProxyJoins(next)
  PROVE  Provides(ProvideSteps)
<1>1. CASE Reads("provider.look", TRUE, kept, IF host.linked THEN next ELSE "provider.link",
           "provider.undo", "provider.undo")
  <2>1. Aside(host') /\ pc = "provider.look"
    BY <1>1, Effects DEF Reads, Aside, Beside
  <2>2. (IF host.linked THEN next ELSE "provider.link") \in ProvideSteps /\ "provider.undo" \in ProvideSteps
    BY DEF ProvideSteps, Providing
  <2> QED BY <1>1, <2>1, <2>2 DEF Reads, Provides, Providing
<1>2. CASE Runs("provider.link", {[host EXCEPT !.linked = TRUE]}, {}, "provider.linked",
          "provider.undo", "provider.undo")
  <2> DEFINE h == [host EXCEPT !.linked = TRUE]
  <2>1. Aside(h)
    BY SettingEffects
  <2>2. Runs("provider.link", {h}, {}, "provider.linked", "provider.undo", "provider.undo")
    BY <1>2
  <2> HIDE DEF h
  <2> QED BY <2>1, <2>2, ProvideRuns DEF ProvideSteps, Providing
<1>3. CASE Decides("provider.linked", next, Locals([linked |-> TRUE]))
  BY <1>3, ProvideDecides DEF Providing
<1> QED BY <1>1, <1>2, <1>3 DEF ProxyJoins

LEMMA HermesProvides ==
  ASSUME DOMAIN host = Fields, HermesProvider
  PROVE  Provides(ProvideSteps \cup {"ok"})
<1> DEFINE T == ProvideSteps \cup {"ok"}
<1> USE DEF ProvideSteps, Providing
<1>1. Provides(ProvideSteps) => Provides(T)
  BY DEF Provides
<1>2. CASE Provide(IF host.home = Parts THEN "provider.models" ELSE "fail")
  BY <1>1, <1>2, ProvideOf
<1>3. CASE Writes("provider.models", Widened, {},
            IF host.token = "none" THEN "provider.token" ELSE "provider.look", "provider.undo")
  <2>1. (IF host.token = "none" THEN "provider.token" ELSE "provider.look") \in T
    OBVIOUS
  <2> QED BY <1>3, <2>1, SettingEffects, ProvideWrites
<1>4. CASE Writes("provider.token", WithToken, {}, "provider.look", "provider.undo")
  BY <1>4, SettingEffects, ProvideWrites
<1>5. CASE ProxyJoins("provider.model")
  BY <1>1, <1>5, ProvideJoins
<1>6. CASE Runs("provider.model", {WithModel}, {}, "provider.url", "provider.undo", "provider.undo")
  BY <1>6, SettingEffects, ProvideRuns
<1>7. CASE Runs("provider.url", {host}, {}, "provider.key", "provider.undo", "provider.undo")
  BY <1>7, SettingEffects, ProvideRuns
<1>8. CASE Runs("provider.key", {WithKey}, {}, "provider.mode", "provider.undo", "provider.undo")
  BY <1>8, SettingEffects, ProvideRuns
<1>9. CASE Runs("provider.mode", {host}, {}, "provider.narrow", "provider.undo", "provider.undo")
  BY <1>9, SettingEffects, ProvideRuns
<1>10. CASE Writes("provider.narrow", Narrowed, {}, "ok", "provider.undo")
  BY <1>10, SettingEffects, ProvideWrites
<1>11. CASE Writes("provider.undo", ConfigBack, {Unconfigured}, "provider.undo.token", "provider.undo.config")
  BY <1>11, SettingEffects, ProvideWrites
<1>12. CASE Decides("provider.undo.config", "provider.undo.token", Failing)
  BY <1>12, ProvideDecides
<1>13. CASE Writes("provider.undo.token", TokenBack, {}, "provider.undo.models", "provider.undo.untold")
  BY <1>13, SettingEffects, ProvideWrites
<1>14. CASE Decides("provider.undo.untold", "provider.undo.models", Failing)
  BY <1>14, ProvideDecides
<1>15. CASE Writes("provider.undo.models", ModelsBack, {}, "provider.undo.link", "provider.undo.wide")
  BY <1>15, SettingEffects, ProvideWrites
<1>16. CASE Decides("provider.undo.wide", "provider.undo.link", Failing)
  BY <1>16, ProvideDecides
<1>17. CASE ~kept.linked /\ Decides("provider.undo.link", "provider.undo.end", kept)
  BY <1>17, ProvideDecides
<1>18. CASE Runs("provider.undo.link", {[host EXCEPT !.linked = FALSE]}, {},
                         "provider.undo.end", "provider.undo.joined", "provider.undo.joined")
  <2> DEFINE h == [host EXCEPT !.linked = FALSE]
  <2>1. Aside(h)
    BY SettingEffects
  <2>2. Runs("provider.undo.link", {h}, {}, "provider.undo.end", "provider.undo.joined", "provider.undo.joined")
    BY <1>18
  <2> HIDE DEF h
  <2> QED BY <2>1, <2>2, ProvideRuns
<1>19. CASE Decides("provider.undo.joined", "provider.undo.end", Failing)
  BY <1>19, ProvideDecides
<1>20. CASE Decides("provider.undo.end", IF kept.failed THEN "manual" ELSE "rolledback", kept)
  <2>1. (IF kept.failed THEN "manual" ELSE "rolledback") \in T
    OBVIOUS
  <2> QED BY <1>20, <2>1, ProvideDecides
<1> QED BY <1>2, <1>3, <1>4, <1>5, <1>6, <1>7, <1>8, <1>9, <1>10, <1>11, <1>12, <1>13, <1>14, <1>15,
           <1>16, <1>17, <1>18, <1>19, <1>20 DEF HermesProvider

LEMMA EvoProvides ==
  ASSUME DOMAIN host = Fields, EvoProvider
  PROVE  \/ Provides(ProvideSteps)
         \/ Calls("provider.restart", "restart", kept, "ok", "provider.undo", "provider.undo")
<1> DEFINE T == ProvideSteps
<1> USE DEF ProvideSteps, Providing
<1>1. CASE Provide("provider.token")
  BY <1>1, ProvideOf
<1>2. CASE Writes("provider.token", WithToken, {}, "provider.models", "provider.undo")
  BY <1>2, SettingEffects, ProvideWrites
<1>3. CASE Writes("provider.models", Widened, {}, "provider.config", "provider.undo")
  BY <1>3, SettingEffects, ProvideWrites
<1>4. CASE Writes("provider.config", [WithModel EXCEPT !.key = host.token], {Unconfigured},
            "provider.own", "provider.undo")
  <2> DEFINE h == [WithModel EXCEPT !.key = host.token]
  <2>1. Aside(h)
    BY SettingEffects
  <2>2. Writes("provider.config", h, {Unconfigured}, "provider.own", "provider.undo")
    BY <1>4
  <2> HIDE DEF h
  <2> QED BY <2>1, <2>2, SettingEffects, ProvideWrites
<1>5. CASE Runs("provider.own", {host}, {}, "provider.look", "provider.undo", "provider.undo")
  BY <1>5, SettingEffects, ProvideRuns
<1>6. CASE ProxyJoins("provider.restart")
  BY <1>6, ProvideJoins
<1>7. CASE Writes("provider.undo", ConfigBack, {Unconfigured}, "provider.undo.token", "raise")
  BY <1>7, SettingEffects, ProvideWrites
<1>8. CASE Writes("provider.undo.token", TokenBack, {}, "provider.undo.models", "raise")
  BY <1>8, SettingEffects, ProvideWrites
<1>9. CASE Writes("provider.undo.models", ModelsBack, {}, "provider.undo.link", "raise")
  BY <1>9, SettingEffects, ProvideWrites
<1>10. CASE ~kept.linked /\ Decides("provider.undo.link", "rolledback", kept)
  BY <1>10, ProvideDecides
<1>11. CASE Tries("provider.undo.link", {[host EXCEPT !.linked = FALSE]}, kept, "rolledback", "raise")
  <2>1. Aside(host') /\ pc = "provider.undo.link"
    BY <1>11 DEF Tries, Aside, Beside, Fields
  <2> QED BY <1>11, <2>1 DEF Tries, Provides
<1> QED BY <1>1, <1>2, <1>3, <1>4, <1>5, <1>6, <1>7, <1>8, <1>9, <1>10, <1>11 DEF EvoProvider

LEMMA ClawProvides ==
  ASSUME DOMAIN host = Fields, ClawProvider
  PROVE  \/ Provides(ProvideSteps)
         \/ Calls("provider.restart", "restart", kept, "ok", "fail", "raise")
<1> DEFINE T == ProvideSteps
<1> USE DEF ProvideSteps, Providing
<1>1. CASE Provide("provider.token")
  BY <1>1, ProvideOf
<1>2. CASE Writes("provider.token", WithToken, {}, "provider.models", "fail")
  BY <1>2, SettingEffects, ProvideWrites
<1>3. CASE Writes("provider.models", Narrowed, {[host EXCEPT !.models = {}]}, "provider.key", "fail")
  <2> DEFINE h == [host EXCEPT !.models = {}]
  <2>1. Aside(h)
    BY SettingEffects
  <2>2. Writes("provider.models", Narrowed, {h}, "provider.key", "fail")
    BY <1>3
  <2> HIDE DEF h
  <2> QED BY <2>1, <2>2, SettingEffects, ProvideWrites
<1>4. CASE Runs("provider.key", {WithKey}, {}, "provider.model", "fail", "raise")
  BY <1>4, SettingEffects, ProvideRuns
<1>5. CASE Runs("provider.model", {WithModel}, {}, "provider.validate", "fail", "raise")
  BY <1>5, SettingEffects, ProvideRuns
<1>6. CASE Runs("provider.validate", {host}, {}, "provider.restart", "fail", "raise")
  BY <1>6, SettingEffects, ProvideRuns
<1> QED BY <1>1, <1>2, <1>3, <1>4, <1>5, <1>6 DEF ClawProvider

\* what a change of the model provider knows, outside of the restart
Sets == pc \in Providing /\ stack = <<>> /\ (pc # "set_model_provider" => Up)

LEMMA ProvidesOn ==
  ASSUME Sets, CoreAs(host), NEW T \in {ProvideSteps, ProvideSteps \cup {"ok"}}, Provides(T)
  PROVE  CoreAs(host') /\ ((Sets' /\ Onward) \/ Closes(Up'))
<1>1. PICK k, t : t \in T /\ To(t, k) /\ (pc = "set_model_provider" => t = "fail" \/ Up)
  BY DEF Provides
<1>2. CoreAs(host') /\ (Up' <=> (host'.main = "running" /\ (product' = "evoscientist" => host'.proxy = "running")))
  BY DEF Provides, CoreAs, DataAs, Aside, Beside, Up
<1>3. host'.main = host.main /\ host'.proxy = host.proxy
  BY DEF Provides, Aside
<1>4. CASE t \in Results
  <2>1. Ended(t)
    BY <1>1, <1>4, Alone DEF Sets
  <2>2. t = "ok" => Up'
    BY <1>1, <1>2, <1>3, <2>1 DEF Sets, Up, Ended
  <2> QED BY <1>2, <1>4, <2>1, <2>2 DEF Closes
<1>5. CASE t \notin Results
  <2>1. t \in Providing \ {"set_model_provider"}
    BY <1>1, <1>5 DEF ProvideSteps, Results
  <2>2. Went(t, <<>>, k)
    BY <1>1, <1>5, Alone DEF Sets
  <2>3. Sets'
    BY <1>1, <1>2, <1>3, <1>5, <2>1, <2>2 DEF Sets, Went, Up, Results
  <2>4. t # "idle"
    BY <2>1 DEF Providing
  <2> QED BY <1>2, <2>2, <2>3, <2>4 DEF Onward, Went
<1> QED BY <1>4, <1>5

\* only where the parts of the data are has changed
Carried(h) ==
  /\ h.older = host.older /\ h.recycle = host.recycle /\ h.note = host.note
  /\ h.main = host.main /\ h.proxy = host.proxy

LEMMA MovesOn ==
  ASSUME product \in {"openclaw", "hermes", "evoscientist"}, DOMAIN host = Fields,
         NEW at, NEW S \in SUBSET Parts, NEW from, NEW to, NEW next, NEW exc,
         Moves(at, S, from, to, next, exc), <<from, to>> \in {<<"home", "bin">>, <<"bin", "home">>}
  PROVE  /\ pc = at /\ Carried(host')
         /\ \/ host' = host /\ S = {} /\ To(next, kept)
            \/ host' = host /\ To(exc, kept)
            \/ /\ S # {} /\ First(S) \in S /\ To(at, kept)
               /\ host'[from] = host[from] \ {First(S)} /\ host'[to] = host[to] \cup {First(S)}
<1>1. from \in {"home", "bin"} /\ to \in {"home", "bin"} /\ from # to
  OBVIOUS
<1>2. CASE S = {}
  BY <1>2 DEF Moves, Carried
<1>3. CASE S # {}
  <2>1. Writes(at, [host EXCEPT ![from] = @ \ {First(S)}, ![to] = @ \cup {First(S)}], {}, at, exc)
    BY <1>3 DEF Moves
  <2>2. First(S) \in S
    BY <1>3, FirstOf
  <2>3. CASE host' = host
    BY <1>1, <1>3, <2>1, <2>2, <2>3 DEF Writes, Carried, Fields
  <2>4. CASE host' = [host EXCEPT ![from] = @ \ {First(S)}, ![to] = @ \cup {First(S)}] /\ To(at, kept)
    BY <1>1, <1>3, <2>1, <2>2, <2>4 DEF Writes, Carried, Fields
  <2> QED BY <2>1, <2>3, <2>4 DEF Writes
<1> QED BY <1>2, <1>3

------------------------------------------------------------------------------
(* Hermes: deletion, by the request or of what could not be published *)

HRuntime == {"runtime", "runtime.run", "runtime.wait", "runtime.link", "runtime.ingress", "runtime.stop"}
HDelete  == {"delete", "delete.inspect", "delete.ingress", "delete.reload", "delete.remove", "delete.back",
             "delete.again", "delete.entry", "delete.move", "delete.list", "delete.unlink", "delete.net"}
HDeleteUndo == {"delete.undo", "delete.undo.entry", "delete.undo.runtime"}

Passing == Caller("ok", "fail", "raise")

\* what holds at step p of a deletion, with the local variables k
DeleteAt(p, k, h) ==
  /\ p \in {"delete", "delete.inspect"} => WasOn = (h.main = "running")
  /\ p \in {"delete.inspect", "delete.ingress", "delete.reload", "delete.remove",
            "delete.undo.entry", "delete.undo.runtime"} => h.home = Parts
  /\ p \in HDelete \ {"delete", "delete.inspect"} => k.running = WasOn
  /\ p \in {"delete.entry", "delete.move", "delete.list", "delete.unlink", "delete.net"} => h.main = "none"
  /\ p \in {"delete.list", "delete.unlink", "delete.net"} => h.home = {}
  /\ p \in {"delete.unlink", "delete.net"} => h.recycle = "listed"
  /\ p = "ok" => h.home = {} /\ h.recycle = "listed"

LEMMA HermesDeleting ==
  ASSUME product = "hermes", DOMAIN host = Fields, Local(kept), HermesDelete,
         HermesDeletes(host), DeleteAt(pc, kept, host)
  PROVE  /\ pc \in HDelete /\ HermesDeletes(host')
         /\ \E k : \E t \in HDelete \cup {"delete.undo", "ok", "fail", "raise"} : To(t, k) /\ DeleteAt(t, k, host')
<1> DEFINE k0 == Locals([image |-> host.image, running |-> host.main = "running",
                   conf |-> host.conf, mapped |-> host.mapped])
<1>0. Parts = {"data"}
  BY DEF Parts, PartsOf
<1>1. k0.running = (host.main = "running")
  BY DEF Locals, Local, LocalNames
<1> HIDE DEF k0
<1> USE DEF Container, DeleteAt, HDelete, HermesDeletes, Aside, Beside
<1>7. CASE Decides("delete", IF host.home = Parts /\ host.recycle = "none" THEN "delete.inspect" ELSE "fail", kept)
  BY <1>1, <1>7, Effects DEF Decides
<1>8. CASE Reads("delete.inspect", host.main # "none", k0, "delete.ingress", "fail", "raise")
  BY <1>1, <1>8, Effects DEF Reads
<1>9. CASE Writes("delete.ingress", [host EXCEPT !.conf = {}, !.mapped = FALSE],
            {[host EXCEPT !.conf = {}]}, "delete.reload", "raise")
  <2>1. Aside(host')
    BY <1>9 DEF Writes, Fields
  <2> QED BY <1>9, <2>1 DEF Writes
<1>10. CASE Runs("delete.reload", Reloaded, {}, "delete.remove", "delete.back", "raise")
  BY <1>1, <1>10, MainEffects, Effects DEF Runs
<1>11. CASE Runs("delete.remove", Removed({"main"}), {}, "delete.entry", "delete.back", "raise")
  BY <1>1, <1>11, MainEffects, Effects DEF Runs
<1>12. CASE Writes("delete.back", OldIngress, {}, "delete.again", "raise")
  <2>1. Aside(host')
    BY <1>12 DEF Writes, Fields, OldIngress
  <2> QED BY <1>12, <2>1 DEF Writes
<1>13. CASE Tries("delete.again", Reloaded, kept, "fail", "raise")
  BY <1>1, <1>13, MainEffects, Effects DEF Tries
<1>14. CASE Writes("delete.entry", [host EXCEPT !.recycle = "dir"], {}, "delete.move", "delete.undo")
  BY <1>0, <1>1, <1>14 DEF Writes, Fields
<1>15. CASE Moves("delete.move", host.home, "home", "bin", "delete.list", "delete.undo")
    <2>1. host.home \in SUBSET Parts
    BY <1>0
  <2>2. /\ pc = "delete.move" /\ Carried(host')
        /\ \/ host' = host /\ host.home = {} /\ To("delete.list", kept)
           \/ host' = host /\ To("delete.undo", kept)
           \/ /\ host.home # {} /\ First(host.home) \in host.home /\ To("delete.move", kept)
              /\ host'["home"] = host["home"] \ {First(host.home)} /\ host'["bin"] = host["bin"] \cup {First(host.home)}
    BY <1>15, <2>1, MovesOn
  <2>3. host'.home = host'["home"] /\ host'.bin = host'["bin"] /\ host.home = host["home"] /\ host.bin = host["bin"]
    OBVIOUS
  <2> QED BY <1>0, <1>1, <2>2, <2>3 DEF Carried
<1>16. CASE Writes("delete.list", [host EXCEPT !.recycle = "listed",
                              !.note = [image |-> kept.image, running |-> kept.running]],
            {}, "delete.unlink", "delete.undo")
  <2>1. /\ pc = "delete.list" /\ host'.home = host.home /\ host'.bin = host.bin /\ host'.main = host.main /\ host'.older = host.older
        /\ \/ host' = host /\ To("delete.undo", kept)
           \/ host'.recycle = "listed" /\ host'.note.running = kept.running /\ To("delete.unlink", kept)
    <3> DEFINE note == [image |-> kept.image, running |-> kept.running]
               h == [host EXCEPT !.recycle = "listed", !.note = note]
    <3>1. note.running = kept.running
      OBVIOUS
    <3> HIDE DEF note
    <3>2. h.home = host.home /\ h.bin = host.bin /\ h.main = host.main /\ h.older = host.older /\ h.recycle = "listed" /\ h.note = note
      BY DEF Fields
    <3>3. Writes("delete.list", h, {}, "delete.unlink", "delete.undo")
      BY <1>16 DEF note
    <3> HIDE DEF h
    <3> QED BY <3>1, <3>2, <3>3 DEF Writes
  <2> QED BY <1>0, <2>1
<1>17. CASE Runs("delete.unlink", {[host EXCEPT !.linked = FALSE]}, {[host EXCEPT !.linked = FALSE]},
          "delete.net", "delete.undo", "raise")
  BY <1>0, <1>1, <1>17 DEF Runs, Fields
<1>18. CASE Runs("delete.net", {[host EXCEPT !.net = FALSE]}, {}, "ok", "delete.undo", "raise")
  BY <1>0, <1>1, <1>18 DEF Runs, Fields
<1> QED BY <1>7, <1>8, <1>9, <1>10, <1>11, <1>12, <1>13, <1>14, <1>15, <1>16, <1>17, <1>18 DEF HermesDelete, k0

HDeletes ==
  \/ pc \in HDelete \cup HDeleteUndo /\ stack = Above /\ DeleteAt(pc, kept, host)
  \/ /\ host.home = Parts
     /\ \/ pc \in HRuntime /\ stack = Over(Retracting)
        \/ pc \in HIngress /\ stack \in {Over2(Passing, Retracting), Over2(Caller("runtime.stop", "fail", "raise"), Retracting)}
        \/ pc \in HStop /\ stack = Over2(Passing, Retracting)

\* a step of a deletion goes on, or gives up, or it has gone through
HDeleted == \E r \in Results : Ended(r) /\ (r = "ok" => op = "delete" /\ host'.home = {} /\ host'.recycle = "listed")

LEMMA HermesDeletingOn ==
  ASSUME product = "hermes", DOMAIN host = Fields, Local(kept), HermesDelete,
         HermesDeletes(host), HDeletes, op \in {"delete", "create"}
  PROVE  HermesDeletes(host') /\ ((HDeletes' /\ Onward) \/ HDeleted)
<1>1. pc \in HDelete
  BY DEF HermesDelete, Decides, Reads, Writes, Runs, Tries, Moves, HDelete
<1>2. stack = Above /\ DeleteAt(pc, kept, host)
  BY <1>1 DEF HDeletes, HDelete, HDeleteUndo, HRuntime, HIngress, HStop
<1>3. HermesDeletes(host')
  BY <1>2, HermesDeleting
<1>4. PICK k, t : t \in HDelete \cup {"delete.undo", "ok", "fail", "raise"} /\ To(t, k) /\ DeleteAt(t, k, host')
  BY <1>2, HermesDeleting
<1>5. CASE t \in {"ok", "fail", "raise"}
  <2>1. Ended(Final(t)) /\ Final(t) \in Results
    BY <1>2, <1>4, <1>5, AboveOnly, Finals DEF Results
  <2>2. Final(t) = "ok" => t = "ok" /\ op = "delete"
    BY <1>5, Finals DEF Results
  <2> QED BY <1>3, <1>4, <2>1, <2>2 DEF HDeleted, DeleteAt
<1>6. CASE t \in HDelete \cup {"delete.undo"}
  <2>1. Went(t, Above, k)
    BY <1>2, <1>4, <1>6, AboveOnly DEF Results, HDelete
  <2>2. Above' = Above /\ WasOn' = WasOn /\ Parts' = Parts
    BY <2>1 DEF Went, Above, WasOn, Was, Parts
  <2>3. DeleteAt(pc', kept', host') <=> DeleteAt(pc, kept, host)'
    BY <2>2 DEF DeleteAt
  <2>4. t # "idle"
    BY <1>6 DEF HDelete
  <2> QED BY <1>3, <1>4, <1>6, <2>1, <2>2, <2>3, <2>4 DEF Went, HDeletes, HDeleteUndo, Onward
<1> QED BY <1>4, <1>5, <1>6

\* _restore_hermes_runtime, whoever calls it
RuntimeAt(p, h) == p \in {"runtime.link", "runtime.ingress"} => h.main = "running"

LEMMA HermesRunning ==
  ASSUME DOMAIN host = Fields, HermesRuntime
  PROVE  /\ pc \in HRuntime /\ Beside(host') /\ host'.proxy = host.proxy /\ host'.main \in {host.main, "running", "stopped"}
         /\ \/ \E t \in HRuntime \cup {"fail", "raise"} : To(t, kept) /\ (RuntimeAt(pc, host) => RuntimeAt(t, host')) /\ t # "runtime.stop"
            \/ /\ pc = "runtime.ingress" /\ host' = host
               /\ Calls("runtime.ingress", "ingress", kept, IF kept.running THEN "ok" ELSE "runtime.stop", "fail", "raise")
            \/ /\ pc = "runtime.stop" /\ host' = host
               /\ Calls("runtime.stop", "stop", kept, "ok", "fail", "raise")
<1> USE DEF HRuntime, RuntimeAt, Aside, Beside
<1>1. CASE Runs("runtime", {[host EXCEPT !.net = TRUE]}, {}, "runtime.run", "fail", "raise")
  BY <1>1 DEF Runs, Fields
<1>2. CASE Runs("runtime.run", RanMain(kept.image), CreatedMain(kept.image), "runtime.wait", "fail", "raise")
  BY <1>2, MainEffects, Effects DEF Runs
<1>3. CASE WaitForDashboard("runtime.wait", "runtime.link", "fail", "raise")
  BY <1>3, Effects DEF WaitForDashboard, Reads, AllUp
<1>4. CASE Runs("runtime.link", {[host EXCEPT !.linked = TRUE]}, {}, "runtime.ingress", "fail", "raise")
  BY <1>4 DEF Runs, Fields
<1>5. CASE Calls("runtime.ingress", "ingress", kept, IF kept.running THEN "ok" ELSE "runtime.stop", "fail", "raise")
  BY <1>5, CallsFrom DEF Calls
<1>6. CASE Calls("runtime.stop", "stop", kept, "ok", "fail", "raise")
  BY <1>6, CallsFrom DEF Calls
<1> QED BY <1>1, <1>2, <1>3, <1>4, <1>5, <1>6 DEF HermesRuntime

\* While the data are in place, a roll-back of the deletion may do to the containers what
\* it likes.
LEMMA HermesInPlace ==
  ASSUME HermesDeletes(host), host.home = Parts, Beside(host'), Parts = {"data"}, host'.main \in Container
  PROVE  HermesDeletes(host')
BY DEF HermesDeletes, Beside

LEMMA HermesDeleteUndoing ==
  ASSUME product = "hermes", DOMAIN host = Fields, HermesDeleteUndo,
         HermesDeletes(host), HDeletes, op \in {"delete", "create"}
  PROVE  HermesDeletes(host') /\ ((HDeletes' /\ Onward) \/ HDeleted)
<1> USE DEF HDeleteUndo
<1>0. Parts = {"data"}
  BY DEF Parts, PartsOf
<1>1. pc \in HDeleteUndo
  BY DEF HermesDeleteUndo, Tries, Moves, Writes, Calls
<1>2. stack = Above /\ DeleteAt(pc, kept, host)
  BY <1>1 DEF HDeletes, HDelete, HRuntime, HIngress, HStop
<1>3. ASSUME NEW t \in HDeleteUndo \cup {"raise"}, To(t, kept), HermesDeletes(host'), t \in HDeleteUndo => DeleteAt(t, kept, host')
      PROVE  HermesDeletes(host') /\ ((HDeletes' /\ Onward) \/ HDeleted)
  <2>1. CASE t = "raise"
    <3>1. Ended(Final(t)) /\ Final(t) \in Results \ {"ok"}
      BY <1>2, <1>3, <2>1, AboveOnly, Finals DEF Results
    <3> QED BY <1>3, <3>1 DEF HDeleted
  <2>2. CASE t \in HDeleteUndo
    <3>1. Went(t, Above, kept)
      BY <1>2, <1>3, <2>2, AboveOnly DEF Results
    <3>2. Above' = Above /\ WasOn' = WasOn /\ Parts' = Parts
      BY <3>1 DEF Went, Above, WasOn, Was, Parts
    <3>3. DeleteAt(pc', kept', host') <=> DeleteAt(pc, kept, host)'
      BY <3>2 DEF DeleteAt
    <3> QED BY <1>3, <2>2, <3>1, <3>2, <3>3 DEF Went, HDeletes, Onward
  <2> QED BY <1>3, <2>1, <2>2
<1>4. CASE Moves("delete.undo", host.bin \ host.home, "bin", "home", "delete.undo.entry", "raise")
  <2>1. host.bin \ host.home \in SUBSET Parts
    BY <1>0 DEF HermesDeletes
  <2>2. /\ pc = "delete.undo" /\ Carried(host')
        /\ \/ host' = host /\ host.bin \ host.home = {} /\ To("delete.undo.entry", kept)
           \/ host' = host /\ To("raise", kept)
           \/ /\ host.bin \ host.home # {} /\ First(host.bin \ host.home) \in host.bin \ host.home /\ To("delete.undo", kept)
              /\ host'["bin"] = host["bin"] \ {First(host.bin \ host.home)}
              /\ host'["home"] = host["home"] \cup {First(host.bin \ host.home)}
    BY <1>4, <2>1, MovesOn
  <2>3. host'.home = host'["home"] /\ host'.bin = host'["bin"] /\ host.home = host["home"] /\ host.bin = host["bin"]
    OBVIOUS
  <2>4. HermesDeletes(host')
    <3>1. CASE host' = host
      BY <3>1 DEF HermesDeletes
    <3>2. CASE host' # host
      <4>1. host.home = {} /\ host.bin = {"data"} /\ First(host.bin \ host.home) = "data"
        BY <1>0, <2>2, <3>2 DEF HermesDeletes
      <4>2. host'.home = {"data"} /\ host'.bin = {}
        BY <2>2, <2>3, <3>2, <4>1
      <4> QED BY <1>0, <2>2, <4>2 DEF Carried, HermesDeletes
    <3> QED BY <3>1, <3>2
  <2>5. \/ To("delete.undo.entry", kept) /\ host'.home = Parts
        \/ To("raise", kept) \/ To("delete.undo", kept)
    BY <1>0, <2>2 DEF HermesDeletes
  <2> QED BY <1>3, <2>4, <2>5 DEF DeleteAt, HDelete
<1>5. CASE Tries("delete.undo.entry", {EntryGone}, kept, "delete.undo.runtime", "delete.undo.runtime")
  <2>1. host.home = Parts
    BY <1>2, <1>5 DEF Tries, DeleteAt
  <2>2. /\ pc = "delete.undo.entry" /\ To("delete.undo.runtime", kept)
        /\ host'.home = host.home /\ host'.main = host.main /\ host'.older = host.older
        /\ host' = host \/ (host'.bin = {} /\ host'.recycle = "none")
    BY <1>5 DEF Tries, EntryGone, Fields
  <2>3. HermesDeletes(host')
    BY <1>0, <2>1, <2>2 DEF HermesDeletes
  <2> QED BY <1>3, <2>1, <2>2, <2>3 DEF DeleteAt, HDelete
<1>6. CASE Calls("delete.undo.runtime", "runtime", kept, "rolledback", "manual", "raise")
  <2>1. host' = host /\ Went("runtime", Over(Retracting), kept)
    BY <1>2, <1>6, CallsAbove DEF Retracting
  <2>2. Over(Retracting)' = Over(Retracting) /\ Parts' = Parts
    BY <2>1 DEF Went, Over, Parts
  <2> QED BY <1>2, <1>6, <2>1, <2>2 DEF Went, HDeletes, HRuntime, Onward, Calls, DeleteAt
<1> QED BY <1>4, <1>5, <1>6 DEF HermesDeleteUndo

LEMMA HermesDeleteRunning ==
  ASSUME product = "hermes", DOMAIN host = Fields, Local(kept), HermesRuntime \/ (HermesIngress /\ pc # "refresh_ingress") \/ HermesStop,
         HermesDeletes(host), HDeletes, op \in {"delete", "create"}
  PROVE  HermesDeletes(host') /\ ((HDeletes' /\ Onward) \/ HDeleted)
<1> DEFINE Out == Caller("runtime.stop", "fail", "raise")
<1>0. Parts = {"data"}
  BY DEF Parts, PartsOf
<1>1. \A t \in Results : Answer(Passing, t) = IF t \in {"ok", "raise"} THEN t ELSE "fail"
  BY Answers DEF Passing, Results
<1>2. \A t \in Results : Answer(Out, t) = IF t = "ok" THEN "runtime.stop" ELSE IF t = "raise" THEN "raise" ELSE "fail"
  BY Answers DEF Results
<1>3. \A t \in Results : Answer(Retracting, t) \in Results \ {"ok"}
  BY Answers DEF Results, Retracting
<1>4. ASSUME Went(pc', stack', kept')
      PROVE  /\ Parts' = Parts /\ Over(Retracting)' = Over(Retracting)
             /\ Over2(Passing, Retracting)' = Over2(Passing, Retracting) /\ Over2(Out, Retracting)' = Over2(Out, Retracting)
  BY <1>4 DEF Went, Parts, Over, Over2
<1>5. ASSUME NEW r \in Results \ {"ok"}, Ended(r)
      PROVE  HDeleted
  BY <1>5 DEF HDeleted
<1> HIDE DEF Out
<1>6. CASE HermesRuntime
  <2>1. pc \in HRuntime
    BY <1>6 DEF HermesRuntime, Runs, WaitForDashboard, Reads, Calls, HRuntime
  <2>2. host.home = Parts /\ stack = Over(Retracting)
    BY <2>1 DEF HDeletes, HDelete, HDeleteUndo, HRuntime, HIngress, HStop
  <2>3. \A t, k : To(t, k) /\ t \in Results => \E r \in Results \ {"ok"} : Ended(r)
    BY <1>3, <2>2, OverOne, Finals DEF Results
  <2>4. \A t, k : To(t, k) /\ t \notin Results => Went(t, Over(Retracting), k)
    BY <2>2, Within
  <2>5. HermesDeletes(host') /\ host'.home = host.home
    BY <1>0, <1>6, <2>2, HermesRunning, HermesInPlace DEF Beside, HermesDeletes, Container
  <2>6. CASE \E t \in HRuntime \cup {"fail", "raise"} : To(t, kept)
    <3>1. PICK t \in HRuntime \cup {"fail", "raise"} : To(t, kept)
      BY <2>6
    <3>2. CASE t \in {"fail", "raise"}
      BY <1>5, <2>3, <2>5, <3>1, <3>2 DEF Results
    <3>3. CASE t \in HRuntime
      <4>1. Went(t, Over(Retracting), kept)
        BY <2>4, <3>1, <3>3 DEF HRuntime, Results
      <4> QED BY <1>4, <2>2, <2>5, <3>3, <4>1 DEF Went, HDeletes, HRuntime, Onward
    <3> QED BY <3>1, <3>2, <3>3
  <2>7. CASE Calls("runtime.ingress", "ingress", kept, IF kept.running THEN "ok" ELSE "runtime.stop", "fail", "raise")
    <3>1. Calls("runtime.ingress", "ingress", kept, "ok", "fail", "raise")
          \/ Calls("runtime.ingress", "ingress", kept, "runtime.stop", "fail", "raise")
      BY <2>7
    <3>2. PICK c \in {Passing, Out} : host' = host /\ Went("ingress", Over2(c, Retracting), kept)
      BY <2>2, <3>1, CallsAbove DEF Passing, Out
    <3> QED BY <1>4, <2>2, <2>5, <3>2 DEF Went, HDeletes, HIngress, Onward, Out
  <2>8. CASE Calls("runtime.stop", "stop", kept, "ok", "fail", "raise")
    <3>1. host' = host /\ Went("stop", Over2(Passing, Retracting), kept)
      BY <2>2, <2>8, CallsAbove DEF Passing
    <3> QED BY <1>4, <2>2, <2>5, <3>1 DEF Went, HDeletes, HStop, Onward
  <2> QED BY <1>6, <2>6, <2>7, <2>8, HermesRunning
<1>7. ASSUME NEW c \in {Passing, Out}, stack = Over2(c, Retracting), NEW t \in Results, NEW k, To(t, k), HermesDeletes(host'), host'.home = Parts
      PROVE  (HDeletes' /\ Onward) \/ HDeleted
  <2>1. CASE Answer(c, t) \notin Results
    <3>1. Answer(c, t) = "runtime.stop"
      BY <1>1, <1>2, <2>1 DEF Results
    <3>2. Went("runtime.stop", Over(Retracting), k)
      BY <1>7, <2>1, <3>1, OverTwo DEF Results
    <3> QED BY <1>4, <1>7, <3>2 DEF Went, HDeletes, HRuntime, Onward
  <2>2. CASE Answer(c, t) \in Results
    <3>1. Answer(Retracting, Answer(c, t)) \in Results \ {"ok"}
      BY <1>3, <2>2
    <3>2. Ended(Final(Answer(Retracting, Answer(c, t))))
      BY <1>7, <2>2, <3>1, OverTwo
    <3> QED BY <1>5, <3>1, <3>2, Finals
  <2> QED BY <2>1, <2>2
<1>8. CASE HermesIngress /\ pc # "refresh_ingress"
  <2>1. pc \in HIngress /\ Aside(host')
    BY <1>8, HermesPublishing
  <2>2. host.home = Parts /\ \E c \in {Passing, Out} : stack = Over2(c, Retracting)
    BY <2>1 DEF HDeletes, HDelete, HDeleteUndo, HRuntime, HIngress, HStop, Out
  <2>3. PICK c \in {Passing, Out} : stack = Over2(c, Retracting)
    BY <2>2
  <2>4. PICK k, t : t \in HIngress \cup {"ok", "fail", "raise"} /\ To(t, k)
    BY <1>8, HermesPublishing
  <2>5. HermesDeletes(host') /\ host'.home = Parts
    BY <1>0, <2>1, <2>2, HermesInPlace DEF Aside, Beside, HermesDeletes
  <2>6. CASE t \in HIngress
    <3>1. Went(t, Over2(c, Retracting), k)
      BY <2>3, <2>4, <2>6, Within DEF HIngress, Results
    <3> QED BY <1>4, <2>2, <2>3, <2>5, <2>6, <3>1 DEF Went, HDeletes, HIngress, Onward, Out
  <2>7. CASE t \in {"ok", "fail", "raise"}
    BY <1>7, <2>3, <2>4, <2>5, <2>7 DEF Results
  <2> QED BY <2>4, <2>6, <2>7
<1>9. CASE HermesStop
  <2>1. pc \in HStop /\ Beside(host')
    BY <1>9, HermesStopping
  <2>2. host.home = Parts /\ stack = Over2(Passing, Retracting)
    BY <2>1 DEF HDeletes, HDelete, HDeleteUndo, HRuntime, HIngress, HStop
  <2>4. PICK t : t \in HStop \cup {"ok", "fail", "raise"} /\ To(t, kept)
    BY <1>9, HermesStopping
  <2>5. HermesDeletes(host') /\ host'.home = Parts
    BY <1>0, <1>9, <2>1, <2>2, HermesStopping, HermesInPlace DEF Beside, HermesDeletes, Container
  <2>6. CASE t \in HStop
    <3>1. Went(t, Over2(Passing, Retracting), kept)
      BY <2>2, <2>4, <2>6, Within DEF HStop, Results
    <3> QED BY <1>4, <2>2, <2>5, <2>6, <3>1 DEF Went, HDeletes, HStop, Onward
  <2>7. CASE t \in {"ok", "fail", "raise"}
    BY <1>7, <2>2, <2>4, <2>5, <2>7 DEF Results
  <2> QED BY <2>4, <2>6, <2>7
<1> QED BY <1>6, <1>8, <1>9

------------------------------------------------------------------------------
(* Hermes: creation *)

HCreate == {"create", "create.look", "create.net", "create.port", "create.run", "create.wait", "create.undo.same",
            "create.undo", "create.undo.files", "create.undo.net", "create.publish", "create.retract"}

CreateAt(p, h) ==
  /\ p \in {"create.look", "create.net", "create.port", "create.run", "create.wait", "create.publish",
            "create.retract"} => h.home = Parts
  /\ p \in {"create.publish", "create.retract"} => h.main = "running"

LEMMA HermesCreating ==
  ASSUME DOMAIN host = Fields, HermesCreate, HermesCreates(host), CreateAt(pc, host)
  PROVE  /\ pc \in HCreate /\ HermesCreates(host')
         /\ \/ \E k : \E t \in HCreate \cup {"rolledback", "raise"} : To(t, k) /\ CreateAt(t, host')
            \/ Calls("create.publish", "ingress", NoLocals, "ok", "create.retract", "raise")
            \/ Calls("create.retract", "delete", NoLocals, "rolledback", "manual", "raise")
<1> USE DEF Container, HCreate, CreateAt, HermesCreates, Aside, Beside
<1>1. CASE Writes("create", [host EXCEPT !.home = Parts], {}, "create.look", "create.undo")
  BY <1>1 DEF Writes, Fields
<1>2. CASE Tries("create.look", {host}, Locals([net |-> host.net]), "create.net", "create.undo")
  BY <1>2 DEF Tries, Fields
<1>3. CASE Runs("create.net", {[host EXCEPT !.net = TRUE]}, {}, "create.port", "create.undo.same", "create.undo.same")
  BY <1>3 DEF Runs, Fields
<1>4. CASE Runs("create.port", {host}, {}, "create.run", "create.undo", "create.undo")
  BY <1>4 DEF Runs, Fields
<1>5. CASE Runs("create.run", RanMain("old"), CreatedMain("old"), "create.wait", "create.undo", "create.undo")
  BY <1>5, MainEffects, Effects DEF Runs
<1>6. CASE WaitForDashboard("create.wait", "create.publish", "create.undo", "create.undo")
  BY <1>6, Effects DEF WaitForDashboard, Reads, AllUp
<1>7. CASE Decides("create.undo.same", "create.undo", Locals([net |-> TRUE]))
  BY <1>7, Effects DEF Decides
<1>8. CASE Tries("create.undo", Removed({"main"}), kept, "create.undo.files", "raise")
  BY <1>8, MainEffects, Effects DEF Tries
<1>9. CASE Tries("create.undo.files", {[host EXCEPT !.home = {}]}, kept, "create.undo.net", "create.undo.net")
  BY <1>9 DEF Tries, Fields
<1>10. CASE kept.net /\ Decides("create.undo.net", "rolledback", kept)
  BY <1>10, Effects DEF Decides
<1>11. CASE ~kept.net /\ Tries("create.undo.net", {[host EXCEPT !.net = FALSE]}, kept, "rolledback", "raise")
  BY <1>11 DEF Tries, Fields
<1>12. CASE Calls("create.publish", "ingress", NoLocals, "ok", "create.retract", "raise")
  BY <1>12, CallsFrom DEF Calls
<1>13. CASE Calls("create.retract", "delete", NoLocals, "rolledback", "manual", "raise")
  BY <1>13, CallsFrom DEF Calls
<1> QED BY <1>1, <1>2, <1>3, <1>4, <1>5, <1>6, <1>7, <1>8, <1>9, <1>10, <1>11, <1>12, <1>13 DEF HermesCreate

HRestore == {"restore", "restore.look", "restore.move", "restore.client", "restore.runtime", "restore.entry"}
HRestoreUndo == {"restore.undo", "restore.undo.failed", "restore.undo.files", "restore.undo.reload",
                 "restore.undo.unloaded", "restore.undo.link", "restore.undo.linked", "restore.undo.net",
                 "restore.undo.kept", "restore.undo.move", "restore.undo.lost", "restore.undo.end"}

\* which function a step belongs to
LEMMA HermesFunctions ==
  /\ HermesStop => pc \in HStop
  /\ HermesStart => pc \in HStart
  /\ HermesRestart => pc \in HRestart
  /\ HermesIngress => pc \in HIngress \cup {"refresh_ingress"}
  /\ HermesRuntime => pc \in HRuntime
  /\ HermesCreate => pc \in HCreate
  /\ HermesDelete => pc \in HDelete
  /\ HermesDeleteUndo => pc \in HDeleteUndo
  /\ HermesRestore => pc \in HRestore
  /\ HermesRestoreUndo => pc \in HRestoreUndo
  /\ HermesPurge => pc \in {"purge_deleted", "purge.tree"}
  /\ HermesUpdate => pc \in HUpdate \cup {"update_version"}
<1> USE DEF WaitForDashboard, Runs, Tries, Reads, Writes, Decides, Calls, Moves
<1>1. HermesStop => pc \in HStop
  BY DEF HermesStop, HStop
<1>2. HermesStart => pc \in HStart
  BY DEF HermesStart, HStart
<1>3. HermesRestart => pc \in HRestart
  BY DEF HermesRestart, HRestart
<1>4. HermesIngress => pc \in HIngress \cup {"refresh_ingress"}
  BY DEF HermesIngress, HIngress
<1>5. HermesRuntime => pc \in HRuntime
  BY DEF HermesRuntime, HRuntime
<1>6. HermesCreate => pc \in HCreate
  BY DEF HermesCreate, HCreate
<1>7. HermesDelete => pc \in HDelete
  BY DEF HermesDelete, HDelete
<1>8. HermesDeleteUndo => pc \in HDeleteUndo
  BY DEF HermesDeleteUndo, HDeleteUndo
<1>9. HermesRestore => pc \in HRestore
  BY DEF HermesRestore, HRestore
<1>10. HermesRestoreUndo => pc \in HRestoreUndo
  BY DEF HermesRestoreUndo, HRestoreUndo
<1>11. HermesPurge => pc \in {"purge_deleted", "purge.tree"}
  BY DEF HermesPurge
<1>12. HermesUpdate => pc \in HUpdate \cup {"update_version"}
  BY DEF HermesUpdate, HUpdate
<1> QED BY <1>1, <1>2, <1>3, <1>4, <1>5, <1>6, <1>7, <1>8, <1>9, <1>10, <1>11, <1>12

Retracts == Caller("ok", "create.retract", "raise")
HCreates ==
  \/ /\ HermesCreates(host) /\ CreateAt(pc, host)
     /\ \/ pc \in HCreate /\ stack = <<>>
        \/ pc \in HIngress /\ stack = <<Retracts>> /\ host.home = Parts /\ host.main = "running"
  \/ HermesDeletes(host) /\ HDeletes
HCreated == HermesCreates(host') /\ host'.home = Parts /\ host'.main = "running"

LEMMA HermesCreatingOn ==
  ASSUME product = "hermes", op = "create", DOMAIN host = Fields, Local(kept), host.main \in Container, HCreates,
         HermesStep
  PROVE  /\ HermesCreates(host') \/ HermesDeletes(host')
         /\ (HCreates' /\ Onward) \/ Closes(HCreated)
<1>0. Parts = {"data"}
  BY DEF Parts, PartsOf
<1> USE DEF HStop, HStart, HRestart, HIngress, HRuntime, HCreate, HDelete, HDeleteUndo, HRestore, HRestoreUndo, HUpdate
<1>1. CASE HermesCreates(host) /\ CreateAt(pc, host) /\ pc \in HCreate /\ stack = <<>>
  <2>1. HermesCreate
    BY <1>1, HermesFunctions DEF HermesStep
  <2>2. HermesCreates(host')
    BY <1>1, <2>1, HermesCreating
  <2>3. ASSUME NEW k, NEW t \in HCreate \cup {"rolledback", "raise"}, To(t, k), CreateAt(t, host')
        PROVE  (HCreates' /\ Onward) \/ Closes(HCreated)
    <3>1. CASE t \in {"rolledback", "raise"}
      <4>1. Ended(t)
        BY <1>1, <2>3, <3>1, NoCaller DEF Results
      <4> QED BY <3>1, <4>1 DEF Closes, Results
    <3>2. CASE t \in HCreate
      <4>1. Went(t, <<>>, k)
        BY <1>1, <2>3, <3>2, Within DEF Results
      <4>2. Parts' = Parts
        BY <4>1 DEF Went, Parts
      <4>3. CreateAt(pc', host') <=> CreateAt(pc, host)'
        BY <4>2 DEF CreateAt
      <4>4. HermesCreates(host') <=> HermesCreates(host)'
        BY <4>2 DEF HermesCreates
      <4> HIDE DEF HIngress, HRuntime, HCreate, HDelete, HDeleteUndo
      <4>5. t # "idle"
        BY <3>2 DEF HCreate
      <4> QED BY <2>2, <2>3, <3>2, <4>1, <4>3, <4>4, <4>5 DEF HCreates, Went, Onward
    <3> QED BY <2>3, <3>1, <3>2
  <2>4. CASE Calls("create.publish", "ingress", NoLocals, "ok", "create.retract", "raise")
    <3>1. host' = host /\ Went("ingress", <<Retracts>>, NoLocals) /\ host.home = Parts /\ host.main = "running"
      BY <1>1, <2>4, CallsFrom DEF Retracts, CreateAt
    <3>2. Parts' = Parts /\ Retracts' = Retracts
      BY <3>1 DEF Went, Parts, Retracts, Caller
    <3> QED BY <1>1, <3>1, <3>2 DEF HCreates, Went, Onward, HermesCreates, CreateAt
  <2>5. CASE Calls("create.retract", "delete", NoLocals, "rolledback", "manual", "raise")
    <3>1. host' = host /\ Went("delete", <<Retracting>>, NoLocals) /\ host.home = Parts /\ host.main = "running"
      BY <1>1, <2>5, CallsFrom DEF Retracting, CreateAt
    <3>2. Parts' = Parts /\ op' = op /\ Above' = <<Retracting>> /\ WasOn' = TRUE
      BY <3>1 DEF Went, Parts, Above, WasOn
    <3>3. HermesDeletes(host)'
      BY <1>1, <3>1, <3>2 DEF HermesDeletes, HermesCreates
    <3>4. DeleteAt(pc, kept, host)'
      BY <3>1, <3>2 DEF DeleteAt, Went
    <3>5. HDeletes'
      BY <3>1, <3>2, <3>4 DEF HDeletes, Went
    <3> QED BY <2>2, <3>1, <3>3, <3>5 DEF HCreates, Went, Onward
  <2> QED BY <1>1, <2>1, <2>2, <2>3, <2>4, <2>5, HermesCreating
<1>2. CASE HermesCreates(host) /\ pc \in HIngress /\ stack = <<Retracts>> /\ host.home = Parts /\ host.main = "running"
  <2>1. HermesIngress /\ pc # "refresh_ingress"
    BY <1>2, HermesFunctions DEF HermesStep
  <2>2. Aside(host')
    BY <2>1, HermesPublishing
  <2>3. HCreated
    BY <1>2, <2>2 DEF HCreated, HermesCreates, Aside, Beside
  <2>4. PICK k, t : t \in HIngress \cup {"ok", "fail", "raise"} /\ To(t, k)
    BY <2>1, HermesPublishing
  <2>5. CASE t \in HIngress
    <3>1. Went(t, <<Retracts>>, k)
      BY <1>2, <2>4, <2>5, Within DEF Results
    <3>2. Parts' = Parts /\ Retracts' = Retracts
      BY <3>1 DEF Went, Parts, Retracts, Caller
    <3> QED BY <2>3, <2>5, <3>1, <3>2 DEF HCreates, Went, Onward, HCreated, HermesCreates, CreateAt
  <2>6. CASE t \in {"ok", "fail", "raise"}
    <3>1. Answer(Retracts, t) = IF t = "fail" THEN "create.retract" ELSE t
      BY <2>6, Answers DEF Retracts
    <3>2. CASE t = "fail"
      <4>1. Went("create.retract", <<>>, k)
        BY <1>2, <2>4, <3>1, <3>2, OneCaller DEF Results
      <4>2. Parts' = Parts
        BY <4>1 DEF Went, Parts
      <4> QED BY <2>3, <4>1, <4>2 DEF HCreates, Went, Onward, HCreated, HermesCreates, CreateAt
    <3>3. CASE t # "fail"
      <4>1. Ended(t)
        BY <1>2, <2>4, <2>6, <3>1, <3>3, OneCaller DEF Results
      <4> QED BY <2>3, <2>6, <4>1 DEF Closes, Results, HCreated
    <3> QED BY <3>2, <3>3
  <2> QED BY <2>3, <2>4, <2>5, <2>6 DEF HCreated
<1>3. CASE HermesDeletes(host) /\ HDeletes
  <2>1. pc \in HDelete \cup HDeleteUndo \cup HRuntime \cup HIngress \cup HStop
    BY <1>3 DEF HDeletes
  <2>2. HermesDelete \/ HermesDeleteUndo \/ HermesRuntime \/ HermesIngress \/ HermesStop
    BY <2>1, HermesFunctions DEF HermesStep
  <2>3. HermesDeletes(host') /\ ((HDeletes' /\ Onward) \/ HDeleted)
    BY <1>3, <2>1, <2>2, HermesDeletingOn, HermesDeleteUndoing, HermesDeleteRunning
  <2>4. HDeleted => Closes(HCreated)
    BY DEF HDeleted, Closes
  <2>5. Onward /\ HermesDeletes(host') => HermesDeletes(host)'
    BY DEF Onward, HermesDeletes, Parts, WasOn, Was
  <2> QED BY <2>3, <2>4, <2>5 DEF HCreates
<1> QED BY <1>1, <1>2, <1>3 DEF HCreates

------------------------------------------------------------------------------
(* Hermes: restore *)

\* as the manifest says
AsNoted(h) == h.main = (IF Was.note.running THEN "running" ELSE "stopped")

RestoreAt(p, k, h) ==
  /\ p = "restore.look" => h.recycle = "listed"
  /\ p \in {"restore.move", "restore.client", "restore.runtime"} => k.running = Was.note.running
  /\ p \in {"restore.client", "restore.runtime", "restore.entry", "ok"} => h.home = Parts
  /\ p \in {"restore.entry", "ok"} => AsNoted(h)
  /\ p = "ok" => h.recycle = "none"

LEMMA HermesRestoring ==
  ASSUME product = "hermes", DOMAIN host = Fields, Local(kept), HermesRestore, pc # "restore",
         HermesRestores(host), RestoreAt(pc, kept, host)
  PROVE  /\ HermesRestores(host')
         /\ \/ \E k : \E t \in (HRestore \ {"restore"}) \cup {"restore.undo", "ok", "fail", "raise"} : To(t, k) /\ RestoreAt(t, k, host')
            \/ Calls("restore.runtime", "runtime", kept, "restore.entry", "restore.undo", "restore.undo")
<1> DEFINE k0 == Locals([image |-> host.note.image, running |-> host.note.running, net |-> host.net,
                   linked |-> host.linked, conf |-> host.conf, mapped |-> host.mapped])
<1>0. Parts = {"data"}
  BY DEF Parts, PartsOf
<1>1. k0.running = host.note.running
  BY DEF Locals, Local, LocalNames
<1> HIDE DEF k0
<1> USE DEF Container, RestoreAt, HRestore, HermesRestores, Aside, Beside, AsNoted
<1>2. CASE Decides("restore", IF host.home = {} /\ host.bin = Parts /\ host.recycle = "listed"
                        THEN "restore.look" ELSE "fail", kept)
  BY <1>2 DEF Decides
<1>3. CASE Reads("restore.look", TRUE, k0, "restore.move", "fail", "raise")
  BY <1>1, <1>3, Effects DEF Reads
<1>4. CASE Moves("restore.move", host.bin, "bin", "home", "restore.client", "restore.undo")
  <2>1. host.bin \in SUBSET Parts
    BY <1>0
  <2>2. /\ pc = "restore.move" /\ Carried(host')
        /\ \/ host' = host /\ host.bin = {} /\ To("restore.client", kept)
           \/ host' = host /\ To("restore.undo", kept)
           \/ /\ host.bin # {} /\ First(host.bin) \in host.bin /\ To("restore.move", kept)
              /\ host'["bin"] = host["bin"] \ {First(host.bin)} /\ host'["home"] = host["home"] \cup {First(host.bin)}
    BY <1>4, <2>1, MovesOn
  <2>3. host'.home = host'["home"] /\ host'.bin = host'["bin"] /\ host.home = host["home"] /\ host.bin = host["bin"]
    OBVIOUS
  <2> QED BY <1>0, <1>1, <2>2, <2>3 DEF Carried
<1>5. CASE Writes("restore.client", host, {}, "restore.runtime", "restore.undo")
  BY <1>1, <1>5, Effects DEF Writes, Fields
<1>6. CASE Calls("restore.runtime", "runtime", kept, "restore.entry", "restore.undo", "restore.undo")
  BY <1>1, <1>6, CallsFrom DEF Calls
<1>7. CASE Writes("restore.entry", [host EXCEPT !.recycle = "none", !.note = NoNote],
            {[host EXCEPT !.recycle = "dir", !.note = NoNote]}, "ok", "restore.undo")
  <2>1. /\ pc = "restore.entry" /\ host'.home = host.home /\ host'.bin = host.bin /\ host'.main = host.main /\ host'.older = host.older
        /\ \/ host'.recycle = "none" /\ To("ok", kept)
           \/ (host'.recycle = "dir" \/ host' = host) /\ To("restore.undo", kept)
    BY <1>7 DEF Writes, Fields
  <2> QED BY <2>1
<1> QED BY <1>2, <1>3, <1>4, <1>5, <1>6, <1>7 DEF HermesRestore, k0

LEMMA HermesRestoreUndoing ==
  ASSUME product = "hermes", DOMAIN host = Fields, HermesRestoreUndo, HermesRestores(host)
  PROVE  /\ HermesRestores(host')
         /\ \E k : \E t \in HRestoreUndo \cup {"raise", "manual", "rolledback"} : To(t, k)
<1>0. Parts = {"data"}
  BY DEF Parts, PartsOf
<1> USE DEF Container, HRestoreUndo, HermesRestores, Aside, Beside
<1>2. CASE Runs("restore.undo", Removed({"main"}), {}, "restore.undo.files", "restore.undo.failed", "raise")
  BY <1>2, MainEffects, Effects DEF Runs
<1>3. CASE Decides("restore.undo.failed", "restore.undo.files", Failed)
  BY <1>3, Effects DEF Decides
<1>4. CASE Writes("restore.undo.files", OldIngress, {}, "restore.undo.reload", "raise")
  BY <1>4 DEF Writes, Fields, OldIngress
<1>5. CASE Runs("restore.undo.reload", Reloaded, {}, "restore.undo.link", "restore.undo.unloaded", "raise")
  BY <1>5, MainEffects, Effects DEF Runs
<1>6. CASE Decides("restore.undo.unloaded", "restore.undo.link", Failed)
  BY <1>6, Effects DEF Decides
<1>7. CASE kept.linked /\ Decides("restore.undo.link", "restore.undo.net", kept)
  BY <1>7, Effects DEF Decides
<1>8. CASE ~kept.linked /\ Runs("restore.undo.link", {[host EXCEPT !.linked = FALSE]}, {}, "restore.undo.net",
                          "restore.undo.linked", "raise")
  BY <1>8 DEF Runs, Fields
<1>9. CASE Decides("restore.undo.linked", "restore.undo.net", Failed)
  BY <1>9, Effects DEF Decides
<1>10. CASE kept.net /\ Decides("restore.undo.net", "restore.undo.move", kept)
  BY <1>10, Effects DEF Decides
<1>11. CASE ~kept.net /\ Runs("restore.undo.net", {[host EXCEPT !.net = FALSE]}, {}, "restore.undo.move",
                       "restore.undo.kept", "raise")
  BY <1>11 DEF Runs, Fields
<1>12. CASE Decides("restore.undo.kept", "restore.undo.move", Failed)
  BY <1>12, Effects DEF Decides
<1>13. CASE Moves("restore.undo.move", host.home \ host.bin, "home", "bin", "restore.undo.end", "restore.undo.lost")
  <2>1. host.home \ host.bin \in SUBSET Parts
    BY <1>0
  <2>2. /\ Carried(host')
        /\ \/ host' = host /\ To("restore.undo.end", kept)
           \/ host' = host /\ To("restore.undo.lost", kept)
           \/ /\ host.home \ host.bin # {} /\ First(host.home \ host.bin) \in host.home \ host.bin /\ To("restore.undo.move", kept)
              /\ host'["home"] = host["home"] \ {First(host.home \ host.bin)}
              /\ host'["bin"] = host["bin"] \cup {First(host.home \ host.bin)}
    BY <1>13, <2>1, MovesOn
  <2>3. host'.home = host'["home"] /\ host'.bin = host'["bin"] /\ host.home = host["home"] /\ host.bin = host["bin"]
    OBVIOUS
  <2> QED BY <1>0, <2>2, <2>3 DEF Carried
<1>14. CASE Decides("restore.undo.lost", "restore.undo.end", Failed)
  BY <1>14, Effects DEF Decides
<1>15. CASE Decides("restore.undo.end", IF kept.failed THEN "manual" ELSE "rolledback", kept)
  BY <1>15, Effects DEF Decides
<1> QED BY <1>2, <1>3, <1>4, <1>5, <1>6, <1>7, <1>8, <1>9, <1>10, <1>11, <1>12, <1>13, <1>14, <1>15 DEF HermesRestoreUndo

RestoreFrom == Caller("restore.entry", "restore.undo", "restore.undo")
PublishFrom == Caller(IF Was.note.running THEN "ok" ELSE "runtime.stop", "fail", "raise")

HRestores ==
  \/ CoreAs(host) /\ pc = "restore" /\ stack = <<>>
  \/ /\ HermesRestores(host)
     /\ \/ /\ pc \in (HRestore \ {"restore"}) \cup HRestoreUndo /\ stack = <<>> /\ RestoreAt(pc, kept, host)
        \/ /\ host.home = Parts /\ kept.running = Was.note.running
           /\ \/ /\ pc \in HRuntime /\ stack = <<RestoreFrom>>
                 /\ pc \in {"runtime.link", "runtime.ingress"} => host.main = "running"
                 /\ pc = "runtime.stop" => ~kept.running
              \/ pc \in HIngress /\ stack = <<PublishFrom, RestoreFrom>> /\ host.main = "running"
              \/ pc \in HStop /\ stack = <<Passing, RestoreFrom>> /\ ~kept.running
HRestored == HermesRestores(host') /\ host'.home = Parts /\ host'.recycle = "none" /\ AsNoted(host')

LEMMA HermesRestoringOn ==
  ASSUME Was.older = {}, host.main \in Container, product = "hermes", op = "restore", DOMAIN host = Fields, Local(kept), HRestores, HermesStep, Was.recycle = "listed" => Was.note.running \in BOOLEAN
  PROVE  /\ CoreAs(host') \/ HermesRestores(host')
         /\ (HRestores' /\ Onward) \/ Closes(HRestored)
<1>0. Parts = {"data"}
  BY DEF Parts, PartsOf
<1> USE DEF HStop, HStart, HRestart, HIngress, HRuntime, HCreate, HDelete, HDeleteUndo, HRestore, HRestoreUndo, HUpdate
<1>1. ASSUME Onward
      PROVE  /\ Parts' = Parts /\ Was' = Was /\ RestoreFrom' = RestoreFrom /\ PublishFrom' = PublishFrom /\ Passing' = Passing
             /\ RestoreAt(pc', kept', host') => RestoreAt(pc, kept, host)'
             /\ HermesRestores(host') => HermesRestores(host)'
  BY <1>1 DEF Onward, Parts, Was, RestoreFrom, PublishFrom, Passing, Caller, RestoreAt, HermesRestores, AsNoted
<1>2. ASSUME NEW t \in (HRestore \ {"restore"}) \cup HRestoreUndo, NEW k, Went(t, <<>>, k), HermesRestores(host'), RestoreAt(t, k, host')
      PROVE  HRestores' /\ Onward
  <2>1. t # "idle"
    BY <1>2
  <2>2. Onward
    BY <1>2, <2>1 DEF Onward, Went
  <2> HIDE DEF HIngress, HRuntime, HDelete, HDeleteUndo
  <2> QED BY <1>1, <1>2, <2>2 DEF Went, HRestores
<1>3. CASE pc = "restore"
  <2>1. CoreAs(host) /\ stack = <<>>
    BY <1>3 DEF HRestores
  <2>2. Decides("restore", IF host.home = {} /\ host.bin = Parts /\ host.recycle = "listed"
                        THEN "restore.look" ELSE "fail", kept)
    <3>1. HermesRestore
      BY <1>3, HermesFunctions DEF HermesStep
    <3> QED BY <1>3, <3>1 DEF HermesRestore, Reads, Moves, Writes, Calls
  <2>3. CASE host.home = {} /\ host.bin = Parts /\ host.recycle = "listed"
    <3>1. host' = host /\ To("restore.look", kept)
      BY <2>2, <2>3 DEF Decides
    <3>2. Went("restore.look", <<>>, kept)
      BY <2>1, <3>1, Alone DEF Results
    <3>3. HermesRestores(host') /\ RestoreAt("restore.look", kept, host')
      BY <2>1, <2>3, <3>1 DEF HermesRestores, RestoreAt, CoreAs, DataAs
    <3> QED BY <1>2, <3>2, <3>3
  <2>4. CASE ~(host.home = {} /\ host.bin = Parts /\ host.recycle = "listed")
    <3>1. host' = host /\ To("fail", kept)
      BY <2>2, <2>4 DEF Decides
    <3>2. Ended("fail") /\ "fail" \in Results
      BY <2>1, <3>1, Alone DEF Results
    <3> QED BY <2>1, <3>1, <3>2 DEF Closes, CoreAs, DataAs
  <2> QED BY <2>3, <2>4
<1>4. CASE HermesRestores(host) /\ pc \in (HRestore \ {"restore"}) \cup HRestoreUndo /\ stack = <<>> /\ RestoreAt(pc, kept, host)
  <2>1. HermesRestore \/ HermesRestoreUndo
    BY <1>4, HermesFunctions DEF HermesStep
  <2>2. HermesRestores(host')
    BY <1>4, <2>1, HermesRestoring, HermesRestoreUndoing
  <2>3. ASSUME NEW k, NEW t \in (HRestore \ {"restore"}) \cup HRestoreUndo \cup {"ok", "fail", "raise", "manual", "rolledback"},
               To(t, k), RestoreAt(t, k, host')
        PROVE  (HRestores' /\ Onward) \/ Closes(HRestored)
    <3>1. CASE t \in Results
      <4>1. Ended(t)
        BY <1>4, <2>3, <3>1, NoCaller
      <4> QED BY <2>2, <2>3, <3>1, <4>1 DEF Closes, HRestored, RestoreAt
    <3>2. CASE t \notin Results
      <4>1. Went(t, <<>>, k)
        BY <1>4, <2>3, <3>2, Within
      <4>2. t \in (HRestore \ {"restore"}) \cup HRestoreUndo
        BY <2>3, <3>2 DEF Results
      <4> QED BY <1>2, <2>2, <2>3, <4>1, <4>2
    <3> QED BY <3>1, <3>2
  <2>4. CASE HermesRestore
    <3>1. CASE Calls("restore.runtime", "runtime", kept, "restore.entry", "restore.undo", "restore.undo")
      <4>1. host' = host /\ Went("runtime", <<RestoreFrom>>, kept) /\ host.home = Parts /\ kept.running = Was.note.running
        BY <1>4, <3>1, CallsFrom DEF RestoreFrom, RestoreAt
      <4>2. Onward
        BY <4>1 DEF Went, Onward
      <4> QED BY <1>1, <2>2, <4>1, <4>2 DEF HRestores, Went
    <3> QED BY <1>4, <2>3, <2>4, <3>1, HermesRestoring
  <2>5. CASE HermesRestoreUndo
    <3>1. PICK k, t : t \in HRestoreUndo \cup {"raise", "manual", "rolledback"} /\ To(t, k)
      BY <1>4, <2>5, HermesRestoreUndoing
    <3>2. RestoreAt(t, k, host')
      BY <3>1 DEF RestoreAt
    <3>3. t \in (HRestore \ {"restore"}) \cup HRestoreUndo \cup {"ok", "fail", "raise", "manual", "rolledback"}
      BY <3>1, Zenon
    <3> QED BY <2>2, <2>3, <3>1, <3>2, <3>3, Zenon
  <2> QED BY <2>1, <2>2, <2>4, <2>5
<1>5. ASSUME NEW t \in Results, HermesRestores(host'), host'.home = Parts, kept.running = Was.note.running,
             stack = <<RestoreFrom>>, To(t, kept), t = "ok" => AsNoted(host')
      PROVE  HRestores' /\ Onward
  <2>1. Answer(RestoreFrom, t) = IF t = "ok" THEN "restore.entry" ELSE "restore.undo"
    BY Answers DEF RestoreFrom, Results
  <2>2. Went(IF t = "ok" THEN "restore.entry" ELSE "restore.undo", <<>>, kept)
    BY <1>5, <2>1, OneCaller DEF Results
  <2> HIDE DEF HStop, HIngress, HRuntime
  <2> QED BY <1>2, <1>5, <2>2 DEF RestoreAt
<1>6. ASSUME NEW t \in Results, NEW k, HermesRestores(host'), host'.home = Parts, k.running = Was.note.running,
             NEW c, stack = <<c, RestoreFrom>>, To(t, k), Answer(c, t) \in Results, Answer(c, t) = "ok" => AsNoted(host')
      PROVE  HRestores' /\ Onward
  <2>1. Answer(RestoreFrom, Answer(c, t)) = IF Answer(c, t) = "ok" THEN "restore.entry" ELSE "restore.undo"
    BY <1>6, Answers DEF RestoreFrom, Results
  <2>2. IF Answer(c, t) \notin Results THEN Went(Answer(c, t), <<RestoreFrom>>, k)
        ELSE IF Answer(RestoreFrom, Answer(c, t)) \in Results THEN Ended(Answer(RestoreFrom, Answer(c, t)))
        ELSE Went(Answer(RestoreFrom, Answer(c, t)), <<>>, k)
    BY <1>6, TwoCallers
  <2>3. Went(IF Answer(c, t) = "ok" THEN "restore.entry" ELSE "restore.undo", <<>>, k)
    BY <1>6, <2>1, <2>2 DEF Results
  <2> HIDE DEF HStop, HIngress, HRuntime
  <2> QED BY <1>2, <1>6, <2>3 DEF RestoreAt
<1>7. CASE /\ HermesRestores(host) /\ host.home = Parts /\ kept.running = Was.note.running
           /\ pc \in HRuntime /\ stack = <<RestoreFrom>>
           /\ pc \in {"runtime.link", "runtime.ingress"} => host.main = "running"
           /\ pc = "runtime.stop" => ~kept.running
  <2>1. HermesRuntime
    BY <1>7, HermesFunctions DEF HermesStep
  <2>2. HermesRestores(host') /\ host'.home = Parts
    BY <1>7, <2>1, HermesRunning DEF HermesRestores, Beside, Container
  <2>3. ASSUME NEW t \in HRuntime \cup {"fail", "raise"}, To(t, kept), RuntimeAt(t, host'), t # "runtime.stop"
        PROVE  HRestores' /\ Onward
    <3>1. CASE t \in Results
      BY <1>5, <1>7, <2>2, <2>3, <3>1 DEF Results
    <3>2. CASE t \notin Results
      <4>1. Went(t, <<RestoreFrom>>, kept) /\ t \in HRuntime
        BY <1>7, <2>3, <3>2, Within DEF Results
      <4>2. Onward
        BY <4>1 DEF Went, Onward
      <4> HIDE DEF HRuntime, HIngress, HStop
      <4> QED BY <1>1, <1>7, <2>2, <2>3, <4>1, <4>2 DEF HRestores, Went, RuntimeAt
    <3> QED BY <3>1, <3>2
  <2>4. CASE pc = "runtime.ingress" /\ Calls("runtime.ingress", "ingress", kept, IF kept.running THEN "ok" ELSE "runtime.stop", "fail", "raise")
    <3>1. host' = host /\ host.main = "running" /\ Went("ingress", <<PublishFrom, RestoreFrom>>, kept)
      BY <1>7, <2>4, CallsFrom DEF PublishFrom
    <3>2. Onward
      BY <3>1 DEF Went, Onward
    <3> QED BY <1>1, <1>7, <2>2, <3>1, <3>2 DEF HRestores, Went
  <2>5. CASE pc = "runtime.stop" /\ Calls("runtime.stop", "stop", kept, "ok", "fail", "raise")
    <3>1. host' = host /\ Went("stop", <<Passing, RestoreFrom>>, kept)
      BY <1>7, <2>5, CallsFrom DEF Passing
    <3>2. Onward
      BY <3>1 DEF Went, Onward
    <3> QED BY <1>1, <1>7, <2>2, <2>5, <3>1, <3>2 DEF HRestores, Went
  <2>6. RuntimeAt(pc, host)
    BY <1>7 DEF RuntimeAt
  <2> QED BY <2>1, <2>2, <2>3, <2>4, <2>5, <2>6, HermesRunning
<1>8. CASE /\ HermesRestores(host) /\ host.home = Parts /\ kept.running = Was.note.running
           /\ pc \in HIngress /\ stack = <<PublishFrom, RestoreFrom>> /\ host.main = "running"
  <2>1. HermesIngress /\ pc # "refresh_ingress"
    BY <1>8, HermesFunctions DEF HermesStep
  <2>2. HermesRestores(host') /\ host'.home = Parts /\ host'.main = "running"
    BY <1>8, <2>1, HermesPublishing DEF HermesRestores, Aside, Beside
  <2>3. PICK k, t : t \in HIngress \cup {"ok", "fail", "raise"} /\ To(t, k) /\ k.running = kept.running
    BY <2>1, HermesPublishing
  <2>4. CASE t \in HIngress
    <3>1. Went(t, <<PublishFrom, RestoreFrom>>, k)
      BY <1>8, <2>3, <2>4, Within DEF Results
    <3>2. Onward
      BY <2>4, <3>1 DEF Went, Onward
    <3> HIDE DEF HRuntime, HIngress, HStop
    <3> QED BY <1>1, <1>8, <2>2, <2>3, <2>4, <3>1, <3>2 DEF HRestores, Went
  <2>5. CASE t \in {"ok", "fail", "raise"}
    <3>1. Answer(PublishFrom, t) = IF t = "ok" THEN (IF Was.note.running THEN "ok" ELSE "runtime.stop") ELSE t
      BY <2>5, Answers DEF PublishFrom
    <3>2. CASE t = "ok" /\ ~Was.note.running
      <4>1. Went("runtime.stop", <<RestoreFrom>>, k)
        BY <1>8, <2>3, <3>1, <3>2, TwoCallers DEF Results
      <4>2. Onward
        BY <4>1 DEF Went, Onward
      <4> QED BY <1>1, <1>8, <2>2, <2>3, <3>2, <4>1, <4>2 DEF HRestores, Went
    <3>3. CASE ~(t = "ok" /\ ~Was.note.running)
      <4>1. Answer(PublishFrom, t) \in Results /\ (Answer(PublishFrom, t) = "ok" => AsNoted(host'))
        BY <2>2, <2>5, <3>1, <3>3 DEF Results, AsNoted
      <4> QED BY <1>6, <1>8, <2>2, <2>3, <2>5, <4>1 DEF Results
    <3> QED BY <3>2, <3>3
  <2> QED BY <2>2, <2>3, <2>4, <2>5
<1>9. CASE /\ HermesRestores(host) /\ host.home = Parts /\ kept.running = Was.note.running
           /\ pc \in HStop /\ stack = <<Passing, RestoreFrom>> /\ ~kept.running
  <2>1. HermesStop
    BY <1>9, HermesFunctions DEF HermesStep
  <2>2. HermesRestores(host') /\ host'.home = Parts
    BY <1>9, <2>1, HermesStopping DEF HermesRestores, Beside, Container
  <2>3. PICK t : t \in HStop \cup {"ok", "fail", "raise"} /\ To(t, kept) /\ (t = "ok" => host'.main = "stopped")
    BY <2>1, HermesStopping
  <2>4. CASE t \in HStop
    <3>1. Went(t, <<Passing, RestoreFrom>>, kept)
      BY <1>9, <2>3, <2>4, Within DEF Results
    <3>2. Onward
      BY <2>4, <3>1 DEF Went, Onward
    <3> HIDE DEF HRuntime, HIngress, HStop
    <3> QED BY <1>1, <1>9, <2>2, <2>3, <2>4, <3>1, <3>2 DEF HRestores, Went
  <2>5. CASE t \in {"ok", "fail", "raise"}
    <3>1. Answer(Passing, t) = t
      BY <2>5, Answers DEF Passing
    <3>2. Answer(Passing, t) \in Results /\ (Answer(Passing, t) = "ok" => AsNoted(host'))
      BY <1>9, <2>3, <2>5, <3>1 DEF Results, AsNoted
    <3> QED BY <1>6, <1>9, <2>2, <2>3, <2>5, <3>2 DEF Results
  <2> QED BY <2>2, <2>3, <2>4, <2>5
<1> QED BY <1>3, <1>4, <1>7, <1>8, <1>9 DEF HRestores

------------------------------------------------------------------------------
(* Hermes: every request *)

HermesUnder ==
  CASE op = "start"              -> HermesServes(host) /\ HStarts
    [] op = "stop"               -> HermesServes(host) /\ HStops
    [] op = "restart"            -> HermesServes(host) /\ HRestarts
    [] op = "update_version"     -> HermesServes(host) /\ HUpdates
    [] op = "refresh_ingress"    -> CoreAs(host) /\ HRefreshes
    [] op = "set_model_provider" -> CoreAs(host) /\ Sets
    [] op = "purge_deleted"      -> CoreAs(host) /\ HPurges
    [] op = "delete"  -> (CoreAs(host) /\ pc = "delete" /\ stack = <<>>) \/ (HermesDeletes(host) /\ HDeletes)
    [] op = "create"  -> HCreates
    [] op = "restore" -> HRestores

HermesGoes  == HermesUnder' /\ Onward /\ HermesLeaves(host')
HermesCloses ==
  \E r \in Results : Ended(r) /\ IF r = "ok" THEN HermesDone(host') /\ (HermesLeaves(host') \/ op = "purge_deleted")
                                ELSE HermesLeaves(host')

LEMMA HermesStays ==
  ASSUME Onward
  PROVE  /\ Was' = Was /\ Parts' = Parts /\ WasOn' = WasOn /\ op' = op /\ pc' # "idle" /\ product' = product
         /\ HermesServes(host') => HermesServes(host)'
         /\ CoreAs(host') => CoreAs(host)'
         /\ HermesDeletes(host') => HermesDeletes(host)'
<1>0. op' = op /\ before' = before /\ pc' # "idle" /\ product' = product
  BY DEF Onward
<1>1. Was' = Was /\ Parts' = Parts
  BY <1>0 DEF Was, Parts
<1>2. WasOn' = WasOn
  BY <1>0, <1>1 DEF WasOn
<1> QED BY <1>0, <1>1, <1>2 DEF HermesServes, CoreAs, DataAs, HermesDeletes

\* the first step of a deletion
LEMMA HermesDeleteBegins ==
  ASSUME product = "hermes", op = "delete", CoreAs(host), pc = "delete", stack = <<>>, HermesDelete, host.main \in Container,
         Was.older = {}, Was.home \cap Was.bin = {}, Was.bin \subseteq Parts
  PROVE  HermesGoes \/ HermesCloses
<1>0. Parts = {"data"}
  BY DEF Parts, PartsOf
<1>1. Decides("delete", IF host.home = Parts /\ host.recycle = "none" THEN "delete.inspect" ELSE "fail", kept)
  BY DEF HermesDelete, Reads, Writes, Runs, Tries, Moves
<1>2. CASE host.home = Parts /\ host.recycle = "none"
  <2>1. host' = host /\ To("delete.inspect", kept)
    BY <1>1, <1>2 DEF Decides
  <2>2. Went("delete.inspect", <<>>, kept)
    BY <2>1, Alone DEF Results
  <2>3. Onward
    BY <2>2 DEF Went, Onward
  <2>4. HermesDeletes(host') /\ WasOn = (host.main = "running")
    <3>1. Was.bin = {}
      BY <1>0, <1>2 DEF CoreAs, DataAs
    <3> QED BY <1>2, <2>1, <3>1 DEF HermesDeletes, CoreAs, DataAs, WasOn
  <2>5. HDeletes'
    BY <1>2, <2>1, <2>2, <2>3, <2>4, HermesStays DEF HDeletes, HDelete, DeleteAt, Went, Above
  <2> QED BY <2>3, <2>4, <2>5, HermesStays DEF HermesGoes, HermesUnder, HermesLeaves
<1>3. CASE ~(host.home = Parts /\ host.recycle = "none")
  <2>1. host' = host /\ To("fail", kept)
    BY <1>1, <1>3 DEF Decides
  <2>2. Ended("fail") /\ CoreAs(host')
    BY <2>1, Alone DEF Results, CoreAs, DataAs
  <2> QED BY <2>2 DEF HermesCloses, HermesLeaves, Results
<1> QED BY <1>2, <1>3

LEMMA HermesOn ==
  ASSUME product = "hermes", op \in HermesRequest \ {"set_model_provider"}, DOMAIN host = Fields, Local(kept),
         host.main \in Container, Was.main \in Container, Was.recycle = "listed" => Was.note.running \in BOOLEAN, Was.older = {}, 
         op = "delete" => Was.home \cap Was.bin = {} /\ Was.bin \subseteq Parts, HermesUnder, HermesStep
  PROVE  HermesGoes \/ HermesCloses
<1>1. CASE op = "start"
  <2>1. HermesServes(host) /\ HStarts
    BY <1>1 DEF HermesUnder
  <2>2. HermesStart
    BY <2>1, HermesFunctions DEF HermesStep, HStarts, HStop, HStart, HRestart, HIngress, HRuntime, HCreate, HDelete, HDeleteUndo, HRestore, HRestoreUndo, HUpdate
  <2>3. HermesServes(host') /\ ((HStarts' /\ Onward) \/ Closes(host'.main = "running"))
    BY <2>1, <2>2, HermesStarting
  <2> QED BY <1>1, <2>3, HermesStays DEF HermesGoes, HermesCloses, HermesUnder, HermesLeaves, HermesDone, Closes
<1>2. CASE op = "stop"
  <2>1. HermesServes(host) /\ HStops
    BY <1>2 DEF HermesUnder
  <2>2. HermesStop
    BY <2>1, HermesFunctions DEF HermesStep, HStops, HStop, HStart, HRestart, HIngress, HRuntime, HCreate, HDelete, HDeleteUndo, HRestore, HRestoreUndo, HUpdate
  <2>3. HermesServes(host') /\ ((HStops' /\ Onward) \/ Closes(host'.main = "stopped"))
    BY <2>1, <2>2, HermesStopped
  <2> QED BY <1>2, <2>3, HermesStays DEF HermesGoes, HermesCloses, HermesUnder, HermesLeaves, HermesDone, Closes
<1>3. CASE op = "restart"
  <2>1. HermesServes(host) /\ HRestarts
    BY <1>3 DEF HermesUnder
  <2>2. HermesRestart
    BY <2>1, HermesFunctions DEF HermesStep, HRestarts, HStop, HStart, HRestart, HIngress, HRuntime, HCreate, HDelete, HDeleteUndo, HRestore, HRestoreUndo, HUpdate
  <2>3. HermesServes(host') /\ ((HRestarts' /\ Onward) \/ Closes(host'.main = "running"))
    BY <2>1, <2>2, HermesRestarting
  <2> QED BY <1>3, <2>3, HermesStays DEF HermesGoes, HermesCloses, HermesUnder, HermesLeaves, HermesDone, Closes
<1>4. CASE op = "update_version"
  <2>1. HermesServes(host) /\ HUpdates
    BY <1>4 DEF HermesUnder
  <2>2. HermesUpdate \/ HermesStop
    BY <2>1, HermesFunctions DEF HermesStep, HUpdates, HStop, HStart, HRestart, HIngress, HRuntime, HCreate, HDelete, HDeleteUndo, HRestore, HRestoreUndo, HUpdate
  <2>3. HermesServes(host') /\ ((HUpdates' /\ Onward) \/ Closes(host'.main = Was.main /\ host'.main \in {"running", "stopped"}))
    BY <2>1, <2>2, HermesUpdating, HermesUpdateStopping
  <2> QED BY <1>4, <2>3, HermesStays DEF HermesGoes, HermesCloses, HermesUnder, HermesLeaves, HermesDone, Closes
<1>5. CASE op = "refresh_ingress"
  <2>1. CoreAs(host) /\ HRefreshes
    BY <1>5 DEF HermesUnder
  <2>2. HermesIngress
    BY <2>1, HermesFunctions DEF HermesStep, HRefreshes, HStop, HStart, HRestart, HIngress, HRuntime, HCreate, HDelete, HDeleteUndo, HRestore, HRestoreUndo, HUpdate
  <2>3. CoreAs(host') /\ ((HRefreshes' /\ Onward) \/ Closes(host'.main = Was.main /\ host'.main \in {"running", "stopped"}))
    BY <2>1, <2>2, HermesRefreshing
  <2> QED BY <1>5, <2>3, HermesStays DEF HermesGoes, HermesCloses, HermesUnder, HermesLeaves, HermesDone, Closes
<1>6. CASE op = "purge_deleted"
  <2>1. CoreAs(host) /\ HPurges
    BY <1>6 DEF HermesUnder
  <2>2. HermesPurge
    BY <2>1, HermesFunctions DEF HermesStep, HPurges, HStop, HStart, HRestart, HIngress, HRuntime, HCreate, HDelete, HDeleteUndo, HRestore, HRestoreUndo, HUpdate
  <2>3. \/ CoreAs(host') /\ HPurges' /\ Onward
        \/ \E r \in Results : Ended(r) /\ IF r = "ok" THEN HermesPurges(host') /\ host'.recycle = "none"
                                          ELSE CoreAs(host') \/ (HermesPurges(host') /\ host'.recycle = "dir")
    BY <2>1, <2>2, HermesPurging
  <2> QED BY <1>6, <2>3, HermesStays DEF HermesGoes, HermesCloses, HermesUnder, HermesLeaves, HermesDone
<1>7. CASE op = "delete"
  <2>1. CASE CoreAs(host) /\ pc = "delete" /\ stack = <<>>
    <3>1. HermesDelete
      BY <2>1, HermesFunctions DEF HermesStep, HStop, HStart, HRestart, HIngress, HRuntime, HCreate, HDeleteUndo, HRestore, HRestoreUndo, HUpdate
    <3> QED BY <1>7, <2>1, <3>1, HermesDeleteBegins
  <2>2. CASE HermesDeletes(host) /\ HDeletes
    <3>1. pc \in HDelete \cup HDeleteUndo \cup HRuntime \cup HIngress \cup HStop
      BY <2>2 DEF HDeletes
    <3>2. (HermesDelete \/ HermesDeleteUndo \/ HermesRuntime \/ HermesIngress \/ HermesStop) /\ pc # "refresh_ingress"
      BY <3>1, HermesFunctions DEF HermesStep, HStop, HStart, HRestart, HIngress, HRuntime, HCreate, HDelete, HDeleteUndo, HRestore, HRestoreUndo, HUpdate
    <3>3. HermesDeletes(host') /\ ((HDeletes' /\ Onward) \/ HDeleted)
      BY <1>7, <2>2, <3>2, HermesDeletingOn, HermesDeleteUndoing, HermesDeleteRunning
    <3>4. HermesLeaves(host')
      BY <1>7, <3>3 DEF HermesLeaves
    <3>5. CASE HDeletes' /\ Onward
      BY <1>7, <3>3, <3>4, <3>5, HermesStays DEF HermesGoes, HermesUnder
    <3>6. CASE HDeleted
      <4>1. PICK r \in Results : Ended(r) /\ (r = "ok" => host'.home = {} /\ host'.recycle = "listed")
        BY <3>6 DEF HDeleted
      <4>2. r = "ok" => HermesDone(host')
        BY <1>7, <3>3, <4>1 DEF HermesDone
      <4> QED BY <3>4, <4>1, <4>2 DEF HermesCloses
    <3> QED BY <3>3, <3>5, <3>6
  <2> QED BY <1>7, <2>1, <2>2 DEF HermesUnder
<1>8. CASE op = "create"
  <2>1. HCreates
    BY <1>8 DEF HermesUnder
  <2>2. /\ HermesCreates(host') \/ HermesDeletes(host')
        /\ (HCreates' /\ Onward) \/ Closes(HCreated)
    BY <1>8, <2>1, HermesCreatingOn
  <2> QED BY <1>8, <2>2, HermesStays DEF HermesGoes, HermesCloses, HermesUnder, HermesLeaves, HermesDone, Closes, HCreated
<1>9. CASE op = "restore"
  <2>1. HRestores
    BY <1>9 DEF HermesUnder
  <2>2. /\ CoreAs(host') \/ HermesRestores(host')
        /\ (HRestores' /\ Onward) \/ Closes(HRestored)
    BY <1>9, <2>1, HermesRestoringOn
  <2> QED BY <1>9, <2>2, HermesStays DEF HermesGoes, HermesCloses, HermesUnder, HermesLeaves, HermesDone, Closes, HRestored, AsNoted
<1> QED BY <1>1, <1>2, <1>3, <1>4, <1>5, <1>6, <1>7, <1>8, <1>9 DEF HermesRequest

------------------------------------------------------------------------------
(* The promise, step by step *)

\* An operation begins on what is there, goes on, or comes to one of its ends.
Opened ==
  /\ pc = "idle" /\ pc' # "idle" /\ op' \in Promised!Operation /\ outcome' = "none" /\ UNCHANGED product
  /\ RuntimeOf(before'.host) = RuntimeOf(host) /\ HuskOf(before'.host) = HuskOf(host)
  /\ ~CleanedUp /\ ~CleanedUp'
GoesOn == pc # "idle" /\ Onward
Concluded ==
  /\ pc # "idle" /\ pc' = "idle" /\ op \in Promised!Operation /\ UNCHANGED <<product, op, before>>
  /\ outcome' \in Results \cup {"killed"}
  /\ IF outcome' = "ok" THEN EndsWell(host') ELSE EndsBadly(host')
  /\ ~CleanedUp /\ ~CleanedUp'

\* What Begin leaves of the state.
LEMMA BeginOpens ==
  ASSUME NEW a \in Promised!Operation, Begin(a), Admitted(a), ~CleanedUp, DataInv
  PROVE  /\ Opened /\ op' = a /\ pc' = a /\ stack' = <<>> /\ kept' = kept /\ row' = row /\ host' = host
         /\ Was' = host /\ Parts' = Parts /\ CoreAs(host)' /\ Admitted(a)' /\ product' = product
<1> USE DEF Begin
<1>1. stack = <<>>
  BY DEF DataInv, Placed
<1>2. Was' = host /\ host' = host
  BY DEF Was
<1>3. Parts' = Parts
  BY DEF Parts
<1>4. CoreAs(host)'
  BY <1>2 DEF CoreAs, DataAs
<1>5. ~CleanedUp'
  BY DEF CleanedUp, Admitted
<1>6. a # "idle"
  BY DEF Promised!Operation
<1>7. before'.host = host
  BY DEF Begin
<1>8. Admitted(a)'
  BY DEF Admitted
<1> QED BY <1>1, <1>2, <1>3, <1>4, <1>5, <1>6, <1>7, <1>8 DEF Opened

LEMMA KilledConcludes ==
  ASSUME Killed, op \in Promised!Operation, EndsBadly(host), op = "cleanup_failed" => row # "gone"
  PROVE  Concluded
<1>1. ~CleanedUp /\ ~CleanedUp'
  BY DEF Killed, CleanedUp, RowAfter
<1>2. outcome' = "killed" /\ host' = host
  BY DEF Killed
<1> QED BY <1>1, <1>2 DEF Killed, Concluded

------------------------------------------------------------------------------
(* Hermes keeps the promise *)

HermesFit(h) ==
  h.older = {} /\ h.main \in Container /\ (h.recycle = "listed" => h.note.running \in BOOLEAN)
HermesRested(h, r) ==
  /\ r = "new" => h = BareHost
  /\ r = "live" => h.home \cup h.bin = Parts /\ h.home \cap h.bin = {} /\ (h.home = Parts \/ h.main = "none")
  /\ r = "deleted" => h.home \cap h.bin = {}

\* The inductive invariant: what is there between two operations, and how far a
\* running one can have come.
HermesInv ==
  product = "hermes" =>
    /\ op # "cleanup_failed" /\ HermesFit(host)
    /\ IF pc = "idle" THEN HermesRested(host, row)
       ELSE /\ op \in HermesRequest /\ HermesUnder /\ HermesLeaves(host)
            /\ HermesFit(Was) /\ HermesRested(Was, row) /\ Admitted(op)

LEMMA HermesFits ==
  ASSUME HermesFit(Was), NEW h, HermesLeaves(h) \/ (op = "purge_deleted" /\ HermesPurges(h)), op \in HermesRequest
  PROVE  HermesFit(h)
<1>1. CASE CoreAs(h)
  BY <1>1 DEF CoreAs, DataAs, HermesFit
<1>2. CASE HermesServes(h)
  BY <1>2 DEF HermesServes, DataAs, HermesFit
<1>3. CASE HermesDeletes(h)
  <2>1. WasOn \in BOOLEAN
    BY DEF WasOn
  <2> QED BY <1>3, <2>1 DEF HermesDeletes, HermesFit
<1>4. CASE HermesCreates(h)
  BY <1>4 DEF HermesCreates, HermesFit
<1>5. CASE HermesRestores(h)
  BY <1>5 DEF HermesRestores, HermesFit
<1>6. CASE HermesPurges(h)
  BY <1>6 DEF HermesPurges, HermesFit
<1> QED BY <1>1, <1>2, <1>3, <1>4, <1>5, <1>6 DEF HermesLeaves, HermesRequest

LEMMA HermesRests ==
  ASSUME product = "hermes", HermesRested(Was, row), NEW h, HermesLeaves(h), op \in HermesRequest \ {"create"}, Admitted(op)
  PROVE  HermesRested(h, row)
<1>0. row \in {"live", "deleted"} /\ (op \in {"restore", "purge_deleted"} => row = "deleted")
  BY DEF Admitted, HermesRequest
<1>1. CASE CoreAs(h)
  BY <1>0, <1>1 DEF CoreAs, DataAs, HermesRested
<1>2. CASE HermesServes(h)
  BY <1>0, <1>2 DEF HermesServes, DataAs, HermesRested
<1>3. CASE HermesDeletes(h)
  BY <1>0, <1>3 DEF HermesDeletes, HermesRested
<1>5. CASE HermesRestores(h) /\ op = "restore"
  BY <1>0, <1>5 DEF HermesRestores, HermesRested
<1>6. CASE HermesPurges(h) /\ op = "purge_deleted"
  BY <1>0, <1>6 DEF HermesPurges, HermesRested
<1> QED BY <1>1, <1>2, <1>3, <1>5, <1>6 DEF HermesLeaves, HermesRequest

LEMMA HermesPlaces ==
  ASSUME op \in HermesRequest, HermesUnder
  PROVE  pc \notin {"delete.written", "restore.written"} /\ (op = "set_model_provider" <=> pc \in Providing)
<1> USE DEF HStop, HStart, HRestart, HIngress, HRuntime, HCreate, HDelete, HDeleteUndo, HRestore, HRestoreUndo, HUpdate, Providing
<1>1. CASE op \in {"start", "stop", "restart", "update_version"}
  BY <1>1 DEF HermesUnder, HStarts, HStops, HRestarts, HUpdates
<1>2. CASE op \in {"refresh_ingress", "set_model_provider", "purge_deleted"}
  BY <1>2 DEF HermesUnder, HRefreshes, Sets, HPurges
<1>3. CASE op = "delete"
  BY <1>3 DEF HermesUnder, HDeletes
<1>4. CASE op = "create"
  BY <1>4 DEF HermesUnder, HCreates, HDeletes
<1>5. CASE op = "restore"
  BY <1>5 DEF HermesUnder, HRestores
<1> QED BY <1>1, <1>2, <1>3, <1>4, <1>5 DEF HermesRequest

\* An operation that has ended leaves the instance at rest, and as it may.
LEMMA HermesEnds ==
  ASSUME product = "hermes", HermesInv, pc # "idle", op' = op, product' = product, pc' = "idle",
         NEW r \in Results \cup {"killed"}, row' = RowAfter(r),
         IF r = "ok" THEN HermesDone(host') /\ (HermesLeaves(host') \/ op = "purge_deleted")
                     ELSE HermesLeaves(host')
  PROVE  HermesInv' /\ ~CleanedUp /\ ~CleanedUp' /\ IF r = "ok" THEN EndsWell(host') ELSE EndsBadly(host')
<1>1. /\ op # "cleanup_failed" /\ op \in HermesRequest /\ HermesUnder
      /\ HermesFit(Was) /\ HermesRested(Was, row) /\ Admitted(op)
  BY DEF HermesInv
<1>2. ~CleanedUp /\ ~CleanedUp'
  BY <1>1 DEF CleanedUp
<1>3. HermesFit(host')
  <2>1. op = "purge_deleted" /\ HermesDone(host') => HermesPurges(host')
    BY DEF HermesDone
  <2> QED BY <1>1, <2>1, HermesFits
<1>4. op = "create" => Was = BareHost
  BY <1>1 DEF Admitted, HermesRested
<1>5. IF r = "ok" THEN EndsWell(host') ELSE EndsBadly(host')
  <2>1. Was.older = {} /\ host'.older = {}
    BY <1>1, <1>3 DEF HermesFit
  <2> QED BY <1>1, <1>2, <1>4, <2>1, HermesBad, HermesGood
<1>6. Parts' = Parts
  BY DEF Parts
<1>7. HermesRested(host', row')
  <2>1. pc \notin {"delete.written", "restore.written"}
    BY <1>1, HermesPlaces
  <2>2. CASE op = "create"
    <3>1. row' = IF r = "ok" THEN "live" ELSE "failed"
      BY <2>2 DEF RowAfter
    <3>2. r = "ok" => host'.home = Parts /\ host'.bin = {}
      BY <2>2 DEF HermesDone, HermesCreates
    <3> QED BY <3>1, <3>2 DEF HermesRested
  <2>3. CASE op # "create" /\ (r # "ok" \/ op \notin {"delete", "restore", "purge_deleted"})
    <3>1. row' = row
      BY <1>1, <2>1, <2>3 DEF RowAfter
    <3>2. HermesLeaves(host')
      BY <2>3
    <3> QED BY <1>1, <2>3, <3>1, <3>2, HermesRests
  <2>4. CASE op = "delete" /\ r = "ok"
    <3>1. row' = "deleted" /\ host'.home = {}
      BY <2>4 DEF RowAfter, HermesDone
    <3> QED BY <3>1 DEF HermesRested
  <2>5. CASE op = "restore" /\ r = "ok"
    <3>1. row' = "live" /\ HermesRestores(host') /\ host'.home = Parts
      BY <2>1, <2>5 DEF RowAfter, HermesDone
    <3> QED BY <3>1 DEF HermesRested, HermesRestores
  <2>6. CASE op = "purge_deleted" /\ r = "ok"
    <3>1. row' = "gone"
      BY <2>1, <2>6 DEF RowAfter
    <3> QED BY <3>1 DEF HermesRested
  <2> QED BY <2>2, <2>3, <2>4, <2>5, <2>6
<1>8. HermesRested(host', row') => HermesRested(host, row)'
  BY <1>6 DEF HermesRested
<1>9. HermesFit(host)'
  BY <1>3 DEF HermesFit
<1> QED BY <1>1, <1>2, <1>5, <1>7, <1>8, <1>9 DEF HermesInv

LEMMA HermesStaysAt ==
  ASSUME product = "hermes", HermesInv, pc # "idle", HermesGoes
  PROVE  HermesInv' /\ GoesOn
<1>1. /\ op # "cleanup_failed" /\ op \in HermesRequest
      /\ HermesFit(Was) /\ HermesRested(Was, row) /\ Admitted(op)
  BY DEF HermesInv
<1>2. HermesUnder' /\ Onward /\ HermesLeaves(host')
  BY DEF HermesGoes
<1>3. row' = row /\ op' = op /\ Was' = Was /\ Parts' = Parts /\ WasOn' = WasOn /\ pc' # "idle"
  BY <1>2, HermesStays DEF Onward
<1>4. HermesLeaves(host)'
  BY <1>2, <1>3 DEF HermesLeaves, HermesServes, CoreAs, DataAs, HermesDeletes, HermesCreates, HermesRestores, HermesPurges
<1>5. HermesFit(host')
  BY <1>1, <1>2, HermesFits
<1>6. HermesFit(host)' /\ HermesFit(Was)' /\ HermesRested(Was, row)' /\ Admitted(op)'
  BY <1>1, <1>3, <1>5 DEF HermesFit, HermesRested, Admitted
<1> QED BY <1>1, <1>2, <1>3, <1>4, <1>6 DEF HermesInv, GoesOn

\* a change of the model provider
LEMMA HermesSets ==
  ASSUME product = "hermes", HermesInv, DataInv, pc # "idle", HermesProvider
  PROVE  HermesGoes \/ HermesCloses
<1>1. DOMAIN host = Fields
  BY DEF DataInv, Placed
<1>2. Provides(ProvideSteps \cup {"ok"})
  BY <1>1, HermesProvides
<1>3. op = "set_model_provider" /\ HermesUnder
  BY <1>2, HermesPlaces DEF Provides, HermesInv
<1>4. CoreAs(host) /\ Sets
  BY <1>3 DEF HermesUnder
<1>5. CoreAs(host') /\ ((Sets' /\ Onward) \/ Closes(Up'))
  BY <1>2, <1>4, ProvidesOn
<1>6. CASE Sets' /\ Onward
  BY <1>3, <1>5, <1>6, HermesStays DEF HermesGoes, HermesUnder, HermesLeaves
<1>7. CASE Closes(Up')
  <2>1. PICK r \in Results : Ended(r) /\ (r = "ok" => Up')
    BY <1>7 DEF Closes
  <2>2. r = "ok" => host'.main = "running"
    BY <2>1 DEF Up
  <2>3. r = "ok" => HermesDone(host')
    BY <1>3, <1>5, <2>2 DEF HermesDone, CoreAs
  <2> QED BY <1>3, <1>5, <2>1, <2>3 DEF HermesCloses, HermesLeaves
<1> QED BY <1>5, <1>6, <1>7

LEMMA HermesWorks ==
  ASSUME product = "hermes", HermesInv, DataInv, pc # "idle", HermesStep \/ HermesProvider
  PROVE  HermesGoes \/ HermesCloses
<1>1. ASSUME HermesProvider PROVE HermesGoes \/ HermesCloses
  BY <1>1, HermesSets
<1>2. ASSUME HermesStep PROVE HermesGoes \/ HermesCloses
  <2>1. op \in HermesRequest /\ HermesUnder /\ HermesFit(host) /\ HermesFit(Was) /\ HermesRested(Was, row) /\ Admitted(op)
    BY DEF HermesInv
  <2>2. op # "set_model_provider"
    <3>1. pc \notin Providing
      BY <1>2, HermesFunctions DEF HermesStep, Providing, HStop, HStart, HRestart, HIngress, HRuntime, HCreate, HDelete, HDeleteUndo, HRestore, HRestoreUndo, HUpdate
    <3> QED BY <2>1, <3>1, HermesPlaces
  <2>3. DOMAIN host = Fields /\ Local(kept)
    BY DEF DataInv, Placed
  <2>4. op = "delete" => Was.home \cap Was.bin = {} /\ Was.bin \subseteq Parts
    BY <2>1 DEF HermesRested, Admitted
  <2> QED BY <1>2, <2>1, <2>2, <2>3, <2>4, HermesOn DEF HermesFit
<1> QED BY <1>1, <1>2

LEMMA HermesMoves ==
  ASSUME product = "hermes", HermesInv, DataInv, pc # "idle", HermesStep \/ HermesProvider
  PROVE  HermesInv' /\ (GoesOn \/ Concluded)
<1>1. CASE HermesGoes
  BY <1>1, HermesStaysAt
<1>2. CASE HermesCloses
  <2>1. PICK r \in Results : Ended(r) /\ IF r = "ok" THEN HermesDone(host') /\ (HermesLeaves(host') \/ op = "purge_deleted")
                                ELSE HermesLeaves(host')
    BY <1>2 DEF HermesCloses
  <2>2. HermesInv' /\ ~CleanedUp /\ ~CleanedUp' /\ IF r = "ok" THEN EndsWell(host') ELSE EndsBadly(host')
    BY <2>1, HermesEnds DEF Ended
  <2>3. op \in Promised!Operation
    BY DEF HermesInv, HermesRequest, Promised!Operation
  <2> QED BY <2>1, <2>2, <2>3 DEF Concluded, Ended
<1> QED BY <1>1, <1>2, HermesWorks

LEMMA HermesKilled ==
  ASSUME product = "hermes", HermesInv, Killed
  PROVE  HermesInv' /\ Concluded
<1>1. op \in HermesRequest /\ op # "cleanup_failed" /\ HermesLeaves(host) /\ op \in Promised!Operation
  BY DEF HermesInv, Killed, HermesRequest, Promised!Operation
<1>2. HermesInv' /\ EndsBadly(host)
  BY <1>1, HermesEnds DEF Killed, Results
<1> QED BY <1>1, <1>2, KilledConcludes

LEMMA HermesOpens ==
  ASSUME product = "hermes", HermesInv, DataInv, NEW a \in HermesRequest, Admitted(a), Begin(a)
  PROVE  HermesInv' /\ Opened
<1>0. pc = "idle" /\ HermesFit(host) /\ HermesRested(host, row) /\ ~CleanedUp /\ a \in Promised!Operation
  BY DEF HermesInv, Begin, CleanedUp, HermesRequest, Promised!Operation
<1>1. /\ Opened /\ op' = a /\ pc' = a /\ stack' = <<>> /\ kept' = kept /\ row' = row /\ host' = host
      /\ Was' = host /\ Parts' = Parts /\ CoreAs(host)' /\ Admitted(a)' /\ product' = product
  BY <1>0, BeginOpens
<1>2. HermesFit(host)' /\ HermesFit(Was)' /\ HermesRested(Was, row)' /\ Admitted(op)'
  BY <1>0, <1>1 DEF HermesFit, HermesRested, Admitted
<1>3. a # "idle" /\ a # "cleanup_failed"
  BY DEF HermesRequest
<1>4. a \in {"start", "stop", "restart", "update_version"} => HermesServes(host)'
  BY <1>0, <1>1 DEF HermesServes, CoreAs, HermesRested, HermesFit, Admitted
<1>5. a = "create" => HermesCreates(host)'
  BY <1>0, <1>1 DEF HermesCreates, HermesRested, BareHost, Admitted, Container
<1>6. HermesLeaves(host)'
  BY <1>1, <1>4, <1>5 DEF HermesLeaves, HermesRequest
<1>7. HermesUnder'
  <2>1. CASE a \in {"start", "stop", "restart", "update_version"}
    BY <1>1, <1>4, <2>1 DEF HermesUnder, HStarts, HStops, HRestarts, HUpdates, HStart, HStop, HRestart
  <2>2. CASE a \in {"refresh_ingress", "set_model_provider", "purge_deleted"}
    BY <1>1, <2>2 DEF HermesUnder, HRefreshes, Sets, HPurges, Providing
  <2>3. CASE a \in {"delete", "restore"}
    BY <1>1, <2>3 DEF HermesUnder, HRestores
  <2>4. CASE a = "create"
    BY <1>1, <1>5, <2>4 DEF HermesUnder, HCreates, HCreate, CreateAt
  <2> QED BY <2>1, <2>2, <2>3, <2>4 DEF HermesRequest
<1> QED BY <1>1, <1>2, <1>3, <1>6, <1>7 DEF HermesInv

LEMMA HermesPromised ==
  ASSUME product = "hermes", HermesInv, DataInv, AdaptersNext
  PROVE  HermesInv' /\ (Opened \/ GoesOn \/ Concluded)
<1>1. HermesNext \/ SettingsNext
  BY DEF AdaptersNext, ClawNext, EvoNext
<1>2. CASE HermesBegin \/ SettingsBegin
  <2>1. \E a \in HermesRequest : Admitted(a) /\ Begin(a)
    BY <1>2 DEF HermesBegin, SettingsBegin, HermesRequest
  <2> QED BY <2>1, HermesOpens
<1>3. CASE HermesStep \/ SettingsStep
  <2>1. HermesStep \/ HermesProvider
    BY <1>3 DEF SettingsStep
  <2>2. pc # "idle"
    <3>1. HermesStep => pc # "idle"
      BY HermesFunctions DEF HermesStep, HStop, HStart, HRestart, HIngress, HRuntime, HCreate, HDelete, HDeleteUndo, HRestore, HRestoreUndo, HUpdate
    <3>2. DOMAIN host = Fields
      BY DEF DataInv, Placed
    <3>3. HermesProvider => pc \in Providing
      BY <3>2, HermesProvides DEF Provides
    <3> QED BY <2>1, <3>1, <3>3 DEF Providing
  <2> QED BY <2>1, <2>2, HermesMoves
<1>4. CASE Killed
  BY <1>4, HermesKilled
<1> QED BY <1>1, <1>2, <1>3, <1>4 DEF HermesNext, SettingsNext

------------------------------------------------------------------------------
(* Hermes: what a success delivers.  Where an operation is of which no command has *)
(* failed, on an instance that was sound when it began. *)

\* The site is there for the browser, or is not.
Shown(h)  == "active" \in h.conf /\ h.mapped /\ h.served
Hidden(h) == "active" \notin h.conf
Ready(h)  == h.conf = {"disabled"} /\ h.mapped
SiteAs(h) == h.conf = Was.conf /\ h.mapped = Was.mapped /\ h.served = Was.served

\* Hermes: stop and configure_ingress, without a failure
Disabling(p, h) == p \in {"stop", "stop.reload", "stop.main"} /\ h.main # "none" /\ (p # "stop" => Hidden(h))
Publishing(p, h) ==
  /\ p \in {"ingress", "ingress.write", "ingress.apply", "ingress.reload"} /\ h.main # "none"
  /\ p \in {"ingress.apply", "ingress.reload"} => "active" \in h.conf /\ h.mapped

\* a site as an update or a restore leaves it
LeftOn(on, h) == IF on THEN Shown(h) ELSE Hidden(h)
HaltFrom == Caller("ok", "update.undo", "update.undo")

\* Hermes: where an operation is of which no command has failed, and what it has done by then
StartAt(p, s, k, h) ==
  /\ s = <<>>
  /\ \/ p = "start" /\ (h.main # "none" => Ready(h))
     \/ p \in {"start.wait", "start.enable"} /\ h.main = "running" /\ Ready(h)
     \/ p = "start.reload" /\ "active" \in h.conf /\ h.mapped
StopAt(p, s, k, h)    == s = <<>> /\ Disabling(p, h)
RestartAt(p, s, k, h) == s = <<>> /\ p \in HRestart /\ h.main = "running" /\ Shown(h)
RefreshAt(p, s, k, h) ==
  h.main # "none" /\ ((p = "refresh_ingress" /\ s = <<>>) \/ (Publishing(p, h) /\ s = <<Passing>>))
RenewAt(p, s, k, h) ==
  \/ p = "update_version" /\ s = <<>> /\ h.main = Was.main /\ LeftOn(Was.main = "running", h)
  \/ /\ s = <<>> /\ k.running = (Was.main = "running") /\ LeftOn(Was.main = "running", h)
     /\ \/ p \in {"update.look", "update.remove"}
        \/ p = "update.run" /\ h.main = "none"
        \/ p = "update.wait" /\ h.main = "running" /\ h.image = "new"
        \/ p = "update.stop" /\ h.main = "running" /\ h.image = "new" /\ Was.main # "running"
  \/ s = <<HaltFrom>> /\ Disabling(p, h) /\ Was.main # "running" /\ h.image = "new"
DiscardAt(p, s, k, h) ==
  /\ s = <<>>
  /\ \/ p \in {"delete", "delete.inspect"} /\ h.image = Was.image
     \/ p = "delete.ingress" /\ k.image = Was.image
     \/ /\ p \in {"delete.reload", "delete.remove", "delete.entry", "delete.move", "delete.list"}
        /\ k.image = Was.image /\ Hidden(h)
     \/ p \in {"delete.unlink", "delete.net"} /\ h.note.image = Was.image /\ Hidden(h)
BuildAt(p, s, k, h) ==
  \/ /\ s = <<>>
     /\ \/ p \in {"create", "create.look", "create.net", "create.port", "create.run"} /\ h.main = "none"
        \/ p \in {"create.wait", "create.publish"} /\ h.main = "running"
  \/ s = <<Retracts>> /\ Publishing(p, h)
ReviveAt(p, s, k, h) ==
  \/ /\ s = <<>>
     /\ \/ p = "restore" /\ h.note = Was.note /\ (h.home = {} => h.main = "none")
        \/ p = "restore.look" /\ h.note = Was.note /\ h.main = "none"
        \/ /\ p \in {"restore.move", "restore.client", "restore.runtime"} /\ h.main = "none"
           /\ k.image = Was.note.image /\ k.running = Was.note.running
        \/ p = "restore.entry" /\ h.image = Was.note.image /\ LeftOn(Was.note.running, h)
  \/ /\ s = <<RestoreFrom>> /\ k.running = Was.note.running
     /\ \/ p \in {"runtime", "runtime.run"} /\ h.main = "none" /\ k.image = Was.note.image
        \/ p \in {"runtime.wait", "runtime.link", "runtime.ingress"} /\ h.main = "running" /\ h.image = Was.note.image
        \/ p = "runtime.stop" /\ h.main = "running" /\ h.image = Was.note.image /\ ~Was.note.running
  \/ /\ s = <<PublishFrom, RestoreFrom>> /\ k.running = Was.note.running
     /\ Publishing(p, h) /\ h.main = "running" /\ h.image = Was.note.image
  \/ s = <<Passing, RestoreFrom>> /\ ~Was.note.running /\ Disabling(p, h) /\ h.image = Was.note.image
EmptyAt(p, s, k, h) == s = <<>> /\ p \in {"purge_deleted", "purge.tree"} /\ SiteAs(h)

ProviderEnd == {"provider.linked", "provider.model", "provider.url", "provider.key", "provider.mode", "provider.narrow"}
ProvideAt(p, s, k, h) ==
  /\ s = <<>> /\ SiteAs(h) /\ h.skills # "torn" /\ h.auth = h.asked
  /\ p \in {"set_model_provider", "provider.models", "provider.token", "provider.look", "provider.link"} \cup ProviderEnd
  /\ p \in {"provider.look", "provider.link"} \cup ProviderEnd => h.token # "none"
  /\ p \in ProviderEnd => h.linked
  /\ p \in {"provider.url", "provider.key", "provider.mode", "provider.narrow"} => h.model = k.wanted
  /\ p \in {"provider.mode", "provider.narrow"} => h.key = h.token
Provided(h) ==
  /\ h.key # "none" /\ h.linked /\ h.models = {h.model}
  /\ SettingsAgree(h) /\ SiteAs(h)

\* What the others leave alone of the settings, for as long as one runs.
HermesAt(p, s, k, h) ==
  /\ op # "set_model_provider" => SettingsAgree(h)
  /\ CASE op = "start"           -> StartAt(p, s, k, h)
       [] op = "stop"            -> StopAt(p, s, k, h)
       [] op = "restart"         -> RestartAt(p, s, k, h)
       [] op = "refresh_ingress" -> RefreshAt(p, s, k, h)
       [] op = "update_version"  -> RenewAt(p, s, k, h)
       [] op = "delete"          -> DiscardAt(p, s, k, h)
       [] op = "create"          -> BuildAt(p, s, k, h)
       [] op = "restore"         -> ReviveAt(p, s, k, h)
       [] op = "purge_deleted"   -> EmptyAt(p, s, k, h)
       [] op = "set_model_provider" -> ProvideAt(p, s, k, h)

HermesHas(h) ==
  /\ SettingsAgree(h)
  /\ CASE op \in {"start", "restart", "refresh_ingress", "create"} -> Shown(h)
       [] op = "stop"           -> Hidden(h)
       [] op = "update_version" -> h.image = "new" /\ LeftOn(Was.main = "running", h)
       [] op = "delete"         -> h.note.image = Was.image /\ Hidden(h)
       [] op = "restore"        -> h.image = Was.note.image /\ LeftOn(Was.note.running, h)
       [] op = "purge_deleted"  -> SiteAs(h)
       [] op = "set_model_provider" -> Provided(h)

\* The operation comes to an end, and if it succeeds, Q holds.
Fulfils(Q)  == \E r \in Results : Ended(r) /\ (r = "ok" => Q)

LEMMA StopsClear ==
  ASSUME ~Fault, DOMAIN host = Fields, HermesStop, Disabling(pc, host)
  PROVE  \E t : /\ To(t, kept) /\ host'.image = host.image
                /\ (Disabling(t, host') /\ t \notin Results) \/ (t = "ok" /\ Hidden(host'))
<1> USE DEF Disabling, Hidden, Fields, Results
<1>1. CASE "active" \notin host.conf /\ Decides("stop", "stop.main", kept)
  BY <1>1 DEF Decides
<1>2. CASE "active" \in host.conf /\ Writes("stop", [host EXCEPT !.conf = {"disabled"}], {}, "stop.reload", "raise")
  BY <1>2 DEF Writes
<1>3. CASE Runs("stop.reload", Reloaded, {}, "stop.main", "stop.back", "raise")
  BY <1>3 DEF Runs, Reloaded, Loaded
<1>4. CASE Runs("stop.main", Stopped("main"), {}, "ok",
          IF "disabled" \in host.conf THEN "stop.back" ELSE "fail", "raise")
  BY <1>4 DEF Runs, Stopped
<1> QED BY <1>1, <1>2, <1>3, <1>4 DEF HermesStop, Writes, Tries

LEMMA PublishesClear ==
  ASSUME ~Fault, DOMAIN host = Fields, Local(kept), HermesIngress, Publishing(pc, host)
  PROVE  \E t, k : /\ To(t, k) /\ k.running = kept.running /\ host'.image = host.image /\ host'.main = host.main
                   /\ (Publishing(t, host') /\ t \notin Results) \/ (t = "ok" /\ Shown(host'))
<1> USE DEF Publishing, Shown, Fields, Results
<1>1. Locals([inner |-> NoteIngress]).running = kept.running
  BY DEF Locals, Local, LocalNames
<1>2. CASE Reads("ingress", host.main # "none", Locals([inner |-> NoteIngress]), "ingress.write", "fail", "raise")
  BY <1>1, <1>2 DEF Reads
<1>3. CASE Writes("ingress.write", [host EXCEPT !.conf = @ \cup {"active"}, !.mapped = TRUE],
            {[host EXCEPT !.conf = @ \cup {"active"}]}, "ingress.apply", "ingress.undo")
  <2>1. host' = [host EXCEPT !.conf = @ \cup {"active"}, !.mapped = TRUE] /\ To("ingress.apply", kept) /\ pc = "ingress.write"
    BY <1>3 DEF Writes
  <2>2. host'.conf = host.conf \cup {"active"} /\ host'.mapped = TRUE /\ host'.image = host.image /\ host'.main = host.main
    BY <2>1
  <2> QED BY <2>1, <2>2
<1>4. CASE Runs("ingress.apply", Applied, Applied, "ingress.reload", "ingress.undo", "ingress.undo")
  <2> DEFINE g == [host EXCEPT !.linked = @ \/ (host.main = "running" /\ host.net)]
  <2>1. Applied = {g, [g EXCEPT !.served = "active" \in g.conf, !.asked = g.auth]}
    BY DEF Applied, Loaded
  <2>2. DOMAIN g = Fields /\ g.conf = host.conf /\ g.mapped = host.mapped /\ g.image = host.image /\ g.main = host.main
    OBVIOUS
  <2> HIDE DEF g
  <2>3. host' \in Applied /\ To("ingress.reload", kept) /\ pc = "ingress.apply"
    BY <1>4, <2>1 DEF Runs
  <2>4. host'.conf = host.conf /\ host'.mapped = host.mapped /\ host'.image = host.image /\ host'.main = host.main
    BY <2>1, <2>2, <2>3
  <2> QED BY <2>3, <2>4
<1>5. CASE Runs("ingress.reload", Reloaded, {}, "ok", "ingress.undo", "ingress.undo")
  BY <1>5 DEF Runs, Reloaded, Loaded
<1> QED BY <1>2, <1>3, <1>4, <1>5 DEF HermesIngress, Writes, Tries, Calls

LEMMA StartsClear ==
  ASSUME ~Fault, DOMAIN host = Fields, HermesStart, StartAt(pc, stack, kept, host)
  PROVE  (\E p, s, k : Went(p, s, k) /\ p # "idle" /\ StartAt(p, s, k, host')) \/ Fulfils(Shown(host'))
<1> USE DEF StartAt, Ready, Shown, Fields, Results, Fulfils
<1>1. \A t, k : To(t, k) => IF t \in Results THEN Ended(t) ELSE Went(t, <<>>, k)
  BY Alone
<1>2. CASE Runs("start", Started("main"), {}, "start.wait", "fail", "raise")
  BY <1>1, <1>2 DEF Runs, Started, Joins
<1>3. CASE WaitForDashboard("start.wait",
           IF "disabled" \in host.conf THEN "start.enable" ELSE "ok", "start.stop", "raise")
  BY <1>1, <1>3 DEF WaitForDashboard, Reads, AllUp
<1>4. CASE Writes("start.enable", [host EXCEPT !.conf = {"active"}], {}, "start.reload", "raise")
  BY <1>1, <1>4 DEF Writes
<1>5. CASE Runs("start.reload", Reloaded, {}, "ok", "start.disable", "raise")
  BY <1>1, <1>5 DEF Runs, Reloaded, Loaded
<1> QED BY <1>2, <1>3, <1>4, <1>5 DEF HermesStart, Writes, Tries

LEMMA HaltsClear ==
  ASSUME ~Fault, DOMAIN host = Fields, HermesStop, StopAt(pc, stack, kept, host)
  PROVE  (\E p, s, k : Went(p, s, k) /\ p # "idle" /\ StopAt(p, s, k, host')) \/ Fulfils(Hidden(host'))
<1> USE DEF StopAt, Fulfils
<1>1. \A t, k : To(t, k) => IF t \in Results THEN Ended(t) ELSE Went(t, <<>>, k)
  BY Alone
<1>2. PICK t : To(t, kept) /\ ((Disabling(t, host') /\ t \notin Results) \/ (t = "ok" /\ Hidden(host')))
  BY StopsClear
<1> QED BY <1>1, <1>2 DEF Disabling, Results

LEMMA RestartsClear ==
  ASSUME ~Fault, DOMAIN host = Fields, HermesRestart, RestartAt(pc, stack, kept, host)
  PROVE  (\E p, s, k : Went(p, s, k) /\ p # "idle" /\ RestartAt(p, s, k, host')) \/ Fulfils(Shown(host'))
<1> USE DEF RestartAt, HRestart, Shown, Fields, Results, Fulfils
<1>1. \A t, k : To(t, k) => IF t \in Results THEN Ended(t) ELSE Went(t, <<>>, k)
  BY Alone
<1>2. CASE Runs("restart", Started("main"), {}, "restart.wait", "fail", "raise")
  BY <1>1, <1>2 DEF Runs, Started, Joins
<1>3. CASE WaitForDashboard("restart.wait", "ok", "fail", "raise")
  BY <1>1, <1>3 DEF WaitForDashboard, Reads, AllUp
<1> QED BY <1>2, <1>3 DEF HermesRestart

\* what a caller that passes results on does with a result
LEMMA PassedOn ==
  ASSUME stack = <<Passing>>, NEW t \in {"ok", "fail", "raise"}, NEW k, To(t, k)
  PROVE  Ended(t)
<1>1. Answer(Passing, t) = t
  BY Answers DEF Passing
<1> QED BY <1>1, OneCaller DEF Results

LEMMA RefreshesClear ==
  ASSUME ~Fault, DOMAIN host = Fields, Local(kept), HermesIngress, RefreshAt(pc, stack, kept, host)
  PROVE  (\E p, s, k : Went(p, s, k) /\ p # "idle" /\ RefreshAt(p, s, k, host')) \/ Fulfils(Shown(host'))
<1> USE DEF RefreshAt, Fulfils
<1>1. CASE pc = "refresh_ingress" /\ stack = <<>>
  <2>1. Calls("refresh_ingress", "ingress", kept, "ok", "fail", "raise")
    BY <1>1 DEF HermesIngress, Reads, Writes, Runs, Tries
  <2>2. Went("ingress", <<Passing>>, kept) /\ host' = host
    BY <1>1, <2>1, CallsFrom DEF Passing
  <2> QED BY <2>2 DEF Publishing
<1>2. CASE Publishing(pc, host) /\ stack = <<Passing>>
  <2>1. PICK t, k : /\ To(t, k) /\ k.running = kept.running /\ host'.image = host.image /\ host'.main = host.main
                    /\ (Publishing(t, host') /\ t \notin Results) \/ (t = "ok" /\ Shown(host'))
    BY <1>2, PublishesClear
  <2>2. CASE t = "ok"
    BY <1>2, <2>1, <2>2, PassedOn DEF Results, Publishing
  <2>3. CASE t \notin Results
    BY <1>2, <2>1, <2>3, Within DEF Publishing, Results
  <2> QED BY <2>1, <2>2, <2>3
<1> QED BY <1>1, <1>2

LEMMA RunsMain ==
  ASSUME DOMAIN host = Fields, NEW i, host' \in RanMain(i)
  PROVE  host'.main = "running" /\ host'.image = i /\ \A f \in Fields \ {"main", "image"} : host'[f] = host[f]
<1>1. PICK g \in Ran("main") : host' = [g EXCEPT !.image = i]
  BY DEF RanMain
<1>2. g = [host EXCEPT !["main"] = "running"]
  BY DEF Ran
<1>3. DOMAIN g = Fields /\ g.main = "running" /\ \A f \in Fields \ {"main"} : g[f] = host[f]
  BY <1>2 DEF Fields
<1> QED BY <1>1, <1>3 DEF Fields

LEMMA RenewsClear ==
  ASSUME ~Fault, DOMAIN host = Fields, Local(kept), HermesUpdate \/ HermesStop, RenewAt(pc, stack, kept, host)
  PROVE  \/ \E p, s, k : Went(p, s, k) /\ p # "idle" /\ RenewAt(p, s, k, host')
         \/ Fulfils(host'.image = "new" /\ LeftOn(Was.main = "running", host'))
<1> DEFINE Goal == \/ \E p, s, k : Went(p, s, k) /\ p # "idle" /\ RenewAt(p, s, k, host')
                   \/ Fulfils(host'.image = "new" /\ LeftOn(Was.main = "running", host'))
<1> USE DEF RenewAt, LeftOn, Shown, Hidden, Fields, Results, Fulfils
<1>1. CASE stack = <<>> /\ HermesUpdate
  <2> DEFINE k0 == Locals([image |-> host.image, running |-> host.main = "running"])
  <2>1. \A t, k : To(t, k) => IF t \in Results THEN Ended(t) ELSE Went(t, <<>>, k)
    BY <1>1, Alone
  <2>2. k0.running = (host.main = "running")
    BY DEF Locals, Local, LocalNames
  <2> HIDE DEF k0
  <2>3. CASE Reads("update_version", host.main # "none", k0, IF host.image = "new" THEN "ok" ELSE "update.look", "fail", "raise")
    BY <1>1, <2>1, <2>2, <2>3 DEF Reads
  <2>4. CASE Reads("update.look", TRUE, kept, "update.remove", "fail", "raise")
    BY <1>1, <2>1, <2>4 DEF Reads
  <2>5. CASE Runs("update.remove", Removed({"main"}), {}, "update.run", "fail", "raise")
    BY <1>1, <2>1, <2>5 DEF Runs, Removed
  <2>6. CASE Runs("update.run", RanMain("new"), CreatedMain("new"), "update.wait", "update.undo", "update.undo")
    <3>1. host' \in RanMain("new") /\ Went("update.wait", <<>>, kept)
      BY <1>1, <2>1, <2>6 DEF Runs, RanMain, Ran, Joins
    <3>2. host'.main = "running" /\ host'.image = "new" /\ host'.conf = host.conf
          /\ host'.mapped = host.mapped /\ host'.served = host.served
      BY <3>1, RunsMain
    <3> QED BY <1>1, <2>6, <3>1, <3>2 DEF Runs
  <2>7. CASE WaitForDashboard("update.wait", IF kept.running THEN "ok" ELSE "update.stop",
           "update.undo", "update.undo")
    BY <1>1, <2>1, <2>7 DEF WaitForDashboard, Reads, AllUp
  <2>8. CASE Calls("update.stop", "stop", kept, "ok", "update.undo", "update.undo")
    <3>1. Went("stop", <<HaltFrom>>, kept) /\ host' = host /\ pc = "update.stop"
      BY <1>1, <2>8, CallsFrom DEF HaltFrom
    <3> QED BY <1>1, <3>1 DEF Disabling
  <2> QED BY <1>1, <2>3, <2>4, <2>5, <2>6, <2>7, <2>8 DEF HermesUpdate, Tries, Runs, Reads, Calls, WaitForDashboard, k0
<1>2. CASE HermesStop
  <2>1. stack = <<HaltFrom>> /\ Disabling(pc, host) /\ Was.main # "running" /\ host.image = "new"
    BY <1>2, HermesFunctions DEF HStop
  <2>2. PICK t : /\ To(t, kept) /\ host'.image = host.image
                 /\ (Disabling(t, host') /\ t \notin Results) \/ (t = "ok" /\ Hidden(host'))
    BY <1>2, <2>1, StopsClear
  <2>3. CASE t = "ok"
    BY <2>1, <2>2, <2>3, OneCaller, Answers DEF HaltFrom
  <2>4. CASE t \notin Results
    BY <2>1, <2>2, <2>4, Within DEF Disabling
  <2> QED BY <2>2, <2>3, <2>4
<1>3. HermesUpdate => stack = <<>>
  BY HermesFunctions DEF HUpdate, Disabling
<1> QED BY <1>1, <1>2, <1>3

LEMMA DiscardsClear ==
  ASSUME ~Fault, DOMAIN host = Fields, Local(kept), HermesDelete, DiscardAt(pc, stack, kept, host)
  PROVE  \/ \E p, s, k : Went(p, s, k) /\ p # "idle" /\ DiscardAt(p, s, k, host')
         \/ Fulfils(host'.note.image = Was.image /\ Hidden(host'))
<1> DEFINE k0 == Locals([image |-> host.image, running |-> host.main = "running",
                         conf |-> host.conf, mapped |-> host.mapped])
<1> USE DEF DiscardAt, Hidden, Fields, Results, Fulfils
<1>1. \A t, k : To(t, k) => IF t \in Results THEN Ended(t) ELSE Went(t, <<>>, k)
  BY Alone
<1>2. k0.image = host.image
  BY DEF Locals, Local, LocalNames
<1> HIDE DEF k0
<1>3. CASE Decides("delete", IF host.home = Parts /\ host.recycle = "none" THEN "delete.inspect" ELSE "fail", kept)
  BY <1>1, <1>3 DEF Decides
<1>4. CASE Reads("delete.inspect", host.main # "none", k0, "delete.ingress", "fail", "raise")
  BY <1>1, <1>2, <1>4 DEF Reads
<1>5. CASE Writes("delete.ingress", [host EXCEPT !.conf = {}, !.mapped = FALSE],
            {[host EXCEPT !.conf = {}]}, "delete.reload", "raise")
  BY <1>1, <1>5 DEF Writes
<1>6. CASE Runs("delete.reload", Reloaded, {}, "delete.remove", "delete.back", "raise")
  BY <1>1, <1>6 DEF Runs, Reloaded, Loaded
<1>7. CASE Runs("delete.remove", Removed({"main"}), {}, "delete.entry", "delete.back", "raise")
  BY <1>1, <1>7 DEF Runs, Removed
<1>8. CASE Writes("delete.entry", [host EXCEPT !.recycle = "dir"], {}, "delete.move", "delete.undo")
  BY <1>1, <1>8 DEF Writes
<1>9. CASE Moves("delete.move", host.home, "home", "bin", "delete.list", "delete.undo")
  BY <1>1, <1>9 DEF Moves, Writes
<1>10. CASE Writes("delete.list", [host EXCEPT !.recycle = "listed",
                              !.note = [image |-> kept.image, running |-> kept.running]],
            {}, "delete.unlink", "delete.undo")
  <2> DEFINE n == [image |-> kept.image, running |-> kept.running]
  <2>1. host' = [host EXCEPT !.recycle = "listed", !.note = n] /\ Went("delete.unlink", <<>>, kept) /\ pc = "delete.list"
    BY <1>1, <1>10 DEF Writes
  <2>2. host'.note.image = kept.image /\ host'.conf = host.conf
    BY <2>1
  <2> QED BY <2>1, <2>2
<1>11. CASE Runs("delete.unlink", {[host EXCEPT !.linked = FALSE]}, {[host EXCEPT !.linked = FALSE]},
          "delete.net", "delete.undo", "raise")
  BY <1>1, <1>11 DEF Runs
<1>12. CASE Runs("delete.net", {[host EXCEPT !.net = FALSE]}, {}, "ok", "delete.undo", "raise")
  BY <1>1, <1>12 DEF Runs
<1> QED BY <1>3, <1>4, <1>5, <1>6, <1>7, <1>8, <1>9, <1>10, <1>11, <1>12 DEF HermesDelete, Writes, Tries, k0

LEMMA BuildsClear ==
  ASSUME ~Fault, DOMAIN host = Fields, Local(kept), HermesCreate \/ HermesIngress, BuildAt(pc, stack, kept, host)
  PROVE  (\E p, s, k : Went(p, s, k) /\ p # "idle" /\ BuildAt(p, s, k, host')) \/ Fulfils(Shown(host'))
<1> USE DEF BuildAt, Fields, Results, Fulfils
<1>1. CASE stack = <<>> /\ HermesCreate
  <2>1. \A t, k : To(t, k) => IF t \in Results THEN Ended(t) ELSE Went(t, <<>>, k)
    BY <1>1, Alone
  <2>2. CASE Writes("create", [host EXCEPT !.home = Parts], {}, "create.look", "create.undo")
    BY <1>1, <2>1, <2>2 DEF Writes
  <2>3. CASE Tries("create.look", {host}, Locals([net |-> host.net]), "create.net", "create.undo")
    BY <1>1, <2>1, <2>3 DEF Tries
  <2>4. CASE Runs("create.net", {[host EXCEPT !.net = TRUE]}, {}, "create.port", "create.undo.same", "create.undo.same")
    BY <1>1, <2>1, <2>4 DEF Runs
  <2>5. CASE Runs("create.port", {host}, {}, "create.run", "create.undo", "create.undo")
    BY <1>1, <2>1, <2>5 DEF Runs
  <2>6. CASE Runs("create.run", RanMain("old"), CreatedMain("old"), "create.wait", "create.undo", "create.undo")
    <3>1. host' \in RanMain("old") /\ Went("create.wait", <<>>, kept)
      BY <1>1, <2>1, <2>6 DEF Runs, RanMain, Ran, Joins
    <3> QED BY <3>1, RunsMain
  <2>7. CASE WaitForDashboard("create.wait", "create.publish", "create.undo", "create.undo")
    BY <1>1, <2>1, <2>7 DEF WaitForDashboard, Reads, AllUp
  <2>8. CASE Calls("create.publish", "ingress", NoLocals, "ok", "create.retract", "raise")
    <3>1. Went("ingress", <<Retracts>>, NoLocals) /\ host' = host /\ pc = "create.publish"
      BY <1>1, <2>8, CallsFrom DEF Retracts
    <3> QED BY <1>1, <3>1 DEF Publishing
  <2> QED BY <1>1, <2>2, <2>3, <2>4, <2>5, <2>6, <2>7, <2>8 DEF HermesCreate, Tries, Decides, Calls
<1>2. CASE HermesIngress
  <2>1. stack = <<Retracts>> /\ Publishing(pc, host)
    BY <1>2, HermesFunctions DEF HIngress
  <2>2. PICK t, k : /\ To(t, k) /\ k.running = kept.running /\ host'.image = host.image /\ host'.main = host.main
                    /\ (Publishing(t, host') /\ t \notin Results) \/ (t = "ok" /\ Shown(host'))
    BY <1>2, <2>1, PublishesClear
  <2>3. CASE t = "ok"
    BY <2>1, <2>2, <2>3, OneCaller, Answers DEF Retracts
  <2>4. CASE t \notin Results
    BY <2>1, <2>2, <2>4, Within DEF Publishing
  <2> QED BY <2>2, <2>3, <2>4
<1>3. HermesCreate => stack = <<>>
  BY HermesFunctions DEF HCreate, Publishing
<1> QED BY <1>1, <1>2, <1>3

LEMMA EmptiesClear ==
  ASSUME ~Fault, DOMAIN host = Fields, HermesPurge, EmptyAt(pc, stack, kept, host)
  PROVE  (\E p, s, k : Went(p, s, k) /\ p # "idle" /\ EmptyAt(p, s, k, host')) \/ Fulfils(SiteAs(host'))
<1> USE DEF EmptyAt, SiteAs, Fields, Results, Fulfils
<1>1. \A t, k : To(t, k) => IF t \in Results THEN Ended(t) ELSE Went(t, <<>>, k)
  BY Alone
<1>2. CASE Decides("purge_deleted", IF host.recycle = "none" THEN "fail" ELSE "purge.tree", kept)
  BY <1>1, <1>2 DEF Decides
<1>3. CASE Writes("purge.tree", [host EXCEPT !.recycle = "none", !.bin = {}, !.note = NoNote],
            {[host EXCEPT !.recycle = "dir", !.bin = {}, !.note = NoNote]}, "ok", "fail")
  BY <1>1, <1>3 DEF Writes
<1> QED BY <1>2, <1>3 DEF HermesPurge
LEMMA RevivesClear ==
  ASSUME ~Fault, DOMAIN host = Fields, Local(kept),
         HermesRestore \/ HermesRuntime \/ HermesIngress \/ HermesStop, ReviveAt(pc, stack, kept, host)
  PROVE  \/ \E p, s, k : Went(p, s, k) /\ p # "idle" /\ ReviveAt(p, s, k, host')
         \/ Fulfils(host'.image = Was.note.image /\ LeftOn(Was.note.running, host'))
<1> DEFINE Goal == \/ \E p, s, k : Went(p, s, k) /\ p # "idle" /\ ReviveAt(p, s, k, host')
                   \/ Fulfils(host'.image = Was.note.image /\ LeftOn(Was.note.running, host'))
<1> USE DEF ReviveAt, LeftOn, Shown, Hidden, Fields, Results, Fulfils
<1>1. HermesRestore => stack = <<>>
  BY HermesFunctions DEF HRestore, Publishing, Disabling
<1>2. CASE HermesRestore
  <2> DEFINE k0 == Locals([image |-> host.note.image, running |-> host.note.running, net |-> host.net,
                           linked |-> host.linked, conf |-> host.conf, mapped |-> host.mapped])
  <2>1. \A t, k : To(t, k) => IF t \in Results THEN Ended(t) ELSE Went(t, <<>>, k)
    BY <1>1, <1>2, Alone
  <2>2. k0.image = host.note.image /\ k0.running = host.note.running
    BY DEF Locals, Local, LocalNames
  <2> HIDE DEF k0
  <2>3. CASE Decides("restore", IF host.home = {} /\ host.bin = Parts /\ host.recycle = "listed"
                        THEN "restore.look" ELSE "fail", kept)
    BY <1>1, <1>2, <2>1, <2>3 DEF Decides
  <2>4. CASE Reads("restore.look", TRUE, k0, "restore.move", "fail", "raise")
    BY <1>1, <1>2, <2>1, <2>2, <2>4 DEF Reads
  <2>5. CASE Moves("restore.move", host.bin, "bin", "home", "restore.client", "restore.undo")
    BY <1>1, <1>2, <2>1, <2>5 DEF Moves, Writes
  <2>6. CASE Writes("restore.client", host, {}, "restore.runtime", "restore.undo")
    BY <1>1, <1>2, <2>1, <2>6 DEF Writes
  <2>7. CASE Calls("restore.runtime", "runtime", kept, "restore.entry", "restore.undo", "restore.undo")
    <3>1. Went("runtime", <<RestoreFrom>>, kept) /\ host' = host /\ pc = "restore.runtime"
      BY <1>1, <1>2, <2>7, CallsFrom DEF RestoreFrom
    <3> QED BY <1>1, <1>2, <3>1
  <2>8. CASE Writes("restore.entry", [host EXCEPT !.recycle = "none", !.note = NoNote],
            {[host EXCEPT !.recycle = "dir", !.note = NoNote]}, "ok", "restore.undo")
    <3>1. host' = [host EXCEPT !.recycle = "none", !.note = NoNote] /\ Ended("ok") /\ pc = "restore.entry"
      BY <2>1, <2>8 DEF Writes
    <3>2. host'.image = host.image /\ host'.conf = host.conf /\ host'.mapped = host.mapped /\ host'.served = host.served
      BY <3>1
    <3> QED BY <1>1, <1>2, <3>1, <3>2
  <2> QED BY <1>2, <2>3, <2>4, <2>5, <2>6, <2>7, <2>8 DEF HermesRestore, k0
<1>3. CASE HermesRuntime
  <2>1. stack = <<RestoreFrom>> /\ pc \in HRuntime
    BY <1>3, HermesFunctions DEF HRuntime, Publishing, Disabling
  <2>2. \A t, k : To(t, k) /\ t \notin Results => Went(t, <<RestoreFrom>>, k)
    BY <2>1, Within
  <2>3. CASE Runs("runtime", {[host EXCEPT !.net = TRUE]}, {}, "runtime.run", "fail", "raise")
    BY <2>1, <2>2, <2>3 DEF Runs
  <2>4. CASE Runs("runtime.run", RanMain(kept.image), CreatedMain(kept.image), "runtime.wait", "fail", "raise")
    <3>1. RanMain(kept.image) # {}
      BY <2>1, <2>4 DEF Runs, RanMain, Ran, Joins
    <3>2. host' \in RanMain(kept.image) /\ Went("runtime.wait", <<RestoreFrom>>, kept) /\ pc = "runtime.run"
      BY <2>2, <2>4, <3>1 DEF Runs
    <3>3. host'.main = "running" /\ host'.image = kept.image
      BY <3>2, RunsMain
    <3> QED BY <2>1, <3>2, <3>3
  <2>5. CASE WaitForDashboard("runtime.wait", "runtime.link", "fail", "raise")
    BY <2>1, <2>2, <2>5 DEF WaitForDashboard, Reads, AllUp
  <2>6. CASE Runs("runtime.link", {[host EXCEPT !.linked = TRUE]}, {}, "runtime.ingress", "fail", "raise")
    BY <2>1, <2>2, <2>6 DEF Runs
  <2>7. CASE Calls("runtime.ingress", "ingress", kept, IF kept.running THEN "ok" ELSE "runtime.stop", "fail", "raise")
    <3>1. kept.running = Was.note.running
      BY <2>1, <2>7 DEF Calls, Publishing, Disabling
    <3>2. Went("ingress", <<PublishFrom, RestoreFrom>>, kept) /\ host' = host /\ pc = "runtime.ingress"
      BY <2>1, <2>7, <3>1, CallsFrom DEF PublishFrom
    <3> QED BY <2>1, <3>1, <3>2 DEF Publishing
  <2>8. CASE Calls("runtime.stop", "stop", kept, "ok", "fail", "raise")
    <3>1. Went("stop", <<Passing, RestoreFrom>>, kept) /\ host' = host /\ pc = "runtime.stop"
      BY <2>1, <2>8, CallsFrom DEF Passing
    <3> QED BY <2>1, <3>1 DEF Disabling
  <2> QED BY <1>3, <2>3, <2>4, <2>5, <2>6, <2>7, <2>8 DEF HermesRuntime
<1>4. CASE HermesIngress
  <2>1. /\ stack = <<PublishFrom, RestoreFrom>> /\ kept.running = Was.note.running /\ Publishing(pc, host)
        /\ host.main = "running" /\ host.image = Was.note.image
    BY <1>4, HermesFunctions DEF HIngress, Disabling
  <2>2. PICK t, k : /\ To(t, k) /\ k.running = kept.running /\ host'.image = host.image /\ host'.main = host.main
                    /\ (Publishing(t, host') /\ t \notin Results) \/ (t = "ok" /\ Shown(host'))
    BY <1>4, <2>1, PublishesClear
  <2>3. CASE t = "ok"
    <3> DEFINE x == IF Was.note.running THEN "ok" ELSE "runtime.stop"
    <3>1. Answer(PublishFrom, "ok") = x /\ Answer(RestoreFrom, "ok") = "restore.entry"
      BY Answers DEF PublishFrom, RestoreFrom
    <3>2. IF x \in Results THEN Went("restore.entry", <<>>, k) ELSE Went(x, <<RestoreFrom>>, k)
      <4>1. CASE Was.note.running
        <5>1. Answer(RestoreFrom, Answer(PublishFrom, "ok")) = "restore.entry"
          BY <3>1, <4>1
        <5>2. To("ok", k) /\ "ok" \in Results /\ "restore.entry" \notin Results
          BY <2>2, <2>3
        <5>3. IF Answer(PublishFrom, "ok") \notin Results THEN Went(Answer(PublishFrom, "ok"), <<RestoreFrom>>, k)
              ELSE IF Answer(RestoreFrom, Answer(PublishFrom, "ok")) \in Results
                   THEN Ended(Answer(RestoreFrom, Answer(PublishFrom, "ok")))
              ELSE Went(Answer(RestoreFrom, Answer(PublishFrom, "ok")), <<>>, k)
          BY <2>1, <5>2, TwoCallers
        <5>4. Answer(PublishFrom, "ok") = "ok"
          BY <3>1, <4>1
        <5>5. Went("restore.entry", <<>>, k)
          BY <5>1, <5>2, <5>3, <5>4
        <5> QED BY <4>1, <5>5
      <4>2. CASE ~Was.note.running
        <5>1. Went("runtime.stop", <<RestoreFrom>>, k)
          BY <2>1, <2>2, <2>3, <3>1, <4>2, TwoCallers
        <5> QED BY <4>2, <5>1
      <4> QED BY <4>1, <4>2
    <3> QED BY <2>1, <2>2, <2>3, <3>2
  <2>4. CASE t \notin Results
    BY <2>1, <2>2, <2>4, Within DEF Publishing
  <2> QED BY <2>2, <2>3, <2>4
<1>5. CASE HermesStop
  <2>1. stack = <<Passing, RestoreFrom>> /\ ~Was.note.running /\ Disabling(pc, host) /\ host.image = Was.note.image
    BY <1>5, HermesFunctions DEF HStop, Publishing
  <2>2. PICK t : /\ To(t, kept) /\ host'.image = host.image
                 /\ (Disabling(t, host') /\ t \notin Results) \/ (t = "ok" /\ Hidden(host'))
    BY <1>5, <2>1, StopsClear
  <2>3. CASE t = "ok"
    <3>1. Answer(Passing, "ok") = "ok" /\ Answer(RestoreFrom, "ok") = "restore.entry"
      BY Answers DEF Passing, RestoreFrom
    <3>2. To("ok", kept) /\ "ok" \in Results /\ "restore.entry" \notin Results
      BY <2>2, <2>3
    <3>3. IF Answer(Passing, "ok") \notin Results THEN Went(Answer(Passing, "ok"), <<RestoreFrom>>, kept)
          ELSE IF Answer(RestoreFrom, Answer(Passing, "ok")) \in Results
               THEN Ended(Answer(RestoreFrom, Answer(Passing, "ok")))
          ELSE Went(Answer(RestoreFrom, Answer(Passing, "ok")), <<>>, kept)
      BY <2>1, <3>2, TwoCallers
    <3>4. Went("restore.entry", <<>>, kept)
      BY <3>1, <3>2, <3>3
    <3> QED BY <2>1, <2>2, <2>3, <3>4
  <2>4. CASE t \notin Results
    BY <2>1, <2>2, <2>4, Within DEF Disabling
  <2> QED BY <2>2, <2>3, <2>4
<1> QED BY <1>2, <1>3, <1>4, <1>5

------------------------------------------------------------------------------
(* Hermes: the model provider *)

LEMMA FreshToken == Token # "none"
<1>1. \E t \in {"t1", "t2"} : t # host.key
  OBVIOUS
<1>2. (CHOOSE t \in {"t1", "t2"} : t # host.key) \in {"t1", "t2"}
  BY <1>1
<1> QED BY <1>2 DEF Token

LEMMA ProvidesClear ==
  ASSUME ~Fault, DOMAIN host = Fields, Local(kept), HermesProvider, ProvideAt(pc, stack, kept, host)
  PROVE  (\E p, s, k : Went(p, s, k) /\ p # "idle" /\ ProvideAt(p, s, k, host')) \/ Fulfils(Provided(host'))
<1> USE DEF ProvideAt, ProviderEnd, SiteAs, Fields, Results, Fulfils
<1>1. \A t, k : To(t, k) => IF t \in Results THEN Ended(t) ELSE Went(t, <<>>, k)
  BY Alone
<1>2. CASE Provide(IF host.home = Parts THEN "provider.models" ELSE "fail")
  <2>1. host' = host /\ pc = "set_model_provider"
    BY <1>2 DEF Provide, Decides
  <2>2. Ended("fail") \/ \E k : Went("provider.models", <<>>, k)
    BY <1>1, <1>2 DEF Provide, Decides
  <2> QED BY <2>1, <2>2
<1>3. CASE Writes("provider.models", Widened, {},
            IF host.token = "none" THEN "provider.token" ELSE "provider.look", "provider.undo")
  BY <1>1, <1>3 DEF Writes, Widened
<1>4. CASE Writes("provider.token", WithToken, {}, "provider.look", "provider.undo")
  BY <1>1, <1>4, FreshToken DEF Writes, WithToken
<1>5. CASE Reads("provider.look", TRUE, kept, IF host.linked THEN "provider.model" ELSE "provider.link",
           "provider.undo", "provider.undo")
  BY <1>1, <1>5 DEF Reads
<1>6. CASE Runs("provider.link", {[host EXCEPT !.linked = TRUE]}, {}, "provider.linked",
          "provider.undo", "provider.undo")
  <2>1. host' = [host EXCEPT !.linked = TRUE] /\ pc = "provider.link" /\ Went("provider.linked", <<>>, kept)
    BY <1>1, <1>6 DEF Runs
  <2>2. /\ host'.conf = host.conf /\ host'.mapped = host.mapped /\ host'.served = host.served
        /\ host'.skills = host.skills /\ host'.auth = host.auth /\ host'.asked = host.asked /\ host'.token = host.token /\ host'.linked
    BY <2>1
  <2> QED BY <2>1, <2>2
<1>7. CASE Decides("provider.linked", "provider.model", Locals([linked |-> TRUE]))
  BY <1>1, <1>7 DEF Decides
<1>8. CASE Runs("provider.model", {WithModel}, {}, "provider.url", "provider.undo", "provider.undo")
  <2>1. host' = WithModel /\ pc = "provider.model" /\ Went("provider.url", <<>>, kept)
    BY <1>1, <1>8 DEF Runs
  <2>2. /\ host'.conf = host.conf /\ host'.mapped = host.mapped /\ host'.served = host.served
        /\ host'.skills = host.skills /\ host'.auth = host.auth /\ host'.asked = host.asked /\ host'.token = host.token
        /\ host'.linked = host.linked /\ host'.model = kept.wanted
    BY <2>1 DEF WithModel
  <2> QED BY <2>1, <2>2
<1>9. CASE Runs("provider.url", {host}, {}, "provider.key", "provider.undo", "provider.undo")
  BY <1>1, <1>9 DEF Runs
<1>10. CASE Runs("provider.key", {WithKey}, {}, "provider.mode", "provider.undo", "provider.undo")
  <2>1. host' = WithKey /\ pc = "provider.key" /\ Went("provider.mode", <<>>, kept)
    BY <1>1, <1>10 DEF Runs
  <2>2. /\ host'.conf = host.conf /\ host'.mapped = host.mapped /\ host'.served = host.served
        /\ host'.skills = host.skills /\ host'.auth = host.auth /\ host'.asked = host.asked /\ host'.token = host.token
        /\ host'.linked = host.linked /\ host'.model = host.model /\ host'.key = host.token
    BY <2>1 DEF WithKey
  <2> QED BY <2>1, <2>2
<1>11. CASE Runs("provider.mode", {host}, {}, "provider.narrow", "provider.undo", "provider.undo")
  BY <1>1, <1>11 DEF Runs
<1>12. CASE Writes("provider.narrow", Narrowed, {}, "ok", "provider.undo")
  <2>1. host' = Narrowed /\ Ended("ok") /\ pc = "provider.narrow"
    BY <1>1, <1>12 DEF Writes
  <2>2. /\ host'.models = {kept.wanted} /\ host'.model = host.model /\ host'.key = host.key /\ host'.token = host.token
        /\ host'.linked = host.linked /\ host'.skills = host.skills /\ host'.auth = host.auth /\ host'.asked = host.asked
        /\ host'.conf = host.conf /\ host'.mapped = host.mapped /\ host'.served = host.served
    BY <2>1 DEF Narrowed
  <2> QED BY <2>1, <2>2 DEF Provided, SettingsAgree, Answered
<1> QED BY <1>2, <1>3, <1>4, <1>5, <1>6, <1>7, <1>8, <1>9, <1>10, <1>11, <1>12
       DEF HermesProvider, ProxyJoins, Writes, Decides, Runs

\* every other function leaves the settings as they are, and the containers that
\* Hermes does not have
Calm(h) ==
  /\ h.skills = host.skills /\ h.auth = host.auth /\ h.asked \in {host.asked, host.auth}
  /\ h.proxy = host.proxy /\ h.ingress = host.ingress

LEMMA CalmEffects ==
  ASSUME DOMAIN host = Fields
  PROVE  /\ Calm(host)
         /\ \A h \in Created("main") \cup Ran("main") \cup Started("main") \cup Stopped("main") : Calm(h)
         /\ \A i : \A h \in RanMain(i) \cup CreatedMain(i) : Calm(h)
         /\ \A h \in Removed({"main"}) : Calm(h)
         /\ \A h \in Reloaded \cup Applied : Calm(h)
<1> USE DEF Calm, Fields
<1>1. ASSUME NEW h \in Created("main") \cup Ran("main") \cup Started("main") \cup Stopped("main")
      PROVE  Calm(h) /\ DOMAIN h = Fields
  BY <1>1 DEF Created, Ran, Started, Stopped
<1>2. ASSUME NEW i, NEW h \in RanMain(i) \cup CreatedMain(i)
      PROVE  Calm(h)
  <2>1. PICK g \in Ran("main") \cup Created("main") : h = [g EXCEPT !.image = i]
    BY <1>2 DEF RanMain, CreatedMain
  <2>2. Calm(g) /\ DOMAIN g = Fields
    BY <1>1, <2>1
  <2> QED BY <2>1, <2>2
<1>3. ASSUME NEW h \in Removed({"main"})
      PROVE  Calm(h)
  BY <1>3 DEF Removed
<1>4. ASSUME NEW h \in Reloaded
      PROVE  Calm(h)
  BY <1>4 DEF Reloaded, Loaded
<1>5. ASSUME NEW h \in Applied
      PROVE  Calm(h)
  <2> DEFINE g == [host EXCEPT !.linked = @ \/ (host.main = "running" /\ host.net)]
  <2>1. Calm(g) /\ DOMAIN g = Fields /\ g.auth = host.auth
    OBVIOUS
  <2>2. Applied = {g, [g EXCEPT !.served = "active" \in g.conf, !.asked = g.auth]}
    BY DEF Applied, Loaded
  <2> HIDE DEF g
  <2>3. Calm([g EXCEPT !.served = "active" \in g.conf, !.asked = g.auth])
    BY <2>1
  <2> QED BY <1>5, <2>1, <2>2, <2>3
<1> QED BY <1>1, <1>2, <1>3, <1>4, <1>5

LEMMA HermesCalm ==
  ASSUME DataInv, product = "hermes", HermesStep
  PROVE  Same(host', KeyFields) /\ Calm(host')
<1>1. pc # "idle" /\ Placed /\ Kept /\ DOMAIN host = Fields
  BY StepsRun, HermesKeeps DEF DataInv, Placed
<1>2. Same(host', KeyFields)
  <2>1. Untouched(host') => Same(host', KeyFields)
    BY DEF Untouched, Same
  <2>2. CASE HermesStop \/ HermesStart \/ HermesRestart \/ HermesIngress \/ HermesRuntime \/ HermesUpdate
    BY <1>1, <2>1, <2>2, HermesStopSteps, HermesStartSteps, HermesRestartSteps, HermesIngressSteps,
       HermesRuntimeSteps, HermesUpdateSteps
  <2>3. CASE \/ HermesCreate \/ HermesDelete \/ HermesDeleteUndo \/ HermesRestore \/ HermesRestoreUndo
             \/ HermesPurge
    BY <1>1, <2>3, HermesCreateSteps, HermesDeleteSteps, HermesDeleteUndoSteps, HermesRestoreSteps,
       HermesRestoreUndoSteps, HermesPurgeSteps
  <2> QED BY <2>2, <2>3 DEF HermesStep
<1>3. Calm(host')
  <2> USE DEF Decides, Writes, Runs, Tries, Reads, Calls, WaitForDashboard
  <2>1. \A x, y, z : /\ Calm([host EXCEPT !.conf = x]) /\ Calm([host EXCEPT !.conf = x, !.mapped = y])
                     /\ Calm([host EXCEPT !.net = x]) /\ Calm([host EXCEPT !.linked = x])
                     /\ Calm([host EXCEPT !.home = x]) /\ Calm([host EXCEPT !.recycle = x])
                     /\ Calm([host EXCEPT !.recycle = x, !.note = y])
                     /\ Calm([host EXCEPT !.recycle = x, !.note = y, !.bin = z])
                     /\ Calm([host EXCEPT !.recycle = x, !.bin = y, !.note = z])
    BY <1>1 DEF Calm, Fields
  <2>2. ASSUME NEW at, NEW S, NEW from \in {"home", "bin"}, NEW to \in {"home", "bin"}, NEW next, NEW exc,
               Moves(at, S, from, to, next, exc)
        PROVE  Calm(host')
    BY <1>1, <2>2 DEF Moves, Calm, Fields
  <2>15. /\ \A at, t, k : Decides(at, t, k) => Calm(host')
         /\ \A at, found, k, next, bad, exc : Reads(at, found, k, next, bad, exc) => Calm(host')
         /\ \A at, f, k, a, b, c : Calls(at, f, k, a, b, c) => Calm(host')
         /\ \A at, h, next, exc : Writes(at, h, {}, next, exc) /\ Calm(h) => Calm(host')
         /\ \A at, h, g, next, exc : Writes(at, h, {g}, next, exc) /\ Calm(h) /\ Calm(g) => Calm(host')
         /\ \A at, h, next, bad, exc : Runs(at, {h}, {}, next, bad, exc) /\ Calm(h) => Calm(host')
         /\ \A at, h, next, bad, exc : Runs(at, {h}, {h}, next, bad, exc) /\ Calm(h) => Calm(host')
         /\ \A at, h, k, next, exc : Tries(at, {h}, k, next, exc) /\ Calm(h) => Calm(host')
         /\ \A at, next, bad, exc : /\ Runs(at, Reloaded, {}, next, bad, exc) => Calm(host')
                                    /\ Runs(at, Applied, Applied, next, bad, exc) => Calm(host')
                                    /\ Runs(at, Removed({"main"}), {}, next, bad, exc) => Calm(host')
         /\ \A at, k, next, exc : /\ Tries(at, Reloaded, k, next, exc) => Calm(host')
                                  /\ Tries(at, Applied, k, next, exc) => Calm(host')
    BY <1>1, CalmEffects
  <2>3. CASE HermesStop
    BY <1>1, <2>1, <2>3, CalmEffects DEF HermesStop
  <2>4. CASE HermesStart
    BY <1>1, <2>1, <2>4, CalmEffects DEF HermesStart
  <2>5. CASE HermesRestart
    BY <1>1, <2>1, <2>5, CalmEffects DEF HermesRestart
  <2>6. CASE HermesIngress
    <3> HIDE DEF Decides, Writes, Runs, Tries, Reads, Calls
    <3>1. Calm([host EXCEPT !.conf = @ \cup {"active"}, !.mapped = TRUE])
      BY <1>1 DEF Calm, Fields
    <3>2. Calm([host EXCEPT !.conf = @ \cup {"active"}])
      BY <1>1 DEF Calm, Fields
    <3>3. Calm([host EXCEPT !.conf = kept.inner.conf, !.mapped = kept.inner.mapped])
      BY <1>1 DEF Calm, Fields
    <3> QED BY <1>1, <3>1, <3>2, <3>3, <2>2, <2>15, <2>6, CalmEffects DEF HermesIngress
  <2>7. CASE HermesRuntime
    BY <1>1, <2>1, <2>7, CalmEffects DEF HermesRuntime
  <2>8. CASE HermesUpdate
    BY <1>1, <2>1, <2>8, CalmEffects DEF HermesUpdate
  <2>9. CASE HermesCreate
    BY <1>1, <2>1, <2>9, CalmEffects DEF HermesCreate
  <2>10. CASE HermesDelete
    <3> HIDE DEF Decides, Writes, Runs, Tries, Reads, Calls
    <3>1. Calm([host EXCEPT !.conf = {}, !.mapped = FALSE])
      BY <1>1 DEF Calm, Fields
    <3>2. Calm([host EXCEPT !.conf = {}])
      BY <1>1 DEF Calm, Fields
    <3>3. Calm(OldIngress)
      BY <1>1 DEF Calm, Fields, OldIngress
    <3>4. Calm([host EXCEPT !.recycle = "dir"])
      BY <1>1 DEF Calm, Fields
    <3>5. Calm([host EXCEPT !.recycle = "listed", !.note = [image |-> kept.image, running |-> kept.running]])
      BY <1>1 DEF Calm, Fields
    <3>6. Calm([host EXCEPT !.linked = FALSE])
      BY <1>1 DEF Calm, Fields
    <3>7. Calm([host EXCEPT !.net = FALSE])
      BY <1>1 DEF Calm, Fields
    <3> QED BY <1>1, <3>1, <3>2, <3>3, <3>4, <3>5, <3>6, <3>7, <2>2, <2>15, <2>10, CalmEffects DEF HermesDelete
  <2>11. CASE HermesDeleteUndo
    <3> HIDE DEF Decides, Writes, Runs, Tries, Reads, Calls
    <3> QED BY <1>1, <2>1, <2>2, <2>15, <2>11, CalmEffects DEF HermesDeleteUndo, EntryGone
  <2>12. CASE HermesRestore
    <3> HIDE DEF Decides, Writes, Runs, Tries, Reads, Calls
    <3>1. Calm([host EXCEPT !.recycle = "none", !.note = NoNote])
      BY <1>1 DEF Calm, Fields
    <3>2. Calm([host EXCEPT !.recycle = "dir", !.note = NoNote])
      BY <1>1 DEF Calm, Fields
    <3> QED BY <1>1, <3>1, <3>2, <2>2, <2>15, <2>12, CalmEffects DEF HermesRestore
  <2>13. CASE HermesRestoreUndo
    <3> HIDE DEF Decides, Writes, Runs, Tries, Reads, Calls
    <3> QED BY <1>1, <2>1, <2>2, <2>15, <2>13, CalmEffects DEF HermesRestoreUndo, OldIngress
  <2>14. CASE HermesPurge
    <3> HIDE DEF Decides, Writes, Runs, Tries, Reads, Calls
    <3>1. Calm([host EXCEPT !.recycle = "none", !.bin = {}, !.note = NoNote])
      BY <1>1 DEF Calm, Fields
    <3>2. Calm([host EXCEPT !.recycle = "dir", !.bin = {}, !.note = NoNote])
      BY <1>1 DEF Calm, Fields
    <3> QED BY <1>1, <3>1, <3>2, <2>2, <2>15, <2>14, CalmEffects DEF HermesPurge
  <2> QED BY <2>3, <2>4, <2>5, <2>6, <2>7, <2>8, <2>9, <2>10, <2>11, <2>12, <2>13, <2>14 DEF HermesStep
<1> QED BY <1>2, <1>3

\* A step counts the failure it meets, and no other.
LEMMA StepsCount ==
  ASSUME HermesStep \/ HermesProvider
  PROVE  faults' = faults \/ Fault
<1>1. \A at, t, k : Decides(at, t, k) => faults' = faults
  BY DEF Decides
<1>2. \A at, h, part, next, exc : Writes(at, h, part, next, exc) => faults' = faults \/ Fault
  BY DEF Writes
<1>3. \A at, good, part, next, bad, exc : Runs(at, good, part, next, bad, exc) => faults' = faults \/ Fault
  BY DEF Runs
<1>4. \A at, good, k, next, exc : Tries(at, good, k, next, exc) => faults' = faults \/ Fault
  BY DEF Tries
<1>5. \A at, found, k, next, bad, exc : Reads(at, found, k, next, bad, exc) => faults' = faults \/ Fault
  BY DEF Reads
<1>6. \A at, f, k, a, b, c : Calls(at, f, k, a, b, c) => faults' = faults
  BY DEF Calls
<1>7. \A at, S, from, to, next, exc : Moves(at, S, from, to, next, exc) => faults' = faults \/ Fault
  BY <1>2 DEF Moves
<1>8. CASE HermesProvider
  BY <1>1, <1>2, <1>3, <1>5, <1>8 DEF HermesProvider, Provide, ProxyJoins
<1>9. CASE HermesStop \/ HermesStart \/ HermesRestart \/ HermesIngress \/ HermesRuntime
  BY <1>1, <1>2, <1>3, <1>4, <1>5, <1>6, <1>9
     DEF HermesStop, HermesStart, HermesRestart, HermesIngress, HermesRuntime, WaitForDashboard
<1>10. CASE HermesCreate \/ HermesUpdate \/ HermesPurge
  BY <1>1, <1>2, <1>3, <1>4, <1>5, <1>6, <1>10 DEF HermesCreate, HermesUpdate, HermesPurge, WaitForDashboard
<1>11. CASE HermesDelete \/ HermesDeleteUndo \/ HermesRestore \/ HermesRestoreUndo
  BY <1>1, <1>2, <1>3, <1>4, <1>5, <1>6, <1>7, <1>11
     DEF HermesDelete, HermesDeleteUndo, HermesRestore, HermesRestoreUndo
<1> QED BY <1>8, <1>9, <1>10, <1>11 DEF HermesStep

\* what an operation has to have found, and whether any command of it has failed
Smooth ==
  /\ faults = before.faults /\ Whole(Was) /\ Quiet(Was)
  /\ op \in {"restart", "refresh_ingress"} => RuntimeOf(Was) = "up"

\* what it has to bring about
Delivers(h) ==
  /\ Reached(h) <=> RuntimeOf(h) = "up"
  /\ op = "update_version" => h.image = "new"
  /\ op = "set_model_provider" => h.key # "none" /\ h.linked
  /\ op = "set_model_provider" => h.models = {h.model}
  /\ SettingsAgree(h)
  /\ op = "restore" => h.image = Was.note.image
  /\ op = "delete" => h.note.image = Was.image

LEMMA HermesStaysClear ==
  ASSUME op' = op, before' = before, product' = product, op \in HermesRequest, HermesAt(pc', stack', kept', host')
  PROVE  HermesAt(pc, stack, kept, host)'
<1>1. Was' = Was
  BY DEF Was
<1>2. SettingsAgree(host)' <=> SettingsAgree(host')
  BY DEF SettingsAgree, Answered
<1>3. /\ Passing' = Passing /\ HaltFrom' = HaltFrom /\ Retracts' = Retracts /\ RestoreFrom' = RestoreFrom
      /\ PublishFrom' = PublishFrom
  BY <1>1 DEF Passing, HaltFrom, Retracts, RestoreFrom, PublishFrom, Caller
<1> HIDE DEF Passing, HaltFrom, Retracts, RestoreFrom, PublishFrom
<1>4. StartAt(pc', stack', kept', host') => StartAt(pc, stack, kept, host)'
  BY DEF StartAt, Ready
<1>5. StopAt(pc', stack', kept', host') => StopAt(pc, stack, kept, host)'
  BY DEF StopAt, Disabling, Hidden
<1>6. RestartAt(pc', stack', kept', host') => RestartAt(pc, stack, kept, host)'
  BY DEF RestartAt, Shown, HRestart
<1>7. RefreshAt(pc', stack', kept', host') => RefreshAt(pc, stack, kept, host)'
  BY <1>3 DEF RefreshAt, Publishing
<1>8. RenewAt(pc', stack', kept', host') => RenewAt(pc, stack, kept, host)'
  BY <1>1, <1>3 DEF RenewAt, LeftOn, Shown, Hidden, Disabling
<1>9. DiscardAt(pc', stack', kept', host') => DiscardAt(pc, stack, kept, host)'
  BY <1>1 DEF DiscardAt, Hidden
<1>10. BuildAt(pc', stack', kept', host') => BuildAt(pc, stack, kept, host)'
  BY <1>3 DEF BuildAt, Publishing
<1>11. ReviveAt(pc', stack', kept', host') => ReviveAt(pc, stack, kept, host)'
  BY <1>1, <1>3 DEF ReviveAt, LeftOn, Shown, Hidden, Disabling, Publishing
<1>12. EmptyAt(pc', stack', kept', host') => EmptyAt(pc, stack, kept, host)'
  BY <1>1 DEF EmptyAt, SiteAs
<1>13. ProvideAt(pc', stack', kept', host') => ProvideAt(pc, stack, kept, host)'
  BY <1>1 DEF ProvideAt, ProviderEnd, SiteAs
<1> QED BY <1>2, <1>4, <1>5, <1>6, <1>7, <1>8, <1>9, <1>10, <1>11, <1>12, <1>13 DEF HermesAt, HermesRequest

\* A step that meets no failure leads on, or to the end.
LEMMA HermesClears ==
  ASSUME product = "hermes", DataInv, op \in HermesRequest, ~Fault, HermesAt(pc, stack, kept, host),
         HermesStep \/ HermesProvider
  PROVE  \/ \E p, s, k : Went(p, s, k) /\ p # "idle" /\ HermesAt(p, s, k, host')
         \/ Fulfils(HermesHas(host'))
<1>1. DOMAIN host = Fields /\ Local(kept)
  BY DEF DataInv, Placed
<1>2. HermesProvider => pc \in Providing
  BY <1>1, HermesProvides DEF Provides
<1> DEFINE Goal == \/ \E p, s, k : Went(p, s, k) /\ p # "idle" /\ HermesAt(p, s, k, host')
                   \/ Fulfils(HermesHas(host'))
<1>3. op # "set_model_provider" /\ HermesStep => SettingsAgree(host')
  BY HermesCalm DEF HermesAt, Same, KeyFields, Calm, SettingsAgree, Answered
<1> USE DEF Fulfils, HermesHas
<1>4. CASE op = "start"
  <2>1. StartAt(pc, stack, kept, host) BY <1>4 DEF HermesAt
  <2>2. HermesStart
    BY <2>1, <1>2, HermesFunctions DEF StartAt, HermesStep, Providing, HStop, HStart, HRestart, HIngress, HRuntime, HCreate, HDelete, HDeleteUndo, HRestore, HRestoreUndo, HUpdate
  <2> QED BY <1>1, <1>3, <1>4, <2>1, <2>2, StartsClear DEF HermesAt, HermesStep
<1>5. CASE op = "stop"
  <2>1. StopAt(pc, stack, kept, host) BY <1>5 DEF HermesAt
  <2>2. HermesStop
    BY <2>1, <1>2, HermesFunctions DEF StopAt, Disabling, HermesStep, Providing, HStop, HStart, HRestart, HIngress, HRuntime, HCreate, HDelete, HDeleteUndo, HRestore, HRestoreUndo, HUpdate
  <2> QED BY <1>1, <1>3, <1>5, <2>1, <2>2, HaltsClear DEF HermesAt, HermesStep
<1>6. CASE op = "restart"
  <2>1. RestartAt(pc, stack, kept, host) BY <1>6 DEF HermesAt
  <2>2. HermesRestart
    BY <2>1, <1>2, HermesFunctions DEF RestartAt, HermesStep, Providing, HStop, HStart, HRestart, HIngress, HRuntime, HCreate, HDelete, HDeleteUndo, HRestore, HRestoreUndo, HUpdate
  <2> QED BY <1>1, <1>3, <1>6, <2>1, <2>2, RestartsClear DEF HermesAt, HermesStep
<1>7. CASE op = "refresh_ingress"
  <2>1. RefreshAt(pc, stack, kept, host) BY <1>7 DEF HermesAt
  <2>2. HermesIngress
    BY <2>1, <1>2, HermesFunctions DEF RefreshAt, Publishing, HermesStep, Providing, HStop, HStart, HRestart, HIngress, HRuntime, HCreate, HDelete, HDeleteUndo, HRestore, HRestoreUndo, HUpdate
  <2> QED BY <1>1, <1>3, <1>7, <2>1, <2>2, RefreshesClear DEF HermesAt, HermesStep
<1>8. CASE op = "update_version"
  <2>1. RenewAt(pc, stack, kept, host) BY <1>8 DEF HermesAt
  <2>2. HermesUpdate \/ HermesStop
    BY <2>1, <1>2, HermesFunctions DEF RenewAt, Disabling, HermesStep, Providing, HStop, HStart, HRestart, HIngress, HRuntime, HCreate, HDelete, HDeleteUndo, HRestore, HRestoreUndo, HUpdate
  <2> QED BY <1>1, <1>3, <1>8, <2>1, <2>2, RenewsClear DEF HermesAt, HermesStep
<1>9. CASE op = "delete"
  <2>1. DiscardAt(pc, stack, kept, host) BY <1>9 DEF HermesAt
  <2>2. HermesDelete
    BY <2>1, <1>2, HermesFunctions DEF DiscardAt, HermesStep, Providing, HStop, HStart, HRestart, HIngress, HRuntime, HCreate, HDelete, HDeleteUndo, HRestore, HRestoreUndo, HUpdate
  <2> QED BY <1>1, <1>3, <1>9, <2>1, <2>2, DiscardsClear DEF HermesAt, HermesStep
<1>10. CASE op = "create"
  <2>1. BuildAt(pc, stack, kept, host) BY <1>10 DEF HermesAt
  <2>2. HermesCreate \/ HermesIngress
    BY <2>1, <1>2, HermesFunctions DEF BuildAt, Publishing, HermesStep, Providing, HStop, HStart, HRestart, HIngress, HRuntime, HCreate, HDelete, HDeleteUndo, HRestore, HRestoreUndo, HUpdate
  <2> QED BY <1>1, <1>3, <1>10, <2>1, <2>2, BuildsClear DEF HermesAt, HermesStep
<1>11. CASE op = "restore"
  <2>1. ReviveAt(pc, stack, kept, host) BY <1>11 DEF HermesAt
  <2>2. HermesRestore \/ HermesRuntime \/ HermesIngress \/ HermesStop
    BY <2>1, <1>2, HermesFunctions DEF ReviveAt, Publishing, Disabling, HermesStep, Providing, HStop, HStart, HRestart, HIngress, HRuntime, HCreate, HDelete, HDeleteUndo, HRestore, HRestoreUndo, HUpdate
  <2> QED BY <1>1, <1>3, <1>11, <2>1, <2>2, RevivesClear DEF HermesAt, HermesStep
<1>12. CASE op = "purge_deleted"
  <2>1. EmptyAt(pc, stack, kept, host) BY <1>12 DEF HermesAt
  <2>2. HermesPurge
    BY <2>1, <1>2, HermesFunctions DEF EmptyAt, HermesStep, Providing, HStop, HStart, HRestart, HIngress, HRuntime, HCreate, HDelete, HDeleteUndo, HRestore, HRestoreUndo, HUpdate
  <2> QED BY <1>1, <1>3, <1>12, <2>1, <2>2, EmptiesClear DEF HermesAt, HermesStep
<1>13. CASE op = "set_model_provider"
  <2>1. ProvideAt(pc, stack, kept, host) BY <1>13 DEF HermesAt
  <2>2. HermesProvider
    BY <2>1, HermesFunctions DEF ProvideAt, ProviderEnd, HermesStep, HStop, HStart, HRestart, HIngress, HRuntime, HCreate, HDelete, HDeleteUndo, HRestore, HRestoreUndo, HUpdate
  <2> QED BY <1>1, <1>13, <2>1, <2>2, ProvidesClear DEF HermesAt, Provided
<1> QED BY <1>4, <1>5, <1>6, <1>7, <1>8, <1>9, <1>10, <1>11, <1>12, <1>13 DEF HermesRequest

\* What has succeeded without a failure has done it all.
LEMMA HermesDelivers ==
  ASSUME product = "hermes", ~CleanedUp, op \in HermesRequest, HermesFit(Was), HermesFit(host'), HermesRested(Was, row),
         Admitted(op), Smooth, HermesDone(host'), HermesLeaves(host') \/ op = "purge_deleted", HermesHas(host')
  PROVE  Delivers(host')
<1>1. Was.older = {} /\ host'.older = {} /\ Was.main \in Container /\ host'.main \in Container
  BY DEF HermesFit
<1>2. /\ Reached(host') <=> Shown(host')
      /\ Reached(Was) <=> Shown(Was)
  BY DEF Reached, Shown
<1>3. /\ RuntimeOf(host') = "up" <=> host'.main = "running" /\ host'.home = Parts
      /\ RuntimeOf(Was) = "up" <=> Was.main = "running" /\ Was.home = Parts
      /\ Parts # {}
  BY <1>1, HermesLooks
<1>4. SettingsAgree(host')
  BY DEF HermesHas
<1>5. RuntimeOf(Was) = "up" <=> Shown(Was)
  BY <1>2 DEF Smooth, Whole, Quiet, Shown
<1>6. Shown(host') => ~Hidden(host')
  BY DEF Shown, Hidden
<1>7. Shown(host') <=> RuntimeOf(host') = "up"
  <2>1. CASE op \in {"start", "restart", "refresh_ingress", "create"}
    <3>1. Shown(host') BY <2>1 DEF HermesHas
    <3>2. host'.main = "running"
      BY <1>3, <2>1 DEF HermesDone, Smooth
    <3>3. host'.home = Parts
      BY <1>3, <2>1, <3>2 DEF HermesDone, HermesLeaves, HermesServes, CoreAs, DataAs, Smooth
    <3> QED BY <1>3, <3>1, <3>2, <3>3
  <2>2. CASE op = "stop"
    BY <1>3, <1>6, <2>2 DEF HermesHas, HermesDone
  <2>3. CASE op = "update_version"
    <3>1. host'.home = Parts
      BY <2>3 DEF HermesDone, HermesLeaves, HermesServes
    <3> QED BY <1>3, <1>6, <2>3, <3>1 DEF HermesHas, HermesDone, LeftOn
  <2>4. CASE op = "delete"
    BY <1>3, <1>6, <2>4 DEF HermesHas, HermesDone
  <2>5. CASE op = "restore"
    BY <1>3, <1>6, <2>5 DEF HermesHas, HermesDone, LeftOn
  <2>6. CASE op = "purge_deleted"
    <3>1. Shown(host') <=> Shown(Was)
      BY <2>6 DEF HermesHas, SiteAs, Shown
    <3> QED BY <1>3, <1>5, <2>6, <3>1 DEF HermesDone, HermesPurges
  <2>7. CASE op = "set_model_provider"
    <3>1. Shown(host') <=> Shown(Was)
      BY <2>7 DEF HermesHas, Provided, SiteAs, Shown
    <3>2. host'.home = Was.home /\ host'.main = Was.main
      BY <2>7 DEF HermesDone, HermesLeaves, CoreAs, DataAs
    <3> QED BY <1>3, <1>5, <3>1, <3>2
  <2> QED BY <2>1, <2>2, <2>3, <2>4, <2>5, <2>6, <2>7 DEF HermesRequest
<1>8. op = "update_version" => host'.image = "new"
  BY DEF HermesHas
<1>9. op = "set_model_provider" => host'.key # "none" /\ host'.linked /\ host'.models = {host'.model}
  BY DEF HermesHas, Provided
<1>10. op = "restore" => host'.image = Was.note.image
  BY DEF HermesHas
<1>11. op = "delete" => host'.note.image = Was.image
  BY DEF HermesHas
<1> QED BY <1>2, <1>4, <1>7, <1>8, <1>9, <1>10, <1>11 DEF Delivers

\* At its start, an operation is where it has to be.
LEMMA HermesSetsOut ==
  ASSUME product = "hermes", HermesFit(host), HermesRested(host, row), NEW a \in HermesRequest, Admitted(a), op' = a,
         Was' = host, host' = host, kept' = kept, pc' = a, stack' = <<>>, ~CleanedUp, Whole(host), Quiet(host),
         a \in {"restart", "refresh_ingress"} => RuntimeOf(host) = "up",
         a = "start" => host.main # "running", a = "stop" => host.main = "running"
  PROVE  HermesAt(pc, stack, kept, host)'
<1>1. /\ host.older = {} /\ host.main \in Container /\ Parts # {}
      /\ RuntimeOf(host) = IF host.main = "running" /\ host.home = Parts THEN "up"
              ELSE IF host.main = "stopped" /\ host.home = Parts THEN "stopped"
              ELSE IF host.main = "none" /\ host.home = {} /\ host.bin = Parts /\ host.recycle = "listed"
                   THEN IF host.note.running THEN "archived" ELSE "archived_off"
              ELSE IF host.main = "none" /\ host.home \cup host.bin = {} THEN "none" ELSE "broken"
  BY HermesLooks DEF HermesFit
<1>2. RuntimeOf(host) = "up" => Shown(host)
  BY DEF Whole, Reached, Shown
<1>3. RuntimeOf(host) # "up" => Hidden(host)
  BY DEF Quiet, Hidden
<1>4. SettingsAgree(host)
  BY DEF Whole
<1>5. row = "live" => host.home = Parts \/ host.main = "none"
  BY <1>1 DEF HermesRested
<1>6. a \in HermesRequest \ {"create", "restore", "purge_deleted"} => row = "live"
  BY DEF Admitted, HermesRequest
<1>7. (op # "set_model_provider" => SettingsAgree(host))'
  BY <1>4 DEF SettingsAgree, Answered
<1>8. CASE a = "start"
  <2>1. host.main # "none" => host.main = "stopped" /\ host.home = Parts
    BY <1>1, <1>5, <1>6, <1>8 DEF Container, HermesRequest
  <2>2. host.main # "none" => RuntimeOf(host) = "stopped"
    BY <1>1, <2>1
  <2>3. host.main # "none" => Ready(host)
    BY <2>2 DEF Whole, Ready
  <2> QED BY <1>7, <1>8, <2>3 DEF HermesAt, StartAt, Ready
<1>9. CASE a = "stop"
  BY <1>7, <1>9 DEF HermesAt, StopAt, Disabling
<1>10. CASE a = "restart"
  <2>1. Shown(host) /\ host.main = "running"
    BY <1>1, <1>2, <1>10
  <2> QED BY <1>7, <1>10, <2>1 DEF HermesAt, RestartAt, Shown, HRestart
<1>11. CASE a = "refresh_ingress"
  <2>1. host.main # "none"
    BY <1>1, <1>11
  <2> QED BY <1>7, <1>11, <2>1 DEF HermesAt, RefreshAt
<1>12. CASE a = "update_version"
  <2>1. LeftOn(host.main = "running", host)
    BY <1>1, <1>2, <1>3, <1>5, <1>6, <1>12 DEF LeftOn, HermesRequest
  <2> QED BY <1>7, <1>12, <2>1 DEF HermesAt, RenewAt, LeftOn, Shown, Hidden
<1>13. CASE a = "delete"
  BY <1>7, <1>13 DEF HermesAt, DiscardAt
<1>14. CASE a = "create"
  <2>1. host.main = "none"
    BY <1>14 DEF Admitted, HermesRested, BareHost
  <2> QED BY <1>7, <1>14, <2>1 DEF HermesAt, BuildAt
<1>15. CASE a = "restore"
  <2>1. RuntimeOf(host) # "broken"
    BY DEF Whole
  <2>2. host.home = {} => host.main = "none"
    BY <1>1, <2>1
  <2> QED BY <1>7, <1>15, <2>2 DEF HermesAt, ReviveAt
<1>16. CASE a = "purge_deleted"
  BY <1>7, <1>16 DEF HermesAt, EmptyAt, SiteAs
<1>17. CASE a = "set_model_provider"
  BY <1>4, <1>7, <1>17 DEF HermesAt, ProvideAt, ProviderEnd, SiteAs, SettingsAgree
<1> QED BY <1>8, <1>9, <1>10, <1>11, <1>12, <1>13, <1>14, <1>15, <1>16, <1>17 DEF HermesRequest

\* Whether an instance is sound depends on itself alone.
LEMMA SoundLater ==
  ASSUME product' = product, CleanedUp' <=> CleanedUp
  PROVE  /\ (Whole(Was)' <=> Whole(Was')) /\ (Quiet(Was)' <=> Quiet(Was'))
         /\ RuntimeOf(Was)' = RuntimeOf(Was') /\ RuntimeOf(host)' = RuntimeOf(host')
<1>1. Parts' = Parts /\ Needed' = Needed
  BY DEF Parts, Needed, Both
<1>2. RuntimeOf(Was)' = RuntimeOf(Was')
  BY <1>1 DEF RuntimeOf, AllOff, Buried
<1>3. RuntimeOf(host)' = RuntimeOf(host')
  BY <1>1 DEF RuntimeOf, AllOff, Buried
<1>4. (Reached(Was)' <=> Reached(Was')) /\ (AsFiled(Was)' <=> AsFiled(Was')) /\ (SettingsAgree(Was)' <=> SettingsAgree(Was'))
  BY DEF Reached, AsFiled, SettingsAgree, Answered
<1>5. Whole(Was)' <=> Whole(Was')
  BY <1>2, <1>4 DEF Whole
<1>6. Quiet(Was)' <=> Quiet(Was')
  BY <1>2 DEF Quiet
<1> QED BY <1>2, <1>3, <1>5, <1>6

LEMMA DeliversLater ==
  ASSUME product = "hermes", product' = product, op' = op, before' = before, CleanedUp' <=> CleanedUp, op \in HermesRequest,
         outcome' = "ok" /\ faults' = before.faults /\ Whole(Was) /\ Quiet(Was)
           /\ (op \in {"restart", "refresh_ingress"} => RuntimeOf(Was) = "up") => Delivers(host')
  PROVE  Delivered'
<1>1. Was' = Was /\ before.host = Was
  BY DEF Was
<1>2. SUFFICES ASSUME outcome' = "ok", Whole(before.host)', Quiet(before.host)', faults' = before'.faults,
                      op' \in {"restart", "refresh_ingress"} => RuntimeOf(before.host)' = "up"
               PROVE  Delivers(host)'
  BY <1>1 DEF Delivered, Delivers, Was, HermesRequest
<1>3. Whole(Was) /\ Quiet(Was) /\ (op \in {"restart", "refresh_ingress"} => RuntimeOf(Was) = "up")
  BY <1>1, <1>2, SoundLater DEF Was
<1>4. Delivers(host')
  BY <1>2, <1>3
<1>5. (Reached(host)' <=> Reached(host')) /\ (SettingsAgree(host)' <=> SettingsAgree(host'))
  BY DEF Reached, SettingsAgree, Answered
<1> QED BY <1>1, <1>4, <1>5, SoundLater DEF Delivers

------------------------------------------------------------------------------
Counted ==
  /\ faults \in Nat /\ before.faults \in Nat /\ before.faults <= faults
  /\ pc # "idle" => outcome = "none"

\* The inductive invariant: where an operation is of which no command has failed.
ClearInv ==
  product = "hermes" => Counted /\ (pc # "idle" /\ Smooth => HermesAt(pc, stack, kept, host)) /\ Delivered

LEMMA ClearSteps ==
  ASSUME product = "hermes", DataInv, HermesInv, ClearInv, pc # "idle", HermesStep \/ HermesProvider
  PROVE  ClearInv'
<1>1. /\ op # "cleanup_failed" /\ op \in HermesRequest /\ HermesUnder
      /\ HermesFit(Was) /\ HermesRested(Was, row) /\ Admitted(op) /\ Counted
  BY DEF HermesInv, ClearInv
<1>2. HermesInv' /\ (GoesOn \/ Concluded)
  BY HermesMoves
<1>3. HermesGoes \/ HermesCloses
  BY HermesWorks
<1>4. HermesGoes => Onward
  BY DEF HermesGoes
<1>5. HermesCloses => \E r \in Results : Ended(r) /\ (r = "ok" => HermesDone(host') /\ (HermesLeaves(host') \/ op = "purge_deleted"))
  BY DEF HermesCloses
<1>6. UNCHANGED <<product, op, before>> /\ Was' = Was /\ ~CleanedUp /\ ~CleanedUp'
  BY <1>1, <1>2 DEF GoesOn, Onward, Concluded, Was, CleanedUp
<1>7. faults' = faults \/ Fault
  BY StepsCount
<1>8. Counted'
  BY <1>1, <1>3, <1>4, <1>5, <1>6, <1>7 DEF Counted, Onward, Ended, Fault
<1>9. ASSUME faults' = before.faults
      PROVE  faults = before.faults /\ ~Fault
  BY <1>1, <1>7, <1>9 DEF Counted, Fault
<1>10. ASSUME ~Fault, Smooth
       PROVE  \/ \E p, s, k : Went(p, s, k) /\ p # "idle" /\ HermesAt(p, s, k, host')
              \/ Fulfils(HermesHas(host'))
  <2>1. HermesAt(pc, stack, kept, host)
    BY <1>10 DEF ClearInv
  <2> QED BY <1>1, <1>10, <2>1, HermesClears
<1>11. ASSUME pc' # "idle", Smooth'
       PROVE  HermesAt(pc, stack, kept, host)'
  <2>1. faults = before.faults /\ ~Fault
    BY <1>6, <1>9, <1>11 DEF Smooth
  <2>2. Smooth
    BY <1>6, <1>11, <2>1, SoundLater DEF Smooth
  <2>3. ~Fulfils(HermesHas(host'))
    BY <1>11 DEF Fulfils, Ended
  <2>4. PICK p, s, k : Went(p, s, k) /\ p # "idle" /\ HermesAt(p, s, k, host')
    BY <1>10, <2>1, <2>2, <2>3
  <2>5. HermesAt(pc', stack', kept', host')
    BY <2>4 DEF Went
  <2> QED BY <1>1, <1>6, <2>5, HermesStaysClear
<1>12. ASSUME outcome' = "ok", faults' = before.faults, Whole(Was), Quiet(Was),
              op \in {"restart", "refresh_ingress"} => RuntimeOf(Was) = "up"
       PROVE  Delivers(host')
  <2>1. ~Fault /\ Smooth
    BY <1>9, <1>12 DEF Smooth
  <2>2. ~HermesGoes
    BY <1>1, <1>4, <1>12 DEF Onward, Counted
  <2>3. PICK r \in Results : Ended(r) /\ (r = "ok" => HermesDone(host') /\ (HermesLeaves(host') \/ op = "purge_deleted"))
    BY <1>3, <1>5, <2>2
  <2>4. r = "ok" /\ pc' = "idle"
    BY <1>12, <2>3 DEF Ended
  <2>5. ~ \E p, s, k : Went(p, s, k) /\ p # "idle" /\ HermesAt(p, s, k, host')
    BY <2>4 DEF Went
  <2>6. HermesHas(host')
    <3>1. Fulfils(HermesHas(host'))
      BY <1>10, <2>1, <2>5
    <3>2. PICK q \in Results : Ended(q) /\ (q = "ok" => HermesHas(host'))
      BY <3>1 DEF Fulfils
    <3>3. q = "ok"
      BY <1>12, <3>2 DEF Ended
    <3> QED BY <3>2, <3>3
  <2>7. HermesFit(host')
    BY <1>2, <1>6 DEF HermesInv, HermesFit
  <2> QED BY <1>1, <1>6, <2>1, <2>3, <2>4, <2>6, <2>7, HermesDelivers
<1>13. Delivered'
  BY <1>1, <1>6, <1>12, DeliversLater
<1> QED BY <1>8, <1>11, <1>13 DEF ClearInv

LEMMA ClearBegins ==
  ASSUME product = "hermes", DataInv, HermesInv, ClearInv, NEW a \in HermesRequest, Admitted(a), Begin(a),
         a = "start" => host.main # "running", a = "stop" => host.main = "running"
  PROVE  ClearInv'
<1>1. pc = "idle" /\ HermesFit(host) /\ HermesRested(host, row) /\ ~CleanedUp /\ a \in Promised!Operation
  BY DEF HermesInv, Begin, CleanedUp, HermesRequest, Promised!Operation
<1>2. /\ op' = a /\ pc' = a /\ stack' = <<>> /\ kept' = kept /\ host' = host /\ Was' = host /\ product' = product
      /\ outcome' = "none" /\ faults' = faults /\ before'.faults = faults
  BY <1>1, BeginOpens DEF Begin
<1>3. ~CleanedUp'
  BY <1>2 DEF CleanedUp, HermesRequest
<1>4. Counted'
  BY <1>2 DEF ClearInv, Counted
<1>5. Delivered'
  BY <1>2 DEF Delivered
<1>6. ASSUME Smooth'
      PROVE  HermesAt(pc, stack, kept, host)'
  <2>1. Whole(host) /\ Quiet(host) /\ (a \in {"restart", "refresh_ingress"} => RuntimeOf(host) = "up")
    BY <1>1, <1>2, <1>3, <1>6, SoundLater DEF Smooth
  <2> QED BY <1>1, <1>2, <2>1, HermesSetsOut
<1> QED BY <1>4, <1>5, <1>6 DEF ClearInv

LEMMA ClearKilled ==
  ASSUME ClearInv, Killed
  PROVE  ClearInv'
BY DEF ClearInv, Killed, Fault, Counted, Delivered

LEMMA ClearIdles ==
  ASSUME ClearInv, HermesInv, UNCHANGED lvars
  PROVE  ClearInv'
<1>1. product' = product /\ op' = op /\ before' = before /\ Was' = Was /\ (CleanedUp' <=> CleanedUp) /\ host' = host
      /\ pc' = pc /\ stack' = stack /\ kept' = kept /\ outcome' = outcome /\ faults' = faults
  BY DEF lvars, Was, CleanedUp
<1>2. Counted => Counted'
  BY <1>1 DEF Counted
<1>3. Smooth' => Smooth
  BY <1>1, SoundLater DEF Smooth
<1>4. ASSUME product = "hermes", pc # "idle", HermesAt(pc, stack, kept, host)
      PROVE  HermesAt(pc, stack, kept, host)'
  <2>1. op \in HermesRequest
    BY <1>4 DEF HermesInv
  <2> QED BY <1>1, <1>4, <2>1, HermesStaysClear
<1>5. Delivered => Delivered'
  <2>1. before.host = Was /\ (Reached(host)' <=> Reached(host)) /\ (AsFiled(host)' <=> AsFiled(host))
        /\ (SettingsAgree(host)' <=> SettingsAgree(host))
    BY <1>1 DEF Was, Reached, AsFiled, SettingsAgree, Answered
  <2>2. /\ (Whole(before.host)' <=> Whole(before.host)) /\ (Quiet(before.host)' <=> Quiet(before.host))
        /\ RuntimeOf(before.host)' = RuntimeOf(before.host) /\ RuntimeOf(host)' = RuntimeOf(host)
    BY <1>1, SoundLater DEF Was
  <2> QED BY <1>1, <2>1, <2>2 DEF Delivered
<1> QED BY <1>1, <1>2, <1>3, <1>4, <1>5 DEF ClearInv

LEMMA ClearNext ==
  ASSUME DataInv, HermesInv, ClearInv, AdaptersNext, product' = product
  PROVE  ClearInv'
<1> SUFFICES ASSUME product = "hermes" PROVE ClearInv'
  BY DEF ClearInv
<1>1. HermesNext \/ SettingsNext
  BY DEF AdaptersNext, ClawNext, EvoNext
<1>2. CASE HermesBegin \/ SettingsBegin
  <2>1. \E a \in HermesRequest : Admitted(a) /\ Begin(a) /\ (a = "start" => host.main # "running")
                                 /\ (a = "stop" => host.main = "running")
    BY <1>2 DEF HermesBegin, SettingsBegin, HermesRequest
  <2> QED BY <2>1, ClearBegins
<1>3. CASE HermesStep \/ SettingsStep
  <2>1. HermesStep \/ HermesProvider
    BY <1>3 DEF SettingsStep
  <2>2. pc # "idle"
    BY <1>3, StepsRun
  <2> QED BY <2>1, <2>2, ClearSteps
<1>4. CASE Killed
  BY <1>4, ClearKilled
<1> QED BY <1>1, <1>2, <1>3, <1>4 DEF HermesNext, SettingsNext

------------------------------------------------------------------------------
(* Hermes: what a roll-back brings back.  Where an operation is that has met one *)
(* failure at most, on an instance that was sound when it began; here an update, *)
(* in AdaptersPromise_proofs the others and the theorem. *)

\* nothing of a site
Bare(h) == h.conf = {} /\ h.mapped = FALSE

\* a note is in the manifest
Notes(h) == h.recycle # "listed" => h.note = NoNote

\* a deletion that has not written its entry yet
Asking == {"delete.inspect", "delete.ingress", "delete.reload", "delete.remove", "delete.entry"}
\* a deletion that has taken the site
Taking == {"delete.reload", "delete.remove", "delete.entry", "delete.move", "delete.list", "delete.unlink", "delete.net"}

SettingsAs(h) ==
  /\ h.token = Was.token /\ h.models = Was.models /\ h.model = Was.model /\ h.key = Was.key
  /\ h.skills = Was.skills /\ h.auth = Was.auth /\ h.asked = Was.asked
OthersAs(h) == h.proxy = Was.proxy /\ h.ingress = Was.ingress

\* update_version: an instance that was stopped is published for as long as its stop fails
RenewBack(p, s, k, h) ==
  /\ h.mapped = Was.mapped /\ h.net = Was.net /\ h.linked = Was.linked
  /\ IF p = "update_version" THEN h.conf = Was.conf /\ h.image = Was.image
     ELSE /\ k.image = Was.image
          /\ IF Was.main = "running" THEN h.conf = Was.conf
             ELSE Was.conf = {"disabled"} /\ h.conf \in {{"active"}, {"disabled"}}
  /\ p \in HStop \cup {"update.stop", "update.undo.stop"} => Was.main # "running"
  /\ p \in {"stop.reload", "stop.main"} => h.conf = {"disabled"}
  /\ p \in {"update.undo.wait", "update.undo.stop"} \/ s = <<Retracting>> => h.image = Was.image

\* what "rolled back" is to say of the instance, beside its settings
PutBack(h) ==
  IF op = "create" THEN h.home = Was.home /\ h.main = Was.main /\ h.conf = Was.conf /\ h.mapped = Was.mapped
  ELSE /\ h.home = Was.home /\ h.bin = Was.bin /\ h.main = Was.main /\ h.conf = Was.conf
       /\ (Was.mapped => h.mapped) /\ (Was.net => h.net) /\ (Was.linked => h.linked)
       /\ op # "restore" => h.recycle = Was.recycle /\ h.note = Was.note
       /\ h.main # "none" => h.image = Was.image

\* The operation comes to an end, and if it was rolled back, Q holds.
Reverts(Q) == \E r \in Results : Ended(r) /\ (r = "rolledback" => Q)

LEMMA StoppedAsConfigured ==
  ASSUME product = "hermes", ~CleanedUp, HermesFit(Was), Was.home = Parts, Was.main # "none", Whole(Was)
  PROVE  Was.conf = (IF Was.main = "running" THEN {"active"} ELSE {"disabled"}) /\ Was.mapped
<1>1. RuntimeOf(Was) = IF Was.main = "running" THEN "up" ELSE "stopped"
  BY HermesLooks DEF HermesFit, Container
<1> QED BY <1>1 DEF Whole, Reached

LEMMA RenewsBack ==
  ASSUME product = "hermes", op = "update_version", ~CleanedUp, DOMAIN host = Fields, Local(kept), HermesFit(Was),
         HermesServes(host), HUpdates, Whole(Was), HermesUpdate \/ HermesStop, RenewBack(pc, stack, kept, host)
  PROVE  \/ \E p, s, k : Went(p, s, k) /\ p # "idle" /\ RenewBack(p, s, k, host')
         \/ Reverts(PutBack(host'))
<1> DEFINE Goal == \/ \E p, s, k : Went(p, s, k) /\ p # "idle" /\ RenewBack(p, s, k, host')
                   \/ Reverts(PutBack(host'))
<1> SUFFICES Goal
  OBVIOUS
<1>1. ASSUME Was.main # "none"
      PROVE  Was.conf = IF Was.main = "running" THEN {"active"} ELSE {"disabled"}
  <2>1. Was.home = Parts
    BY <1>1 DEF HermesServes, DataAs
  <2> QED BY <1>1, <2>1, StoppedAsConfigured
<1>2. HermesServes(host')
  BY HermesUpdating, HermesUpdateStopping DEF HermesFit
<1>3. host'.home = Was.home /\ host'.bin = Was.bin /\ host'.recycle = Was.recycle /\ host'.note = Was.note
  BY <1>2 DEF HermesServes, DataAs
<1>4. CASE stack = <<>> /\ HermesUpdate
  <2> DEFINE k0 == Locals([image |-> host.image, running |-> host.main = "running"])
  <2>1. \A t, k : To(t, k) => IF t \in Results THEN Ended(t) ELSE Went(t, <<>>, k)
    BY <1>4, Alone
  <2>2. k0.running = (host.main = "running") /\ k0.image = host.image
    BY DEF Locals, Local, LocalNames
  <2>3. <<>> # <<Retracting>>
    OBVIOUS
  <2>4. pc # "update_version" => Was.main # "none" /\ kept.running = (Was.main = "running")
    BY DEF HUpdates
  <2>5. pc = "update_version" => host.main = Was.main
    BY DEF HUpdates, HUpdate, HStop
  <2> HIDE DEF k0
  <2>16. ASSUME pc # "update_version", NEW t \in HUpdate, Went(t, <<>>, kept),
               host'.conf = host.conf, host'.mapped = host.mapped, host'.net = host.net, host'.linked = host.linked,
               t \in {"update.stop", "update.undo.stop"} => Was.main # "running",
               t \in {"update.undo.wait", "update.undo.stop"} => host'.image = Was.image
        PROVE  Goal
    <3>1. RenewBack(t, <<>>, kept, host') /\ t # "idle"
      BY <2>3, <2>16 DEF RenewBack, HUpdate, HStop
    <3> QED BY <2>16, <3>1
  <2>17. ASSUME NEW r \in Results \ {"rolledback"}, Ended(r) PROVE Goal
    BY <2>17 DEF Reverts
  <2>18. "ok" \in Results /\ "fail" \in Results /\ "raise" \in Results /\ "manual" \in Results /\ "rolledback" \in Results
        /\ HUpdate \cap Results = {}
    BY DEF Results, HUpdate
  <2>19. \A x \in HUpdate : x \notin Results
    BY <2>18
  <2> HIDE DEF Goal
  <2> USE DEF RenewBack, Fields, HStop, HUpdate
  <2>6. CASE Reads("update_version", host.main # "none", k0, IF host.image = "new" THEN "ok" ELSE "update.look", "fail", "raise")
    <3>1. host' = host /\ pc = "update_version" /\ (Ended("ok") \/ Ended("fail") \/ Ended("raise") \/ (host.main # "none" /\ Went("update.look", <<>>, k0)))
      BY <2>1, <2>6 DEF Reads, Results
    <3>2. host.main # "none" => RenewBack("update.look", <<>>, k0, host')
      BY <1>1, <2>2, <2>3, <2>5, <3>1
    <3> QED BY <2>17, <2>18, <3>1, <3>2 DEF Goal
  <2>7. CASE Reads("update.look", TRUE, kept, "update.remove", "fail", "raise")
    BY <2>1, <2>16, <2>17, <2>18, <2>19, <2>7 DEF Reads
  <2>8. CASE Runs("update.remove", Removed({"main"}), {}, "update.run", "fail", "raise")
    <3>1. /\ pc = "update.remove" /\ (Ended("fail") \/ Ended("raise") \/ Went("update.run", <<>>, kept))
          /\ host'.conf = host.conf /\ host'.mapped = host.mapped /\ host'.net = host.net /\ host'.linked = host.linked
      BY <2>1, <2>8 DEF Runs, Removed, Results
    <3> QED BY <2>16, <2>17, <2>18, <3>1
  <2>9. CASE Runs("update.run", RanMain("new"), CreatedMain("new"), "update.wait", "update.undo", "update.undo")
    <3>1. \E t \in {"update.wait", "update.undo"} : Went(t, <<>>, kept)
      BY <2>1, <2>9 DEF Runs, Results
    <3>2. host' = host \/ host' \in RanMain("new") \/ host' \in CreatedMain("new")
      BY <2>9 DEF Runs
    <3>3. host'.conf = host.conf /\ host'.mapped = host.mapped /\ host'.net = host.net /\ host'.linked = host.linked
      BY <3>2 DEF RanMain, CreatedMain, Ran, Created
    <3> QED BY <2>16, <2>9, <3>1, <3>3 DEF Runs
  <2>10. CASE WaitForDashboard("update.wait", IF kept.running THEN "ok" ELSE "update.stop",
           "update.undo", "update.undo")
    <3>1. /\ pc = "update.wait" /\ host' = host
          /\ Ended("ok") \/ Went("update.undo", <<>>, kept) \/ (~kept.running /\ Went("update.stop", <<>>, kept))
      BY <2>1, <2>10 DEF WaitForDashboard, Reads, Results
    <3> QED BY <2>4, <2>16, <2>17, <2>18, <3>1
  <2>11. CASE Calls("update.stop", "stop", kept, "ok", "update.undo", "update.undo")
    <3>1. Went("stop", <<HaltFrom>>, kept) /\ host' = host /\ pc = "update.stop"
      BY <1>4, <2>11, CallsFrom DEF HaltFrom
    <3>2. <<HaltFrom>> # <<Retracting>>
      BY DEF HaltFrom, Retracting, Caller
    <3>3. RenewBack("stop", <<HaltFrom>>, kept, host') /\ "stop" # "idle"
      BY <3>1, <3>2
    <3> QED BY <3>1, <3>3 DEF Goal
  <2>12. CASE Tries("update.undo", Removed({"main"}), kept, "update.undo.run", "raise")
    <3>1. /\ pc = "update.undo" /\ (Ended("raise") \/ Went("update.undo.run", <<>>, kept))
          /\ host'.conf = host.conf /\ host'.mapped = host.mapped /\ host'.net = host.net /\ host'.linked = host.linked
      BY <2>1, <2>12 DEF Tries, Removed, Results
    <3> QED BY <2>16, <2>17, <2>18, <3>1
  <2>13. CASE Runs("update.undo.run", RanMain(kept.image), CreatedMain(kept.image), "update.undo.wait", "manual", "raise")
    <3>1. \/ host' \in RanMain(kept.image) /\ Went("update.undo.wait", <<>>, kept)
          \/ Ended("manual") \/ Ended("raise")
      BY <2>1, <2>13 DEF Runs, Results
    <3>2. ASSUME host' \in RanMain(kept.image)
          PROVE  host'.conf = host.conf /\ host'.mapped = host.mapped /\ host'.net = host.net /\ host'.linked = host.linked
                 /\ host'.image = kept.image
      BY <3>2, RunsMain
    <3> QED BY <2>16, <2>17, <2>18, <2>13, <3>1, <3>2 DEF Runs
  <2>14. CASE WaitForDashboard("update.undo.wait",
           IF kept.running THEN "rolledback" ELSE "update.undo.stop", "manual", "raise")
    <3>1. \/ host' = host /\ host.main = "running" /\ pc = "update.undo.wait"
             /\ (IF kept.running THEN Ended("rolledback") ELSE Went("update.undo.stop", <<>>, kept))
          \/ Ended("manual") \/ Ended("raise")
      BY <2>1, <2>14 DEF WaitForDashboard, Reads, AllUp, Results
    <3>2. kept.running /\ host' = host /\ host.main = "running" /\ pc = "update.undo.wait" => PutBack(host')
      BY <1>3, <2>4 DEF PutBack
    <3>3. CASE Ended("rolledback") /\ kept.running /\ host' = host /\ host.main = "running" /\ pc = "update.undo.wait"
      BY <2>18, <3>2, <3>3 DEF Goal, Reverts
    <3> QED BY <2>4, <2>16, <2>17, <2>18, <3>1, <3>3
  <2>15. CASE Calls("update.undo.stop", "stop", kept, "rolledback", "manual", "raise")
    <3>1. Went("stop", <<Retracting>>, kept) /\ host' = host /\ pc = "update.undo.stop"
      BY <1>4, <2>15, CallsFrom DEF Retracting
    <3>2. RenewBack("stop", <<Retracting>>, kept, host') /\ "stop" # "idle"
      BY <3>1
    <3> QED BY <3>1, <3>2 DEF Goal
  <2> QED BY <1>4, <2>6, <2>7, <2>8, <2>9, <2>10, <2>11, <2>12, <2>13, <2>14, <2>15 DEF HermesUpdate, k0
<1>5. CASE HermesStop
  <2>1. pc \in HStop /\ Was.main # "running" /\ Was.main # "none" /\ stack \in {<<HaltFrom>>, <<Retracting>>}
    BY <1>5, HermesFunctions DEF HUpdates, HUpdate, HStop, HaltFrom, RenewBack
  <2>2. \E t \in HStop \cup {"ok", "fail", "raise"} :
          /\ To(t, kept) /\ host'.image = host.image /\ host'.mapped = host.mapped /\ host'.net = host.net
          /\ host'.linked = host.linked /\ host'.conf \in {{"active"}, {"disabled"}}
          /\ t \in {"stop.reload", "stop.main", "ok"} => host'.conf = {"disabled"}
          /\ t = "ok" => host'.main = "stopped"
    <3> USE DEF RenewBack, Fields, HStop
    <3>1. host.conf \in {{"active"}, {"disabled"}}
      BY <2>1
    <3>2. CASE "active" \notin host.conf /\ Decides("stop", "stop.main", kept)
      BY <3>1, <3>2 DEF Decides
    <3>3. CASE "active" \in host.conf /\ Writes("stop", [host EXCEPT !.conf = {"disabled"}], {}, "stop.reload", "raise")
      BY <3>1, <3>3 DEF Writes
    <3>4. CASE Runs("stop.reload", Reloaded, {}, "stop.main", "stop.back", "raise")
      <4>1. host' = host \/ host' \in Reloaded
        BY <3>4 DEF Runs
      <4>2. /\ host'.image = host.image /\ host'.mapped = host.mapped /\ host'.net = host.net
            /\ host'.linked = host.linked /\ host'.conf = host.conf
        BY <4>1 DEF Reloaded, Loaded
      <4> QED BY <3>4, <4>2 DEF Runs
    <3>5. CASE Writes("stop.back", [host EXCEPT !.conf = {"active"}], {}, "stop.again", "raise")
      BY <3>1, <3>5 DEF Writes
    <3>6. CASE Runs("stop.main", Stopped("main"), {}, "ok",
          IF "disabled" \in host.conf THEN "stop.back" ELSE "fail", "raise")
      BY <3>1, <3>6 DEF Runs, Stopped
    <3>7. CASE Tries("stop.again", Reloaded, kept, "fail", "raise")
      <4>1. host' = host \/ host' \in Reloaded
        BY <3>7 DEF Tries
      <4>2. /\ host'.image = host.image /\ host'.mapped = host.mapped /\ host'.net = host.net
            /\ host'.linked = host.linked /\ host'.conf = host.conf
        BY <4>1 DEF Reloaded, Loaded
      <4> QED BY <3>1, <3>7, <4>2 DEF Tries
    <3> QED BY <1>5, <3>2, <3>3, <3>4, <3>5, <3>6, <3>7 DEF HermesStop
  <2>3. PICK t \in HStop \cup {"ok", "fail", "raise"} :
          /\ To(t, kept) /\ host'.image = host.image /\ host'.mapped = host.mapped /\ host'.net = host.net
          /\ host'.linked = host.linked /\ host'.conf \in {{"active"}, {"disabled"}}
          /\ t \in {"stop.reload", "stop.main", "ok"} => host'.conf = {"disabled"}
          /\ t = "ok" => host'.main = "stopped"
    BY <2>2
  <2>4. CASE t \in HStop
    <3>1. Went(t, stack, kept)
      BY <2>3, <2>4, Within DEF Results, HStop
    <3> QED BY <1>1, <2>1, <2>3, <2>4, <3>1 DEF RenewBack, HStop
  <2>5. CASE t \in {"ok", "fail", "raise"} /\ stack = <<HaltFrom>>
    <3>1. Answer(HaltFrom, t) = IF t = "ok" THEN "ok" ELSE "update.undo"
      BY <2>5, Answers DEF HaltFrom
    <3>2. IF t = "ok" THEN Ended("ok") ELSE Went("update.undo", <<>>, kept)
      BY <2>3, <2>5, <3>1, OneCaller DEF Results
    <3>3. <<>> # <<Retracting>>
      OBVIOUS
    <3>4. RenewBack("update.undo", <<>>, kept, host')
      BY <1>1, <2>1, <2>3, <3>3 DEF RenewBack, HStop
    <3> QED BY <3>2, <3>4 DEF Reverts, Results
  <2>6. CASE t \in {"ok", "fail", "raise"} /\ stack = <<Retracting>>
    <3>1. Answer(Retracting, t) = IF t = "ok" THEN "rolledback" ELSE IF t = "raise" THEN "raise" ELSE "manual"
      BY <2>6, Answers DEF Retracting
    <3>2. Ended(Answer(Retracting, t))
      BY <2>3, <2>6, <3>1, OneCaller DEF Results
    <3>3. t = "ok" => PutBack(host')
      BY <1>1, <1>3, <2>1, <2>3, <2>6 DEF RenewBack, PutBack, HStop, HermesFit, Container
    <3> QED BY <3>1, <3>2, <3>3 DEF Reverts, Results
  <2> QED BY <2>1, <2>3, <2>4, <2>5, <2>6
<1>6. HermesUpdate => stack = <<>>
  BY HermesFunctions DEF HUpdates, HUpdate, HStop
<1> QED BY <1>4, <1>5, <1>6
=============================================================================
