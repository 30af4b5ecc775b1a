----------------------------- MODULE AdapterHost -----------------------------
(***************************************************************************)
(* What the product adapters (services/manager-web/instance_adapters.py)   *)
(* work on, and the steps they are made of: one instance on the host, and  *)
(* the operation the executor runs on it.  An operation is a sequence of   *)
(* docker commands, scripts and file operations.  Each may fail: a command *)
(* returns a code, or runs into its timeout and raises, done or not; a     *)
(* file operation raises.  The executor may be killed between two steps,   *)
(* and then nothing is undone.                                             *)
(***************************************************************************)
EXTENDS Naturals, Sequences

CONSTANTS
  Products,  \* the products to look at
  Menus,     \* bound: the sets of requests that are made of one instance
  MaxFaults  \* bound: commands that fail and deaths of the executor

ASSUME HostAssumption ==
  Products \subseteq {"openclaw", "hermes", "evoscientist"} /\ MaxFaults \in Nat

VARIABLES
  product,
  menu,     \* the requests made of this instance
  host,     \* what there is of the instance on the host
  row,      \* where its metadata row stands, as far as Control admits requests by it
  op,       \* the operation that runs, or ran last
  pc,       \* its next step
  stack,    \* where the callers of the running function go on
  kept,     \* its local variables
  before,   \* host and faults when the operation began
  outcome,  \* how it ended
  faults

lvars == <<product, menu, host, row, op, pc, stack, kept, before, outcome, faults>>

\* the files and directories that are moved to the recycle bin, in this order
PartsOf == [openclaw     |-> <<"user">>,
            hermes       |-> <<"data">>,
            evoscientist |-> <<"workspace", "evoscientist-data", "tcp_proxy.py">>]
Parts == {PartsOf[product][k] : k \in DOMAIN PartsOf[product]}
First(S) == PartsOf[product][CHOOSE k \in DOMAIN PartsOf[product] :
              /\ PartsOf[product][k] \in S
              /\ \A j \in 1..(k - 1) : PartsOf[product][j] \notin S]

Containers == {"main", "proxy", "ingress"}
NoNote     == [image |-> "unset", running |-> FALSE]

\* Nothing there but the platform's Nginx and model proxy.
BareHost ==
  [home |-> {}, bin |-> {},          \* the parts in the data directory and in the recycle bin
   recycle |-> "none",               \* the recycle entry: "dir", "listed" with its manifest
   note |-> NoNote,                  \* what the manifest says
   site |-> FALSE,                   \* OpenClaw: the site is in the entry, too
   older |-> {},                     \* OpenClaw: earlier entries, with "data" or "empty"
   main |-> "none", proxy |-> "none", ingress |-> "none",
   image |-> "unset",                \* of the main container
   file |-> "unset",                 \* OpenClaw: the image in its compose file
   conf |-> {},                      \* ingress configuration: {"active"}, {"disabled"}, both
   mapped |-> FALSE,                 \* the port is in the Nginx compose file
   served |-> FALSE,                 \* the running Nginx has loaded the configuration
   net |-> FALSE, linked |-> FALSE,  \* the tenant network, and the model proxy in it
   token |-> "none", models |-> {},  \* the model proxy's files: the key, the models allowed
   model |-> "none", key |-> "none", \* the instance's configuration of its model
   skills |-> "none",                \* OpenClaw: the skills directory,
   snap |-> "unset",                 \* its snapshot for the installation under way,
   auth |-> FALSE, asked |-> FALSE]  \* Basic Auth in the site, and in the running Nginx

NoLocals ==
  [image |-> "unset", running |-> FALSE, target |-> "unset", conf |-> {}, mapped |-> FALSE,
   inner |-> [conf |-> {}, mapped |-> FALSE],
   net |-> TRUE, linked |-> FALSE, failed |-> FALSE, todo |-> <<>>, done |-> <<>>,
   wanted |-> "none", was |-> BareHost]

\* the local variables after some are assigned
Locals(assigned) == [v \in DOMAIN kept |-> IF v \in DOMAIN assigned THEN assigned[v] ELSE kept[v]]

------------------------------------------------------------------------------
(* The course of an operation *)

Results == {"ok", "fail", "raise", "rolledback", "manual"}

\* a result goes to the caller, which may pass it on and takes what was undone
\* for a failure
Land(at) ==
  IF at[1] \in Results /\ at[2] # <<>>
  THEN <<Head(at[2])[IF at[1] \in {"ok", "raise"} THEN at[1] ELSE "fail"], Tail(at[2])>>
  ELSE at
Landing(t) == Land(Land(Land(<<t, stack>>)))

\* what the report of the result does to the row; the scripts of OpenClaw write
\* it themselves before
RowAfter(r) ==
  IF op = "create" THEN IF r = "ok" THEN "live" ELSE "failed"
  ELSE IF pc = "delete.written" \/ (op = "delete" /\ r = "ok") THEN "deleted"
  ELSE IF pc = "restore.written" \/ (op = "restore" /\ r = "ok") THEN "live"
  ELSE IF op \in {"purge_deleted", "cleanup_failed"} /\ r = "ok" THEN "gone" ELSE row

\* The next step is t, with the local variables k; a result ends the function.
To(t, k) ==
  LET at == Landing(t) IN
  /\ stack' = at[2]
  /\ IF at[1] \in Results
     THEN /\ pc' = "idle" /\ kept' = NoLocals
          /\ outcome' = at[1] /\ row' = RowAfter(at[1])
     ELSE pc' = at[1] /\ kept' = k /\ UNCHANGED <<outcome, row>>
  /\ UNCHANGED <<product, menu, op, before>>

Fault == faults < MaxFaults /\ faults' = faults + 1

\* A command: good are the hosts it may lead to, none if it cannot succeed,
\* part what it may leave half done.
Runs(at, good, part, next, bad, exc) ==
  /\ pc = at
  /\ \/ host' \in good /\ To(next, kept) /\ UNCHANGED faults
     \/ good = {} /\ To(bad, kept) /\ UNCHANGED <<host, faults>>
     \/ good # {} /\ Fault /\ host' \in part \cup {host} /\ To(bad, kept)
     \/ good # {} /\ Fault /\ host' \in good \cup part \cup {host} /\ To(exc, kept)

\* A command, or a few, whose code nobody looks at.
Tries(at, good, k, next, exc) ==
  /\ pc = at
  /\ \/ host' \in (IF good = {} THEN {host} ELSE good) /\ To(next, k) /\ UNCHANGED faults
     \/ good # {} /\ Fault /\ To(next, k) /\ UNCHANGED host
     \/ good # {} /\ Fault /\ host' \in good \cup {host} /\ To(exc, kept)

\* A command that looks something up into the locals k.
Reads(at, found, k, next, bad, exc) ==
  /\ pc = at
  /\ \/ found /\ To(next, k) /\ UNCHANGED faults
     \/ ~found /\ To(bad, kept) /\ UNCHANGED faults
     \/ found /\ Fault /\ (To(bad, kept) \/ To(exc, kept))
  /\ UNCHANGED host

\* File operations.
Writes(at, h, part, next, exc) ==
  /\ pc = at
  /\ \/ host' = h /\ To(next, kept) /\ UNCHANGED faults
     \/ Fault /\ host' \in part \cup {host} /\ To(exc, kept)

\* the parts in S one after the other from one place to the other
Moves(at, S, from, to, next, exc) ==
  IF S = {} THEN pc = at /\ To(next, kept) /\ UNCHANGED <<host, faults>>
  ELSE Writes(at, [host EXCEPT ![from] = @ \ {First(S)}, ![to] = @ \cup {First(S)}], {}, at, exc)

Calls(at, f, k, ok, bad, exc) ==
  /\ pc = at
  /\ pc' = f /\ kept' = k
  /\ stack' = <<[ok |-> ok, fail |-> bad, raise |-> exc]>> \o stack
  /\ UNCHANGED <<product, menu, host, row, op, before, outcome, faults>>

\* The code decides without doing anything.
Decides(at, t, k) == pc = at /\ To(t, k) /\ UNCHANGED <<host, faults>>

------------------------------------------------------------------------------
(* Docker *)

Removed(S)  == {[c \in DOMAIN host |-> IF c \in S THEN "none" ELSE host[c]]}
Created(c)  == IF host[c] = "none" THEN {[host EXCEPT ![c] = "stopped"]} ELSE {}
\* the proxy of EvoScientist lives in the network of the main container
Joins(c)    == c = "proxy" => host.main = "running"
Ran(c)      == IF host[c] = "none" /\ Joins(c) THEN {[host EXCEPT ![c] = "running"]} ELSE {}
Started(c)  == IF host[c] # "none" /\ Joins(c) THEN {[host EXCEPT ![c] = "running"]} ELSE {}
Stopped(c)  == IF host[c] # "none" THEN {[host EXCEPT ![c] = "stopped"]} ELSE {}
AllUp(S)    == \A c \in S : host[c] = "running"
\* docker run of the main container with an image
RanMain(image)     == {[h EXCEPT !.image = image] : h \in Ran("main")}
CreatedMain(image) == {[h EXCEPT !.image = image] : h \in Created("main")}

\* reload_nginx: the configuration as it is now is loaded
Loaded(h) == [h EXCEPT !.served = "active" \in h.conf, !.asked = h.auth]
Reloaded  == {Loaded(host)}
\* apply_nginx_compose connects the shared services to the networks of running
\* instances; it recreates the Nginx container if its ports changed, which loads
\* the configuration too
Applied ==
  LET h == [host EXCEPT !.linked = @ \/ (host.main = "running" /\ host.net)] IN
  {h, Loaded(h)}

------------------------------------------------------------------------------
\* The requests that Control admits and the executor hands to the adapter.
Begin(a) ==
  /\ pc = "idle" /\ a \in menu
  /\ op' = a /\ pc' = a
  /\ before' = [host |-> host, faults |-> faults] /\ outcome' = "none"
  /\ UNCHANGED <<product, menu, host, row, stack, kept, faults>>

Admitted(a) ==
  CASE a = "create"                       -> row = "new"
    [] a = "cleanup_failed"               -> row = "failed"
    [] a \in {"restore", "purge_deleted"} -> row = "deleted"
    [] OTHER                              -> row = "live"

\* The executor is killed.  The claim that finds the job stale fails a create;
\* of the others it leaves the row as it is.
Killed ==
  /\ pc # "idle" /\ Fault
  /\ pc' = "idle" /\ stack' = <<>> /\ kept' = NoLocals
  /\ outcome' = "killed" /\ row' = RowAfter("killed")
  /\ UNCHANGED <<product, menu, host, op, before>>

HostInit ==
  /\ product \in Products /\ menu \in Menus
  /\ host = BareHost
  /\ row = "new" /\ op = "none" /\ pc = "idle" /\ stack = <<>> /\ kept = NoLocals
  /\ before = [host |-> BareHost, faults |-> 0] /\ outcome = "none" /\ faults = 0
=============================================================================
