----------------------------- MODULE Kubeconfig -----------------------------
(***************************************************************************)
(* The kubectl plugin (cli/kubectl-gw): `kubectl gw cluster <name>' makes  *)
(* a context for a managed cluster behind the gateway and switches to it.  *)
(*                                                                         *)
(* An invocation reads the kubeconfig without a lock (Complete), computes  *)
(* a whole new configuration from what it read (Run), and hands it to      *)
(* clientcmd.ModifyConfig.  That library function is external and modelled *)
(* from how it behaves: it creates a lock file or fails, reads the file    *)
(* again, and turns it into the new configuration by one write of the      *)
(* whole file per difference: current context, clusters, contexts, then    *)
(* the entries the new configuration does not have.  A write truncates the *)
(* file before it fills it.                                                *)
(***************************************************************************)
EXTENDS Naturals, Sequences

CONSTANTS
    Invocations,  \* the runs of the plugin
    Names,        \* the names of contexts and of clusters
    Root,         \* the context every cluster context is derived from
    RootCluster,  \* the cluster of the root context at the start
    None          \* no such entry

ASSUME NamesAssumption ==
    /\ Root \in Names
    /\ RootCluster \in Names
    /\ None \notin Names
    /\ None \notin Seq(Names)

VARIABLES
    file,     \* the content of the kubeconfig
    lock,     \* TRUE iff the lock file exists
    pc,       \* pc[p]: where invocation p is
    name,     \* name[p]: its argument
    snapshot, \* snapshot[p]: Options.startingConfig
    pending,  \* pending[p]: the content of the write in progress, or None
    outcome   \* history: how the last holder of the lock released it

vars == <<file, lock, pc, name, snapshot, pending, outcome>>
-----------------------------------------------------------------------------
(* A context is its cluster's name.  A server is the list of the cluster   *)
(* names appended to the gateway's address, each after "/clusters/".       *)
Config == [contexts : [Names -> Names \cup {None}],
           clusters : [Names -> Seq(Names) \cup {None}],
           current : Names \cup {None}]
EmptyConfig == [contexts |-> [k \in Names |-> None],
                clusters |-> [k \in Names |-> None],
                current |-> None]

ASSUME NoneAssumption == None \notin Config

(* The phases of ModifyConfig under the lock, in their order.              *)
Phases == {"current", "clusters", "contexts", "dropClusters", "dropContexts"}
NextPhase == [current |-> "clusters", clusters |-> "contexts",
              contexts |-> "dropClusters", dropClusters |-> "dropContexts"]
Ended == {"done", "refused", "locked", "failed", "killed", "orphaned"}

HasContext(config, n) == config.contexts[n] # None
HasCluster(config, n) == config.clusters[n] # None

(* The two lookups of Run that fail without a write.                       *)
HasRoot(config) == HasContext(config, Root)
                   /\ HasCluster(config, config.contexts[Root])

RootServer(config) == config.clusters[config.contexts[Root]]
Switched(config, n, server) ==
    [config EXCEPT !.clusters[n] = server, !.contexts[n] = n, !.current = n]

(* Variants of Derived: from the current context; without the context;     *)
(* with the bare name for an address.                                      *)
DerivedFromCurrent(config, n) ==
    LET base == IF HasContext(config, config.current)
                THEN config.current ELSE Root
        server == config.clusters[config.contexts[base]]
    IN  Switched(config, n, IF server = None THEN <<n>> ELSE Append(server, n))
DerivedContextless(config, n) ==
    [Switched(config, n, Append(RootServer(config), n))
       EXCEPT !.contexts[n] = config.contexts[n]]
DerivedRelative(config, n) == Switched(config, n, n)

(* What Run makes of its snapshot for a name that has no context yet.      *)
Derived(config, n) == Switched(config, n, Append(RootServer(config), n))

(* newKubeConfig, of a snapshot and an argument; of invocation p.          *)
ConfigFor(config, n) ==
    IF HasContext(config, n) THEN [config EXCEPT !.current = n]
    ELSE Derived(config, n)
NewConfig(p) == ConfigFor(snapshot[p], name[p])

(* The root context stands, its cluster perhaps does not.                  *)
InitialConfigs ==
    { [EmptyConfig EXCEPT !.contexts[Root] = RootCluster,
                          !.clusters[RootCluster] = server,
                          !.current = Root] : server \in {<< >>, None} }

Init ==
    /\ file \in InitialConfigs
    /\ lock = FALSE
    /\ pc = [p \in Invocations |-> "idle"]
    /\ name = [p \in Invocations |-> None]
    /\ snapshot = [p \in Invocations |-> EmptyConfig]
    /\ pending = [p \in Invocations |-> None]
    /\ outcome = "none"
-----------------------------------------------------------------------------
(* Complete reads the file, possibly in the middle of another invocation's *)
(* ModifyConfig; Run computes the new configuration or gives up.           *)
Start(p, n) ==
    /\ pc[p] = "idle"
    /\ name' = [name EXCEPT ![p] = n]
    /\ snapshot' = [snapshot EXCEPT ![p] = file]
    /\ pc' = [pc EXCEPT ![p] = IF HasContext(file, n) \/ HasRoot(file)
                               THEN "modify" ELSE "refused"]
    /\ UNCHANGED <<file, lock, pending, outcome>>

CreateLock(p, next) ==
    /\ pc[p] = "modify"
    /\ lock' = TRUE
    /\ pc' = [pc EXCEPT ![p] = next]
    /\ UNCHANGED <<file, name, snapshot, pending, outcome>>

(* Variants of Lock: without O_EXCL; waiting for the file to go away.      *)
LockShared(p) == CreateLock(p, "current")
LockWaiting(p) == ~lock /\ CreateLock(p, "current")

(* ModifyConfig creates the lock file, or fails if it is there.            *)
Lock(p) == CreateLock(p, IF lock THEN "locked" ELSE "current")

(* The configurations that the next write of p's phase may produce, if it  *)
(* is one of `phases'; the maps of a configuration are ranged over in any  *)
(* order, and the contexts that are new or changed go into one write.      *)
EditsIn(p, phases) ==
    LET new == NewConfig(p) IN
    { config \in
        IF pc[p] \notin phases THEN {} ELSE
        CASE pc[p] = "current" -> {[file EXCEPT !.current = new.current]}
          [] pc[p] = "clusters" ->
               {[file EXCEPT !.clusters[k] = new.clusters[k]] :
                  k \in {l \in Names : HasCluster(new, l)}}
          [] pc[p] = "contexts" -> {[file EXCEPT !.contexts =
               [k \in Names |-> IF HasContext(new, k) THEN new.contexts[k]
                                ELSE file.contexts[k]]]}
          [] pc[p] = "dropClusters" ->
               {[file EXCEPT !.clusters[k] = None] :
                  k \in {l \in Names : ~HasCluster(new, l)}}
          [] pc[p] = "dropContexts" ->
               {[file EXCEPT !.contexts[k] = None] :
                  k \in {l \in Names : ~HasContext(new, l)}}
      : config # file }

(* A variant of Edits that never deletes a context.                        *)
EditsKeepingContexts(p) == EditsIn(p, Phases \ {"dropContexts"})
Edits(p) == EditsIn(p, Phases)

Truncate(p) ==
    /\ pc[p] \in Phases
    /\ pending[p] = None
    /\ \E config \in Edits(p) : pending' = [pending EXCEPT ![p] = config]
    /\ file' = EmptyConfig
    /\ UNCHANGED <<lock, pc, name, snapshot, outcome>>

Fill(p) ==
    /\ pc[p] \in Phases
    /\ pending[p] # None
    /\ file' = pending[p]
    /\ pending' = [pending EXCEPT ![p] = None]
    /\ UNCHANGED <<lock, pc, name, snapshot, outcome>>

Advance(p) ==
    /\ pc[p] \in DOMAIN NextPhase
    /\ pending[p] = None
    /\ Edits(p) = {}
    /\ pc' = [pc EXCEPT ![p] = NextPhase[pc[p]]]
    /\ UNCHANGED <<file, lock, name, snapshot, pending, outcome>>

(* ModifyConfig removes the lock file and returns; Run prints `Current     *)
(* cluster is the "<name>".'                                               *)
Finish(p) ==
    /\ pc[p] = "dropContexts"
    /\ pending[p] = None
    /\ Edits(p) = {}
    /\ lock' = FALSE
    /\ pc' = [pc EXCEPT ![p] = "done"]
    /\ outcome' = "done"
    /\ UNCHANGED <<file, name, snapshot, pending>>

(* A write fails, before or after it truncated the file: ModifyConfig      *)
(* removes the lock file and returns the error.                            *)
WriteFails(p) ==
    /\ pc[p] \in Phases
    /\ pending[p] # None \/ Edits(p) # {}
    /\ lock' = FALSE
    /\ pc' = [pc EXCEPT ![p] = "failed"]
    /\ pending' = [pending EXCEPT ![p] = None]
    /\ outcome' = "failed"
    /\ UNCHANGED <<file, name, snapshot>>

(* The process is interrupted.  Nobody removes a lock file it created.     *)
Kill(p) ==
    /\ pc[p] \in Phases \cup {"modify"}
    /\ pc' = [pc EXCEPT ![p] = IF pc[p] = "modify" THEN "killed" ELSE "orphaned"]
    /\ pending' = [pending EXCEPT ![p] = None]
    /\ UNCHANGED <<file, lock, name, snapshot, outcome>>

Run(p) == Lock(p) \/ Truncate(p) \/ Fill(p) \/ Advance(p) \/ Finish(p)

Next == \E p \in Invocations :
          \/ \E n \in Names : Start(p, n)
          \/ Run(p)
          \/ WriteFails(p)
          \/ Kill(p)

Safety == Init /\ [][Next]_vars

(* The operating system runs a process that can run.                       *)
Spec == Safety /\ \A p \in Invocations : WF_vars(Run(p))
-----------------------------------------------------------------------------
(* Every variable keeps its type: above all, whatever is written to the    *)
(* file is a configuration, and a server an address below the gateway's.   *)
TypeOK ==
    /\ file \in Config
    /\ lock \in BOOLEAN
    /\ pc \in [Invocations -> {"idle", "modify"} \cup Phases \cup Ended]
    /\ name \in [Invocations -> Names \cup {None}]
    /\ snapshot \in [Invocations -> Config]
    /\ pending \in [Invocations -> Config \cup {None}]
    /\ outcome \in {"none", "done", "failed"}

(* At most one invocation is between the creation and the removal of the   *)
(* lock file, the file exists exactly as long, and an invocation that was  *)
(* killed in between keeps every later one out.                            *)
LockHolders == {p \in Invocations : pc[p] \in Phases \cup {"orphaned"}}
LockExcludes ==
    /\ lock <=> LockHolders # {}
    /\ \A p, q \in LockHolders : p = q

(* Unless the lock is held or its last holder failed, the current context  *)
(* exists, although the current context is written before the context.     *)
CurrentContextExists ==
    ~lock /\ outcome # "failed" => HasContext(file, file.current)

(* Servers nest ("/clusters/a/clusters/b") only after somebody used the    *)
(* name of the root context's own cluster; otherwise the root keeps its    *)
(* server and every derived server is one step below it.                   *)
NestingOnlyByCollision ==
    (\A p \in Invocations : name[p] # RootCluster) =>
        \A k \in Names : HasCluster(file, k) =>
            file.clusters[k] = IF k = RootCluster THEN << >> ELSE <<k>>

(* Every invocation that got to Run's modifyConfig ends.                   *)
RunsEnd == \A p \in Invocations : pc[p] = "modify" ~> pc[p] \in Ended

(* The message Run prints on success, `Current cluster is the "<name>".',  *)
(* is true of the file it leaves: while the root entries are intact, the   *)
(* current context names a cluster that the file has.                      *)
CurrentClusterExists ==
    (~lock /\ outcome = "done" /\ HasRoot(file)) =>
        /\ HasContext(file, file.current)
        /\ HasCluster(file, file.contexts[file.current])
-----------------------------------------------------------------------------
(* The refinement: the store is torn while the lock file exists.           *)
Status(label) ==
    CASE label = "idle" -> "idle"
      [] label = "modify" -> "ready"
      [] label \in Phases -> "replacing"
      [] label = "done" -> "succeeded"
      [] OTHER -> "ended"

Store == INSTANCE KubeconfigStore WITH
    Clients <- Invocations,
    Contents <- Config,
    Initially <- InitialConfigs,
    Empty <- EmptyConfig,
    Torn <- None,
    NoName <- None,
    Replacement <- ConfigFor,
    stored <- IF lock THEN None ELSE file,
    status <- [p \in Invocations |-> Status(pc[p])],
    argument <- name,
    taken <- snapshot

(* The lock file and the many writes of ModifyConfig together make each    *)
(* success one replacement of the whole file, computed from the run's      *)
(* snapshot: nothing half done, but what others stored since is gone.      *)
ImplementsStore == Store!Spec
=============================================================================
