-------------------------- MODULE KubeconfigProofs ---------------------------
(***************************************************************************)
(* Proofs about concurrent runs of the plugin, for every number of runs    *)
(* and every set of names.                                                 *)
(***************************************************************************)
EXTENDS Kubeconfig, SequenceTheorems, TLAPS

(* What p has made of the file so far, whether or not it is written yet.   *)
Content(p) == IF pending[p] = None THEN file ELSE pending[p]

(* A run that may still write has an argument and a snapshot from which    *)
(* Run can compute; a write in progress has truncated the file.            *)
RunOK(p) ==
    /\ pc[p] # "idle" => name[p] \in Names
    /\ pc[p] = "idle" => name[p] = None
    /\ pc[p] \in {"modify"} \cup Phases =>
         HasContext(snapshot[p], name[p]) \/ HasRoot(snapshot[p])
    /\ pending[p] # None => pc[p] \in Phases

(* The phases of ModifyConfig that p has behind it did what they are for,  *)
(* and no later one undid it.                                              *)
ProgressOK(p) ==
    LET new == NewConfig(p)
        now == Content(p)
    IN  /\ pc[p] \in Phases \ {"current"} => now.current = new.current
        /\ pc[p] \in Phases \ {"current", "clusters"} =>
             \A k \in Names : HasCluster(new, k) =>
                                now.clusters[k] = new.clusters[k]
        /\ pc[p] \in {"dropClusters", "dropContexts"} =>
             \A k \in Names : HasContext(new, k) =>
                                now.contexts[k] = new.contexts[k]
        /\ pc[p] = "dropContexts" =>
             \A k \in Names : ~HasCluster(new, k) => now.clusters[k] = None

(* No server is nested, and the root context has its own cluster or none.  *)
Flat(config) ==
    /\ \A k \in Names : HasCluster(config, k) =>
         config.clusters[k] = IF k = RootCluster THEN << >> ELSE <<k>>
    /\ config.contexts[Root] \in {None, RootCluster}

FlatInv ==
    (\A p \in Invocations : name[p] # RootCluster) =>
        /\ Flat(file)
        /\ \A p \in Invocations : /\ Flat(snapshot[p])
                                  /\ pending[p] # None => Flat(pending[p])

IInv ==
    /\ TypeOK
    /\ LockExcludes
    /\ \A p \in Invocations : RunOK(p) /\ ProgressOK(p)
    /\ CurrentContextExists
    /\ FlatInv
-----------------------------------------------------------------------------
(* What Run makes of a snapshot it accepted: a configuration whose current *)
(* context is the argument, and exists.                                    *)
LEMMA ConfigForFacts ==
  ASSUME NEW config \in Config, NEW n \in Names,
         HasContext(config, n) \/ HasRoot(config)
  PROVE  /\ ConfigFor(config, n) \in Config
         /\ ConfigFor(config, n).current = n
         /\ HasContext(ConfigFor(config, n), n)
<1> USE NamesAssumption
<1>1. CASE HasContext(config, n)
  BY <1>1 DEF ConfigFor, Config, HasContext
<1>2. CASE ~HasContext(config, n)
  <2> DEFINE server == Append(RootServer(config), n)
             new == [config EXCEPT !.clusters[n] = server, !.contexts[n] = n,
                                   !.current = n]
  <2>1. config.contexts[Root] \in Names
    BY <1>2 DEF HasRoot, HasContext, Config
  <2>2. RootServer(config) \in Seq(Names)
    BY <1>2, <2>1 DEF HasRoot, HasCluster, RootServer, Config
  <2>3. server \in Seq(Names)
    BY <2>2, AppendProperties
  <2>4. ConfigFor(config, n) = new
    BY <1>2 DEF ConfigFor, Derived, Switched
  <2> HIDE DEF server
  <2>5. /\ new \in Config
        /\ new.current = n
        /\ new.contexts[n] = n
    BY <2>3 DEF Config
  <2> QED
    BY <2>4, <2>5 DEF HasContext
<1> QED
  BY <1>1, <1>2

(* It nests a server only for the name of the root context's own cluster.  *)
LEMMA ConfigForFlat ==
  ASSUME NEW config \in Config, NEW n \in Names, n # RootCluster,
         HasContext(config, n) \/ HasRoot(config), Flat(config)
  PROVE  Flat(ConfigFor(config, n))
<1> USE NamesAssumption
<1>1. CASE HasContext(config, n)
  BY <1>1 DEF ConfigFor, Config, Flat, HasCluster
<1>2. CASE ~HasContext(config, n)
  <2> DEFINE server == Append(RootServer(config), n)
             new == [config EXCEPT !.clusters[n] = server, !.contexts[n] = n,
                                   !.current = n]
  <2>1. config.contexts[Root] = RootCluster /\ n # Root
    BY <1>2 DEF HasRoot, HasContext, Config, Flat
  <2>2. RootServer(config) = << >>
    BY <1>2, <2>1 DEF HasRoot, HasCluster, RootServer, Flat
  <2>3. server = <<n>>
    BY <2>2
  <2>4. ConfigFor(config, n) = new
    BY <1>2 DEF ConfigFor, Derived, Switched
  <2> HIDE DEF server
  <2>5. /\ new.contexts[Root] = RootCluster
        /\ \A k \in Names : new.clusters[k] = IF k = n THEN server
                                              ELSE config.clusters[k]
    BY <2>1 DEF Config
  <2> QED
    BY <2>3, <2>4, <2>5 DEF Flat, HasCluster
<1> QED
  BY <1>1, <1>2

(* A write of ModifyConfig mixes the file with the new configuration:      *)
(* every entry is that of the one or that of the other.                    *)
Mixes(config, old, new) ==
    /\ config.current \in {old.current, new.current}
    /\ \A k \in Names :
         /\ config.clusters[k] \in {old.clusters[k], new.clusters[k]}
         /\ config.contexts[k] \in {old.contexts[k], new.contexts[k]}

LEMMA EditsMix ==
  ASSUME NEW p \in Invocations, file \in Config, NewConfig(p) \in Config,
         NEW config \in Edits(p)
  PROVE  config \in Config /\ Mixes(config, file, NewConfig(p))
<1> DEFINE new == NewConfig(p)
<1> HIDE DEF new
<1>0. new \in Config
  BY DEF new
<1>1. pc[p] \in Phases
  BY Zenon DEF Edits, EditsIn, Phases
<1>2. CASE pc[p] = "current"
  <2>1. config = [file EXCEPT !.current = new.current]
    BY <1>2, Zenon DEF Edits, EditsIn, Phases, new
  <2> QED
    BY <1>0, <2>1 DEF Config, Mixes, new
<1>3. CASE pc[p] = "clusters"
  <2>1. PICK k \in Names : config = [file EXCEPT !.clusters[k] = new.clusters[k]]
    BY <1>3, Zenon DEF Edits, EditsIn, Phases, new
  <2> QED
    BY <1>0, <2>1 DEF Config, Mixes, new
<1>4. CASE pc[p] = "contexts"
  <2>1. config = [file EXCEPT !.contexts =
                    [k \in Names |-> IF HasContext(new, k) THEN new.contexts[k]
                                     ELSE file.contexts[k]]]
    BY <1>4, Zenon DEF Edits, EditsIn, Phases, new
  <2> QED
    BY <1>0, <2>1 DEF Config, Mixes, new
<1>5. CASE pc[p] = "dropClusters"
  <2>1. PICK k \in Names : ~HasCluster(new, k) /\ config = [file EXCEPT !.clusters[k] = None]
    BY <1>5, Zenon DEF Edits, EditsIn, Phases, new
  <2> QED
    BY <1>0, <2>1 DEF Config, Mixes, new, HasCluster
<1>6. CASE pc[p] = "dropContexts"
  <2>1. PICK k \in Names : ~HasContext(new, k) /\ config = [file EXCEPT !.contexts[k] = None]
    BY <1>6, Zenon DEF Edits, EditsIn, Phases, new
  <2> QED
    BY <1>0, <2>1 DEF Config, Mixes, new, HasContext
<1> QED
  BY <1>1, <1>2, <1>3, <1>4, <1>5, <1>6 DEF Phases

(* When there is nothing left to write, the phase has done its part.       *)
LEMMA EditsDone ==
  ASSUME NEW p \in Invocations, file \in Config, NewConfig(p) \in Config,
         Edits(p) = {}
  PROVE  LET new == NewConfig(p) IN
         /\ pc[p] = "current" => file.current = new.current
         /\ pc[p] = "clusters" =>
              \A k \in Names : HasCluster(new, k) =>
                                 file.clusters[k] = new.clusters[k]
         /\ pc[p] = "contexts" =>
              \A k \in Names : HasContext(new, k) =>
                                 file.contexts[k] = new.contexts[k]
         /\ pc[p] = "dropClusters" =>
              \A k \in Names : ~HasCluster(new, k) => file.clusters[k] = None
         /\ pc[p] = "dropContexts" =>
              \A k \in Names : ~HasContext(new, k) => file.contexts[k] = None
<1> DEFINE new == NewConfig(p)
<1> HIDE DEF new
<1>0. new \in Config
  BY DEF new
<1>1. ASSUME pc[p] = "current" PROVE file.current = new.current
  <2>1. [file EXCEPT !.current = new.current] = file
    BY <1>1, Zenon DEF Edits, EditsIn, Phases, new
  <2> QED
    BY <1>0, <2>1 DEF Config
<1>2. ASSUME pc[p] = "clusters", NEW k \in Names, HasCluster(new, k)
      PROVE  file.clusters[k] = new.clusters[k]
  <2>1. [file EXCEPT !.clusters[k] = new.clusters[k]] = file
    BY <1>2, Zenon DEF Edits, EditsIn, Phases, new
  <2> QED
    BY <1>0, <2>1 DEF Config
<1>3. ASSUME pc[p] = "contexts", NEW k \in Names, HasContext(new, k)
      PROVE  file.contexts[k] = new.contexts[k]
  <2>1. [file EXCEPT !.contexts =
           [l \in Names |-> IF HasContext(new, l) THEN new.contexts[l]
                            ELSE file.contexts[l]]] = file
    BY <1>3, Zenon DEF Edits, EditsIn, Phases, new
  <2>2. file.contexts = [l \in Names |-> IF HasContext(new, l) THEN new.contexts[l]
                                         ELSE file.contexts[l]]
    BY <2>1 DEF Config
  <2> QED
    BY <1>3, <2>2
<1>4. ASSUME pc[p] = "dropClusters", NEW k \in Names, ~HasCluster(new, k)
      PROVE  file.clusters[k] = None
  <2>1. [file EXCEPT !.clusters[k] = None] = file
    BY <1>4, Zenon DEF Edits, EditsIn, Phases, new
  <2> QED
    BY <2>1 DEF Config
<1>5. ASSUME pc[p] = "dropContexts", NEW k \in Names, ~HasContext(new, k)
      PROVE  file.contexts[k] = None
  <2>1. [file EXCEPT !.contexts[k] = None] = file
    BY <1>5, Zenon DEF Edits, EditsIn, Phases, new
  <2> QED
    BY <2>1 DEF Config
<1> QED
  BY <1>1, <1>2, <1>3, <1>4, <1>5 DEF new

(* While a run writes, it alone holds the lock, and what it writes towards *)
(* is a configuration in which its argument is a context.                  *)
LEMMA HolderFacts ==
  ASSUME IInv, NEW p \in Invocations, pc[p] \in Phases
  PROVE  /\ lock
         /\ \A q \in Invocations \ {p} :
              pc[q] \notin Phases \cup {"orphaned"} /\ pending[q] = None
         /\ LockHolders = {p}
         /\ name[p] \in Names
         /\ NewConfig(p) \in Config
         /\ NewConfig(p).current = name[p]
         /\ HasContext(NewConfig(p), name[p])
<1>1. p \in LockHolders
  BY DEF LockHolders
<1>2. lock /\ \A q \in LockHolders : q = p
  BY <1>1 DEF IInv, LockExcludes
<1>3. \A q \in Invocations \ {p} : pc[q] \notin Phases \cup {"orphaned"}
  BY <1>2 DEF LockHolders
<1>4. \A q \in Invocations \ {p} : pending[q] = None
  BY <1>3 DEF IInv, RunOK
<1>5. /\ name[p] \in Names /\ snapshot[p] \in Config
      /\ HasContext(snapshot[p], name[p]) \/ HasRoot(snapshot[p])
  BY DEF IInv, TypeOK, RunOK, Phases
<1>6. /\ NewConfig(p) \in Config
      /\ NewConfig(p).current = name[p]
      /\ HasContext(NewConfig(p), name[p])
  BY <1>5, ConfigForFacts DEF NewConfig
<1> QED
  BY <1>1, <1>2, <1>3, <1>4, <1>5, <1>6
-----------------------------------------------------------------------------
(* The initial configurations have the root context.                       *)
LEMMA InitInv == Init => IInv
<1> SUFFICES ASSUME Init PROVE IInv
  OBVIOUS
<1> USE NamesAssumption
<1>1. PICK server \in {<< >>, None} :
        file = [EmptyConfig EXCEPT !.contexts[Root] = RootCluster,
                                   !.clusters[RootCluster] = server,
                                   !.current = Root]
  BY DEF Init, InitialConfigs
<1>2. EmptyConfig \in Config
  BY DEF EmptyConfig, Config
<1>3. server \in Seq(Names) \cup {None}
  BY EmptySeq
<1>4. /\ file \in Config
      /\ file.contexts[Root] = RootCluster /\ file.current = Root
      /\ \A k \in Names : file.clusters[k] = IF k = RootCluster THEN server
                                             ELSE None
  BY <1>1, <1>2, <1>3 DEF Config, EmptyConfig
<1>5. TypeOK
  <2>1. lock \in BOOLEAN
    BY Zenon DEF Init
  <2> QED
    BY <1>2, <1>4, <2>1 DEF Init, TypeOK
<1>6. LockExcludes
  <2>1. LockHolders = {}
    BY DEF Init, LockHolders, Phases
  <2> QED
    BY <2>1 DEF Init, LockExcludes
<1>7. ASSUME NEW p \in Invocations PROVE RunOK(p) /\ ProgressOK(p)
  BY DEF Init, RunOK, ProgressOK, Phases
<1>8. CurrentContextExists
  BY <1>4 DEF CurrentContextExists, HasContext
<1>9. FlatInv
  <2>1. Flat(file)
    BY <1>3, <1>4 DEF Flat, HasCluster
  <2>2. Flat(EmptyConfig)
    BY DEF Flat, HasCluster, EmptyConfig
  <2> QED
    BY <2>1, <2>2 DEF FlatInv, Init
<1> QED
  BY <1>5, <1>6, <1>7, <1>8, <1>9 DEF IInv

(* A run starts: it may read the file in the middle of a replacement.      *)
LEMMA StartInv ==
  ASSUME IInv, NEW p \in Invocations, NEW n \in Names, Start(p, n)
  PROVE  IInv'
<1> USE NamesAssumption DEF IInv
<1>1. /\ pc[p] = "idle" /\ pending[p] = None
      /\ UNCHANGED <<file, lock, pending, outcome>>
  BY DEF Start, RunOK, Phases
<1>2. /\ name' \in [Invocations -> Names \cup {None}]
      /\ snapshot' \in [Invocations -> Config]
      /\ pc' \in [Invocations -> {"idle", "modify"} \cup Phases \cup Ended]
      /\ name'[p] = n /\ snapshot'[p] = file
      /\ pc'[p] \in {"modify", "refused"}
      /\ pc'[p] = "modify" => HasContext(file, n) \/ HasRoot(file)
      /\ \A q \in Invocations \ {p} :
           name'[q] = name[q] /\ snapshot'[q] = snapshot[q] /\ pc'[q] = pc[q]
  <2>1. PICK label \in {"modify", "refused"} :
          /\ pc' = [pc EXCEPT ![p] = label]
          /\ label = "modify" => HasContext(file, n) \/ HasRoot(file)
    BY Zenon DEF Start
  <2> QED
    BY <2>1 DEF Start, TypeOK, Ended
<1>3. TypeOK'
  BY <1>1, <1>2 DEF TypeOK
<1>4. LockExcludes'
  <2>1. LockHolders' = LockHolders
    BY <1>1, <1>2 DEF LockHolders, Phases
  <2> QED
    BY <1>1, <2>1 DEF LockExcludes
<1>5. ASSUME NEW q \in Invocations PROVE RunOK(q)' /\ ProgressOK(q)'
  <2>1. CASE q = p
    BY <1>1, <1>2, <2>1 DEF RunOK, ProgressOK, Phases
  <2>2. CASE q # p
    BY <1>1, <1>2, <2>2
      DEF RunOK, ProgressOK, HasContext, HasRoot, HasCluster, Content, NewConfig
  <2> QED
    BY <2>1, <2>2
<1>6. CurrentContextExists'
  BY <1>1 DEF CurrentContextExists, HasContext
<1>7. FlatInv'
  <2> SUFFICES ASSUME \A q \in Invocations : name'[q] # RootCluster
               PROVE  /\ Flat(file)
                      /\ \A q \in Invocations :
                           Flat(snapshot'[q]) /\ (pending[q] # None => Flat(pending[q]))
    BY <1>1 DEF FlatInv, Flat, HasCluster
  <2>1. \A q \in Invocations : name[q] # RootCluster
    BY <1>1, <1>2 DEF RunOK
  <2> QED
    BY <1>2, <2>1 DEF FlatInv
<1> QED
  BY <1>3, <1>4, <1>5, <1>6, <1>7

(* What a step preserves that leaves the file, the runs' arguments and     *)
(* snapshots alone and starts no write.                                    *)
LEMMA FlatKept ==
  ASSUME FlatInv, UNCHANGED <<file, name, snapshot>>,
         \A q \in Invocations : pending'[q] \in {pending[q], None}
  PROVE  FlatInv'
BY DEF FlatInv, Flat, HasCluster

(* The lock file is there already, or its creator becomes its only holder. *)
LEMMA LockInv ==
  ASSUME IInv, NEW p \in Invocations, Lock(p)
  PROVE  IInv'
<1> USE DEF IInv
<1> DEFINE label == IF lock THEN "locked" ELSE "current"
<1>1. /\ pc[p] = "modify" /\ pending[p] = None
      /\ UNCHANGED <<file, name, snapshot, pending, outcome>>
      /\ lock' = TRUE
  BY DEF Lock, CreateLock, RunOK, Phases
<1>2. /\ pc' \in [Invocations -> {"idle", "modify"} \cup Phases \cup Ended]
      /\ pc'[p] = label
      /\ \A q \in Invocations \ {p} : pc'[q] = pc[q]
  BY DEF Lock, CreateLock, TypeOK, Phases, Ended
<1>3. TypeOK'
  <2>1. lock' \in BOOLEAN
    BY <1>1, Zenon
  <2> QED
    BY <1>1, <1>2, <2>1 DEF TypeOK
<1>4. LockExcludes'
  <2>1. p \notin LockHolders
    BY <1>1 DEF LockHolders, Phases
  <2>2. LockHolders' = IF lock THEN LockHolders ELSE LockHolders \cup {p}
    BY <1>1, <1>2 DEF LockHolders, Phases
  <2> QED
    BY <1>1, <2>1, <2>2 DEF LockExcludes
<1>5. ASSUME NEW q \in Invocations PROVE RunOK(q)' /\ ProgressOK(q)'
  BY <1>1, <1>2
    DEF RunOK, ProgressOK, HasContext, HasRoot, HasCluster, Content, NewConfig,
        Phases
<1>6. CurrentContextExists'
  BY <1>1 DEF CurrentContextExists
<1>7. FlatInv'
  BY <1>1, FlatKept
<1> QED
  BY <1>3, <1>4, <1>5, <1>6, <1>7

(* The new configuration of a run is fixed once it has begun.              *)
LEMMA NewConfigKept ==
  ASSUME NEW p \in Invocations, UNCHANGED <<name, snapshot>>
  PROVE  NewConfig(p)' = NewConfig(p)
BY DEF NewConfig, ConfigFor, HasContext, Derived, Switched, RootServer

(* A write starts: what it will leave mixes the file with the new          *)
(* configuration, so that nothing that was achieved is undone.             *)
LEMMA TruncateInv ==
  ASSUME IInv, NEW p \in Invocations, Truncate(p)
  PROVE  IInv'
<1> USE NamesAssumption, NoneAssumption
<1>1. /\ pc[p] \in Phases /\ pending[p] = None
      /\ UNCHANGED <<lock, pc, name, snapshot, outcome>>
      /\ file' = EmptyConfig /\ EmptyConfig \in Config
  BY DEF Truncate, EmptyConfig, Config
<1>2. PICK config \in Edits(p) : pending' = [pending EXCEPT ![p] = config]
  BY DEF Truncate
<1> DEFINE new == NewConfig(p)
<1>3. /\ lock /\ LockHolders = {p} /\ name[p] \in Names /\ new \in Config
      /\ \A q \in Invocations \ {p} : pc[q] \notin Phases /\ pending[q] = None
  BY <1>1, HolderFacts
<1>4. TypeOK /\ file \in Config
  BY DEF IInv, TypeOK
<1>5. config \in Config /\ Mixes(config, file, new)
  BY <1>3, <1>4, EditsMix
<1>6. /\ pending' \in [Invocations -> Config \cup {None}]
      /\ pending'[p] = config /\ config # None
      /\ \A q \in Invocations \ {p} : pending'[q] = None
  BY <1>2, <1>3, <1>4, <1>5 DEF TypeOK
<1>7. TypeOK'
  BY <1>1, <1>4, <1>6 DEF TypeOK
<1>8. LockExcludes'
  BY <1>1 DEF IInv, LockExcludes, LockHolders
<1>9. ASSUME NEW q \in Invocations PROVE RunOK(q)'
  BY <1>1, <1>6 DEF IInv, RunOK, HasContext, HasRoot, HasCluster
<1>10. ASSUME NEW q \in Invocations PROVE ProgressOK(q)'
  <2>1. CASE q # p
    BY <1>1, <1>3, <2>1 DEF ProgressOK, Phases
  <2>2. CASE q = p
    <3>1. Content(p) = file /\ Content(p)' = config
      BY <1>1, <1>6 DEF Content
    <3>2. NewConfig(p)' = new
      BY <1>1, NewConfigKept
    <3>3. ProgressOK(p)
      BY DEF IInv
    <3> HIDE DEF new
    <3> QED
      BY <1>1, <1>5, <2>2, <3>1, <3>2, <3>3
        DEF ProgressOK, Mixes, HasCluster, HasContext, new
  <2> QED
    BY <2>1, <2>2
<1>11. CurrentContextExists'
  BY <1>1, <1>3 DEF CurrentContextExists
<1>12. FlatInv'
  <2>1. Flat(EmptyConfig)
    BY DEF Flat, HasCluster, EmptyConfig
  <2>2. ASSUME \A q \in Invocations : name[q] # RootCluster
        PROVE  Flat(config)
    <3>1. Flat(file) /\ \A q \in Invocations : Flat(snapshot[q])
      BY <2>2 DEF IInv, FlatInv
    <3>2. snapshot[p] \in Config /\ (HasContext(snapshot[p], name[p]) \/ HasRoot(snapshot[p]))
      BY <1>1, <1>4 DEF IInv, TypeOK, RunOK
    <3>3. Flat(new)
      BY <1>3, <2>2, <3>1, <3>2, ConfigForFlat DEF NewConfig
    <3> HIDE DEF new
    <3> QED
      BY <1>5, <3>1, <3>3 DEF Flat, Mixes, HasCluster
  <2> SUFFICES ASSUME \A q \in Invocations : name[q] # RootCluster
               PROVE  /\ Flat(EmptyConfig)
                      /\ \A q \in Invocations :
                           Flat(snapshot[q]) /\ (pending'[q] # None => Flat(pending'[q]))
    BY <1>1 DEF FlatInv, Flat, HasCluster
  <2> QED
    BY <1>6, <2>1, <2>2 DEF IInv, FlatInv
<1> QED
  BY <1>7, <1>8, <1>9, <1>10, <1>11, <1>12 DEF IInv

(* The write ends.                                                         *)
LEMMA FillInv ==
  ASSUME IInv, NEW p \in Invocations, Fill(p)
  PROVE  IInv'
<1>1. /\ pc[p] \in Phases /\ pending[p] # None
      /\ UNCHANGED <<lock, pc, name, snapshot, outcome>>
      /\ file' = pending[p] /\ pending' = [pending EXCEPT ![p] = None]
  BY DEF Fill
<1>2. /\ lock
      /\ \A q \in Invocations \ {p} : pc[q] \notin Phases /\ pending[q] = None
  BY <1>1, HolderFacts
<1>3. TypeOK
  BY DEF IInv
<1>4. \A q \in Invocations : pending'[q] = None
  BY <1>1, <1>2, <1>3 DEF TypeOK
<1>5. TypeOK'
  BY <1>1, <1>3 DEF TypeOK
<1>6. LockExcludes'
  BY <1>1 DEF IInv, LockExcludes, LockHolders
<1>7. ASSUME NEW q \in Invocations PROVE RunOK(q)'
  BY <1>1, <1>4 DEF IInv, RunOK, HasContext, HasRoot, HasCluster
<1>8. ASSUME NEW q \in Invocations PROVE ProgressOK(q)'
  <2>1. CASE q # p
    BY <1>1, <1>2, <2>1 DEF ProgressOK, Phases
  <2>2. CASE q = p
    <3>1. Content(p)' = Content(p)
      BY <1>1, <1>4 DEF Content
    <3>2. NewConfig(p)' = NewConfig(p)
      BY <1>1, NewConfigKept
    <3>3. ProgressOK(p)
      BY DEF IInv
    <3> QED
      BY <1>1, <2>2, <3>1, <3>2, <3>3 DEF ProgressOK, HasCluster, HasContext
  <2> QED
    BY <2>1, <2>2
<1>9. CurrentContextExists'
  BY <1>1, <1>2 DEF CurrentContextExists
<1>10. FlatInv'
  BY <1>1, <1>4 DEF IInv, FlatInv, Flat, HasCluster
<1> QED
  BY <1>5, <1>6, <1>7, <1>8, <1>9, <1>10 DEF IInv

(* A phase ends when nothing of it is left to write.                       *)
LEMMA AdvanceInv ==
  ASSUME IInv, NEW p \in Invocations, Advance(p)
  PROVE  IInv'
<1> DEFINE new == NewConfig(p)
<1>1. /\ pc[p] \in Phases \ {"dropContexts"} /\ pending[p] = None
      /\ Edits(p) = {}
      /\ UNCHANGED <<file, lock, name, snapshot, pending, outcome>>
  BY DEF Advance, NextPhase, Phases
<1>2. /\ LockHolders = {p} /\ lock /\ new \in Config
      /\ \A q \in Invocations \ {p} : pc[q] \notin Phases /\ pending[q] = None
  BY <1>1, HolderFacts
<1>3. TypeOK
  BY DEF IInv
<1>4. /\ pc' \in [Invocations -> {"idle", "modify"} \cup Phases \cup Ended]
      /\ \A q \in Invocations \ {p} : pc'[q] = pc[q]
      /\ pc'[p] \in Phases \ {"current"}
      /\ pc'[p] = "clusters" => pc[p] = "current"
      /\ pc'[p] = "contexts" => pc[p] = "clusters"
      /\ pc'[p] = "dropClusters" => pc[p] = "contexts"
      /\ pc'[p] = "dropContexts" => pc[p] = "dropClusters"
  BY <1>1, <1>3 DEF Advance, NextPhase, Phases, TypeOK
<1>5. TypeOK'
  BY <1>1, <1>3, <1>4 DEF TypeOK
<1>6. LockExcludes'
  <2>1. LockHolders' = LockHolders
    BY <1>1, <1>4 DEF LockHolders
  <2> QED
    BY <1>1, <2>1 DEF IInv, LockExcludes
<1>7. ASSUME NEW q \in Invocations PROVE RunOK(q)'
  <2>1. RunOK(q)
    BY DEF IInv
  <2> QED
    BY <1>1, <1>4, <2>1 DEF RunOK, HasContext, HasRoot, HasCluster, Phases
<1>8. ASSUME NEW q \in Invocations PROVE ProgressOK(q)'
  <2>1. CASE q # p
    BY <1>1, <1>2, <1>4, <2>1 DEF ProgressOK, Phases
  <2>2. CASE q = p
    <3>1. Content(p) = file /\ Content(p)' = file
      BY <1>1 DEF Content
    <3>2. NewConfig(p)' = new
      BY <1>1, NewConfigKept
    <3>3. ProgressOK(p)
      BY DEF IInv
    <3>4. /\ pc[p] = "current" => file.current = new.current
          /\ pc[p] = "clusters" =>
               \A k \in Names : HasCluster(new, k) =>
                                  file.clusters[k] = new.clusters[k]
          /\ pc[p] = "contexts" =>
               \A k \in Names : HasContext(new, k) =>
                                  file.contexts[k] = new.contexts[k]
          /\ pc[p] = "dropClusters" =>
               \A k \in Names : ~HasCluster(new, k) => file.clusters[k] = None
      BY <1>1, <1>2, <1>3, EditsDone DEF TypeOK
    <3> HIDE DEF new
    <3> QED
      BY <1>4, <2>2, <3>1, <3>2, <3>3, <3>4
        DEF ProgressOK, HasCluster, HasContext, Phases, new
  <2> QED
    BY <2>1, <2>2
<1>9. CurrentContextExists'
  BY <1>1 DEF IInv, CurrentContextExists, HasContext
<1>10. FlatInv'
  BY <1>1, FlatKept DEF IInv
<1> QED
  BY <1>5, <1>6, <1>7, <1>8, <1>9, <1>10 DEF IInv

(* All phases together: a run that may finish has turned the file into the *)
(* new configuration.                                                      *)
LEMMA FinishedFile ==
  ASSUME IInv, NEW p \in Invocations, Finish(p)
  PROVE  file = NewConfig(p)
<1> DEFINE new == NewConfig(p)
<1>1. pc[p] = "dropContexts" /\ Edits(p) = {} /\ Content(p) = file
  BY DEF Finish, Content
<1>2. file \in Config /\ new \in Config
  BY <1>1, HolderFacts DEF IInv, TypeOK, Phases
<1>3. \A k \in Names : ~HasContext(new, k) => file.contexts[k] = None
  BY <1>1, <1>2, EditsDone
<1>4. ProgressOK(p)
  BY DEF IInv
<1>5. file.current = new.current
  BY <1>1, <1>4 DEF ProgressOK, Phases
<1>6. \A k \in Names : file.clusters[k] = new.clusters[k]
  BY <1>1, <1>4 DEF ProgressOK, Phases, HasCluster
<1>7. \A k \in Names : file.contexts[k] = new.contexts[k]
  BY <1>1, <1>3, <1>4 DEF ProgressOK, HasContext
<1> HIDE DEF new
<1>8. file.clusters = new.clusters /\ file.contexts = new.contexts
  BY <1>2, <1>6, <1>7 DEF Config
<1> QED
  BY <1>2, <1>5, <1>8 DEF Config, new

(* The steps that end a run: the lock is released, or left behind.         *)
LEMMA EndFacts ==
  ASSUME IInv, NEW p \in Invocations, NEW label \in Ended,
         pc' = [pc EXCEPT ![p] = label],
         pending' = [pending EXCEPT ![p] = None],
         lock' \in BOOLEAN, outcome' \in {"none", "done", "failed"},
         UNCHANGED <<file, name, snapshot>>, pc[p] # "idle"
  PROVE  /\ TypeOK'
         /\ \A q \in Invocations : RunOK(q)' /\ ProgressOK(q)'
         /\ FlatInv'
         /\ pc'[p] = label
         /\ \A q \in Invocations \ {p} : pc'[q] = pc[q]
<1>1. TypeOK
  BY DEF IInv
<1>2. /\ pc' \in [Invocations -> {"idle", "modify"} \cup Phases \cup Ended]
      /\ pc'[p] = label /\ label \notin {"idle", "modify"} \cup Phases
      /\ pending' \in [Invocations -> Config \cup {None}]
      /\ pending'[p] = None
      /\ \A q \in Invocations \ {p} :
           pc'[q] = pc[q] /\ pending'[q] = pending[q]
  BY <1>1 DEF TypeOK, Ended, Phases
<1>3. TypeOK'
  BY <1>1, <1>2 DEF TypeOK
<1>4. ASSUME NEW q \in Invocations PROVE RunOK(q)' /\ ProgressOK(q)'
  <2>1. CASE q = p
    BY <1>2, <2>1 DEF IInv, RunOK, ProgressOK, Phases
  <2>2. CASE q # p
    <3>1. RunOK(q) /\ ProgressOK(q)
      BY DEF IInv
    <3> QED
      BY <1>2, <2>2, <3>1
        DEF RunOK, ProgressOK, HasContext, HasRoot, HasCluster, Content,
            NewConfig
  <2> QED
    BY <2>1, <2>2
<1>5. FlatInv'
  BY <1>2, FlatKept DEF IInv
<1> QED
  BY <1>2, <1>3, <1>4, <1>5

LEMMA FinishInv ==
  ASSUME IInv, NEW p \in Invocations, Finish(p)
  PROVE  IInv'
<1>1. /\ pc[p] \in Phases /\ pending[p] = None
      /\ lock' = FALSE /\ outcome' = "done"
      /\ pc' = [pc EXCEPT ![p] = "done"]
      /\ UNCHANGED <<file, name, snapshot, pending>>
  BY DEF Finish, Phases
<1>2. lock' \in BOOLEAN
  BY <1>1, Zenon
<1>3. pending' = [pending EXCEPT ![p] = None]
  BY <1>1 DEF IInv, TypeOK
<1>4. /\ TypeOK' /\ FlatInv'
      /\ \A q \in Invocations : RunOK(q)' /\ ProgressOK(q)'
      /\ pc'[p] = "done" /\ \A q \in Invocations \ {p} : pc'[q] = pc[q]
  BY <1>1, <1>2, <1>3, EndFacts DEF Ended, Phases
<1>5. LockExcludes'
  <2>1. LockHolders' = {}
    BY <1>1, <1>4, HolderFacts DEF LockHolders, Phases
  <2> QED
    BY <1>1, <2>1 DEF LockExcludes
<1>6. CurrentContextExists'
  <2>1. file = NewConfig(p) /\ HasContext(NewConfig(p), NewConfig(p).current)
    BY <1>1, FinishedFile, HolderFacts
  <2> QED
    BY <1>1, <2>1 DEF CurrentContextExists, HasContext
<1> QED
  BY <1>4, <1>5, <1>6 DEF IInv

LEMMA WriteFailsInv ==
  ASSUME IInv, NEW p \in Invocations, WriteFails(p)
  PROVE  IInv'
<1>1. /\ pc[p] \in Phases
      /\ lock' = FALSE /\ outcome' = "failed"
      /\ pc' = [pc EXCEPT ![p] = "failed"]
      /\ pending' = [pending EXCEPT ![p] = None]
      /\ UNCHANGED <<file, name, snapshot>>
  BY DEF WriteFails
<1>2. lock' \in BOOLEAN
  BY <1>1, Zenon
<1>3. /\ TypeOK' /\ FlatInv'
      /\ \A q \in Invocations : RunOK(q)' /\ ProgressOK(q)'
      /\ pc'[p] = "failed" /\ \A q \in Invocations \ {p} : pc'[q] = pc[q]
  BY <1>1, <1>2, EndFacts DEF Ended, Phases
<1>4. LockExcludes'
  <2>1. LockHolders' = {}
    BY <1>1, <1>3, HolderFacts DEF LockHolders, Phases
  <2> QED
    BY <1>1, <2>1 DEF LockExcludes
<1>5. CurrentContextExists'
  BY <1>1 DEF CurrentContextExists
<1> QED
  BY <1>3, <1>4, <1>5 DEF IInv

LEMMA KillInv ==
  ASSUME IInv, NEW p \in Invocations, Kill(p)
  PROVE  IInv'
<1> DEFINE label == IF pc[p] = "modify" THEN "killed" ELSE "orphaned"
<1>1. /\ pc[p] \in Phases \cup {"modify"}
      /\ pc' = [pc EXCEPT ![p] = label]
      /\ pending' = [pending EXCEPT ![p] = None]
      /\ UNCHANGED <<file, lock, name, snapshot, outcome>>
  BY DEF Kill
<1>2. lock' \in BOOLEAN /\ outcome' \in {"none", "done", "failed"}
  BY <1>1 DEF IInv, TypeOK
<1>3. label \in Ended
  BY DEF Ended
<1> HIDE DEF label
<1>4. /\ TypeOK' /\ FlatInv'
      /\ \A q \in Invocations : RunOK(q)' /\ ProgressOK(q)'
      /\ pc'[p] = label /\ \A q \in Invocations \ {p} : pc'[q] = pc[q]
  BY <1>1, <1>2, <1>3, EndFacts DEF Phases
<1>5. LockExcludes'
  <2>1. LockHolders' = LockHolders
    BY <1>1, <1>4 DEF LockHolders, Phases, label
  <2> QED
    BY <1>1, <2>1 DEF IInv, LockExcludes
<1>6. CurrentContextExists'
  BY <1>1 DEF IInv, CurrentContextExists, HasContext
<1> QED
  BY <1>4, <1>5, <1>6 DEF IInv
-----------------------------------------------------------------------------
(* Every step preserves the invariant.                                     *)
LEMMA NextInv == IInv /\ [Next]_vars => IInv'
<1> SUFFICES ASSUME IInv, [Next]_vars PROVE IInv'
  OBVIOUS
<1>1. ASSUME NEW p \in Invocations, NEW n \in Names, Start(p, n) PROVE IInv'
  BY <1>1, StartInv
<1>2. ASSUME NEW p \in Invocations, Run(p) PROVE IInv'
  BY <1>2, LockInv, TruncateInv, FillInv, AdvanceInv, FinishInv DEF Run
<1>3. ASSUME NEW p \in Invocations, WriteFails(p) \/ Kill(p) PROVE IInv'
  BY <1>3, WriteFailsInv, KillInv
<1>4. CASE UNCHANGED vars
  BY <1>4 DEF vars, IInv, TypeOK, LockExcludes, LockHolders, RunOK, ProgressOK,
              NewConfig, Content, CurrentContextExists, FlatInv, Flat,
              HasContext, HasCluster, HasRoot
<1> QED
  BY <1>1, <1>2, <1>3, <1>4 DEF Next

(* The invariant holds of every state concurrent runs can reach.           *)
THEOREM Invariance == Safety => []IInv
  BY InitInv, NextInv, PTL DEF Safety

(* Every variable keeps its type: whatever a run writes is a configuration *)
(* whose servers are addresses below the gateway's.                        *)
THEOREM TypeCorrect == Safety => []TypeOK
<1>1. IInv => TypeOK
  BY DEF IInv
<1> QED
  BY <1>1, Invariance, PTL

(* At most one run is between the creation and the removal of the lock     *)
(* file, and one that was killed there keeps every other out.              *)
THEOREM LockIsExclusive == Safety => []LockExcludes
<1>1. IInv => LockExcludes
  BY DEF IInv
<1> QED
  BY <1>1, Invariance, PTL

(* Outside of a replacement, unless the last one failed, the current       *)
(* context exists.                                                         *)
THEOREM CurrentContextStands == Safety => []CurrentContextExists
<1>1. IInv => CurrentContextExists
  BY DEF IInv
<1> QED
  BY <1>1, Invariance, PTL

(* No server is nested unless a run was given the name of the root         *)
(* context's own cluster.                                                  *)
THEOREM ServersStayFlat == Safety => []NestingOnlyByCollision
<1>1. IInv => NestingOnlyByCollision
  BY DEF IInv, FlatInv, Flat, NestingOnlyByCollision
<1> QED
  BY <1>1, Invariance, PTL
-----------------------------------------------------------------------------
(* The refinement.  What a place of the code is to the store.              *)
LEMMA StatusTable ==
  /\ Status("idle") = "idle"
  /\ Status("modify") = "ready"
  /\ \A label \in Phases : Status(label) = "replacing"
  /\ Status("done") = "succeeded"
  /\ \A label \in Ended \ {"done"} : Status(label) = "ended"
<1>1. Status("idle") = "idle" /\ Status("modify") = "ready"
  BY Zenon DEF Status, Phases
<1>2. \A label \in Phases : Status(label) = "replacing"
  BY Zenon DEF Status, Phases
<1>3. Status("done") = "succeeded"
  BY Zenon DEF Status, Phases
<1>4. \A label \in Ended \ {"done"} : Status(label) = "ended"
  BY Zenon DEF Status, Phases, Ended
<1> QED
  BY <1>1, <1>2, <1>3, <1>4

StoredNow == IF lock THEN None ELSE file
StatusNow == [p \in Invocations |-> Status(pc[p])]

LEMMA StoreInit == Init => Store!Init
<1> SUFFICES ASSUME Init PROVE Store!Init
  OBVIOUS
<1>1. StoredNow \in InitialConfigs
  BY DEF Init, StoredNow
<1>2. StatusNow = [p \in Invocations |-> "idle"]
  BY StatusTable DEF Init, StatusNow
<1> QED
  BY <1>1, <1>2 DEF Store!Init, Init, StoredNow, StatusNow

(* A step that takes one run to another place changes the status of that   *)
(* run only.                                                               *)
LEMMA StatusStep ==
  ASSUME TypeOK, NEW p \in Invocations, NEW label, pc' = [pc EXCEPT ![p] = label]
  PROVE  /\ StatusNow' = [StatusNow EXCEPT ![p] = Status(label)]
         /\ StatusNow[p] = Status(pc[p])
BY DEF StatusNow, TypeOK

(* Starting takes a snapshot; while the store is torn, of anything.        *)
LEMMA StartMaps ==
  ASSUME IInv, NEW p \in Invocations, NEW n \in Names, Start(p, n)
  PROVE  Store!Take(p)
<1>1. TypeOK /\ pc[p] = "idle" /\ UNCHANGED <<file, lock>>
  BY DEF IInv, Start
<1>2. PICK label \in {"modify", "refused"} : pc' = [pc EXCEPT ![p] = label]
  BY Zenon DEF Start
<1>3. Status(label) \in {"ready", "ended"}
  BY StatusTable DEF Ended
<1>4. /\ StatusNow[p] = "idle"
      /\ \E s \in {"ready", "ended"} : StatusNow' = [StatusNow EXCEPT ![p] = s]
  BY <1>1, <1>2, <1>3, StatusStep, StatusTable
<1>5. /\ \E m \in Names : name' = [name EXCEPT ![p] = m]
      /\ snapshot'[p] = file /\ snapshot' = [snapshot EXCEPT ![p] = file]
  BY <1>1 DEF Start, TypeOK
<1>6. StoredNow' = StoredNow
  BY <1>1 DEF StoredNow
<1>7. file \in IF StoredNow = None THEN Config ELSE {StoredNow}
  BY <1>1 DEF StoredNow, TypeOK
<1> QED
  BY <1>4, <1>5, <1>6, <1>7 DEF Store!Take, StoredNow, StatusNow

(* The lock file's creation begins a replacement; without it a run ends.   *)
LEMMA LockMaps ==
  ASSUME IInv, NEW p \in Invocations, Lock(p)
  PROVE  Store!Begin(p) \/ Store!GiveUp(p)
<1>0. TypeOK
  BY DEF IInv
<1>1. /\ TypeOK /\ pc[p] = "modify"
      /\ UNCHANGED <<file, name, snapshot>> /\ lock' = TRUE
      /\ pc' = [pc EXCEPT ![p] = IF lock THEN "locked" ELSE "current"]
  BY DEF IInv, Lock, CreateLock
<1>2. CASE lock
  <2>1. StatusNow[p] = "ready" /\ StatusNow' = [StatusNow EXCEPT ![p] = "ended"]
    <3>1. pc' = [pc EXCEPT ![p] = "locked"]
      BY <1>1, <1>2
    <3>2. Status("locked") = "ended" /\ Status(pc[p]) = "ready"
      BY <1>1, StatusTable DEF Ended
    <3> QED
      BY <1>0, <3>1, <3>2, StatusStep
  <2>2. StoredNow' = StoredNow
    BY <1>1, <1>2 DEF StoredNow
  <2> QED
    BY <1>1, <2>1, <2>2 DEF Store!GiveUp, StoredNow, StatusNow
<1>3. CASE ~lock
  <2>1. StatusNow[p] = "ready"
        /\ StatusNow' = [StatusNow EXCEPT ![p] = "replacing"]
    <3>1. pc' = [pc EXCEPT ![p] = "current"]
      BY <1>1, <1>3
    <3>2. Status("current") = "replacing" /\ Status(pc[p]) = "ready"
      BY <1>1, StatusTable DEF Phases
    <3> QED
      BY <1>0, <3>1, <3>2, StatusStep
  <2>2. StoredNow # None /\ StoredNow' = None
    BY <1>1, <1>3, NoneAssumption DEF StoredNow, TypeOK
  <2> QED
    BY <1>1, <2>1, <2>2 DEF Store!Begin, StoredNow, StatusNow
<1> QED
  BY <1>2, <1>3

(* Nobody sees the writes of a replacement.                                *)
LEMMA WritesStutter ==
  ASSUME IInv, NEW p \in Invocations, Truncate(p) \/ Fill(p) \/ Advance(p)
  PROVE  UNCHANGED Store!vars
<1>1. /\ TypeOK /\ pc[p] \in Phases
      /\ UNCHANGED <<lock, name, snapshot>>
  BY DEF IInv, Truncate, Fill, Advance, NextPhase, Phases
<1>2. lock
  BY <1>1, HolderFacts
<1>3. UNCHANGED pc \/ \E label \in Phases : pc' = [pc EXCEPT ![p] = label]
  BY DEF Truncate, Fill, Advance, NextPhase, Phases
<1>4. StatusNow' = StatusNow
  <2>1. CASE UNCHANGED pc
    BY <2>1 DEF StatusNow
  <2>2. ASSUME NEW label \in Phases, pc' = [pc EXCEPT ![p] = label]
        PROVE  StatusNow' = StatusNow
    <3>1. Status(label) = Status(pc[p])
      BY <1>1, StatusTable
    <3> QED
      BY <1>1, <2>2, <3>1, StatusStep DEF StatusNow
  <2> QED
    BY <1>3, <2>1, <2>2
<1>5. StoredNow' = StoredNow
  BY <1>1, <1>2 DEF StoredNow
<1> QED
  BY <1>1, <1>4, <1>5 DEF Store!vars, StoredNow, StatusNow

(* When all is written, the store is what the snapshot and the argument    *)
(* make it, and nothing else.                                              *)
LEMMA FinishMaps ==
  ASSUME IInv, NEW p \in Invocations, Finish(p)
  PROVE  Store!Commit(p)
<1>1. /\ TypeOK /\ pc[p] \in Phases /\ lock' = FALSE
      /\ UNCHANGED <<file, name, snapshot>>
      /\ pc' = [pc EXCEPT ![p] = "done"]
  BY DEF IInv, Finish, Phases
<1>2. StatusNow[p] = "replacing"
      /\ StatusNow' = [StatusNow EXCEPT ![p] = "succeeded"]
  <2>1. Status("done") = "succeeded" /\ Status(pc[p]) = "replacing"
    BY <1>1, StatusTable
  <2> QED
    BY <1>1, <2>1, StatusStep
<1>3. StoredNow' = ConfigFor(snapshot[p], name[p])
  BY <1>1, FinishedFile DEF StoredNow, NewConfig
<1> QED
  BY <1>1, <1>2, <1>3 DEF Store!Commit, StoredNow, StatusNow

LEMMA WriteFailsMaps ==
  ASSUME IInv, NEW p \in Invocations, WriteFails(p)
  PROVE  Store!Abort(p)
<1>1. /\ TypeOK /\ pc[p] \in Phases /\ lock' = FALSE
      /\ UNCHANGED <<file, name, snapshot>>
      /\ pc' = [pc EXCEPT ![p] = "failed"]
  BY DEF IInv, WriteFails
<1>2. StatusNow[p] = "replacing"
      /\ StatusNow' = [StatusNow EXCEPT ![p] = "ended"]
  <2>1. Status("failed") = "ended" /\ Status(pc[p]) = "replacing"
    BY <1>1, StatusTable DEF Ended
  <2> QED
    BY <1>1, <2>1, StatusStep
<1>3. StoredNow' \in Config
  BY <1>1 DEF StoredNow, TypeOK
<1> QED
  BY <1>1, <1>2, <1>3 DEF Store!Abort, StoredNow, StatusNow

LEMMA KillMaps ==
  ASSUME IInv, NEW p \in Invocations, Kill(p)
  PROVE  Store!Die(p) \/ Store!GiveUp(p)
<1>1. /\ TypeOK /\ pc[p] \in Phases \cup {"modify"}
      /\ UNCHANGED <<file, lock, name, snapshot>>
  BY DEF IInv, Kill
<1>2. PICK label \in {"killed", "orphaned"} : pc' = [pc EXCEPT ![p] = label]
  BY Zenon DEF Kill
<1>3. /\ StatusNow[p] \in {"replacing", "ready"}
      /\ StatusNow' = [StatusNow EXCEPT ![p] = "ended"]
  <2>1. Status(label) = "ended" /\ Status(pc[p]) \in {"replacing", "ready"}
    BY <1>1, StatusTable DEF Ended
  <2> QED
    BY <1>1, <1>2, <2>1, StatusStep
<1>4. StoredNow' = StoredNow
  BY <1>1 DEF StoredNow
<1> QED
  BY <1>1, <1>3, <1>4 DEF Store!Die, Store!GiveUp, StoredNow, StatusNow

LEMMA StoreNext == IInv /\ [Next]_vars => [Store!Next]_(Store!vars)
<1> SUFFICES ASSUME IInv, [Next]_vars PROVE [Store!Next]_(Store!vars)
  OBVIOUS
<1>1. ASSUME NEW p \in Invocations, NEW n \in Names, Start(p, n)
      PROVE  Store!Next
  BY <1>1, StartMaps DEF Store!Next
<1>2. ASSUME NEW p \in Invocations, Run(p)
      PROVE  [Store!Next]_(Store!vars)
  BY <1>2, LockMaps, WritesStutter, FinishMaps DEF Run, Store!Next
<1>3. ASSUME NEW p \in Invocations, WriteFails(p) \/ Kill(p)
      PROVE  Store!Next
  BY <1>3, WriteFailsMaps, KillMaps DEF Store!Next
<1>4. CASE UNCHANGED vars
  BY <1>4 DEF vars, Store!vars
<1> QED
  BY <1>1, <1>2, <1>3, <1>4 DEF Next

(* The lock file and the writes of ModifyConfig together make each success *)
(* one replacement of the whole file, computed from the run's snapshot.    *)
THEOREM StoreRefinement == Safety => ImplementsStore
  BY Invariance, StoreInit, StoreNext, PTL DEF Safety, ImplementsStore, Store!Spec
=============================================================================
