--------------------------- MODULE LifecycleProofs ---------------------------
(***************************************************************************)
(* Proofs about the process and its restarts, for every catalog, every     *)
(* number of clients and of lives.  What module DiscoveryProofs proves of  *)
(* one process is used here step by step; its clients' memory of the       *)
(* processes before is what it does not cover.                             *)
(***************************************************************************)
EXTENDS Lifecycle, DiscoveryProofs

(* The hook returns only when the stop channel is closed, and that happens *)
(* when the server stops to serve.                                         *)
HookInv ==
    /\ hook = "returned" => stopCh
    /\ phase # "draining" => ~stopCh

LifeVarsOK ==
    /\ phase \in StartUp \cup {"serving", "draining"}
    /\ context \in Contexts
    /\ hook \in {"none", "registered", "waiting", "returned"}
    /\ signalled \in BOOLEAN
    /\ exit \in {"none", "error", "fault", "terminated", "killed"}
    /\ destroyed \in BOOLEAN
    /\ life \in 1 .. MaxLives

(* In its first sync a life publishes and documents what it has left       *)
(* behind; what is not documented yet is still to come.                    *)
ToCome(gv) ==
    \/ round = 0
    \/ /\ round = 1
       /\ \/ gv \in todo
          \/ step \in InIteration /\ gv = cur
          \/ step = "crashed"
SyncInv ==
    /\ step \in {"sleep", "stopped"} => todo = {}
    /\ \A gv \in GroupVersions : Documented(gv) \/ ToCome(gv)

LifeInv ==
    /\ ProcessInv
    /\ LifeVarsOK
    /\ HookInv
    /\ SyncInv
-----------------------------------------------------------------------------
(* Every step of the process but a restart is one of module Discovery, or  *)
(* leaves its state alone.                                                 *)
LEMMA LifeStep ==
  ASSUME [LifeNext]_allVars PROVE [Next]_vars \/ Restart
<1>1. CASE LifeWorker \/ StopServing
  BY <1>1 DEF LifeWorker, StopServing, Next
<1>2. ASSUME NEW c \in Clients, LifeAccept(c) \/ LifeRespond(c) \/ LifeFault(c)
      PROVE  Next
  BY <1>2 DEF LifeAccept, LifeRespond, LifeFault, Next, Client
<1>3. CASE Command \/ Fail \/ RunHook \/ HookReturns \/ Terminate \/ Drained
           \/ Kill
  BY <1>3 DEF Command, CompleteOptions, ValidateOptions, ConfigFromOptions,
              NewGateway, Listen, Step, Fail, RunHook, HookStarts, HookReturns,
              Terminate, Drained, Kill
<1> QED
  BY <1>1, <1>2, <1>3 DEF LifeNext, allVars

(* A restart begins with empty tables, but with clients that have answers  *)
(* and have learned of versions before.                                    *)
LEMMA RestartInv ==
  ASSUME LifeInv, Restart PROVE LifeInv'
<1> USE CatalogAssumption, ValueAssumption
<1>1. TypeOK'
  <2> USE DEF LifeInv, ProcessInv, Restart
  <2>1. /\ slice' \in [GroupVersions -> [Rounds -> Slice]]
        /\ versionDiscovery' \in [GroupVersions -> Handler]
    BY DEF Slice, NewSlice, Handler, NoHandler, Rounds
  <2>2. groupDiscovery' \in [Groups -> Seq(GroupVersions)]
    OBVIOUS
  <2>3. request' \in [Clients -> Request]
    BY DEF Request, NoRequest, Handler, NoHandler
  <2>4. stopCh' \in BOOLEAN
    BY Zenon
  <2>5. /\ round' \in 0 .. MaxSyncs /\ step' = "sleep" /\ todo' = {}
        /\ cur' = Nothing /\ aggregated' = {}
        /\ reply' \in [Clients -> Reply]
        /\ learned' \in [Clients -> SUBSET GroupVersions]
    BY DEF TypeOK
  <2> QED
    BY <2>1, <2>2, <2>3, <2>4, <2>5 DEF TypeOK
<1> USE DEF Restart
<1>2. SliceInv' /\ FreshInv'
  BY DEF SliceInv, SliceOK, FreshInv, NewSlice, Rounds
<1>3. Published' = {}
  BY DEF Published
<1>4. WorkerInv' /\ TableInv' /\ RequestInv'
  BY <1>3 DEF WorkerInv, InIteration, TableInv, RequestInv
<1>5. DocumentInv'
  BY DEF DocumentInv
<1>6. ListingCoversHandler'
  BY DEF LifeInv, ProcessInv, ListingCoversHandler, Intact
<1>7. LifeVarsOK'
  <2>1. life' \in 1 .. MaxLives
    BY LifecycleAssumption DEF LifeInv, LifeVarsOK
  <2>2. signalled' \in BOOLEAN /\ destroyed' \in BOOLEAN
    BY Zenon
  <2> QED
    BY <2>1, <2>2 DEF LifeInv, LifeVarsOK, StartUp
<1>8. HookInv'
  <2>1. ~stopCh' /\ hook' = "none"
    BY Zenon
  <2> QED
    BY <2>1 DEF HookInv
<1>9. SyncInv'
  BY DEF SyncInv, ToCome
<1> QED
  BY <1>1, <1>2, <1>4, <1>5, <1>6, <1>7, <1>8, <1>9 DEF LifeInv, ProcessInv

(* What is still to come in the first sync, step by step.                  *)
LEMMA SyncNext ==
  ASSUME ProcessInv, SyncInv, [Next]_vars PROVE SyncInv'
<1> USE DEF ProcessInv
<1>1. \A gv \in GroupVersions : Documented(gv) => Documented(gv)'
  BY DocumentedStays
<1>2. round \in Nat
  BY DEF TypeOK
<1>3. CASE StartSync
  <2>1. CASE round = 0
    BY <1>3, <2>1 DEF StartSync, SyncInv, ToCome
  <2>2. CASE round # 0
    <3>1. \A gv \in GroupVersions : Documented(gv)
      BY <1>3, <2>2 DEF StartSync, SyncInv, ToCome, InIteration
    <3> QED
      BY <1>1, <1>3, <3>1 DEF StartSync, SyncInv
  <2> QED
    BY <2>1, <2>2
<1>4. CASE StopWorker \/ FinishSync
  BY <1>1, <1>4 DEF StopWorker, FinishSync, SyncInv, ToCome, InIteration
<1>5. ASSUME NEW key \in GroupVersions, BeginGroupVersion(key)
      PROVE  SyncInv'
  BY <1>1, <1>5 DEF BeginGroupVersion, SyncInv, ToCome, InIteration
<1>6. CASE GrowSlice \/ StoreLen \/ StoreElement \/ SetVersionDiscovery
  BY <1>1, <1>6 DEF GrowSlice, StoreLen, StoreElement, SetVersionDiscovery,
                    SyncInv, ToCome, InIteration
<1>7. CASE SetGroupDiscovery
  <2>1. cur \in GroupVersions /\ cur \in Published
    BY <1>7 DEF SetGroupDiscovery, WorkerInv, InIteration
  <2>2. Documented(cur)'
    <3>1. cur' = cur /\ UNCHANGED versionDiscovery
      BY <1>7 DEF SetGroupDiscovery
    <3>2. groupDiscovery'[GroupOf[cur]] = GroupVersionsForDiscovery(cur)
      BY <1>7, <2>1, CatalogAssumption DEF SetGroupDiscovery, TypeOK
    <3> QED
      BY <2>1, <3>1, <3>2, GroupDocument DEF Documented, Published
  <2> QED
    BY <1>1, <1>7, <2>2 DEF SetGroupDiscovery, SyncInv, ToCome, Documented,
                            Published
<1>8. CASE AddGroupVersion
  <2>1. Documented(cur)
    BY <1>8 DEF AddGroupVersion, WorkerInv, Documented
  <2> QED
    BY <1>1, <1>8, <2>1 DEF AddGroupVersion, SyncInv, ToCome
<1>9. CASE UNCHANGED workerVars
  BY <1>1, <1>9 DEF workerVars, SyncInv, ToCome
<1>10. ASSUME NEW c \in Clients, FaultOnStray(c) PROVE SyncInv'
  BY <1>1, <1>10 DEF FaultOnStray, SyncInv, ToCome, InIteration
<1>11. \/ Worker
       \/ \E c \in Clients : FaultOnStray(c)
       \/ UNCHANGED workerVars
  BY DEF Next, CloseStopCh, Client, Respond, ServeVersion, LoadPtr, LoadLen,
         WriteListing, ServeGroup, ServeAPIVersions, ServeAggregated, vars
<1> QED
  BY <1>3, <1>4, <1>5, <1>6, <1>7, <1>8, <1>9, <1>10, <1>11 DEF Worker

(* Only the end of serving closes the stop channel.                        *)
LEMMA HookNext ==
  ASSUME HookInv, LifeVarsOK, [LifeNext]_allVars, ~Restart
  PROVE  HookInv' /\ LifeVarsOK'
<1>1. CASE Command
  BY <1>1 DEF Command, CompleteOptions, ValidateOptions, ConfigFromOptions,
              NewGateway, Listen, Step, HookInv, LifeVarsOK, StartUp, vars
<1>2. CASE Fail \/ Kill \/ Terminate \/ Drained
  <2>1. signalled' \in BOOLEAN /\ destroyed' \in BOOLEAN
    BY <1>2, Zenon DEF Fail, Kill, Terminate, Drained, LifeVarsOK
  <2> QED
    BY <1>2, <2>1 DEF Fail, Kill, Terminate, Drained, HookInv, LifeVarsOK, vars
<1>3. CASE RunHook \/ HookReturns
  BY <1>3 DEF RunHook, HookStarts, HookReturns, HookInv, LifeVarsOK, vars
<1>4. CASE LifeWorker
  <2>1. UNCHANGED <<stopCh, lifeVars>>
    BY <1>4 DEF LifeWorker, Worker, StartSync, StopWorker, BeginGroupVersion,
                FinishSync, GrowSlice, StoreLen, StoreElement,
                SetVersionDiscovery, SetGroupDiscovery, AddGroupVersion
  <2> QED
    BY <2>1 DEF lifeVars, HookInv, LifeVarsOK
<1>5. ASSUME NEW c \in Clients, LifeAccept(c) \/ LifeRespond(c)
      PROVE  HookInv' /\ LifeVarsOK'
  <2>1. UNCHANGED <<stopCh, lifeVars>>
    BY <1>5 DEF LifeAccept, LifeRespond, Respond, ServeVersion, LoadPtr,
                LoadLen, WriteListing, ServeGroup, ServeAPIVersions,
                ServeAggregated
  <2> QED
    BY <2>1 DEF lifeVars, HookInv, LifeVarsOK
<1>6. ASSUME NEW c \in Clients, LifeFault(c)
      PROVE  HookInv' /\ LifeVarsOK'
  BY <1>6 DEF LifeFault, FaultOnStray, HookInv, LifeVarsOK
<1>7. CASE StopServing
  BY <1>7 DEF StopServing, CloseStopCh, HookInv, LifeVarsOK
<1>8. CASE UNCHANGED allVars
  BY <1>8 DEF allVars, vars, lifeVars, HookInv, LifeVarsOK
<1> QED
  BY <1>1, <1>2, <1>3, <1>4, <1>5, <1>6, <1>7, <1>8 DEF LifeNext
-----------------------------------------------------------------------------
LEMMA LifeInitInv == LifeInit => LifeInv
<1> SUFFICES ASSUME LifeInit PROVE LifeInv
  OBVIOUS
<1>1. ProcessInv
  BY InitInv DEF LifeInit, IInv
<1>2. LifeVarsOK
  <2>1. signalled \in BOOLEAN /\ destroyed \in BOOLEAN
    BY Zenon DEF LifeInit
  <2>2. life \in 1 .. MaxLives
    BY LifecycleAssumption DEF LifeInit
  <2> QED
    BY <2>1, <2>2 DEF LifeInit, LifeVarsOK, StartUp
<1>3. HookInv
  BY DEF LifeInit, Init, HookInv
<1>4. SyncInv
  BY DEF LifeInit, Init, SyncInv, ToCome
<1> QED
  BY <1>1, <1>2, <1>3, <1>4 DEF LifeInv

LEMMA LifeNextInv == LifeInv /\ [LifeNext]_allVars => LifeInv'
<1> SUFFICES ASSUME LifeInv, [LifeNext]_allVars PROVE LifeInv'
  OBVIOUS
<1>1. CASE Restart
  BY <1>1, RestartInv
<1>2. CASE ~Restart
  BY <1>2, LifeStep, ProcessNext, SyncNext, HookNext DEF LifeInv
<1> QED
  BY <1>1, <1>2

(* Every reachable state of every life satisfies the invariant.            *)
THEOREM LifeInvariance == LifeSafety => []LifeInv
  BY LifeInitInv, LifeNextInv, PTL DEF LifeSafety

(* Every variable keeps its type, in every life.                           *)
THEOREM LifeTypeCorrect == LifeSafety => []LifeTypeOK
<1>1. LifeInv => LifeTypeOK
  BY DEF LifeInv, ProcessInv, LifeVarsOK, LifeTypeOK
<1> QED
  BY <1>1, LifeInvariance, PTL

(* A server that accepts requests never reports to be ready.               *)
THEOREM NeverReady == LifeSafety => []ServingIsNeverReady
<1>1. LifeInv => ServingIsNeverReady
  BY DEF LifeInv, HookInv, ServingIsNeverReady, HookCheck
<1> QED
  BY <1>1, LifeInvariance, PTL

(* A listing covers its handler in every life, also one that the client    *)
(* got from a process before.                                              *)
THEOREM LifeListingsCover == LifeSafety => []ListingCoversHandler
<1>1. LifeInv => ListingCoversHandler
  BY DEF LifeInv, ProcessInv
<1> QED
  BY <1>1, LifeInvariance, PTL
-----------------------------------------------------------------------------
(* After its first sync a life documents the whole catalog, and with that  *)
(* every group has a document.                                             *)
LEMMA SyncedFacts ==
  ASSUME LifeInv, SyncedOnce
  PROVE  /\ Published = GroupVersions
         /\ \A g \in Groups \ {CoreGroup} : groupDiscovery[g] # << >>
<1>1. round \in Nat
  BY DEF LifeInv, ProcessInv, TypeOK
<1>2. \A gv \in GroupVersions : Documented(gv)
  <2>1. ASSUME NEW gv \in GroupVersions PROVE ~ToCome(gv)
    <3>1. CASE round > 1
      BY <1>1, <3>1 DEF ToCome
    <3>2. CASE round = 1 /\ step \in {"sleep", "stopped"}
      BY <3>2 DEF ToCome, LifeInv, SyncInv, InIteration
    <3> QED
      BY <3>1, <3>2 DEF SyncedOnce
  <2> QED
    BY <2>1 DEF LifeInv, SyncInv
<1> QED
  BY <1>2, CatalogAssumption, GroupsAssumption DEF Documented, Published

(* A step that changes an answer is one of a client.                       *)
LEMMA ReplySteps ==
  ASSUME [LifeNext]_allVars, reply' # reply
  PROVE  \E c \in Clients :
           \/ \E gv \in GroupVersions : ServeVersion(c, gv)
           \/ \E g \in Groups : ServeGroup(c, g)
           \/ ServeAPIVersions(c)
           \/ ServeAggregated(c)
           \/ WriteListing(c)
<1>1. [Next]_vars
  BY LifeStep DEF Restart
<1>2. PICK c \in Clients : Client(c)
  BY <1>1, ClientsAside DEF Next, vars, clientVars
<1> QED
  BY <1>2 DEF Client, Respond, LoadPtr, LoadLen, FaultOnStray

(* A refusal after the first sync of a life is one from a life before.     *)
THEOREM RefusalsAreOld == LifeSafety => RefusedOnlyWhenYoung
<1> DEFINE Kinds == {"versionNotFound", "groupNotFound"}
           Old == SyncedOnce /\ life' = life => \A c \in Clients :
                    reply'[c].kind \in Kinds => reply'[c] = reply[c]
<1>1. ASSUME LifeInv, [LifeNext]_allVars, SyncedOnce,
             NEW c \in Clients, reply'[c].kind \in Kinds
      PROVE  reply'[c] = reply[c]
  <2>1. CASE reply' = reply
    BY <2>1
  <2>2. CASE reply' # reply
    <3>1. /\ Published = GroupVersions
          /\ \A g \in Groups \ {CoreGroup} : groupDiscovery[g] # << >>
          /\ reply \in [Clients -> Reply]
      BY <1>1, SyncedFacts DEF LifeInv, ProcessInv, TypeOK
    <3>2. PICK d \in Clients :
             \/ \E gv \in GroupVersions : ServeVersion(d, gv)
             \/ \E g \in Groups : ServeGroup(d, g)
             \/ ServeAPIVersions(d)
             \/ ServeAggregated(d)
             \/ WriteListing(d)
      BY <1>1, <2>2, ReplySteps
    <3>3. \A gv \in GroupVersions : ServeVersion(d, gv) => reply' = reply
      BY <3>1 DEF ServeVersion
    <3>4. ASSUME NEW g \in Groups, ServeGroup(d, g)
          PROVE  reply' = [reply EXCEPT ![d] = Answer("group", g)]
      BY <3>1, <3>4 DEF ServeGroup
    <3>5. PICK r : reply' = [reply EXCEPT ![d] = r] /\ r.kind \notin Kinds
      <4>1. ASSUME NEW g \in Groups
            PROVE  /\ Answer("group", g).kind \notin Kinds
                   /\ Answer("apiVersions", Nothing).kind \notin Kinds
                   /\ Answer("aggregated", Nothing).kind \notin Kinds
                   /\ Listing(request[d]).kind \notin Kinds
        BY DEF Answer, Listing
      <4>2. CASE \E g \in Groups : ServeGroup(d, g)
        BY <3>4, <4>1, <4>2
      <4>3. CASE ServeAPIVersions(d)
        BY <4>1, <4>3, CatalogAssumption DEF ServeAPIVersions
      <4>4. CASE ServeAggregated(d)
        BY <4>1, <4>4, CatalogAssumption DEF ServeAggregated
      <4>5. CASE WriteListing(d)
        BY <4>1, <4>5, CatalogAssumption DEF WriteListing
      <4> QED
        BY <2>2, <3>2, <3>3, <4>2, <4>3, <4>4, <4>5
    <3> QED
      BY <1>1, <3>1, <3>5
  <2> QED
    BY <2>1, <2>2
<1>2. LifeInv /\ [LifeNext]_allVars => [Old]_<<reply, life>>
  BY <1>1
<1> QED
  BY <1>2, LifeInvariance, PTL DEF LifeSafety, RefusedOnlyWhenYoung
=============================================================================
