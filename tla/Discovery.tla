------------------------------ MODULE Discovery ------------------------------
(***************************************************************************)
(* The discovery side of the gateway (pkg/apiserver): one worker goroutine *)
(* rebuilds, every five seconds, the tables from which the HTTP handlers   *)
(* answer `/api/v1`, `/apis/<group>/<version>`, `/apis/<group>` and the    *)
(* aggregated discovery document, while requests read those tables.        *)
(*                                                                         *)
(* Both tables are maps behind a read-write lock, so one table operation   *)
(* is one step here.  What the lock does not cover is the slice variable   *)
(* apiResourcesForDiscovery of DiscoveryController.sync: the lister that   *)
(* is installed in the version table is a closure over the VARIABLE, it is *)
(* installed after the first of several appends, and a request calls it    *)
(* after it released the lock.  An append and that read are therefore      *)
(* unsynchronised, and both are modelled by their memory accesses.         *)
(***************************************************************************)
EXTENDS Naturals, Sequences

CONSTANTS
    GroupVersions,    \* the keys of the catalog (search.resourceInfos)
    Groups,           \* the API groups these belong to
    CoreGroup,        \* the group whose name is the empty string
    GroupOf,          \* GroupOf[gv]: the group of a group version
    Resources,        \* the resource descriptions the catalog holds
    Catalog,          \* Catalog[gv]: the resources of gv, in catalog order
    ResourceManager,  \* TRUE iff the server has an aggregated manager
    Clients,          \* the callers of the discovery endpoints
    MaxSyncs,         \* bound: the number of runs of sync
    Nothing,          \* the absence of a group version or group
    Blank,            \* an element of the array that is not written yet
    Stray             \* what is read beyond the end of an array

ASSUME CatalogAssumption ==
    /\ CoreGroup \in Groups
    /\ GroupOf \in [GroupVersions -> Groups]
    /\ Catalog \in [GroupVersions -> Seq(Resources)]
    /\ \A gv \in GroupVersions : Catalog[gv] # << >>

ASSUME GroupsAssumption ==
    \A g \in Groups \ {CoreGroup} : \E gv \in GroupVersions : GroupOf[gv] = g

ASSUME ValueAssumption ==
    /\ ResourceManager \in BOOLEAN
    /\ MaxSyncs \in Nat \ {0}
    /\ Nothing \notin GroupVersions
    /\ Nothing \notin [of : GroupVersions, floor : Nat]
    /\ Blank \notin Resources
    /\ Stray \notin Resources

VARIABLES
    stopCh,           \* TRUE once the server's stop channel is closed
    step,             \* where the worker goroutine is
    round,            \* the number of syncs started
    todo,             \* the keys the range over the catalog still owes
    cur,              \* the key of the current iteration
    slice,            \* slice[gv][r]: apiResourcesForDiscovery of sync r
    versionDiscovery, \* versionDiscoveryHandler.discovery
    groupDiscovery,   \* groupDiscoveryHandler.discovery (the Versions)
    aggregated,       \* the group versions in the aggregated manager
    request,          \* request[c]: the version request c has in flight
    reply,            \* reply[c]: the last answer c received
    learned           \* history: the group versions c saw advertised

workerVars == <<step, round, todo, cur, slice>>
tableVars == <<versionDiscovery, groupDiscovery, aggregated>>
clientVars == <<request, reply, learned>>
vars == <<stopCh, workerVars, tableVars, clientVars>>
-----------------------------------------------------------------------------
Rounds == 1 .. MaxSyncs

(* A slice variable and the array behind it.  An array never changes its   *)
(* capacity and append replaces an array by a larger one, so the capacity  *)
(* identifies the array within one slice variable.  `filled' counts the    *)
(* elements written; append copies the written elements when it grows.     *)
Slice == [cap : Nat, len : Nat, filled : Nat]
NewSlice == [cap |-> 0, len |-> 0, filled |-> 0]
GrownCap(cap) == IF cap = 0 THEN 1 ELSE 2 * cap

(* A handler is the object installed by one call of setDiscovery: the      *)
(* count-th call for its key in sync `round'.  Round 0 stands for no entry *)
(* in the map.                                                             *)
Handler == [round : 0 .. MaxSyncs, count : Nat]
NoHandler == [round |-> 0, count |-> 0]

Published == {gv \in GroupVersions : versionDiscovery[gv] # NoHandler}

(* A version request that looked its handler up and has loaded some of the *)
(* two words (data pointer, length) of the handler's slice variable.       *)
Request == [gv : GroupVersions \cup {Nothing}, handler : Handler,
            loaded : SUBSET {"ptr", "len"}, ptr : Nat, len : Nat]
NoRequest == [gv |-> Nothing, handler |-> NoHandler,
              loaded |-> {}, ptr |-> 0, len |-> 0]
NewRequest(gv) == [NoRequest EXCEPT !.gv = gv,
                                    !.handler = versionDiscovery[gv]]

Items == Seq(Resources \cup {Blank, Stray})
Reply == [kind : {"none", "versionNotFound", "listing", "groupNotFound",
                  "group", "apiVersions", "aggregated"},
          of : GroupVersions \cup Groups \cup {Nothing},
          handler : Handler, items : Items]
Answer(kind, of) ==
    [kind |-> kind, of |-> of, handler |-> NoHandler, items |-> << >>]

(* The process dies with its worker.                                       *)
Running == step # "crashed"
Ready(c) == Running /\ request[c] = NoRequest

(* A variant of GroupVersionsForDiscovery that appends to a slice which    *)
(* was made with its final length instead of with that capacity.           *)
GroupVersionsPreallocated(gv) ==
    [i \in 1 .. 2 * Len(Catalog[gv]) |->
       IF i <= Len(Catalog[gv]) THEN Nothing ELSE gv]

(* The APIGroup.Versions that sync hands to the group table: one entry per *)
(* resource, all of the same group version; the descending sort that       *)
(* follows finds equal elements only, and element 1 is PreferredVersion.   *)
GroupVersionsForDiscovery(gv) == [i \in 1 .. Len(Catalog[gv]) |-> gv]

Init ==
    /\ stopCh = FALSE
    /\ step = "sleep"
    /\ round = 0
    /\ todo = {}
    /\ cur = Nothing
    /\ slice = [gv \in GroupVersions |-> [r \in Rounds |-> NewSlice]]
    /\ versionDiscovery = [gv \in GroupVersions |-> NoHandler]
    /\ groupDiscovery = [g \in Groups |-> << >>]
    /\ aggregated = {}
    /\ request = [c \in Clients |-> NoRequest]
    /\ reply = [c \in Clients |-> Answer("none", Nothing)]
    /\ learned = [c \in Clients |-> {}]
-----------------------------------------------------------------------------
(* The worker: wait.Until(c.sync, 5*time.Second, stopCh).                  *)

(* A variant of StartSync that empties the version table first.            *)
StartSyncUnpublishing ==
    /\ step = "sleep"
    /\ ~stopCh
    /\ round < MaxSyncs
    /\ step' = "range"
    /\ round' = round + 1
    /\ todo' = GroupVersions
    /\ versionDiscovery' = [gv \in GroupVersions |-> NoHandler]
    /\ UNCHANGED <<stopCh, cur, slice, groupDiscovery, aggregated, clientVars>>

(* The timer fires, or the worker starts, and the stop channel is open:    *)
(* sync reads the catalog and starts to range over it.                     *)
StartSync ==
    /\ step = "sleep"
    /\ ~stopCh
    /\ round < MaxSyncs
    /\ step' = "range"
    /\ round' = round + 1
    /\ todo' = GroupVersions
    /\ UNCHANGED <<stopCh, cur, slice, tableVars, clientVars>>

(* A variant of StopWorker: wait.Until without a look at the channel.      *)
StopWorkerNever == FALSE /\ UNCHANGED vars

(* The stop channel is only looked at between two syncs.                   *)
StopWorker ==
    /\ step = "sleep"
    /\ stopCh
    /\ step' = "stopped"
    /\ UNCHANGED <<stopCh, round, todo, cur, slice, tableVars, clientVars>>

(* A variant of BeginGroupVersion with the slice variable hoisted out of   *)
(* the loop: the listers of the key's earlier syncs share it.              *)
BeginGroupVersionHoisted(gv) ==
    /\ step = "range"
    /\ gv \in todo
    /\ step' = "append"
    /\ cur' = gv
    /\ todo' = todo \ {gv}
    /\ slice' = [slice EXCEPT ![gv] = [r \in Rounds |-> NewSlice]]
    /\ UNCHANGED <<stopCh, round, tableVars, clientVars>>

(* A variant of BeginGroupVersion with the core group's `continue' of the  *)
(* loop's end at its head.                                                 *)
BeginGroupVersionNamed(gv) ==
    /\ step = "range"
    /\ gv \in todo
    /\ step' = IF GroupOf[gv] = CoreGroup THEN "range" ELSE "append"
    /\ cur' = gv
    /\ todo' = todo \ {gv}
    /\ UNCHANGED <<stopCh, round, slice, tableVars, clientVars>>

(* The range yields its next key, in the random order of a Go map, and the *)
(* iteration declares a new slice variable: slice[gv][round] is NewSlice.  *)
BeginGroupVersion(gv) ==
    /\ step = "range"
    /\ gv \in todo
    /\ step' = "append"
    /\ cur' = gv
    /\ todo' = todo \ {gv}
    /\ UNCHANGED <<stopCh, round, slice, tableVars, clientVars>>

FinishSync ==
    /\ step = "range"
    /\ todo = {}
    /\ step' = "sleep"
    /\ UNCHANGED <<stopCh, round, todo, cur, slice, tableVars, clientVars>>

(* A variant of GrowSlice: the new array is published without a copy.      *)
GrowSliceNoCopy ==
    /\ step = "append"
    /\ LET s == slice[cur][round]
       IN  /\ s.len = s.cap
           /\ slice' = [slice EXCEPT ![cur][round].cap = GrownCap(s.cap),
                                     ![cur][round].filled = 0]
    /\ UNCHANGED <<stopCh, step, round, todo, cur, tableVars, clientVars>>

(* append, the array is full: a larger array with the old elements in it   *)
(* becomes the variable's data pointer.                                    *)
GrowSlice ==
    /\ step = "append"
    /\ LET s == slice[cur][round]
       IN  /\ s.len = s.cap
           /\ slice' = [slice EXCEPT ![cur][round].cap = GrownCap(s.cap)]
    /\ UNCHANGED <<stopCh, step, round, todo, cur, tableVars, clientVars>>

(* append, next: the variable's length word, before the element itself.    *)
StoreLen ==
    /\ step = "append"
    /\ LET s == slice[cur][round]
       IN  /\ s.len < s.cap
           /\ slice' = [slice EXCEPT ![cur][round].len = s.len + 1]
    /\ step' = "element"
    /\ UNCHANGED <<stopCh, round, todo, cur, tableVars, clientVars>>

(* append, last: the element.                                              *)
StoreElement ==
    /\ step = "element"
    /\ slice' = [slice EXCEPT ![cur][round].filled = slice[cur][round].len]
    /\ step' = "setVersion"
    /\ UNCHANGED <<stopCh, round, todo, cur, tableVars, clientVars>>

(* setDiscovery replaces the key's handler, once per resource: the first   *)
(* call of a sync hides the complete listing of the sync before.           *)
SetVersionDiscovery ==
    /\ step = "setVersion"
    /\ LET len == slice[cur][round].len
       IN  /\ versionDiscovery' = [versionDiscovery EXCEPT
                ![cur] = [round |-> round, count |-> len]]
           /\ step' = IF len < Len(Catalog[cur]) THEN "append" ELSE "setGroup"
    /\ UNCHANGED <<stopCh, round, todo, cur, slice, groupDiscovery,
                   aggregated, clientVars>>

(* A variant of SetGroupDiscovery that gives the rest of the catalog up    *)
(* after the core group (a `return' for a `continue').                     *)
SetGroupDiscoveryReturning ==
    /\ step = "setGroup"
    /\ groupDiscovery' = [groupDiscovery EXCEPT
         ![GroupOf[cur]] = GroupVersionsForDiscovery(cur)]
    /\ step' = IF GroupOf[cur] = CoreGroup THEN "sleep"
               ELSE IF ResourceManager THEN "setAggregated" ELSE "range"
    /\ UNCHANGED <<stopCh, round, todo, cur, slice, versionDiscovery,
                   aggregated, clientVars>>

(* The group's entry is replaced by one that names the current version     *)
(* only.                                                                   *)
SetGroupDiscovery ==
    /\ step = "setGroup"
    /\ groupDiscovery' = [groupDiscovery EXCEPT
         ![GroupOf[cur]] = GroupVersionsForDiscovery(cur)]
    /\ step' = IF ResourceManager /\ GroupOf[cur] # CoreGroup
               THEN "setAggregated" ELSE "range"
    /\ UNCHANGED <<stopCh, round, todo, cur, slice, versionDiscovery,
                   aggregated, clientVars>>

AddGroupVersion ==
    /\ step = "setAggregated"
    /\ aggregated' = aggregated \cup {cur}
    /\ step' = "range"
    /\ UNCHANGED <<stopCh, round, todo, cur, slice, versionDiscovery,
                   groupDiscovery, clientVars>>

Worker ==
    \/ StartSync
    \/ StopWorker
    \/ \E gv \in GroupVersions : BeginGroupVersion(gv)
    \/ FinishSync
    \/ GrowSlice
    \/ StoreLen
    \/ StoreElement
    \/ SetVersionDiscovery
    \/ SetGroupDiscovery
    \/ AddGroupVersion

(* The generic server closes its stop channel.                             *)
CloseStopCh ==
    /\ Running
    /\ ~stopCh
    /\ stopCh' = TRUE
    /\ UNCHANGED <<workerVars, tableVars, clientVars>>
-----------------------------------------------------------------------------
(* The requests.                                                           *)

(* GET of a version path: the handler is looked up under the read lock; a  *)
(* missing entry falls through to the delegate, which knows no such path.  *)
ServeVersion(c, gv) ==
    /\ Ready(c)
    /\ \/ /\ gv \notin Published
          /\ reply' = [reply EXCEPT ![c] = Answer("versionNotFound", gv)]
          /\ UNCHANGED request
       \/ /\ gv \in Published
          /\ request' = [request EXCEPT ![c] = NewRequest(gv)]
          /\ UNCHANGED reply
    /\ UNCHANGED <<stopCh, workerVars, tableVars, learned>>

SliceOf(req) == slice[req.gv][req.handler.round]
Loading(c, word) == Running /\ request[c] # NoRequest
                            /\ word \notin request[c].loaded

(* The lister returns the slice variable: two words, loaded in any order.  *)
LoadPtr(c) ==
    /\ Loading(c, "ptr")
    /\ request' = [request EXCEPT ![c].loaded = @ \cup {"ptr"},
                                  ![c].ptr = SliceOf(request[c]).cap]
    /\ UNCHANGED <<stopCh, workerVars, tableVars, reply, learned>>

LoadLen(c) ==
    /\ Loading(c, "len")
    /\ request' = [request EXCEPT ![c].loaded = @ \cup {"len"},
                                  ![c].len = SliceOf(request[c]).len]
    /\ UNCHANGED <<stopCh, workerVars, tableVars, reply, learned>>

(* What position i of the loaded slice holds: garbage beyond the array the *)
(* pointer was loaded for, a zero value where the worker has not written.  *)
Entry(req, i) ==
    IF i > req.ptr THEN Stray
    ELSE IF i > SliceOf(req).filled THEN Blank
    ELSE Catalog[req.gv][i]

Listing(req) ==
    [kind |-> "listing", of |-> req.gv, handler |-> req.handler,
     items |-> [i \in 1 .. req.len |-> Entry(req, i)]]

(* The handler encodes the elements into the response.                     *)
WriteListing(c) ==
    /\ Running
    /\ request[c].loaded = {"ptr", "len"}
    /\ reply' = [reply EXCEPT ![c] = Listing(request[c])]
    /\ request' = [request EXCEPT ![c] = NoRequest]
    /\ UNCHANGED <<stopCh, workerVars, tableVars, learned>>

(* The length belongs to a larger array than the pointer: what lies behind *)
(* the end may hold a wild string header, and the load that follows it is  *)
(* a fault that no recover catches.  The process dies with every request.  *)
FaultOnStray(c) ==
    /\ Running
    /\ request[c].loaded = {"ptr", "len"}
    /\ request[c].len > request[c].ptr
    /\ step' = "crashed"
    /\ request' = [d \in Clients |-> NoRequest]
    /\ UNCHANGED <<stopCh, round, todo, cur, slice, tableVars, reply, learned>>

(* GET of a group path.  The entry of the core group cannot be asked for:  *)
(* a path has no empty segment.                                            *)
ServeGroup(c, g) ==
    /\ Ready(c)
    /\ g # CoreGroup
    /\ LET versions == groupDiscovery[g]
       IN  \/ /\ versions = << >>
              /\ reply' = [reply EXCEPT ![c] = Answer("groupNotFound", g)]
              /\ UNCHANGED learned
           \/ /\ versions # << >>
              /\ reply' = [reply EXCEPT ![c] = Answer("group", g)]
              /\ learned' = [learned EXCEPT
                    ![c] = @ \cup {versions[i] : i \in DOMAIN versions}]
    /\ UNCHANGED <<stopCh, workerVars, tableVars, request>>

(* GET /api answers the constant v1, whatever the table holds.             *)
ServeAPIVersions(c) ==
    /\ Ready(c)
    /\ reply' = [reply EXCEPT ![c] = Answer("apiVersions", Nothing)]
    /\ UNCHANGED <<stopCh, workerVars, tableVars, request, learned>>

(* GET of the aggregated document, answered by the resource manager.       *)
ServeAggregated(c) ==
    /\ Ready(c)
    /\ ResourceManager
    /\ reply' = [reply EXCEPT ![c] = Answer("aggregated", Nothing)]
    /\ learned' = [learned EXCEPT ![c] = @ \cup aggregated]
    /\ UNCHANGED <<stopCh, workerVars, tableVars, request>>

Respond(c) == LoadPtr(c) \/ LoadLen(c) \/ WriteListing(c)

Client(c) ==
    \/ \E gv \in GroupVersions : ServeVersion(c, gv)
    \/ Respond(c)
    \/ FaultOnStray(c)
    \/ \E g \in Groups : ServeGroup(c, g)
    \/ ServeAPIVersions(c)
    \/ ServeAggregated(c)

Next == Worker \/ CloseStopCh \/ \E c \in Clients : Client(c)

Safety == Init /\ [][Next]_vars

(* The Go scheduler runs every goroutine that can run: the worker, and the *)
(* goroutine of each request that is being answered.  Nothing is assumed   *)
(* of the clients or of the stop channel.                                  *)
Spec == Safety /\ WF_vars(Worker) /\ \A c \in Clients : WF_vars(Respond(c))
-----------------------------------------------------------------------------
(* Properties.                                                             *)

(* Every variable keeps its type; above all the lengths, capacities and    *)
(* rounds stay inside the catalog's bounds (sync, lines 58-131).           *)
TypeOK ==
    /\ stopCh \in BOOLEAN
    /\ step \in {"sleep", "range", "append", "element", "setVersion",
                 "setGroup", "setAggregated", "stopped", "crashed"}
    /\ round \in 0 .. MaxSyncs
    /\ todo \subseteq GroupVersions
    /\ cur \in GroupVersions \cup {Nothing}
    /\ slice \in [GroupVersions -> [Rounds -> Slice]]
    /\ versionDiscovery \in [GroupVersions -> Handler]
    /\ groupDiscovery \in [Groups -> Seq(GroupVersions)]
    /\ aggregated \subseteq GroupVersions
    /\ request \in [Clients -> Request]
    /\ reply \in [Clients -> Reply]
    /\ learned \in [Clients -> SUBSET GroupVersions]

(* The positions of a listing that hold the resource the catalog has there.*)
Intact(r) == {i \in DOMAIN r.items :
                i <= Len(Catalog[r.of]) /\ r.items[i] = Catalog[r.of][i]}

(* However the unsynchronised read races with the appends, the resources   *)
(* whose setDiscovery calls preceded the lookup are all in the listing, in *)
(* place and intact, and the listing never exceeds the catalog: a handler  *)
(* installed by a sync's last call answers with exactly the catalog.       *)
ListingCoversHandler ==
    \A c \in Clients : reply[c].kind = "listing" =>
        LET r == reply[c] IN
        /\ r.handler.count >= 1
        /\ 1 .. r.handler.count \subseteq Intact(r)
        /\ Len(r.items) <= Len(Catalog[r.of])

(* A group version that a client saw in a group document or in the         *)
(* aggregated document is never answered with "not found" afterwards, nor  *)
(* is its group: sync publishes a version before the group before the      *)
(* aggregated entry, and no resync takes one back.                         *)
AdvertisedIsServed ==
    \A c \in Clients :
        /\ reply[c].kind = "versionNotFound" => reply[c].of \notin learned[c]
        /\ reply[c].kind = "groupNotFound" =>
             \A gv \in learned[c] : GroupOf[gv] # reply[c].of

(* A client that lists the same version twice in a row loses a resource it *)
(* had seen only because a resync began in between, never within one sync, *)
(* and is never sent back to the listing of an earlier sync.               *)
ShrinkOnlyByResync ==
    [][\A c \in Clients :
         (/\ reply[c].kind = "listing"
          /\ reply'[c].kind = "listing"
          /\ reply'[c].of = reply[c].of) =>
            /\ reply'[c].handler.round >= reply[c].handler.round
            /\ reply'[c].handler.round = reply[c].handler.round =>
                 Intact(reply[c]) \subseteq Intact(reply'[c])]_reply

(* The group versions that a group's document names.                       *)
NamedIn(g) == {groupDiscovery[g][i] : i \in DOMAIN groupDiscovery[g]}

(* All of the catalog is published, by sync r or a later one.  As a group  *)
(* document is replaced and not extended, this is within reach only of a   *)
(* catalog like the shipped one, with one version per group.               *)
PublishedBy(r) ==
    /\ \A gv \in GroupVersions :
         /\ versionDiscovery[gv].round >= r
         /\ versionDiscovery[gv].count = Len(Catalog[gv])
         /\ gv \in NamedIn(GroupOf[gv])
         /\ ResourceManager /\ GroupOf[gv] # CoreGroup => gv \in aggregated

(* Every sync that starts brings the tables to the whole catalog in the    *)
(* end, whatever the requests do, unless a request's fault kills the       *)
(* process: the moments in which a listing is incomplete are transient.    *)
SyncCompletes ==
    \A r \in Rounds : round = r ~> PublishedBy(r) \/ ~Running

(* Closing the stop channel ends the worker, at the next end of a sync.    *)
ShutdownStopsWorker == stopCh ~> step \in {"stopped", "crashed"}
-----------------------------------------------------------------------------
(* The refinement: the guarantee for a version is the count of its         *)
(* handler, a request carries the guarantee of the handler it looked up,   *)
(* and of a listing only the intact resources matter.                      *)
AbstractPending(req) ==
    IF req = NoRequest THEN Nothing
    ELSE [of |-> req.gv, floor |-> req.handler.count]

AbstractAnswer(r) ==
    CASE r.kind = "versionNotFound" -> [of |-> r.of, refused |-> TRUE]
      [] r.kind = "listing" -> [of |-> r.of, refused |-> FALSE,
                                intact |-> Intact(r)]
      [] OTHER -> Nothing

Advertised == aggregated \cup UNION {NamedIn(g) : g \in Groups}

Service == INSTANCE DiscoveryService WITH
    Size <- [gv \in GroupVersions |-> Len(Catalog[gv])],
    None <- Nothing,
    floor <- [gv \in GroupVersions |-> versionDiscovery[gv].count],
    advertised <- Advertised,
    pending <- [c \in Clients |-> AbstractPending(request[c])],
    answer <- [c \in Clients |-> AbstractAnswer(reply[c])],
    learned <- learned

(* Worker, slices and locks together implement the abstract service.       *)
ImplementsService == Service!Spec
=============================================================================
