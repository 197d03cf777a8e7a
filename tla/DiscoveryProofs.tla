--------------------------- MODULE DiscoveryProofs ---------------------------
(***************************************************************************)
(* Proofs about the discovery worker and its readers, for every catalog,   *)
(* every number of clients and every number of syncs.                      *)
(***************************************************************************)
EXTENDS Discovery, SequenceTheorems, TLAPS

InIteration == {"append", "element", "setVersion", "setGroup",
                "setAggregated"}

(* A slice is complete but for the one element that is being appended to   *)
(* the slice of the current iteration, and never exceeds the catalog.      *)
SliceOK(gv, r) ==
    LET s == slice[gv][r] IN
    /\ s.filled <= s.len
    /\ s.len <= s.filled + 1
    /\ s.len <= s.cap
    /\ s.len <= Len(Catalog[gv])
    /\ s.len # s.filled =>
         step \in {"element", "crashed"} /\ gv = cur /\ r = round

SliceInv == \A gv \in GroupVersions, r \in Rounds : SliceOK(gv, r)

(* The slices that are not begun are empty.                                *)
FreshInv ==
    \A gv \in GroupVersions, r \in Rounds :
        (r > round \/ (r = round /\ gv \in todo)) => slice[gv][r] = NewSlice

WorkerInv ==
    /\ step = "range" => round \in Rounds
    /\ step \in InIteration =>
         /\ round \in Rounds
         /\ cur \in GroupVersions
         /\ cur \notin todo
    /\ step = "append" => slice[cur][round].len < Len(Catalog[cur])
    /\ step = "element" => slice[cur][round].len >= 1
    /\ step = "setVersion" => slice[cur][round].len >= 1
    /\ step \in {"setGroup", "setAggregated"} => cur \in Published
    /\ step = "setAggregated" => groupDiscovery[GroupOf[cur]] # << >>

(* A handler guarantees elements that are written.                         *)
HandlerOK(gv, h) ==
    /\ h.round \in 1 .. round
    /\ h.count >= 1
    /\ h.count <= slice[gv][h.round].filled

TableInv == \A gv \in Published : HandlerOK(gv, versionDiscovery[gv])

RequestOK(req) ==
    /\ req.gv \in GroupVersions
    /\ HandlerOK(req.gv, req.handler)
    /\ "ptr" \in req.loaded => req.handler.count <= req.ptr
    /\ "len" \in req.loaded => /\ req.handler.count <= req.len
                               /\ req.len <= SliceOf(req).len

RequestInv ==
    \A c \in Clients : request[c] = NoRequest \/ RequestOK(request[c])

(* Documents name published versions, and only of groups that are          *)
(* published too.                                                          *)
Documented(gv) == gv \in Published /\ groupDiscovery[GroupOf[gv]] # << >>
DocumentInv ==
    /\ \A g \in Groups : \A i \in DOMAIN groupDiscovery[g] :
         Documented(groupDiscovery[g][i])
    /\ \A gv \in aggregated : Documented(gv)

ListingOK(r) ==
    r.kind = "listing" =>
        /\ r.handler.count >= 1
        /\ 1 .. r.handler.count \subseteq Intact(r)
        /\ Len(r.items) <= Len(Catalog[r.of])

(* What holds of a process, whatever its clients have seen before, of it   *)
(* or of a process before it.                                              *)
ProcessInv ==
    /\ TypeOK
    /\ SliceInv
    /\ FreshInv
    /\ WorkerInv
    /\ TableInv
    /\ RequestInv
    /\ DocumentInv
    /\ ListingCoversHandler

(* What clients have learned still stands.                                 *)
LearnedInv == \A c \in Clients : \A gv \in learned[c] : Documented(gv)

IInv ==
    /\ ProcessInv
    /\ LearnedInv
    /\ AdvertisedIsServed
-----------------------------------------------------------------------------
(* The initial state satisfies the invariant.                              *)
LEMMA InitInv == Init => IInv
<1> SUFFICES ASSUME Init PROVE IInv
  OBVIOUS
<1> USE CatalogAssumption, ValueAssumption
<1>1. TypeOK
  <2>1. /\ slice \in [GroupVersions -> [Rounds -> Slice]]
        /\ versionDiscovery \in [GroupVersions -> Handler]
    BY DEF Init, Slice, NewSlice, Handler, NoHandler, Rounds
  <2>2. groupDiscovery \in [Groups -> Seq(GroupVersions)]
    BY DEF Init
  <2>3. request \in [Clients -> Request]
    BY DEF Init, Request, NoRequest, Handler, NoHandler
  <2>4. reply \in [Clients -> Reply]
    <3>1. Answer("none", Nothing) \in Reply
      <4>1. << >> \in Items
        BY DEF Items
      <4> QED
        BY <4>1 DEF Reply, Answer, Handler, NoHandler
    <3> QED
      BY <3>1 DEF Init
  <2>5. stopCh \in BOOLEAN
    BY Zenon DEF Init
  <2>6. /\ round \in 0 .. MaxSyncs
        /\ learned \in [Clients -> SUBSET GroupVersions]
    BY DEF Init
  <2> QED
    BY <2>1, <2>2, <2>3, <2>4, <2>5, <2>6 DEF Init, TypeOK
<1>2. SliceInv /\ FreshInv
  BY DEF Init, SliceInv, SliceOK, FreshInv, NewSlice, Rounds
<1>3. Published = {}
  BY DEF Init, Published
<1>4. WorkerInv /\ TableInv /\ RequestInv
  BY <1>3 DEF Init, WorkerInv, InIteration, TableInv, RequestInv
<1>5. DocumentInv
  BY DEF Init, DocumentInv
<1>6. ListingCoversHandler /\ LearnedInv /\ AdvertisedIsServed
  BY DEF Init, ListingCoversHandler, LearnedInv, AdvertisedIsServed, Answer
<1> QED
  BY <1>1, <1>2, <1>4, <1>5, <1>6 DEF IInv, ProcessInv

(* The worker's steps preserve it, one lemma per step.                     *)
LEMMA StartSyncInv == ProcessInv /\ StartSync => ProcessInv'
<1> SUFFICES ASSUME ProcessInv, StartSync PROVE ProcessInv'
  OBVIOUS
<1> USE CatalogAssumption, ValueAssumption
<1> USE DEF ProcessInv, StartSync, workerVars, tableVars, clientVars
<1>1. TypeOK'
  BY DEF TypeOK
<1>2. SliceInv'
  BY DEF SliceInv, SliceOK
<1>3. FreshInv'
  BY DEF FreshInv, TypeOK, Rounds
<1>4. WorkerInv'
  BY DEF WorkerInv, InIteration, TypeOK, Rounds
<1>5. TableInv'
  BY DEF TableInv, HandlerOK, Published, TypeOK
<1>6. RequestInv'
  BY DEF RequestInv, RequestOK, HandlerOK, SliceOf, TypeOK
<1>7. DocumentInv'
  BY DEF DocumentInv, Documented, Published
<1>8. ListingCoversHandler'
  BY DEF ListingCoversHandler, Intact
<1> QED
  BY <1>1, <1>2, <1>3, <1>4, <1>5, <1>6, <1>7, <1>8

(* Stopping leaves every slice complete: only a sleeping worker stops.     *)
LEMMA StopWorkerInv == ProcessInv /\ StopWorker => ProcessInv'
<1> SUFFICES ASSUME ProcessInv, StopWorker PROVE ProcessInv'
  OBVIOUS
<1> USE CatalogAssumption, ValueAssumption
<1> USE DEF ProcessInv, StopWorker, workerVars, tableVars, clientVars
<1>1. TypeOK'
  BY DEF TypeOK
<1>2. SliceInv'
  BY DEF SliceInv, SliceOK, WorkerInv
<1>3. FreshInv'
  BY DEF FreshInv, TypeOK, Rounds
<1>4. WorkerInv'
  BY DEF WorkerInv, InIteration, TypeOK, Rounds, Published
<1>5. TableInv'
  BY DEF TableInv, HandlerOK, Published, TypeOK
<1>6. RequestInv'
  BY DEF RequestInv, RequestOK, HandlerOK, SliceOf, TypeOK
<1>7. DocumentInv'
  BY DEF DocumentInv, Documented, Published
<1>8. ListingCoversHandler'
  BY DEF ListingCoversHandler, Intact
<1> QED
  BY <1>1, <1>2, <1>3, <1>4, <1>5, <1>6, <1>7, <1>8

(* The new iteration starts with an empty slice: FreshInv says so.         *)
LEMMA BeginGroupVersionInv ==
  ASSUME ProcessInv, NEW gv \in GroupVersions, BeginGroupVersion(gv)
  PROVE  ProcessInv'
<1> USE CatalogAssumption, ValueAssumption
<1> USE DEF ProcessInv, BeginGroupVersion, workerVars, tableVars, clientVars
<1>1. TypeOK'
  BY DEF TypeOK
<1>2. SliceInv'
  BY DEF SliceInv, SliceOK, FreshInv
<1>3. FreshInv'
  BY DEF FreshInv, TypeOK, Rounds
<1>4. WorkerInv'
  BY DEF WorkerInv, InIteration, TypeOK, Rounds, Published, FreshInv, NewSlice
<1>5. TableInv'
  BY DEF TableInv, HandlerOK, Published, TypeOK
<1>6. RequestInv'
  BY DEF RequestInv, RequestOK, HandlerOK, SliceOf, TypeOK
<1>7. DocumentInv'
  BY DEF DocumentInv, Documented, Published
<1>8. ListingCoversHandler'
  BY DEF ListingCoversHandler, Intact
<1> QED
  BY <1>1, <1>2, <1>3, <1>4, <1>5, <1>6, <1>7, <1>8

(* The end of a sync touches neither slices nor tables.                    *)
LEMMA FinishSyncInv == ProcessInv /\ FinishSync => ProcessInv'
<1> SUFFICES ASSUME ProcessInv, FinishSync PROVE ProcessInv'
  OBVIOUS
<1> USE CatalogAssumption, ValueAssumption
<1> USE DEF ProcessInv, FinishSync, workerVars, tableVars, clientVars
<1>1. TypeOK'
  BY DEF TypeOK
<1>2. SliceInv'
  BY DEF SliceInv, SliceOK
<1>3. FreshInv'
  BY DEF FreshInv, TypeOK, Rounds
<1>4. WorkerInv'
  BY DEF WorkerInv, InIteration, TypeOK, Rounds, Published
<1>5. TableInv'
  BY DEF TableInv, HandlerOK, Published, TypeOK
<1>6. RequestInv'
  BY DEF RequestInv, RequestOK, HandlerOK, SliceOf, TypeOK
<1>7. DocumentInv'
  BY DEF DocumentInv, Documented, Published
<1>8. ListingCoversHandler'
  BY DEF ListingCoversHandler, Intact
<1> QED
  BY <1>1, <1>2, <1>3, <1>4, <1>5, <1>6, <1>7, <1>8

(* The group document of a version: not empty, and of that version only.   *)
LEMMA GroupDocument ==
  ASSUME NEW gv \in GroupVersions
  PROVE  /\ GroupVersionsForDiscovery(gv) \in Seq(GroupVersions)
         /\ GroupVersionsForDiscovery(gv) # << >>
         /\ \A i \in DOMAIN GroupVersionsForDiscovery(gv) :
              GroupVersionsForDiscovery(gv)[i] = gv
<1>1. Len(Catalog[gv]) \in Nat /\ Len(Catalog[gv]) # 0
  BY CatalogAssumption
<1>2. GroupVersionsForDiscovery(gv) \in Seq(GroupVersions)
  BY <1>1 DEF GroupVersionsForDiscovery
<1>3. 1 \in DOMAIN GroupVersionsForDiscovery(gv)
  BY <1>1 DEF GroupVersionsForDiscovery
<1> QED
  BY <1>2, <1>3 DEF GroupVersionsForDiscovery

(* The group document names the version just published, and no other.      *)
LEMMA SetGroupDiscoveryInv == ProcessInv /\ SetGroupDiscovery => ProcessInv'
<1> SUFFICES ASSUME ProcessInv, SetGroupDiscovery PROVE ProcessInv'
  OBVIOUS
<1> USE CatalogAssumption, ValueAssumption
<1> USE DEF ProcessInv, SetGroupDiscovery, workerVars, tableVars, clientVars
<1>a. cur \in GroupVersions /\ cur \in Published
  BY DEF WorkerInv, InIteration
<1>1. TypeOK'
  BY <1>a, GroupDocument DEF TypeOK
<1>2. SliceInv'
  BY DEF SliceInv, SliceOK
<1>3. FreshInv'
  BY DEF FreshInv, TypeOK, Rounds
<1>4. WorkerInv'
  BY <1>a, GroupDocument
  DEF WorkerInv, InIteration, TypeOK, Rounds, Published
<1>5. TableInv'
  BY DEF TableInv, HandlerOK, Published, TypeOK
<1>6. RequestInv'
  BY DEF RequestInv, RequestOK, HandlerOK, SliceOf, TypeOK
<1>7. DocumentInv'
  <2>1. \A gv \in GroupVersions : Documented(gv) => Documented(gv)'
    BY <1>a, GroupDocument DEF Documented, Published, TypeOK
  <2>2. \A g \in Groups :
          groupDiscovery'[g] = IF g = GroupOf[cur]
                               THEN GroupVersionsForDiscovery(cur)
                               ELSE groupDiscovery[g]
    BY <1>a DEF TypeOK
  <2>3. Documented(cur)'
    BY <1>a, GroupDocument DEF Documented, Published, TypeOK
  <2>4. ASSUME NEW g \in Groups, NEW i \in DOMAIN groupDiscovery'[g]
        PROVE  Documented(groupDiscovery[g][i])'
    <3>1. CASE g = GroupOf[cur]
      <4>1. groupDiscovery'[g][i] = cur
        <5>1. groupDiscovery'[g] = GroupVersionsForDiscovery(cur)
          BY <2>2, <3>1
        <5>2. i \in DOMAIN GroupVersionsForDiscovery(cur)
          BY <5>1
        <5>3. GroupVersionsForDiscovery(cur)[i] = cur
          BY <1>a, <5>2, GroupDocument
        <5> QED
          BY <5>1, <5>3
      <4> QED
        BY <2>3, <4>1 DEF Documented
    <3>2. CASE g # GroupOf[cur]
      <4>1. Documented(groupDiscovery[g][i])
        BY <2>2, <3>2 DEF DocumentInv
      <4>2. groupDiscovery[g][i] \in GroupVersions
        BY <4>1 DEF Documented, Published
      <4> QED
        BY <2>1, <2>2, <3>2, <4>1, <4>2 DEF Documented, Published
    <3> QED
      BY <3>1, <3>2
  <2>5. \A gv \in aggregated : Documented(gv)'
    BY <2>1 DEF DocumentInv, TypeOK
  <2> QED
    BY <2>4, <2>5 DEF DocumentInv
<1>8. ListingCoversHandler'
  BY DEF ListingCoversHandler, Intact
<1> QED
  BY <1>1, <1>2, <1>3, <1>4, <1>5, <1>6, <1>7, <1>8

(* The aggregated entry of a version follows its group's document.         *)
LEMMA AddGroupVersionInv == ProcessInv /\ AddGroupVersion => ProcessInv'
<1> SUFFICES ASSUME ProcessInv, AddGroupVersion PROVE ProcessInv'
  OBVIOUS
<1> USE CatalogAssumption, ValueAssumption
<1> USE DEF ProcessInv, AddGroupVersion, workerVars, tableVars, clientVars
<1>1. TypeOK'
  BY DEF TypeOK, WorkerInv, InIteration
<1>2. SliceInv'
  BY DEF SliceInv, SliceOK
<1>3. FreshInv'
  BY DEF FreshInv, TypeOK, Rounds
<1>4. WorkerInv'
  BY DEF WorkerInv, InIteration, TypeOK, Rounds, Published
<1>5. TableInv'
  BY DEF TableInv, HandlerOK, Published, TypeOK
<1>6. RequestInv'
  BY DEF RequestInv, RequestOK, HandlerOK, SliceOf, TypeOK
<1>7. DocumentInv'
  BY DEF DocumentInv, Documented, Published, WorkerInv, InIteration
<1>8. ListingCoversHandler'
  BY DEF ListingCoversHandler, Intact
<1> QED
  BY <1>1, <1>2, <1>3, <1>4, <1>5, <1>6, <1>7, <1>8

(* Closing the stop channel changes nothing else.                          *)
LEMMA CloseStopChInv == ProcessInv /\ CloseStopCh => ProcessInv'
<1> SUFFICES ASSUME ProcessInv, CloseStopCh PROVE ProcessInv'
  OBVIOUS
<1> USE CatalogAssumption, ValueAssumption
<1> USE DEF ProcessInv, CloseStopCh, workerVars, tableVars, clientVars
<1>1. TypeOK'
  BY DEF TypeOK
<1>2. SliceInv'
  BY DEF SliceInv, SliceOK
<1>3. FreshInv'
  BY DEF FreshInv, TypeOK, Rounds
<1>4. WorkerInv'
  BY DEF WorkerInv, InIteration, TypeOK, Rounds, Published
<1>5. TableInv'
  BY DEF TableInv, HandlerOK, Published, TypeOK
<1>6. RequestInv'
  BY DEF RequestInv, RequestOK, HandlerOK, SliceOf, TypeOK
<1>7. DocumentInv'
  BY DEF DocumentInv, Documented, Published
<1>8. ListingCoversHandler'
  BY DEF ListingCoversHandler, Intact
<1> QED
  BY <1>1, <1>2, <1>3, <1>4, <1>5, <1>6, <1>7, <1>8

(* What a handler or a request relies on survives appends.                 *)
LEMMA SlicesGrow ==
  ASSUME TypeOK, TableInv, RequestInv, TypeOK',
         \A gv \in GroupVersions, r \in Rounds :
            /\ slice[gv][r].len <= slice'[gv][r].len
            /\ slice[gv][r].filled <= slice'[gv][r].filled,
         UNCHANGED <<round, versionDiscovery, request>>
  PROVE  TableInv' /\ RequestInv'
<1> USE ValueAssumption
<1>0. \A gv \in GroupVersions, r \in Rounds :
        /\ slice[gv][r].len \in Nat /\ slice'[gv][r].len \in Nat
        /\ slice[gv][r].filled \in Nat /\ slice'[gv][r].filled \in Nat
  BY DEF TypeOK, Slice
<1>1. ASSUME NEW gv \in GroupVersions, NEW h \in Handler, HandlerOK(gv, h)
      PROVE  HandlerOK(gv, h)' /\ h.round \in Rounds
  <2>1. h.round \in Rounds /\ h.count \in Nat
    BY <1>1 DEF HandlerOK, TypeOK, Rounds, Handler
  <2> QED
    BY <1>0, <1>1, <2>1 DEF HandlerOK
<1>2. TableInv'
  BY <1>1 DEF TableInv, Published, TypeOK, HandlerOK
<1>3. ASSUME NEW c \in Clients, RequestOK(request[c])
      PROVE  RequestOK(request[c])'
  <2>1. /\ request[c].gv \in GroupVersions
        /\ request[c].handler \in Handler
        /\ request[c].len \in Nat
    BY <1>3 DEF RequestOK, TypeOK, Request
  <2>2. /\ HandlerOK(request[c].gv, request[c].handler)'
        /\ request[c].handler.round \in Rounds
    BY <1>1, <1>3, <2>1 DEF RequestOK, HandlerOK
  <2>3. SliceOf(request[c]).len <= SliceOf(request[c])'.len
    BY <2>1, <2>2 DEF SliceOf
  <2>4. SliceOf(request[c]).len \in Nat /\ SliceOf(request[c])'.len \in Nat
    BY <1>0, <2>1, <2>2 DEF SliceOf
  <2> QED
    BY <1>3, <2>1, <2>2, <2>3, <2>4 DEF RequestOK
<1> QED
  BY <1>2, <1>3 DEF RequestInv

(* The words of a slice and its two word stores are well typed.            *)
LEMMA SliceUpdate ==
  ASSUME NEW s \in Slice
  PROVE  /\ s.len \in Nat /\ s.cap \in Nat /\ s.filled \in Nat
         /\ [s EXCEPT !.len = s.len + 1] \in Slice
         /\ [s EXCEPT !.filled = s.len] \in Slice
  BY DEF Slice

(* A larger array with the old elements keeps every written element.       *)
LEMMA GrowSliceInv == ProcessInv /\ GrowSlice => ProcessInv'
<1> SUFFICES ASSUME ProcessInv, GrowSlice PROVE ProcessInv'
  OBVIOUS
<1> USE CatalogAssumption, ValueAssumption
<1> USE DEF ProcessInv, GrowSlice, workerVars, tableVars, clientVars
<1>a. cur \in GroupVersions /\ round \in Rounds
  BY DEF WorkerInv, InIteration
<1>b. slice[cur][round] \in Slice
  BY <1>a DEF TypeOK
<1>c. \A gv \in GroupVersions, r \in Rounds :
        slice'[gv][r] = IF gv = cur /\ r = round
          THEN [slice[cur][round] EXCEPT
                  !.cap = GrownCap(slice[cur][round].cap)]
          ELSE slice[gv][r]
  BY <1>a DEF TypeOK
<1>d. /\ GrownCap(slice[cur][round].cap) \in Nat
      /\ GrownCap(slice[cur][round].cap) > slice[cur][round].cap
  BY <1>b DEF GrownCap, Slice
<1>1. TypeOK'
  BY <1>a, <1>b, <1>d DEF TypeOK, Slice
<1>2. SliceInv'
  BY <1>a, <1>b, <1>c, <1>d DEF SliceInv, SliceOK, Slice
<1>3. FreshInv'
  BY <1>a, <1>c DEF FreshInv, WorkerInv, InIteration, TypeOK, Rounds
<1>4. WorkerInv'
  BY <1>a, <1>b, <1>c DEF WorkerInv, InIteration, Slice
<1>5. TableInv' /\ RequestInv'
  <2>1. ASSUME NEW gv \in GroupVersions, NEW r \in Rounds
        PROVE  /\ slice[gv][r].len <= slice'[gv][r].len
               /\ slice[gv][r].filled <= slice'[gv][r].filled
    <3>1. slice[gv][r] \in Slice
      BY DEF TypeOK
    <3> QED
      BY <3>1, <1>a, <1>b, <1>c DEF Slice
  <2> QED
    BY <1>1, <2>1, SlicesGrow
<1>7. DocumentInv'
  BY DEF DocumentInv, Documented, Published
<1>8. ListingCoversHandler'
  BY DEF ListingCoversHandler, Intact
<1> QED
  BY <1>1, <1>2, <1>3, <1>4, <1>5, <1>7, <1>8

(* The length runs ahead of the elements by one, in one slice only.        *)
LEMMA StoreLenInv == ProcessInv /\ StoreLen => ProcessInv'
<1> SUFFICES ASSUME ProcessInv, StoreLen PROVE ProcessInv'
  OBVIOUS
<1> USE CatalogAssumption, ValueAssumption
<1> USE DEF ProcessInv, StoreLen, workerVars, tableVars, clientVars
<1>a. cur \in GroupVersions /\ round \in Rounds
  BY DEF WorkerInv, InIteration
<1>b. slice[cur][round] \in Slice /\ Len(Catalog[cur]) \in Nat
  BY <1>a DEF TypeOK
<1>c. \A gv \in GroupVersions, r \in Rounds :
        slice'[gv][r] = IF gv = cur /\ r = round
          THEN [slice[cur][round] EXCEPT !.len = slice[cur][round].len + 1]
          ELSE slice[gv][r]
  BY <1>a DEF TypeOK
<1>1. TypeOK'
  <2>1. slice'[cur][round] \in Slice
    <3>1. slice'[cur][round] =
            [slice[cur][round] EXCEPT !.len = slice[cur][round].len + 1]
      BY <1>a, <1>c
    <3> QED
      BY <1>b, <3>1, SliceUpdate
  <2>2. ASSUME NEW gv \in GroupVersions
        PROVE  slice'[gv] \in [Rounds -> Slice]
    <3>1. slice'[gv] = IF gv = cur
            THEN [slice[cur] EXCEPT ![round] = slice'[cur][round]]
            ELSE slice[gv]
      BY <1>a DEF TypeOK
    <3> QED
      BY <1>a, <2>1, <3>1 DEF TypeOK
  <2>3. slice' \in [GroupVersions -> [Rounds -> Slice]]
    BY <1>a, <2>2 DEF TypeOK
  <2> QED
    BY <2>3 DEF TypeOK
<1>2. SliceInv'
  BY <1>a, <1>b, <1>c DEF SliceInv, SliceOK, Slice, WorkerInv
<1>3. FreshInv'
  BY <1>a, <1>c DEF FreshInv, WorkerInv, InIteration, TypeOK, Rounds
<1>4. WorkerInv'
  BY <1>a, <1>b, <1>c DEF WorkerInv, InIteration, Slice
<1>5. TableInv' /\ RequestInv'
  <2>1. ASSUME NEW gv \in GroupVersions, NEW r \in Rounds
        PROVE  /\ slice[gv][r].len <= slice'[gv][r].len
               /\ slice[gv][r].filled <= slice'[gv][r].filled
    <3>1. slice[gv][r] \in Slice
      BY DEF TypeOK
    <3> QED
      BY <3>1, <1>a, <1>b, <1>c DEF Slice
  <2> QED
    BY <1>1, <2>1, SlicesGrow
<1>7. DocumentInv'
  BY DEF DocumentInv, Documented, Published
<1>8. ListingCoversHandler'
  BY DEF ListingCoversHandler, Intact
<1> QED
  BY <1>1, <1>2, <1>3, <1>4, <1>5, <1>7, <1>8

(* The element store makes the slice complete again.                       *)
LEMMA StoreElementInv == ProcessInv /\ StoreElement => ProcessInv'
<1> SUFFICES ASSUME ProcessInv, StoreElement PROVE ProcessInv'
  OBVIOUS
<1> USE CatalogAssumption, ValueAssumption
<1> USE DEF ProcessInv, StoreElement, workerVars, tableVars, clientVars
<1>a. cur \in GroupVersions /\ round \in Rounds
  BY DEF WorkerInv, InIteration
<1>b. slice[cur][round] \in Slice /\ Len(Catalog[cur]) \in Nat
  BY <1>a DEF TypeOK
<1>c. \A gv \in GroupVersions, r \in Rounds :
        slice'[gv][r] = IF gv = cur /\ r = round
          THEN [slice[cur][round] EXCEPT !.filled = slice[cur][round].len]
          ELSE slice[gv][r]
  BY <1>a DEF TypeOK
<1>1. TypeOK'
  <2>1. slice'[cur][round] \in Slice
    <3>1. slice'[cur][round] =
            [slice[cur][round] EXCEPT !.filled = slice[cur][round].len]
      BY <1>a, <1>c
    <3> QED
      BY <1>b, <3>1, SliceUpdate
  <2>2. ASSUME NEW gv \in GroupVersions
        PROVE  slice'[gv] \in [Rounds -> Slice]
    <3>1. slice'[gv] = IF gv = cur
            THEN [slice[cur] EXCEPT ![round] = slice'[cur][round]]
            ELSE slice[gv]
      BY <1>a DEF TypeOK
    <3> QED
      BY <1>a, <2>1, <3>1 DEF TypeOK
  <2>3. slice' \in [GroupVersions -> [Rounds -> Slice]]
    BY <1>a, <2>2 DEF TypeOK
  <2> QED
    BY <2>3 DEF TypeOK
<1>2. SliceInv'
  BY <1>a, <1>b, <1>c DEF SliceInv, SliceOK, Slice, WorkerInv
<1>3. FreshInv'
  BY <1>a, <1>c DEF FreshInv, WorkerInv, InIteration, TypeOK, Rounds
<1>4. WorkerInv'
  BY <1>a, <1>b, <1>c DEF WorkerInv, InIteration, Slice
<1>5. TableInv' /\ RequestInv'
  <2>1. ASSUME NEW gv \in GroupVersions, NEW r \in Rounds
        PROVE  /\ slice[gv][r].len <= slice'[gv][r].len
               /\ slice[gv][r].filled <= slice'[gv][r].filled
    <3>1. slice[gv][r] \in Slice
      BY DEF TypeOK
    <3> QED
      BY <3>1, <1>a, <1>b, <1>c DEF Slice, SliceInv, SliceOK
  <2> QED
    BY <1>1, <2>1, SlicesGrow
<1>7. DocumentInv'
  BY DEF DocumentInv, Documented, Published
<1>8. ListingCoversHandler'
  BY DEF ListingCoversHandler, Intact
<1> QED
  BY <1>1, <1>2, <1>3, <1>4, <1>5, <1>7, <1>8

(* The installed handler counts the elements written so far.               *)
LEMMA SetVersionDiscoveryInv == ProcessInv /\ SetVersionDiscovery => ProcessInv'
<1> SUFFICES ASSUME ProcessInv, SetVersionDiscovery PROVE ProcessInv'
  OBVIOUS
<1> USE CatalogAssumption, ValueAssumption
<1> USE DEF ProcessInv, SetVersionDiscovery, workerVars, tableVars, clientVars
<1>a. cur \in GroupVersions /\ round \in Rounds
  BY DEF WorkerInv, InIteration
<1>b. slice[cur][round] \in Slice /\ Len(Catalog[cur]) \in Nat
  BY <1>a DEF TypeOK
<1>c. \A gv \in GroupVersions :
        versionDiscovery'[gv] = IF gv = cur
          THEN [round |-> round, count |-> slice[cur][round].len]
          ELSE versionDiscovery[gv]
  BY <1>a DEF TypeOK
<1>d. Published' = Published \cup {cur}
  BY <1>a, <1>c DEF Published, NoHandler, Rounds
<1>1. TypeOK'
  BY <1>a, <1>b DEF TypeOK, Slice, Handler, Rounds
<1>2. SliceInv'
  BY DEF SliceInv, SliceOK
<1>3. FreshInv'
  BY DEF FreshInv
<1>4. WorkerInv'
  BY <1>a, <1>b, <1>d DEF WorkerInv, InIteration, SliceInv, SliceOK, Slice
<1>5. TableInv'
  BY <1>a, <1>b, <1>c, <1>d
  DEF TableInv, HandlerOK, Rounds, Slice, SliceInv, SliceOK, WorkerInv
<1>6. RequestInv'
  BY DEF RequestInv, RequestOK, HandlerOK, SliceOf
<1>7. DocumentInv'
  BY <1>d DEF DocumentInv, Documented
<1>8. ListingCoversHandler'
  BY DEF ListingCoversHandler, Intact
<1> QED
  BY <1>1, <1>2, <1>3, <1>4, <1>5, <1>6, <1>7, <1>8

(* A handler that is in use counts written elements of a slice that exists. *)
LEMMA HandlerFacts ==
  ASSUME TypeOK, SliceInv,
         NEW gv \in GroupVersions, NEW h \in Handler, HandlerOK(gv, h)
  PROVE  /\ h.round \in Rounds /\ h.count \in Nat
         /\ h.count <= slice[gv][h.round].len
         /\ h.count <= slice[gv][h.round].cap
         /\ slice[gv][h.round] \in Slice
<1> USE ValueAssumption
<1>1. h.round \in Rounds /\ h.count \in Nat
  BY DEF HandlerOK, TypeOK, Rounds, Handler
<1>2. slice[gv][h.round] \in Slice
  BY <1>1 DEF TypeOK
<1> QED
  BY <1>1, <1>2 DEF HandlerOK, SliceInv, SliceOK, Slice

(* A looked-up handler is supported.                                       *)
LEMMA ServeVersionInv ==
  ASSUME ProcessInv, NEW c \in Clients, NEW gv \in GroupVersions, ServeVersion(c, gv)
  PROVE  ProcessInv'
<1> USE ValueAssumption
<1> USE DEF ProcessInv, ServeVersion, workerVars, tableVars, clientVars
<1>1. TypeOK'
  <2>1. Answer("versionNotFound", gv) \in Reply
    <3>1. << >> \in Items
      BY DEF Items
    <3> QED
      BY <3>1 DEF Answer, Reply, Handler, NoHandler
  <2>2. NewRequest(gv) \in Request
    BY DEF NewRequest, NoRequest, Request, TypeOK
  <2>3. reply' \in [Clients -> Reply]
    BY <2>1 DEF TypeOK
  <2>4. request' \in [Clients -> Request]
    BY <2>2 DEF TypeOK
  <2> QED
    BY <2>3, <2>4 DEF TypeOK
<1>2. SliceInv' /\ FreshInv' /\ WorkerInv' /\ TableInv'
  BY DEF SliceInv, SliceOK, FreshInv, WorkerInv, Published, TableInv,
         HandlerOK
<1>3. RequestInv'
  <2>1. CASE UNCHANGED request
    BY <2>1 DEF RequestInv, RequestOK, HandlerOK, SliceOf
  <2>2. CASE /\ gv \in Published
             /\ request' = [request EXCEPT ![c] = NewRequest(gv)]
    <3>1. RequestOK(NewRequest(gv))
      BY <2>2 DEF NewRequest, NoRequest, RequestOK, TableInv
    <3> QED
      BY <2>2, <3>1 DEF RequestInv, RequestOK, HandlerOK, SliceOf, TypeOK
  <2> QED
    BY <2>1, <2>2
<1>4. DocumentInv'
  BY DEF DocumentInv, Documented, Published
<1>5. ListingCoversHandler'
  <2>1. CASE UNCHANGED reply
    BY <2>1 DEF ListingCoversHandler, Intact
  <2>2. CASE reply' = [reply EXCEPT ![c] = Answer("versionNotFound", gv)]
    <3>1. /\ reply'[c].kind = "versionNotFound"
          /\ \A d \in Clients \ {c} : reply'[d] = reply[d]
      BY <2>2 DEF TypeOK, Answer
    <3> QED
      BY <3>1 DEF ListingCoversHandler, Intact
  <2> QED
    BY <2>1, <2>2
<1> QED
  BY <1>1, <1>2, <1>3, <1>4, <1>5

(* The loaded pointer is to an array as long as the handler counts, or     *)
(* longer.                                                                 *)
LEMMA LoadPtrInv ==
  ASSUME ProcessInv, NEW c \in Clients, LoadPtr(c)
  PROVE  ProcessInv'
<1> USE ValueAssumption
<1> USE DEF ProcessInv, LoadPtr, Loading, workerVars, tableVars, clientVars
<1>a. /\ request[c] \in Request
      /\ RequestOK(request[c])
  BY DEF TypeOK, RequestInv
<1>b. /\ request[c].gv \in GroupVersions
      /\ request[c].handler \in Handler
      /\ SliceOf(request[c]).cap \in Nat
      /\ request[c].handler.count <= SliceOf(request[c]).cap
  BY <1>a, HandlerFacts DEF Request, RequestOK, SliceOf, Slice
<1>c. /\ request'[c].gv = request[c].gv
      /\ request'[c].handler = request[c].handler
      /\ request'[c].len = request[c].len
      /\ request'[c].ptr = SliceOf(request[c]).cap
      /\ request'[c].loaded = request[c].loaded \cup {"ptr"}
      /\ request'[c] \in Request
  BY <1>a, <1>b DEF Request, TypeOK
<1>1. TypeOK'
  BY <1>c DEF TypeOK
<1>2. SliceInv' /\ FreshInv' /\ WorkerInv' /\ TableInv'
  BY DEF SliceInv, SliceOK, FreshInv, WorkerInv, Published, TableInv,
         HandlerOK
<1>3. RequestInv'
  <2>1. SliceOf(request[c])' = SliceOf(request[c])
    BY <1>c DEF SliceOf
  <2>2. RequestOK(request[c])'
    BY <1>a, <1>b, <1>c, <2>1 DEF RequestOK, HandlerOK
  <2> QED
    BY <2>2 DEF RequestInv, RequestOK, HandlerOK, SliceOf, TypeOK
<1>4. DocumentInv'
  BY DEF DocumentInv, Documented, Published
<1>5. ListingCoversHandler'
  BY DEF ListingCoversHandler, Intact
<1> QED
  BY <1>1, <1>2, <1>3, <1>4, <1>5

(* The loaded length is at least the handler's count.                      *)
LEMMA LoadLenInv ==
  ASSUME ProcessInv, NEW c \in Clients, LoadLen(c)
  PROVE  ProcessInv'
<1> USE ValueAssumption
<1> USE DEF ProcessInv, LoadLen, Loading, workerVars, tableVars, clientVars
<1>a. /\ request[c] \in Request
      /\ RequestOK(request[c])
  BY DEF TypeOK, RequestInv
<1>b. /\ request[c].gv \in GroupVersions
      /\ request[c].handler \in Handler
      /\ SliceOf(request[c]).len \in Nat
      /\ request[c].handler.count <= SliceOf(request[c]).len
  BY <1>a, HandlerFacts DEF Request, RequestOK, SliceOf, Slice
<1>c. /\ request'[c].gv = request[c].gv
      /\ request'[c].handler = request[c].handler
      /\ request'[c].ptr = request[c].ptr
      /\ request'[c].len = SliceOf(request[c]).len
      /\ request'[c].loaded = request[c].loaded \cup {"len"}
      /\ request'[c] \in Request
  BY <1>a, <1>b DEF Request, TypeOK
<1>1. TypeOK'
  BY <1>c DEF TypeOK
<1>2. SliceInv' /\ FreshInv' /\ WorkerInv' /\ TableInv'
  BY DEF SliceInv, SliceOK, FreshInv, WorkerInv, Published, TableInv,
         HandlerOK
<1>3. RequestInv'
  <2>1. SliceOf(request[c])' = SliceOf(request[c])
    BY <1>c DEF SliceOf
  <2>2. RequestOK(request[c])'
    <3>1. HandlerOK(request[c].gv, request[c].handler)'
      BY <1>a, <1>c DEF RequestOK, HandlerOK
    <3>2. "ptr" \in request'[c].loaded =>
            request'[c].handler.count <= request'[c].ptr
      BY <1>a, <1>c DEF RequestOK
    <3>3. /\ request'[c].handler.count <= request'[c].len
          /\ request'[c].len <= SliceOf(request[c])'.len
      <4>1. request'[c].len = SliceOf(request[c])'.len
        BY <1>c, <2>1
      <4>2. SliceOf(request[c])'.len \in Nat
        BY <1>b, <2>1
      <4>3. request'[c].handler.count <= request'[c].len
        BY <1>b, <1>c
      <4> HIDE DEF LoadLen
      <4> QED
        BY <4>1, <4>2, <4>3
    <3>4. request'[c].gv \in GroupVersions
      BY <1>b, <1>c
    <3> QED
      BY <3>1, <3>2, <3>3, <3>4 DEF RequestOK
  <2> QED
    BY <2>2 DEF RequestInv, RequestOK, HandlerOK, SliceOf, TypeOK
<1>4. DocumentInv'
  BY DEF DocumentInv, Documented, Published
<1>5. ListingCoversHandler'
  BY DEF ListingCoversHandler, Intact
<1> QED
  BY <1>1, <1>2, <1>3, <1>4, <1>5

(* A function on 1 .. n is a sequence.                                     *)
LEMMA FunctionIsSeq ==
  ASSUME NEW S, NEW n \in Nat, NEW f \in [1 .. n -> S]
  PROVE  f \in Seq(S)
BY SeqDef, Zenon

(* The listing of a loaded request: at least the elements its handler      *)
(* counts are intact, and there are no more than the catalog has.          *)
LEMMA ListingFacts ==
  ASSUME TypeOK, SliceInv, NEW req \in Request, RequestOK(req),
         req.loaded = {"ptr", "len"}
  PROVE  /\ Listing(req) \in Reply
         /\ Listing(req).kind = "listing"
         /\ ListingOK(Listing(req))
<1> USE CatalogAssumption, ValueAssumption
<1> DEFINE s == SliceOf(req)
           items == [i \in 1 .. req.len |-> Entry(req, i)]
<1>1. /\ req.gv \in GroupVersions
      /\ req.handler \in Handler
      /\ req.len \in Nat /\ req.ptr \in Nat
      /\ req.handler.count >= 1
  BY DEF Request, RequestOK, HandlerOK
<1>2. /\ req.handler.count \in Nat
      /\ req.handler.round \in Rounds
      /\ s \in Slice
  BY <1>1, HandlerFacts DEF RequestOK, SliceOf
<1>3. /\ req.handler.count <= req.ptr
      /\ req.handler.count <= req.len
      /\ req.handler.count <= s.filled
      /\ req.len <= s.len
  BY DEF RequestOK, HandlerOK, SliceOf
<1>4. s.len <= Len(Catalog[req.gv]) /\ s.filled <= s.len
  BY <1>1, <1>2 DEF SliceInv, SliceOK, SliceOf
<1>5. /\ s.len \in Nat /\ s.filled \in Nat
      /\ Catalog[req.gv] \in Seq(Resources)
      /\ Len(Catalog[req.gv]) \in Nat
  BY <1>1, <1>2 DEF Slice
<1> HIDE DEF s
<1>6. ASSUME NEW i \in 1 .. req.len
      PROVE  /\ Entry(req, i) \in Resources \cup {Blank, Stray}
             /\ i <= req.handler.count => Entry(req, i) = Catalog[req.gv][i]
  <2>1. i \in 1 .. Len(Catalog[req.gv])
    BY <1>1, <1>3, <1>4, <1>5
  <2>2. Catalog[req.gv][i] \in Resources
    BY <1>5, <2>1
  <2> QED
    BY <1>1, <1>2, <1>3, <1>5, <2>2 DEF Entry, s
<1>7. items \in Items /\ Len(items) = req.len
  <2> DEFINE values == Resources \cup {Blank, Stray}
  <2> HIDE DEF values
  <2>1. \A i \in 1 .. req.len : Entry(req, i) \in values
    BY <1>6 DEF values
  <2>2. items \in [1 .. req.len -> values]
    BY <2>1
  <2> HIDE DEF items
  <2>3. items \in Seq(values)
    BY <1>1, <2>2, FunctionIsSeq
  <2>4. Len(items) = req.len
    <3>1. Len(items) \in Nat /\ DOMAIN items = 1 .. Len(items)
      BY <2>3
    <3>2. DOMAIN items = 1 .. req.len
      BY <2>2
    <3> QED
      BY <1>1, <3>1, <3>2
  <2> QED
    BY <2>3, <2>4 DEF Items, values
<1>8. Listing(req) \in Reply
  BY <1>1, <1>7 DEF Listing, Reply
<1>9. 1 .. req.handler.count \subseteq Intact(Listing(req))
  <2>1. ASSUME NEW i \in 1 .. req.handler.count
        PROVE  i \in Intact(Listing(req))
    <3>1. i \in 1 .. req.len /\ i <= Len(Catalog[req.gv])
      BY <1>1, <1>2, <1>3, <1>4, <1>5
    <3> QED
      BY <1>2, <1>6, <3>1 DEF Intact, Listing
  <2> QED
    BY <2>1
<1>10. Len(items) <= Len(Catalog[req.gv])
  BY <1>1, <1>3, <1>4, <1>5, <1>7
<1> QED
  BY <1>1, <1>7, <1>8, <1>9, <1>10 DEF Listing, ListingOK

(* An answered listing is a listing as ListingFacts describes it.          *)
LEMMA WriteListingInv ==
  ASSUME ProcessInv, NEW c \in Clients, WriteListing(c)
  PROVE  ProcessInv'
<1> USE DEF ProcessInv, WriteListing, workerVars, tableVars, clientVars
<1>a. /\ request[c] \in Request
      /\ RequestOK(request[c])
  <2>1. request[c] # NoRequest
    BY DEF NoRequest
  <2> QED
    BY <2>1 DEF TypeOK, RequestInv
<1>b. /\ Listing(request[c]) \in Reply
      /\ Listing(request[c]).kind = "listing"
      /\ ListingOK(Listing(request[c]))
  BY <1>a, ListingFacts
<1>c. NoRequest \in Request
  BY ValueAssumption DEF NoRequest, Request, Handler, NoHandler
<1>d. /\ reply'[c] = Listing(request[c])
      /\ \A d \in Clients \ {c} : reply'[d] = reply[d]
  BY DEF TypeOK
<1>1. TypeOK'
  <2>1. reply' \in [Clients -> Reply]
    BY <1>b DEF TypeOK
  <2>2. request' \in [Clients -> Request]
    BY <1>c DEF TypeOK
  <2> QED
    BY <2>1, <2>2 DEF TypeOK
<1>2. SliceInv' /\ FreshInv' /\ WorkerInv' /\ TableInv'
  BY DEF SliceInv, SliceOK, FreshInv, WorkerInv, Published, TableInv,
         HandlerOK
<1>3. RequestInv'
  BY DEF RequestInv, RequestOK, HandlerOK, SliceOf, TypeOK
<1>4. DocumentInv'
  BY DEF DocumentInv, Documented, Published
<1>5. ListingCoversHandler'
  BY <1>b, <1>d DEF ListingCoversHandler, ListingOK, Intact
<1> QED
  BY <1>1, <1>2, <1>3, <1>4, <1>5

(* The crash leaves slices and tables as they are.                         *)
LEMMA FaultOnStrayInv ==
  ASSUME ProcessInv, NEW c \in Clients, FaultOnStray(c)
  PROVE  ProcessInv'
<1> USE DEF ProcessInv, FaultOnStray, Running, workerVars, tableVars, clientVars
<1>1. TypeOK'
  <2>1. NoRequest \in Request
    BY ValueAssumption DEF NoRequest, Request, Handler, NoHandler
  <2> QED
    BY <2>1 DEF TypeOK
<1>2. SliceInv' /\ FreshInv' /\ TableInv'
  BY DEF SliceInv, SliceOK, FreshInv, Published, TableInv, HandlerOK
<1>3. WorkerInv'
  BY DEF WorkerInv, InIteration
<1>4. RequestInv'
  BY DEF RequestInv
<1>5. DocumentInv'
  BY DEF DocumentInv, Documented, Published
<1>6. ListingCoversHandler'
  BY DEF ListingCoversHandler, Intact
<1> QED
  BY <1>1, <1>2, <1>3, <1>4, <1>5, <1>6

(* A reply that is not a listing, to a client that learns of versions.     *)
LEMMA DocumentReply ==
  ASSUME ProcessInv, NEW c \in Clients, NEW r \in Reply,
         r.kind \in {"groupNotFound", "group", "apiVersions", "aggregated"},
         reply' = [reply EXCEPT ![c] = r],
         learned' \in [Clients -> SUBSET GroupVersions],
         UNCHANGED <<stopCh, workerVars, tableVars, request>>
  PROVE  ProcessInv'
<1> USE DEF ProcessInv, workerVars, tableVars
<1>1. TypeOK'
  BY DEF TypeOK
<1>2. SliceInv' /\ FreshInv' /\ WorkerInv' /\ TableInv'
  BY DEF SliceInv, SliceOK, FreshInv, WorkerInv, Published, TableInv,
         HandlerOK
<1>3. RequestInv'
  BY DEF RequestInv, RequestOK, HandlerOK, SliceOf
<1>4. DocumentInv'
  BY DEF DocumentInv, Documented, Published
<1>d. /\ reply'[c] = r
      /\ \A d \in Clients \ {c} : reply'[d] = reply[d]
  BY DEF TypeOK
<1>5. ListingCoversHandler'
  BY <1>d DEF ListingCoversHandler, Intact
<1> QED
  BY <1>1, <1>2, <1>3, <1>4, <1>5

(* The answers to document requests are replies.                           *)
LEMMA DocumentAnswer ==
  ASSUME NEW kind \in {"groupNotFound", "group", "apiVersions", "aggregated"},
         NEW of \in Groups \cup {Nothing}
  PROVE  /\ Answer(kind, of) \in Reply
         /\ Answer(kind, of).kind = kind
         /\ Answer(kind, of).of = of
<1>1. << >> \in Items
  BY DEF Items
<1> QED
  BY <1>1, ValueAssumption DEF Answer, Reply, Handler, NoHandler

(* A group document is a document of versions, a refusal teaches nothing.  *)
LEMMA ServeGroupInv ==
  ASSUME ProcessInv, NEW c \in Clients, NEW g \in Groups, ServeGroup(c, g)
  PROVE  ProcessInv'
<1> USE DEF ProcessInv, ServeGroup
<1> DEFINE versions == groupDiscovery[g]
<1>1. CASE /\ reply' = [reply EXCEPT ![c] = Answer("groupNotFound", g)]
           /\ UNCHANGED learned
  <2>1. /\ Answer("groupNotFound", g) \in Reply
        /\ Answer("groupNotFound", g).kind = "groupNotFound"
    BY DocumentAnswer
  <2>2. learned' \in [Clients -> SUBSET GroupVersions]
    BY <1>1 DEF TypeOK
  <2> QED
    BY <1>1, <2>1, <2>2, DocumentReply
<1>2. CASE /\ reply' = [reply EXCEPT ![c] = Answer("group", g)]
           /\ learned' = [learned EXCEPT
                ![c] = @ \cup {versions[i] : i \in DOMAIN versions}]
  <2>1. \A i \in DOMAIN versions : versions[i] \in GroupVersions
    BY DEF DocumentInv, Documented, Published
  <2>2. learned' \in [Clients -> SUBSET GroupVersions]
    BY <1>2, <2>1 DEF TypeOK
  <2>3. /\ Answer("group", g) \in Reply
        /\ Answer("group", g).kind = "group"
    BY DocumentAnswer
  <2> QED
    BY <1>2, <2>2, <2>3, DocumentReply
<1> QED
  BY <1>1, <1>2

(* The constant answer of /api teaches the client nothing.                 *)
LEMMA ServeAPIVersionsInv ==
  ASSUME ProcessInv, NEW c \in Clients, ServeAPIVersions(c)
  PROVE  ProcessInv'
<1> USE DEF ProcessInv, ServeAPIVersions
<1>1. /\ Answer("apiVersions", Nothing) \in Reply
      /\ Answer("apiVersions", Nothing).kind = "apiVersions"
  BY DocumentAnswer
<1>2. learned' \in [Clients -> SUBSET GroupVersions]
  BY DEF TypeOK
<1> QED
  BY <1>1, <1>2, DocumentReply

(* The aggregated document is one more answer that is not a listing.       *)
LEMMA ServeAggregatedInv ==
  ASSUME ProcessInv, NEW c \in Clients, ServeAggregated(c)
  PROVE  ProcessInv'
<1> USE DEF ProcessInv, ServeAggregated
<1>1. learned' \in [Clients -> SUBSET GroupVersions]
  BY DEF TypeOK
<1>2. /\ Answer("aggregated", Nothing) \in Reply
      /\ Answer("aggregated", Nothing).kind = "aggregated"
  BY DocumentAnswer
<1> QED
  BY <1>1, <1>2, DocumentReply
-----------------------------------------------------------------------------
(* Within a process, the invariant is inductive.                           *)
LEMMA ProcessNext == ProcessInv /\ [Next]_vars => ProcessInv'
<1> SUFFICES ASSUME ProcessInv, [Next]_vars PROVE ProcessInv'
  OBVIOUS
<1>1. CASE Worker
  BY <1>1, StartSyncInv, StopWorkerInv, BeginGroupVersionInv, FinishSyncInv,
     GrowSliceInv, StoreLenInv, StoreElementInv, SetVersionDiscoveryInv,
     SetGroupDiscoveryInv, AddGroupVersionInv DEF Worker
<1>2. CASE CloseStopCh
  BY <1>2, CloseStopChInv
<1>3. ASSUME NEW c \in Clients, Client(c) PROVE ProcessInv'
  BY <1>3, ServeVersionInv, LoadPtrInv, LoadLenInv, WriteListingInv,
     FaultOnStrayInv, ServeGroupInv, ServeAPIVersionsInv, ServeAggregatedInv
  DEF Client, Respond
<1>4. CASE UNCHANGED vars
  BY <1>4 DEF vars, workerVars, tableVars, clientVars, ProcessInv, TypeOK,
     SliceInv, SliceOK, FreshInv, WorkerInv, TableInv, HandlerOK, Published,
     RequestInv, RequestOK, SliceOf, DocumentInv, Documented,
     ListingCoversHandler, Intact
<1> QED
  BY <1>1, <1>2, <1>3, <1>4 DEF Next

(* The tables only grow: what could be found before is found afterwards.   *)
LEMMA DocumentedStays ==
  ASSUME ProcessInv, [Next]_vars, NEW gv \in GroupVersions
  PROVE  /\ gv \in Published => gv \in Published'
         /\ Documented(gv) => Documented(gv)'
<1>1. CASE UNCHANGED <<versionDiscovery, groupDiscovery>>
  BY <1>1 DEF Documented, Published
<1>2. CASE SetVersionDiscovery
  <2>1. cur \in GroupVersions /\ round \in Rounds
    BY <1>2 DEF SetVersionDiscovery, ProcessInv, WorkerInv, InIteration
  <2>2. versionDiscovery'[gv] = IF gv = cur
          THEN [round |-> round, count |-> slice[cur][round].len]
          ELSE versionDiscovery[gv]
    BY <1>2 DEF SetVersionDiscovery, ProcessInv, TypeOK
  <2>3. gv \in Published => gv \in Published'
    BY <2>1, <2>2, ValueAssumption DEF Published, NoHandler, Rounds
  <2> QED
    BY <1>2, <2>3 DEF Documented, SetVersionDiscovery
<1>3. CASE SetGroupDiscovery
  <2>1. cur \in GroupVersions /\ GroupOf[gv] \in Groups
    BY <1>3, CatalogAssumption
    DEF SetGroupDiscovery, ProcessInv, WorkerInv, InIteration
  <2>2. groupDiscovery'[GroupOf[gv]] = IF GroupOf[gv] = GroupOf[cur]
                                       THEN GroupVersionsForDiscovery(cur)
                                       ELSE groupDiscovery[GroupOf[gv]]
    BY <1>3, <2>1 DEF SetGroupDiscovery, ProcessInv, TypeOK
  <2>3. GroupVersionsForDiscovery(cur) # << >>
    BY <2>1, GroupDocument
  <2> QED
    BY <1>3, <2>2, <2>3 DEF Documented, Published, SetGroupDiscovery
<1>4. \/ UNCHANGED <<versionDiscovery, groupDiscovery>>
      \/ SetVersionDiscovery
      \/ SetGroupDiscovery
  BY DEF Next, Worker, StartSync, StopWorker, BeginGroupVersion, FinishSync,
         GrowSlice, StoreLen, StoreElement, AddGroupVersion, CloseStopCh,
         Client, Respond, ServeVersion, LoadPtr, LoadLen, WriteListing,
         FaultOnStray, ServeGroup, ServeAPIVersions, ServeAggregated,
         vars, workerVars, tableVars
<1> QED
  BY <1>1, <1>2, <1>3, <1>4

(* The worker and the stop channel leave the clients alone.                *)
LEMMA ClientsAside ==
  Worker \/ CloseStopCh => UNCHANGED clientVars
BY DEF Worker, StartSync, StopWorker, BeginGroupVersion, FinishSync, GrowSlice,
       StoreLen, StoreElement, SetVersionDiscovery, SetGroupDiscovery,
       AddGroupVersion, CloseStopCh, clientVars

(* What an answer teaches is documented, and what is refused is not.       *)
LEMMA AnswersStand ==
  ASSUME IInv, NEW c \in Clients, Client(c)
  PROVE  /\ \A gv \in learned'[c] : Documented(gv)
         /\ \A d \in Clients \ {c} :
              learned'[d] = learned[d] /\ reply'[d] = reply[d]
         /\ \/ reply'[c] = reply[c] /\ learned'[c] = learned[c]
            \/ /\ reply'[c].kind = "versionNotFound"
               /\ reply'[c].of \notin Published
            \/ /\ reply'[c].kind = "groupNotFound"
               /\ groupDiscovery[reply'[c].of] = << >>
            \/ reply'[c].kind \notin {"versionNotFound", "groupNotFound"}
<1> USE DEF IInv, ProcessInv, LearnedInv
<1>1. ASSUME NEW gv \in GroupVersions, ServeVersion(c, gv)
      PROVE  /\ UNCHANGED learned
             /\ \A d \in Clients \ {c} : reply'[d] = reply[d]
             /\ \/ reply'[c] = reply[c]
                \/ /\ reply'[c].kind = "versionNotFound"
                   /\ reply'[c].of \notin Published
  BY <1>1 DEF ServeVersion, TypeOK, Answer
<1>2. CASE LoadPtr(c) \/ LoadLen(c) \/ FaultOnStray(c)
  BY <1>2 DEF LoadPtr, LoadLen, FaultOnStray
<1>3. CASE WriteListing(c)
  BY <1>3 DEF WriteListing, TypeOK, Listing
<1>4. ASSUME NEW g \in Groups, ServeGroup(c, g)
      PROVE  /\ \A gv \in learned'[c] : Documented(gv)
             /\ \A d \in Clients \ {c} :
                  learned'[d] = learned[d] /\ reply'[d] = reply[d]
             /\ \/ /\ reply'[c].kind = "groupNotFound"
                   /\ groupDiscovery[reply'[c].of] = << >>
                \/ reply'[c].kind = "group"
  BY <1>4 DEF ServeGroup, TypeOK, Answer, DocumentInv
<1>5. CASE ServeAPIVersions(c)
  BY <1>5 DEF ServeAPIVersions, TypeOK, Answer
<1>6. CASE ServeAggregated(c)
  BY <1>6 DEF ServeAggregated, TypeOK, Answer, DocumentInv
<1> QED
  BY <1>1, <1>2, <1>3, <1>4, <1>5, <1>6 DEF Client, Respond

LEMMA LearnedNext ==
  ASSUME IInv, [Next]_vars PROVE LearnedInv' /\ AdvertisedIsServed'
<1> USE DEF IInv
<1>1. \A gv \in GroupVersions : Documented(gv) => Documented(gv)'
  BY DocumentedStays
<1>2. \A d \in Clients : learned[d] \subseteq GroupVersions
  BY DEF ProcessInv, TypeOK
<1>3. CASE UNCHANGED clientVars
  BY <1>1, <1>2, <1>3 DEF clientVars, LearnedInv, AdvertisedIsServed
<1>4. ASSUME NEW c \in Clients, Client(c)
      PROVE  LearnedInv' /\ AdvertisedIsServed'
  <2>1. /\ \A gv \in learned'[c] : Documented(gv)
        /\ \A d \in Clients \ {c} :
             learned'[d] = learned[d] /\ reply'[d] = reply[d]
        /\ \/ reply'[c] = reply[c] /\ learned'[c] = learned[c]
           \/ /\ reply'[c].kind = "versionNotFound"
              /\ reply'[c].of \notin Published
           \/ /\ reply'[c].kind = "groupNotFound"
              /\ groupDiscovery[reply'[c].of] = << >>
           \/ reply'[c].kind \notin {"versionNotFound", "groupNotFound"}
    BY <1>4, AnswersStand
  <2>2. \A gv \in learned'[c] : gv \in GroupVersions /\ Documented(gv)
    BY <2>1 DEF Documented, Published
  <2>3. LearnedInv'
    BY <1>1, <1>2, <2>1, <2>2 DEF LearnedInv
  <2>4. AdvertisedIsServed'
    BY <2>1, <2>2 DEF AdvertisedIsServed, Documented
  <2> QED
    BY <2>3, <2>4
<1>5. Next \/ UNCHANGED clientVars
  BY DEF vars
<1> QED
  BY <1>3, <1>4, <1>5, ClientsAside DEF Next

LEMMA NextInv == IInv /\ [Next]_vars => IInv'
  BY ProcessNext, LearnedNext DEF IInv

(* Every reachable state satisfies the inductive invariant.                *)
THEOREM Invariance == Safety => []IInv
  BY InitInv, NextInv, PTL DEF Safety

(* Every variable of the discovery side keeps its type.                    *)
THEOREM TypeCorrect == Safety => []TypeOK
<1>1. IInv => TypeOK
  BY DEF IInv, ProcessInv
<1> QED
  BY <1>1, Invariance, PTL

(* No interleaving of the unsynchronised read with the appends takes from  *)
(* a listing a resource that its handler was installed for.                *)
THEOREM ListingsCover == Safety => []ListingCoversHandler
<1>1. IInv => ListingCoversHandler
  BY DEF IInv, ProcessInv
<1> QED
  BY <1>1, Invariance, PTL

(* A version that a document named is never refused afterwards.            *)
THEOREM AdvertisedServed == Safety => []AdvertisedIsServed
<1>1. IInv => AdvertisedIsServed
  BY DEF IInv, ProcessInv
<1> QED
  BY <1>1, Invariance, PTL
=============================================================================
