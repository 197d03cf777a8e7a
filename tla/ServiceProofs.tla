---------------------------- MODULE ServiceProofs ----------------------------
(***************************************************************************)
(* Proofs that relate an answer of the discovery side to later ones, and   *)
(* that worker, slices and tables implement the service of module          *)
(* DiscoveryService, for every catalog, also one with several versions in  *)
(* a group.                                                                *)
(***************************************************************************)
EXTENDS DiscoveryProofs

(* Between two appends of a sync the handler counts what was appended.     *)
AppendInv ==
    /\ step = "append" =>
         LET len == slice[cur][round].len IN
         \/ len = 0
         \/ versionDiscovery[cur] = [round |-> round, count |-> len]
    /\ step \in {"element", "setVersion"} =>
         LET len == slice[cur][round].len IN
         \/ len = 1
         \/ versionDiscovery[cur] = [round |-> round, count |-> len - 1]

(* What a listing showed is still written, in a slice that is not newer    *)
(* than the one in the table.                                              *)
Still(r) ==
    /\ r.of \in GroupVersions
    /\ r.handler.round \in 1 .. versionDiscovery[r.of].round
    /\ \A i \in Intact(r) : i <= slice[r.of][r.handler.round].filled

(* A request for the same version, made after the listing was answered,    *)
(* reads that slice or a newer one, and no less of it than was shown.      *)
After(r, req) ==
    req.gv = r.of =>
        /\ r.handler.round <= req.handler.round
        /\ r.handler.round = req.handler.round =>
             \A i \in Intact(r) : /\ "ptr" \in req.loaded => i <= req.ptr
                                  /\ "len" \in req.loaded => i <= req.len

ReplyInv ==
    /\ \A c \in Clients : reply[c].kind = "listing" =>
         Still(reply[c]) /\ After(reply[c], request[c])
    /\ \A c \in Clients : request[c] # NoRequest =>
         request[c].handler.round <= versionDiscovery[request[c].gv].round

ServiceInv == ProcessInv /\ AppendInv /\ ReplyInv
-----------------------------------------------------------------------------
(* The appends that change a slice.                                        *)
LEMMA AppendSteps ==
  ASSUME ProcessInv, GrowSlice \/ StoreLen \/ StoreElement
  PROVE  /\ cur \in GroupVersions /\ round \in Rounds
         /\ slice[cur][round] \in Slice
         /\ \A gv \in GroupVersions, r \in Rounds :
              gv # cur \/ r # round => slice'[gv][r] = slice[gv][r]
         /\ GrowSlice => /\ slice'[cur][round].len = slice[cur][round].len
                         /\ slice'[cur][round].filled = slice[cur][round].filled
         /\ StoreLen => /\ slice'[cur][round].len = slice[cur][round].len + 1
                        /\ slice'[cur][round].filled = slice[cur][round].filled
         /\ StoreElement => /\ slice'[cur][round].len = slice[cur][round].len
                            /\ slice'[cur][round].filled = slice[cur][round].len
         /\ UNCHANGED <<round, cur, versionDiscovery>>
<1>1. cur \in GroupVersions /\ round \in Rounds
  BY DEF ProcessInv, WorkerInv, InIteration, GrowSlice, StoreLen, StoreElement
<1>2. slice[cur][round] \in Slice /\ slice \in [GroupVersions -> [Rounds -> Slice]]
  BY <1>1 DEF ProcessInv, TypeOK
<1>3. PICK s : /\ slice' = [slice EXCEPT ![cur][round] = s]
               /\ GrowSlice => s = [slice[cur][round] EXCEPT
                                      !.cap = GrownCap(slice[cur][round].cap)]
               /\ StoreLen => s = [slice[cur][round] EXCEPT
                                     !.len = slice[cur][round].len + 1]
               /\ StoreElement => s = [slice[cur][round] EXCEPT
                                         !.filled = slice[cur][round].len]
  <2>1. CASE GrowSlice
    BY <1>1, <1>2, <2>1 DEF GrowSlice, StoreLen, StoreElement
  <2>2. CASE StoreLen
    BY <1>1, <1>2, <2>2 DEF GrowSlice, StoreLen, StoreElement
  <2>3. CASE StoreElement
    BY <1>1, <1>2, <2>3 DEF GrowSlice, StoreLen, StoreElement
  <2> QED
    BY <2>1, <2>2, <2>3
<1>4. slice'[cur][round] = s
  BY <1>1, <1>2, <1>3
<1>5. \A gv \in GroupVersions, r \in Rounds :
        gv # cur \/ r # round => slice'[gv][r] = slice[gv][r]
  BY <1>1, <1>2, <1>3
<1>6. UNCHANGED <<round, cur, versionDiscovery>>
  BY DEF GrowSlice, StoreLen, StoreElement, tableVars
<1>7. /\ GrowSlice => s.len = slice[cur][round].len
                      /\ s.filled = slice[cur][round].filled
      /\ StoreLen => s.len = slice[cur][round].len + 1
                     /\ s.filled = slice[cur][round].filled
      /\ StoreElement => s.len = slice[cur][round].len
                         /\ s.filled = slice[cur][round].len
  BY <1>2, <1>3 DEF Slice
<1> QED
  BY <1>1, <1>2, <1>4, <1>5, <1>6, <1>7

(* No step takes a written element back, nor a table entry to an earlier   *)
(* sync.                                                                   *)
LEMMA Monotone ==
  ASSUME ProcessInv, [Next]_vars, NEW gv \in GroupVersions
  PROVE  /\ versionDiscovery[gv].round \in Nat
         /\ versionDiscovery[gv].round <= MaxSyncs
         /\ versionDiscovery'[gv].round \in Nat
         /\ versionDiscovery[gv].round <= versionDiscovery'[gv].round
         /\ \A r \in Rounds : /\ slice[gv][r].filled \in Nat
                              /\ slice'[gv][r].filled \in Nat
                              /\ slice[gv][r].filled <= slice'[gv][r].filled
<1> USE ValueAssumption
<1>1. ProcessInv'
  BY ProcessNext
<1>2. /\ versionDiscovery[gv].round \in Nat
      /\ versionDiscovery[gv].round <= MaxSyncs
      /\ versionDiscovery'[gv].round \in Nat
  <2>1. versionDiscovery[gv] \in Handler /\ versionDiscovery'[gv] \in Handler
    BY <1>1 DEF ProcessInv, TypeOK
  <2> QED
    BY <2>1 DEF Handler
<1>3. \A r \in Rounds : slice[gv][r] \in Slice /\ slice'[gv][r] \in Slice
  BY <1>1 DEF ProcessInv, TypeOK
<1>4. CASE UNCHANGED <<slice, versionDiscovery>>
  BY <1>2, <1>3, <1>4 DEF Slice
<1>5. CASE GrowSlice \/ StoreLen \/ StoreElement
  <2>1. slice[cur][round].filled <= slice[cur][round].len
    BY <1>5, AppendSteps DEF ProcessInv, SliceInv, SliceOK
  <2>2. slice[cur][round].filled <= slice'[cur][round].filled
    BY <1>5, <2>1, AppendSteps DEF Slice
  <2>3. \A r \in Rounds : slice[gv][r].filled <= slice'[gv][r].filled
    BY <1>3, <1>5, <2>2, AppendSteps DEF Slice
  <2> QED
    BY <1>2, <1>3, <1>5, <2>3, AppendSteps DEF Slice
<1>6. CASE SetVersionDiscovery
  <2>1. cur \in GroupVersions /\ round \in Rounds
    BY <1>6 DEF SetVersionDiscovery, ProcessInv, WorkerInv, InIteration
  <2>2. versionDiscovery'[gv] = IF gv = cur
          THEN [round |-> round, count |-> slice[cur][round].len]
          ELSE versionDiscovery[gv]
    BY <1>6 DEF SetVersionDiscovery, ProcessInv, TypeOK
  <2>3. versionDiscovery[gv].round <= round \/ versionDiscovery[gv] = NoHandler
    BY <2>1 DEF ProcessInv, TableInv, HandlerOK, Published, Rounds
  <2>4. UNCHANGED slice
    BY <1>6 DEF SetVersionDiscovery
  <2> QED
    BY <1>2, <1>3, <2>1, <2>2, <2>3, <2>4 DEF NoHandler, Rounds, Slice
<1>7. \/ UNCHANGED <<slice, versionDiscovery>>
      \/ GrowSlice \/ StoreLen \/ StoreElement
      \/ SetVersionDiscovery
  BY DEF Next, Worker, StartSync, StopWorker, BeginGroupVersion, FinishSync,
         SetGroupDiscovery, AddGroupVersion, CloseStopCh,
         Client, Respond, ServeVersion, LoadPtr, LoadLen, WriteListing,
         FaultOnStray, ServeGroup, ServeAPIVersions, ServeAggregated,
         vars, workerVars, tableVars
<1> QED
  BY <1>4, <1>5, <1>6, <1>7

(* What a listing shows intact: what lies within both words that were      *)
(* loaded and is written when it is encoded.                               *)
LEMMA ListingShows ==
  ASSUME TypeOK, SliceInv, NEW req \in Request, RequestOK(req),
         req.loaded = {"ptr", "len"}
  PROVE  /\ \A i \in Intact(Listing(req)) : i <= SliceOf(req).filled
         /\ \A i \in Nat \ {0} :
              i <= req.len /\ i <= req.ptr /\ i <= SliceOf(req).filled =>
                i \in Intact(Listing(req))
<1> USE CatalogAssumption, ValueAssumption
<1> DEFINE s == SliceOf(req)
<1>1. /\ req.gv \in GroupVersions /\ req.handler \in Handler
      /\ req.len \in Nat /\ req.ptr \in Nat
  BY DEF Request, RequestOK
<1>2. s \in Slice /\ req.handler.round \in Rounds
  BY <1>1, HandlerFacts DEF RequestOK, SliceOf
<1>3. req.len <= Len(Catalog[req.gv])
  <2>1. req.len <= s.len /\ s.len <= Len(Catalog[req.gv])
    BY <1>1, <1>2 DEF RequestOK, SliceInv, SliceOK, SliceOf
  <2> QED
    BY <1>1, <1>2, <2>1 DEF Slice
<1>4. Catalog[req.gv] \in Seq(Resources) /\ Len(Catalog[req.gv]) \in Nat
  BY <1>1
<1>5. /\ Listing(req).of = req.gv
      /\ Listing(req).items = [i \in 1 .. req.len |-> Entry(req, i)]
  BY DEF Listing
<1>6. s.filled \in Nat
  BY <1>2 DEF Slice
<1> HIDE DEF s
<1>7. ASSUME NEW i \in 1 .. req.len
      PROVE  /\ i \in 1 .. Len(Catalog[req.gv])
             /\ Catalog[req.gv][i] \in Resources
  BY <1>1, <1>3, <1>4
<1>8. ASSUME NEW i \in Intact(Listing(req)) PROVE i <= s.filled
  <2>1. i \in 1 .. req.len /\ Entry(req, i) = Catalog[req.gv][i]
    BY <1>5, <1>8 DEF Intact
  <2>2. Entry(req, i) \notin {Blank, Stray}
    BY <1>7, <2>1
  <2> QED
    BY <1>1, <1>6, <2>1, <2>2 DEF Entry, s
<1>9. ASSUME NEW i \in Nat \ {0}, i <= req.len, i <= req.ptr, i <= s.filled
      PROVE  i \in Intact(Listing(req))
  <2>1. i \in 1 .. req.len /\ i <= Len(Catalog[req.gv])
    BY <1>1, <1>3, <1>4, <1>9
  <2>2. Entry(req, i) = Catalog[req.gv][i]
    BY <1>1, <1>6, <1>9 DEF Entry, s
  <2> QED
    BY <1>5, <2>1, <2>2 DEF Intact
<1> QED
  BY <1>8, <1>9 DEF s
-----------------------------------------------------------------------------
(* The strengthened invariant is inductive.                                *)
LEMMA AppendNext ==
  ASSUME ProcessInv, AppendInv, [Next]_vars PROVE AppendInv'
<1>1. ASSUME NEW gv \in GroupVersions, BeginGroupVersion(gv)
      PROVE  AppendInv'
  <2>1. slice[gv][round] = NewSlice
    BY <1>1 DEF BeginGroupVersion, ProcessInv, FreshInv, WorkerInv
  <2>2. /\ step' = "append" /\ cur' = gv /\ round' = round /\ slice' = slice
    BY <1>1 DEF BeginGroupVersion
  <2> QED
    BY <2>1, <2>2 DEF AppendInv, NewSlice
<1>2. CASE GrowSlice
  <2>1. step = "append" /\ step' = "append"
    BY <1>2 DEF GrowSlice
  <2> QED
    BY <1>2, <2>1, AppendSteps DEF AppendInv
<1>3. CASE StoreLen
  <2>1. step = "append" /\ step' = "element"
    BY <1>3 DEF StoreLen
  <2>2. slice[cur][round].len \in Nat
    BY <1>3, AppendSteps DEF Slice
  <2> QED
    BY <1>3, <2>1, <2>2, AppendSteps DEF AppendInv
<1>4. CASE StoreElement
  <2>1. step = "element" /\ step' = "setVersion"
    BY <1>4 DEF StoreElement
  <2> QED
    BY <1>4, <2>1, AppendSteps DEF AppendInv
<1>5. CASE SetVersionDiscovery
  <2>1. cur \in GroupVersions
    BY <1>5 DEF SetVersionDiscovery, ProcessInv, WorkerInv, InIteration
  <2>2. /\ versionDiscovery'[cur] =
             [round |-> round, count |-> slice[cur][round].len]
        /\ UNCHANGED <<round, cur, slice>>
        /\ step' \in {"append", "setGroup"}
    BY <1>5, <2>1 DEF SetVersionDiscovery, ProcessInv, TypeOK
  <2> QED
    BY <2>2 DEF AppendInv
<1>6. CASE step' \notin {"append", "element", "setVersion"}
  BY <1>6 DEF AppendInv
<1>7. CASE UNCHANGED <<workerVars, versionDiscovery>>
  BY <1>7 DEF workerVars, AppendInv
<1>8. \/ \E gv \in GroupVersions : BeginGroupVersion(gv)
      \/ GrowSlice \/ StoreLen \/ StoreElement \/ SetVersionDiscovery
      \/ step' \notin {"append", "element", "setVersion"}
      \/ UNCHANGED <<workerVars, versionDiscovery>>
  BY DEF Next, Worker, StartSync, StopWorker, FinishSync, SetGroupDiscovery,
         AddGroupVersion, CloseStopCh, Client, Respond, ServeVersion, LoadPtr,
         LoadLen, WriteListing, FaultOnStray, ServeGroup, ServeAPIVersions,
         ServeAggregated, vars, tableVars
<1> QED
  BY <1>1, <1>2, <1>3, <1>4, <1>5, <1>6, <1>7, <1>8

(* What a listing showed stays written.                                    *)
LEMMA StillStays ==
  ASSUME ProcessInv, [Next]_vars, NEW r \in Reply, Still(r) PROVE Still(r)'
<1> USE ValueAssumption
<1>1. r.of \in GroupVersions
  BY DEF Still
<1>2. /\ versionDiscovery[r.of].round \in Nat
      /\ versionDiscovery[r.of].round <= MaxSyncs
      /\ versionDiscovery'[r.of].round \in Nat
      /\ versionDiscovery[r.of].round <= versionDiscovery'[r.of].round
  BY <1>1, Monotone
<1>3. r.handler.round \in Rounds
      /\ r.handler.round \in 1 .. versionDiscovery'[r.of].round
  BY <1>2 DEF Still, Rounds
<1>4. \A i \in Intact(r) : i \in Nat
  BY DEF Intact, Reply, Items
<1>5. /\ slice[r.of][r.handler.round].filled \in Nat
      /\ slice'[r.of][r.handler.round].filled \in Nat
      /\ slice[r.of][r.handler.round].filled
           <= slice'[r.of][r.handler.round].filled
  BY <1>1, <1>3, Monotone
<1> QED
  BY <1>1, <1>3, <1>4, <1>5 DEF Still

(* What a listing showed lies within the length and the array of its slice.*)
LEMMA ShownWithin ==
  ASSUME ProcessInv, NEW r \in Reply, Still(r), NEW i \in Intact(r)
  PROVE  /\ i \in Nat
         /\ i <= slice[r.of][r.handler.round].len
         /\ i <= slice[r.of][r.handler.round].cap
<1> DEFINE s == slice[r.of][r.handler.round]
<1>1. i \in Nat /\ i <= s.filled
  BY DEF Still, Intact, Reply, Items
<1>2. r.of \in GroupVersions /\ r.handler.round \in Rounds
  <2>1. versionDiscovery[r.of].round \in 0 .. MaxSyncs
    BY DEF Still, ProcessInv, TypeOK, Handler
  <2> QED
    BY <2>1, ValueAssumption DEF Still, Rounds
<1>3. s \in Slice
  BY <1>2 DEF ProcessInv, TypeOK
<1>4. s.filled <= s.len /\ s.len <= s.cap
  BY <1>2 DEF ProcessInv, SliceInv, SliceOK
<1> HIDE DEF s
<1>5. i <= s.len /\ i <= s.cap
  BY <1>1, <1>3, <1>4 DEF Slice
<1> QED
  BY <1>1, <1>5 DEF s

(* What ReplyInv asks of one client, whose reply is r and request is req.  *)
ClientOK(r, req) ==
    /\ r.kind = "listing" => Still(r) /\ After(r, req)
    /\ req # NoRequest =>
         req.handler.round <= versionDiscovery[req.gv].round

LEMMA ReplyNext ==
  ASSUME ProcessInv, ReplyInv, [Next]_vars PROVE ReplyInv'
<1> USE ValueAssumption
<1>1. /\ reply \in [Clients -> Reply] /\ request \in [Clients -> Request]
      /\ reply' \in [Clients -> Reply] /\ request' \in [Clients -> Request]
      /\ \A c \in Clients : request[c] = NoRequest \/ RequestOK(request[c])
  BY ProcessNext DEF ProcessInv, TypeOK, RequestInv
<1>2. ASSUME NEW c \in Clients, NEW r \in Reply, r = reply[c]
      PROVE  r.kind = "listing" =>
               Still(r) /\ Still(r)' /\ After(r, request[c])
  <2>1. r.kind = "listing" => Still(r) /\ After(r, request[c])
    BY <1>2 DEF ReplyInv
  <2> QED
    BY <2>1, StillStays
<1>3. ASSUME NEW c \in Clients, NEW req \in Request, req = request[c],
             req # NoRequest
      PROVE  /\ RequestOK(req) /\ req.gv \in GroupVersions
             /\ req.handler.round \in Nat
             /\ req.handler.round <= versionDiscovery[req.gv].round
             /\ req.handler.round <= versionDiscovery'[req.gv].round
  <2>1. RequestOK(req) /\ req.gv \in GroupVersions
    BY <1>1, <1>3 DEF RequestOK
  <2>2. req.handler.round \in Nat
    BY DEF Request, Handler
  <2>3. req.handler.round <= versionDiscovery[req.gv].round
    BY <1>3 DEF ReplyInv
  <2>4. /\ versionDiscovery[req.gv].round \in Nat
        /\ versionDiscovery'[req.gv].round \in Nat
        /\ versionDiscovery[req.gv].round <= versionDiscovery'[req.gv].round
    BY <2>1, Monotone
  <2> QED
    BY <2>1, <2>2, <2>3, <2>4
<1>4. ASSUME NEW c \in Clients, NEW r \in Reply, NEW req \in Request,
             r = reply[c], req = request[c]
      PROVE  ClientOK(r, req)'
  BY <1>2, <1>3, <1>4 DEF ClientOK, After
<1>5. ASSUME \A c \in Clients : \A r \in Reply, req \in Request :
               r = reply'[c] /\ req = request'[c] => ClientOK(r, req)'
      PROVE  ReplyInv'
  <2>1. ASSUME NEW c \in Clients PROVE ClientOK(reply[c], request[c])'
    <3>1. PICK r \in Reply, req \in Request : r = reply'[c] /\ req = request'[c]
      BY <1>1
    <3>2. ClientOK(r, req)'
      BY <1>5, <3>1
    <3> QED
      BY <3>1, <3>2 DEF ClientOK, Still, After
  <2> QED
    BY <2>1 DEF ReplyInv, ClientOK
<1>6. CASE UNCHANGED <<request, reply>>
  BY <1>4, <1>5, <1>6
<1>7. ASSUME NEW c \in Clients,
             \A d \in Clients \ {c} : request'[d] = request[d]
                                      /\ reply'[d] = reply[d],
             \A r \in Reply, req \in Request :
               r = reply'[c] /\ req = request'[c] => ClientOK(r, req)'
      PROVE  ReplyInv'
  BY <1>4, <1>5, <1>7
<1>8. ASSUME NEW c \in Clients, Client(c) PROVE ReplyInv'
  <2>1. PICK r \in Reply, req \in Request : r = reply[c] /\ req = request[c]
    BY <1>1
  <2>2. /\ ClientOK(r, req)
        /\ r.kind = "listing" => Still(r) /\ After(r, req)
    BY <1>2, <1>3, <2>1 DEF ClientOK
  <2>3. UNCHANGED <<slice, versionDiscovery>>
    BY <1>8 DEF Client, Respond, ServeVersion, LoadPtr, LoadLen, WriteListing,
                FaultOnStray, ServeGroup, ServeAPIVersions, ServeAggregated,
                workerVars, tableVars
  <2>4. /\ \A x \in Reply, y \in Request : ClientOK(x, y)' <=> ClientOK(x, y)
        /\ NoRequest.gv \notin GroupVersions
    BY <2>3 DEF ClientOK, Still, After, NoRequest
  <2>5. ASSUME NEW gv \in GroupVersions, ServeVersion(c, gv) PROVE ReplyInv'
    <3>1. CASE /\ reply' = [reply EXCEPT ![c] = Answer("versionNotFound", gv)]
               /\ UNCHANGED request
      <4>1. reply'[c].kind = "versionNotFound" /\ request'[c] = req
        BY <1>1, <2>1, <3>1 DEF Answer
      <4> QED
        BY <1>1, <1>7, <2>2, <2>4, <3>1, <4>1 DEF ClientOK
    <3>2. CASE /\ request' = [request EXCEPT ![c] = NewRequest(gv)]
               /\ UNCHANGED reply
      <4>1. request'[c] = NewRequest(gv) /\ reply'[c] = r
        BY <1>1, <2>1, <3>2
      <4>2. /\ NewRequest(gv).gv = gv /\ NewRequest(gv).loaded = {}
            /\ NewRequest(gv).handler = versionDiscovery[gv]
        BY DEF NewRequest, NoRequest
      <4>3. versionDiscovery[gv].round \in Nat
        BY Monotone
      <4>4. r.kind = "listing" => After(r, NewRequest(gv))
        BY <2>2, <4>2, <4>3 DEF Still, After
      <4>5. ClientOK(r, NewRequest(gv))
        BY <2>2, <4>2, <4>3, <4>4 DEF ClientOK
      <4> QED
        BY <1>1, <1>7, <2>4, <3>2, <4>1, <4>5
    <3> QED
      BY <2>5, <3>1, <3>2 DEF ServeVersion
  <2>6. CASE LoadPtr(c) \/ LoadLen(c)
    <3>1. req # NoRequest /\ UNCHANGED reply
      BY <2>1, <2>6 DEF LoadPtr, LoadLen, Loading
    <3>2. PICK word \in {"ptr", "len"}, new \in Request :
             /\ request' = [request EXCEPT ![c] = new]
             /\ new.gv = req.gv /\ new.handler = req.handler
             /\ new.loaded = req.loaded \cup {word}
             /\ word = "ptr" => /\ new.ptr = SliceOf(req).cap
                                /\ new.len = req.len
             /\ word = "len" => /\ new.len = SliceOf(req).len
                                /\ new.ptr = req.ptr
      <4>1. PICK new : request' = [request EXCEPT ![c] = new]
                       /\ \/ new = [req EXCEPT !.loaded = @ \cup {"ptr"},
                                               !.ptr = SliceOf(req).cap]
                          \/ new = [req EXCEPT !.loaded = @ \cup {"len"},
                                               !.len = SliceOf(req).len]
        <5>1. request[c] = req
          BY <2>1
        <5>2. CASE LoadPtr(c)
          <6>1. request' = [request EXCEPT
                  ![c] = [request[c] EXCEPT !.loaded = @ \cup {"ptr"},
                                            !.ptr = SliceOf(request[c]).cap]]
            BY <5>2 DEF LoadPtr
          <6> QED
            BY <5>1, <6>1
        <5>3. CASE LoadLen(c)
          <6>1. request' = [request EXCEPT
                  ![c] = [request[c] EXCEPT !.loaded = @ \cup {"len"},
                                            !.len = SliceOf(request[c]).len]]
            BY <5>3 DEF LoadLen
          <6> QED
            BY <5>1, <6>1
        <5> QED
          BY <2>6, <5>2, <5>3
      <4>2. new \in Request
        BY <1>1, <4>1
      <4> QED
        BY <4>1, <4>2 DEF Request
    <3>3. ASSUME r.kind = "listing" PROVE After(r, new)
      <4>1. ASSUME req.gv = r.of, r.handler.round = req.handler.round,
                   NEW i \in Intact(r)
            PROVE  /\ "ptr" \in new.loaded => i <= new.ptr
                   /\ "len" \in new.loaded => i <= new.len
        <5>1. /\ i <= SliceOf(req).len /\ i <= SliceOf(req).cap
          BY <2>2, <3>3, <4>1, ShownWithin DEF SliceOf
        <5>2. /\ "ptr" \in req.loaded => i <= req.ptr
              /\ "len" \in req.loaded => i <= req.len
          BY <2>2, <3>3, <4>1 DEF After
        <5> QED
          BY <3>2, <5>1, <5>2
      <4>2. req.gv = r.of => r.handler.round <= req.handler.round
        BY <2>2, <3>3 DEF After
      <4> QED
        BY <3>2, <4>1, <4>2 DEF After
    <3>4. request'[c] = new /\ reply'[c] = r
      BY <1>1, <2>1, <3>1, <3>2
    <3>5. ClientOK(r, new)
      BY <2>2, <3>1, <3>2, <3>3 DEF ClientOK
    <3> QED
      BY <1>1, <1>7, <2>4, <3>1, <3>2, <3>4, <3>5
  <2>7. CASE WriteListing(c)
    <3>1. req.loaded = {"ptr", "len"} /\ req # NoRequest
      BY <2>1, <2>7 DEF WriteListing, NoRequest
    <3>2. /\ RequestOK(req) /\ req.gv \in GroupVersions
          /\ req.handler.round <= versionDiscovery[req.gv].round
          /\ req.handler.round \in Nat /\ versionDiscovery[req.gv].round \in Nat
      BY <1>3, <2>1, <3>1, Monotone
    <3>3. /\ Listing(req).of = req.gv /\ Listing(req).handler = req.handler
          /\ \A i \in Intact(Listing(req)) : i <= SliceOf(req).filled
      BY <3>1, <3>2, ListingShows DEF Listing, ProcessInv
    <3>4. Still(Listing(req))
      BY <3>2, <3>3 DEF Still, SliceOf, RequestOK, HandlerOK
    <3>5. After(Listing(req), NoRequest)
      BY <2>4, <3>2, <3>3 DEF After
    <3>6. ClientOK(Listing(req), NoRequest)
      BY <3>4, <3>5 DEF ClientOK
    <3>7. /\ reply'[c] = Listing(req) /\ request'[c] = NoRequest
          /\ \A d \in Clients \ {c} : request'[d] = request[d]
                                      /\ reply'[d] = reply[d]
      BY <1>1, <2>1, <2>7 DEF WriteListing
    <3> QED
      BY <1>7, <2>4, <3>6, <3>7
  <2>8. CASE FaultOnStray(c)
    <3>1. UNCHANGED reply /\ \A d \in Clients : request'[d] = NoRequest
      BY <2>8 DEF FaultOnStray
    <3>2. ASSUME NEW d \in Clients, NEW x \in Reply, x = reply[d]
          PROVE  ClientOK(x, NoRequest)'
      <4>1. x.kind = "listing" => Still(x)' /\ x.of \in GroupVersions
        BY <1>2, <3>2 DEF Still
      <4> QED
        BY <2>4, <4>1 DEF ClientOK, After
    <3> QED
      BY <1>5, <3>1, <3>2
  <2>9. ASSUME UNCHANGED request,
               NEW x, reply' = [reply EXCEPT ![c] = x], x.kind # "listing"
        PROVE  ReplyInv'
    <3>1. reply'[c] = x /\ request'[c] = req
      BY <1>1, <2>1, <2>9
    <3> QED
      BY <1>1, <1>7, <2>2, <2>4, <2>9, <3>1 DEF ClientOK
  <2>10. \/ \E gv \in GroupVersions : ServeVersion(c, gv)
         \/ LoadPtr(c) \/ LoadLen(c)
         \/ WriteListing(c)
         \/ FaultOnStray(c)
         \/ UNCHANGED request /\ \E x : /\ reply' = [reply EXCEPT ![c] = x]
                                        /\ x.kind # "listing"
    <3>1. \A g : /\ Answer("groupNotFound", g).kind # "listing"
                 /\ Answer("group", g).kind # "listing"
                 /\ Answer("apiVersions", g).kind # "listing"
                 /\ Answer("aggregated", g).kind # "listing"
      BY DEF Answer
    <3> QED
      BY <1>8, <3>1 DEF Client, Respond, ServeGroup, ServeAPIVersions,
                        ServeAggregated
  <2> QED
    BY <2>5, <2>6, <2>7, <2>8, <2>9, <2>10
<1> QED
  BY <1>6, <1>8, ClientsAside DEF Next, vars, clientVars

(* The invariant of the races within one sync holds of every state.        *)
THEOREM ServiceInvariance == Safety => []ServiceInv
<1>1. Init => ServiceInv
  <2> SUFFICES ASSUME Init PROVE ServiceInv
    OBVIOUS
  <2>1. ProcessInv
    BY InitInv DEF IInv
  <2>2. AppendInv /\ ReplyInv
    BY DEF Init, AppendInv, ReplyInv, Answer
  <2> QED
    BY <2>1, <2>2 DEF ServiceInv
<1>2. ServiceInv /\ [Next]_vars => ServiceInv'
  BY ProcessNext, AppendNext, ReplyNext DEF ServiceInv
<1> QED
  BY <1>1, <1>2, PTL DEF Safety
-----------------------------------------------------------------------------
(* A client that asks for a version again loses what it has seen to a new  *)
(* sync only: the races of one sync's appends take nothing back.           *)
THEOREM ShrinksByResync == Safety => ShrinkOnlyByResync
<1> DEFINE Shrink ==
      \A c \in Clients :
        (/\ reply[c].kind = "listing"
         /\ reply'[c].kind = "listing"
         /\ reply'[c].of = reply[c].of) =>
           /\ reply'[c].handler.round >= reply[c].handler.round
           /\ reply'[c].handler.round = reply[c].handler.round =>
                Intact(reply[c]) \subseteq Intact(reply'[c])
<1>1. ASSUME ServiceInv, Next, NEW c \in Clients,
             reply[c].kind = "listing", reply'[c].kind = "listing",
             reply'[c].of = reply[c].of, reply' # reply
      PROVE  /\ reply'[c].handler.round >= reply[c].handler.round
             /\ reply'[c].handler.round = reply[c].handler.round =>
                  Intact(reply[c]) \subseteq Intact(reply'[c])
  <2>1. PICK r \in Reply, req \in Request : r = reply[c] /\ req = request[c]
    BY <1>1 DEF ServiceInv, ProcessInv, TypeOK
  <2>2. Still(r) /\ After(r, req)
    BY <1>1, <2>1 DEF ServiceInv, ReplyInv
  <2>3. r.handler.round \in Nat
    BY DEF Reply, Handler
  <2>4. CASE reply'[c] = reply[c]
    BY <2>1, <2>3, <2>4
  <2>5. CASE reply'[c] # reply[c]
    <3>1. WriteListing(c)
      <4>1. reply \in [Clients -> Reply]
        BY <1>1 DEF ServiceInv, ProcessInv, TypeOK
      <4>2. PICK d \in Clients : Client(d)
        BY <1>1, ClientsAside DEF Next, clientVars
      <4>3. \/ WriteListing(d)
            \/ UNCHANGED reply
            \/ \E x : reply' = [reply EXCEPT ![d] = x] /\ x.kind # "listing"
        <5>1. \A g : /\ Answer("versionNotFound", g).kind # "listing"
                     /\ Answer("groupNotFound", g).kind # "listing"
                     /\ Answer("group", g).kind # "listing"
                     /\ Answer("apiVersions", g).kind # "listing"
                     /\ Answer("aggregated", g).kind # "listing"
          BY DEF Answer
        <5> QED
          BY <4>2, <5>1 DEF Client, Respond, ServeVersion, LoadPtr, LoadLen,
             FaultOnStray, ServeGroup, ServeAPIVersions, ServeAggregated
      <4>4. WriteListing(d) => d = c
        BY <2>5, <4>1 DEF WriteListing
      <4> QED
        BY <1>1, <2>5, <4>1, <4>3, <4>4
    <3>2. req.loaded = {"ptr", "len"} /\ reply'[c] = Listing(req)
      BY <1>1, <2>1, <3>1 DEF WriteListing, ServiceInv, ProcessInv, TypeOK
    <3>3. RequestOK(req)
      BY <1>1, <2>1, <3>2 DEF ServiceInv, ProcessInv, RequestInv, NoRequest
    <3>4. req.gv = r.of /\ reply'[c].handler = req.handler
      BY <1>1, <2>1, <3>2 DEF Listing
    <3>5. req.handler.round \in Nat /\ r.handler.round <= req.handler.round
      BY <2>2, <3>4 DEF After, Request, Handler
    <3>6. ASSUME req.handler.round = r.handler.round, NEW i \in Intact(r)
          PROVE  i \in Intact(Listing(req))
      <4>1. i <= req.ptr /\ i <= req.len
        BY <2>2, <3>2, <3>4, <3>6 DEF After
      <4>2. i <= SliceOf(req).filled
        BY <2>2, <3>4, <3>6 DEF Still, SliceOf
      <4>3. i \in Nat \ {0}
        BY DEF Intact, Reply, Items
      <4> QED
        BY <1>1, <3>2, <3>3, <4>1, <4>2, <4>3, ListingShows
        DEF ServiceInv, ProcessInv
    <3> QED
      BY <2>1, <2>3, <3>2, <3>4, <3>5, <3>6
  <2> QED
    BY <2>4, <2>5
<1>2. ServiceInv /\ [Next]_vars => [Shrink]_reply
  BY <1>1 DEF vars, clientVars
<1> QED
  BY <1>2, ServiceInvariance, PTL DEF Safety, ShrinkOnlyByResync
-----------------------------------------------------------------------------
(* The refinement.  What the mapping substitutes for the service's state.  *)
FloorNow == [gv \in GroupVersions |-> versionDiscovery[gv].count]
PendingNow == [c \in Clients |-> AbstractPending(request[c])]
AnswerNow == [c \in Clients |-> AbstractAnswer(reply[c])]
SizeNow == [gv \in GroupVersions |-> Len(Catalog[gv])]

(* The service's answer for each kind of reply.                            *)
LEMMA AnswerTable ==
  ASSUME NEW r
  PROVE  /\ r.kind = "versionNotFound" =>
              AbstractAnswer(r) = [of |-> r.of, refused |-> TRUE]
         /\ r.kind = "listing" =>
              AbstractAnswer(r) = [of |-> r.of, refused |-> FALSE,
                                   intact |-> Intact(r)]
         /\ r.kind \notin {"versionNotFound", "listing"} =>
              AbstractAnswer(r) = Nothing
<1>1. r.kind = "versionNotFound" =>
        AbstractAnswer(r) = [of |-> r.of, refused |-> TRUE]
  BY Zenon DEF AbstractAnswer
<1>2. r.kind = "listing" =>
        AbstractAnswer(r) = [of |-> r.of, refused |-> FALSE,
                             intact |-> Intact(r)]
  BY Zenon DEF AbstractAnswer
<1>3. r.kind \notin {"versionNotFound", "listing"} =>
        AbstractAnswer(r) = Nothing
  BY Zenon DEF AbstractAnswer
<1> QED
  BY <1>1, <1>2, <1>3

(* A client without a request in flight waits for nothing, and any other   *)
(* waits for something.                                                    *)
LEMMA PendingFacts ==
  ASSUME NEW req \in Request, req = NoRequest \/ RequestOK(req)
  PROVE  /\ req = NoRequest => AbstractPending(req) = Nothing
         /\ req # NoRequest =>
              /\ AbstractPending(req) = [of |-> req.gv,
                                         floor |-> req.handler.count]
              /\ AbstractPending(req) # Nothing
<1>1. req # NoRequest =>
        AbstractPending(req) \in [of : GroupVersions, floor : Nat]
  BY DEF AbstractPending, RequestOK, Request, Handler
<1> QED
  BY <1>1, ValueAssumption DEF AbstractPending

(* What a change of one reply, or of one request, is to the service.       *)
LEMMA ReplyStep ==
  ASSUME TypeOK, NEW c \in Clients, NEW r, reply' = [reply EXCEPT ![c] = r]
  PROVE  AnswerNow' = [AnswerNow EXCEPT ![c] = AbstractAnswer(r)]
BY DEF AnswerNow, TypeOK

LEMMA RequestStep ==
  ASSUME TypeOK, NEW c \in Clients, NEW q, request' = [request EXCEPT ![c] = q]
  PROVE  PendingNow' = [PendingNow EXCEPT ![c] = AbstractPending(q)]
BY DEF PendingNow, TypeOK

LEMMA ServiceInit == Init => Service!Init
<1> SUFFICES ASSUME Init PROVE Service!Init
  OBVIOUS
<1>1. FloorNow = [gv \in GroupVersions |-> 0]
  BY DEF Init, FloorNow, NoHandler
<1>2. Advertised = {}
  BY DEF Init, Advertised, NamedIn
<1>3. PendingNow = [c \in Clients |-> Nothing]
  BY DEF Init, PendingNow, AbstractPending
<1>4. Answer("none", Nothing).kind = "none"
  BY DEF Answer
<1>5. AnswerNow = [c \in Clients |-> Nothing]
  <2>1. AbstractAnswer(Answer("none", Nothing)) = Nothing
    BY <1>4, AnswerTable
  <2> QED
    BY <2>1 DEF Init, AnswerNow
<1> QED
  BY <1>1, <1>2, <1>3, <1>5
  DEF Service!Init, Init, FloorNow, PendingNow, AnswerNow

(* The steps that leave handlers, documents, requests and replies alone,   *)
(* in what the service sees of them.                                       *)
LEMMA Stutters ==
  ASSUME UNCHANGED <<versionDiscovery, groupDiscovery, aggregated, request,
                     reply, learned>>
  PROVE  UNCHANGED Service!vars
BY DEF Service!vars, Advertised, NamedIn

(* A handler is installed: the first of a sync, or the next.               *)
LEMMA SetVersionMaps ==
  ASSUME ServiceInv, SetVersionDiscovery
  PROVE  Service!Rebuild(cur) \/ Service!Extend(cur)
<1> DEFINE len == slice[cur][round].len
<1>1. /\ cur \in GroupVersions /\ round \in Rounds /\ step = "setVersion"
      /\ versionDiscovery \in [GroupVersions -> Handler]
      /\ slice[cur][round] \in Slice
  <2>1. cur \in GroupVersions /\ round \in Rounds /\ step = "setVersion"
    BY DEF SetVersionDiscovery, ServiceInv, ProcessInv, WorkerInv, InIteration
  <2> QED
    BY <2>1 DEF ServiceInv, ProcessInv, TypeOK
<1>2. versionDiscovery' = [versionDiscovery EXCEPT
                             ![cur] = [round |-> round, count |-> len]]
  BY DEF SetVersionDiscovery
<1>3. len \in Nat /\ len >= 1 /\ len <= Len(Catalog[cur])
  BY <1>1 DEF Slice, ServiceInv, ProcessInv, WorkerInv, SliceInv, SliceOK
<1>4. len = 1 \/ versionDiscovery[cur] = [round |-> round, count |-> len - 1]
  BY <1>1 DEF ServiceInv, AppendInv
<1>5. UNCHANGED <<Advertised, PendingNow, AnswerNow, learned>>
  BY DEF SetVersionDiscovery, clientVars, Advertised, NamedIn, PendingNow,
         AnswerNow
<1> HIDE DEF len
<1>6. FloorNow' = [FloorNow EXCEPT ![cur] = len]
  BY <1>1, <1>2 DEF FloorNow
<1>7. CASE len = 1
  BY <1>5, <1>6, <1>7 DEF Service!Rebuild, FloorNow, PendingNow, AnswerNow
<1>8. CASE len # 1
  <2>1. FloorNow[cur] = len - 1
    BY <1>1, <1>4, <1>8 DEF FloorNow
  <2>2. SizeNow[cur] = Len(Catalog[cur]) /\ Len(Catalog[cur]) \in Nat
    BY <1>1, CatalogAssumption DEF SizeNow
  <2>3. FloorNow[cur] \in 1 .. SizeNow[cur] - 1
    BY <1>3, <1>8, <2>1, <2>2
  <2>4. FloorNow' = [FloorNow EXCEPT ![cur] = FloorNow[cur] + 1]
    BY <1>3, <1>6, <2>1
  <2> QED
    BY <1>5, <2>3, <2>4
    DEF Service!Extend, FloorNow, PendingNow, AnswerNow, SizeNow
<1> QED
  BY <1>7, <1>8

(* A published version has a guarantee.                                    *)
LEMMA PublishedFloor ==
  ASSUME ProcessInv, NEW gv \in GroupVersions
  PROVE  /\ gv \in Published => FloorNow[gv] > 0
         /\ gv \notin Published => FloorNow[gv] = 0
<1>1. FloorNow[gv] = versionDiscovery[gv].count
  BY DEF FloorNow
<1>2. gv \in Published => versionDiscovery[gv].count >= 1
                          /\ versionDiscovery[gv].count \in Nat
  BY DEF ProcessInv, TableInv, HandlerOK, TypeOK, Handler
<1>3. gv \notin Published => versionDiscovery[gv] = NoHandler
  BY DEF Published
<1> QED
  BY <1>1, <1>2, <1>3 DEF NoHandler

(* A document that names a version replaces one, or names it besides.      *)
LEMMA AdvertiseMaps ==
  ASSUME ServiceInv, SetGroupDiscovery \/ AddGroupVersion
  PROVE  Service!Advertise(cur)
<1>1. /\ cur \in GroupVersions /\ cur \in Published
      /\ groupDiscovery \in [Groups -> Seq(GroupVersions)]
  BY DEF SetGroupDiscovery, AddGroupVersion, ServiceInv, ProcessInv, TypeOK,
         WorkerInv, InIteration
<1>2. FloorNow[cur] > 0
  BY <1>1, PublishedFloor DEF ServiceInv
<1>3. UNCHANGED <<FloorNow, PendingNow, AnswerNow, learned>>
  BY DEF SetGroupDiscovery, AddGroupVersion, clientVars, FloorNow, PendingNow,
         AnswerNow
<1>4. cur \in Advertised' /\ Advertised' \subseteq Advertised \cup {cur}
  <2>1. CASE AddGroupVersion
    BY <2>1 DEF AddGroupVersion, Advertised, NamedIn
  <2>2. CASE SetGroupDiscovery
    <3>1. GroupOf[cur] \in Groups
      BY <1>1, CatalogAssumption
    <3>2. \A g \in Groups : groupDiscovery'[g] =
            IF g = GroupOf[cur] THEN GroupVersionsForDiscovery(cur)
            ELSE groupDiscovery[g]
      BY <1>1, <2>2, <3>1 DEF SetGroupDiscovery
    <3>3. ASSUME NEW g \in Groups, g = GroupOf[cur]
          PROVE  NamedIn(g)' = {cur}
      <4>1. 1 \in DOMAIN GroupVersionsForDiscovery(cur)
        BY <1>1, GroupDocument
      <4>2. groupDiscovery'[g] = GroupVersionsForDiscovery(cur)
        BY <3>2, <3>3
      <4>3. \A i \in DOMAIN groupDiscovery'[g] : groupDiscovery'[g][i] = cur
        BY <1>1, <4>2, GroupDocument
      <4>4. 1 \in DOMAIN groupDiscovery'[g]
        BY <4>1, <4>2
      <4> QED
        BY <4>3, <4>4 DEF NamedIn
    <3>4. \A g \in Groups \ {GroupOf[cur]} : NamedIn(g)' = NamedIn(g)
      BY <3>2 DEF NamedIn
    <3>5. aggregated' = aggregated
      BY <2>2 DEF SetGroupDiscovery
    <3>6. ASSUME NEW gv \in Advertised'
          PROVE  gv \in Advertised \cup {cur}
      <4>1. CASE gv \in aggregated'
        BY <3>5, <4>1 DEF Advertised
      <4>2. ASSUME NEW g \in Groups, gv \in NamedIn(g)'
            PROVE  gv \in Advertised \cup {cur}
        BY <3>3, <3>4, <4>2 DEF Advertised
      <4> QED
        BY <3>6, <4>1, <4>2 DEF Advertised
    <3>7. cur \in Advertised'
      BY <3>1, <3>3 DEF Advertised
    <3> QED
      BY <3>6, <3>7
  <2> QED
    BY <2>1, <2>2
<1>5. \E kept \in SUBSET Advertised : Advertised' = kept \cup {cur}
  <2>1. /\ Advertised' \ {cur} \in SUBSET Advertised
        /\ Advertised' = (Advertised' \ {cur}) \cup {cur}
    BY <1>4
  <2> QED
    BY <2>1
<1> QED
  BY <1>2, <1>3, <1>5 DEF Service!Advertise, FloorNow, PendingNow, AnswerNow

LEMMA ServeVersionMaps ==
  ASSUME ServiceInv, NEW c \in Clients, NEW gv \in GroupVersions,
         ServeVersion(c, gv)
  PROVE  Service!Refuse(c, gv) \/ Service!Ask(c, gv)
<1>1. /\ TypeOK /\ request[c] = NoRequest
      /\ UNCHANGED <<versionDiscovery, groupDiscovery, aggregated, learned>>
  BY DEF ServeVersion, Ready, ServiceInv, ProcessInv, tableVars
<1>2. PendingNow[c] = Nothing
  BY <1>1 DEF PendingNow, AbstractPending
<1>3. UNCHANGED <<FloorNow, Advertised, learned>>
  BY <1>1 DEF FloorNow, Advertised, NamedIn
<1>4. CASE /\ gv \notin Published
           /\ reply' = [reply EXCEPT ![c] = Answer("versionNotFound", gv)]
           /\ UNCHANGED request
  <2>1. FloorNow[gv] = 0
    BY <1>4, PublishedFloor DEF ServiceInv
  <2>2. /\ Answer("versionNotFound", gv).kind = "versionNotFound"
        /\ Answer("versionNotFound", gv).of = gv
    BY DEF Answer
  <2>3. AbstractAnswer(Answer("versionNotFound", gv)) =
          [of |-> gv, refused |-> TRUE]
    BY <2>2, AnswerTable
  <2>4. AnswerNow' = [AnswerNow EXCEPT ![c] = [of |-> gv, refused |-> TRUE]]
    BY <1>1, <1>4, <2>3, ReplyStep
  <2>5. UNCHANGED PendingNow
    BY <1>4 DEF PendingNow
  <2> QED
    BY <1>2, <1>3, <2>1, <2>4, <2>5
    DEF Service!Refuse, FloorNow, PendingNow, AnswerNow
<1>5. CASE /\ gv \in Published
           /\ request' = [request EXCEPT ![c] = NewRequest(gv)]
           /\ UNCHANGED reply
  <2>1. FloorNow[gv] > 0
    BY <1>5, PublishedFloor DEF ServiceInv
  <2>2. /\ NewRequest(gv).gv = gv /\ NewRequest(gv) # NoRequest
        /\ NewRequest(gv).handler = versionDiscovery[gv]
    BY ValueAssumption DEF NewRequest, NoRequest
  <2>3. AbstractPending(NewRequest(gv)) = [of |-> gv, floor |-> FloorNow[gv]]
    BY <2>2 DEF AbstractPending, FloorNow
  <2>4. PendingNow' = [PendingNow EXCEPT
                         ![c] = [of |-> gv, floor |-> FloorNow[gv]]]
    BY <1>1, <1>5, <2>3, RequestStep
  <2>5. UNCHANGED AnswerNow
    BY <1>5 DEF AnswerNow
  <2> QED
    BY <1>2, <1>3, <2>1, <2>4, <2>5
    DEF Service!Ask, FloorNow, PendingNow, AnswerNow
<1> QED
  BY <1>4, <1>5 DEF ServeVersion

(* Loading a word of the slice is nothing that the service tells.          *)
LEMMA LoadStutters ==
  ASSUME ServiceInv, NEW c \in Clients, LoadPtr(c) \/ LoadLen(c)
  PROVE  UNCHANGED Service!vars
<1>1. /\ request \in [Clients -> Request] /\ request[c] # NoRequest
      /\ request[c].gv \in GroupVersions
  BY DEF ServiceInv, ProcessInv, TypeOK, RequestInv, RequestOK, LoadPtr,
         LoadLen, Loading
<1>2. /\ \A d \in Clients \ {c} : request'[d] = request[d]
      /\ request'[c].gv = request[c].gv
      /\ request'[c].handler = request[c].handler
      /\ UNCHANGED <<versionDiscovery, groupDiscovery, aggregated, reply,
                     learned>>
  <2>1. CASE LoadPtr(c)
    BY <1>1, <2>1 DEF LoadPtr, Request, tableVars
  <2>2. CASE LoadLen(c)
    BY <1>1, <2>2 DEF LoadLen, Request, tableVars
  <2> QED
    BY <2>1, <2>2
<1>3. request'[c] # NoRequest
  BY <1>1, <1>2, ValueAssumption DEF NoRequest
<1>4. \A d \in Clients :
        AbstractPending(request'[d]) = AbstractPending(request[d])
  BY <1>1, <1>2, <1>3 DEF AbstractPending
<1>5. UNCHANGED PendingNow
  BY <1>4 DEF PendingNow
<1> QED
  BY <1>2, <1>5 DEF Service!vars, Advertised, NamedIn, PendingNow

LEMMA WriteListingMaps ==
  ASSUME ServiceInv, NEW c \in Clients, WriteListing(c)
  PROVE  Service!List(c)
<1> DEFINE req == request[c]
           shown == Intact(Listing(req))
<1>1. /\ TypeOK /\ SliceInv /\ req \in Request
      /\ req.loaded = {"ptr", "len"} /\ req # NoRequest /\ RequestOK(req)
  <2>1. req.loaded = {"ptr", "len"} /\ req # NoRequest
    BY DEF WriteListing, NoRequest
  <2> QED
    BY <2>1 DEF ServiceInv, ProcessInv, RequestInv, TypeOK
<1>2. /\ reply' = [reply EXCEPT ![c] = Listing(req)]
      /\ request' = [request EXCEPT ![c] = NoRequest]
      /\ UNCHANGED <<FloorNow, Advertised, learned>>
  BY DEF WriteListing, tableVars, FloorNow, Advertised, NamedIn
<1>3. /\ Listing(req).kind = "listing" /\ ListingOK(Listing(req))
      /\ Listing(req).of = req.gv /\ Listing(req).handler = req.handler
      /\ Listing(req) \in Reply /\ req.gv \in GroupVersions
  BY <1>1, ListingFacts DEF Listing, RequestOK
<1> HIDE DEF req
<1>4. /\ PendingNow[c] = [of |-> req.gv, floor |-> req.handler.count]
      /\ PendingNow[c] # Nothing
      /\ PendingNow[c].of = req.gv /\ PendingNow[c].floor = req.handler.count
  BY <1>1, PendingFacts DEF PendingNow, req
<1>5. AbstractPending(NoRequest) = Nothing
  BY DEF AbstractPending
<1>6. PendingNow' = [PendingNow EXCEPT ![c] = Nothing]
  BY <1>1, <1>2, <1>5, RequestStep
<1>7. AnswerNow' = [AnswerNow EXCEPT ![c] = [of |-> PendingNow[c].of,
                                             refused |-> FALSE,
                                             intact |-> shown]]
  <2>1. AbstractAnswer(Listing(req)) = [of |-> req.gv, refused |-> FALSE,
                                        intact |-> shown]
    BY <1>3, AnswerTable
  <2>2. AnswerNow' = [AnswerNow EXCEPT ![c] = AbstractAnswer(Listing(req))]
    BY <1>1, <1>2, ReplyStep
  <2> QED
    BY <1>4, <2>1, <2>2
<1>8. /\ shown \in SUBSET (1 .. SizeNow[PendingNow[c].of])
      /\ 1 .. PendingNow[c].floor \subseteq shown
  <2>1. SizeNow[PendingNow[c].of] = Len(Catalog[req.gv])
    BY <1>3, <1>4 DEF SizeNow
  <2>2. Len(Catalog[req.gv]) \in Nat
    BY <1>3, CatalogAssumption
  <2>3. ASSUME NEW i \in shown
        PROVE  i \in 1 .. Len(Catalog[req.gv])
    <3>1. i \in DOMAIN Listing(req).items /\ i <= Len(Catalog[req.gv])
      BY <1>3 DEF Intact
    <3>2. i \in Nat \ {0}
      BY <1>3, <3>1 DEF Reply, Items
    <3> QED
      BY <2>2, <3>1, <3>2
  <2>4. 1 .. req.handler.count \subseteq shown
    BY <1>3 DEF ListingOK
  <2> QED
    BY <1>4, <2>1, <2>3, <2>4
<1> HIDE DEF shown
<1> QED
  BY <1>2, <1>4, <1>6, <1>7, <1>8
  DEF Service!List, FloorNow, PendingNow, AnswerNow, SizeNow

(* Documents, refused groups and /api: the client learns what is           *)
(* advertised, if anything.                                                *)
LEMMA DocumentMaps ==
  ASSUME ServiceInv, NEW c \in Clients,
         \/ \E g \in Groups : ServeGroup(c, g)
         \/ ServeAPIVersions(c)
         \/ ServeAggregated(c)
  PROVE  Service!Learn(c)
<1>1. /\ TypeOK /\ request[c] = NoRequest
      /\ UNCHANGED <<FloorNow, Advertised, PendingNow>>
  BY DEF ServiceInv, ProcessInv, ServeGroup, ServeAPIVersions, ServeAggregated,
         Ready, tableVars, FloorNow, Advertised, NamedIn, PendingNow
<1>2. PendingNow[c] = Nothing
  BY <1>1 DEF PendingNow, AbstractPending
<1>3. AnswerNow' = [AnswerNow EXCEPT ![c] = Nothing]
  <2>1. PICK x : reply' = [reply EXCEPT ![c] = x]
                 /\ x.kind \notin {"versionNotFound", "listing"}
    <3>1. \A g : /\ Answer("groupNotFound", g).kind = "groupNotFound"
                 /\ Answer("group", g).kind = "group"
                 /\ Answer("apiVersions", g).kind = "apiVersions"
                 /\ Answer("aggregated", g).kind = "aggregated"
      BY DEF Answer
    <3> QED
      BY <3>1 DEF ServeGroup, ServeAPIVersions, ServeAggregated
  <2>2. AbstractAnswer(x) = Nothing
    BY <2>1, AnswerTable
  <2> QED
    BY <1>1, <2>1, <2>2, ReplyStep
<1>4. \E shown \in SUBSET Advertised :
        learned' = [learned EXCEPT ![c] = @ \cup shown]
  <2>1. learned = [learned EXCEPT ![c] = @ \cup {}]
    BY <1>1 DEF TypeOK
  <2>2. CASE UNCHANGED learned
    BY <2>1, <2>2
  <2>3. ASSUME NEW g \in Groups, learned' = [learned EXCEPT ![c] =
                 @ \cup {groupDiscovery[g][i] : i \in DOMAIN groupDiscovery[g]}]
        PROVE  \E shown \in SUBSET Advertised :
                 learned' = [learned EXCEPT ![c] = @ \cup shown]
    <3>1. NamedIn(g) \in SUBSET Advertised
      BY DEF Advertised
    <3> QED
      BY <2>3, <3>1 DEF NamedIn
  <2>4. CASE learned' = [learned EXCEPT ![c] = @ \cup aggregated]
    <3>1. aggregated \in SUBSET Advertised
      BY DEF Advertised
    <3> QED
      BY <2>4, <3>1
  <2> QED
    BY <2>2, <2>3, <2>4 DEF ServeGroup, ServeAPIVersions, ServeAggregated
<1> QED
  BY <1>1, <1>2, <1>3, <1>4 DEF Service!Learn, FloorNow, PendingNow, AnswerNow

LEMMA FaultMaps ==
  ASSUME ServiceInv, NEW c \in Clients, FaultOnStray(c)
  PROVE  Service!Die
<1>1. /\ UNCHANGED <<FloorNow, Advertised, AnswerNow, learned>>
      /\ request' = [d \in Clients |-> NoRequest]
  BY DEF FaultOnStray, tableVars, FloorNow, Advertised, NamedIn, AnswerNow
<1>2. PendingNow' = [d \in Clients |-> Nothing]
  BY <1>1 DEF PendingNow, AbstractPending
<1> QED
  BY <1>1, <1>2 DEF Service!Die, FloorNow, PendingNow, AnswerNow

LEMMA ServiceNext == ServiceInv /\ [Next]_vars => [Service!Next]_(Service!vars)
<1> SUFFICES ASSUME ServiceInv, [Next]_vars
             PROVE  [Service!Next]_(Service!vars)
  OBVIOUS
<1>1. CASE SetVersionDiscovery
  <2>1. cur \in GroupVersions
    BY <1>1 DEF SetVersionDiscovery, ServiceInv, ProcessInv, WorkerInv,
                InIteration
  <2>2. Service!Rebuild(cur) \/ Service!Extend(cur)
    BY <1>1, SetVersionMaps
  <2>3. \E gv \in GroupVersions : Service!Rebuild(gv) \/ Service!Extend(gv)
    BY <2>1, <2>2 DEF Service!Rebuild, Service!Extend
  <2> QED
    BY <2>3 DEF Service!Next
<1>2. CASE SetGroupDiscovery \/ AddGroupVersion
  <2>1. cur \in GroupVersions
    BY <1>2 DEF SetGroupDiscovery, AddGroupVersion, ServiceInv, ProcessInv,
                WorkerInv, InIteration
  <2> QED
    BY <1>2, <2>1, AdvertiseMaps DEF Service!Next
<1>3. CASE UNCHANGED <<versionDiscovery, groupDiscovery, aggregated, request,
                       reply, learned>>
  BY <1>3, Stutters
<1>4. ASSUME NEW c \in Clients, Client(c)
      PROVE  [Service!Next]_(Service!vars)
  <2>1. ASSUME NEW gv \in GroupVersions, ServeVersion(c, gv)
        PROVE  Service!Next
    BY <2>1, ServeVersionMaps DEF Service!Next
  <2>2. CASE LoadPtr(c) \/ LoadLen(c)
    BY <2>2, LoadStutters
  <2>3. CASE WriteListing(c)
    BY <2>3, WriteListingMaps DEF Service!Next
  <2>4. CASE FaultOnStray(c)
    BY <2>4, FaultMaps DEF Service!Next
  <2>5. CASE \/ \E g \in Groups : ServeGroup(c, g)
             \/ ServeAPIVersions(c)
             \/ ServeAggregated(c)
    BY <2>5, DocumentMaps DEF Service!Next
  <2> QED
    BY <1>4, <2>1, <2>2, <2>3, <2>4, <2>5 DEF Client, Respond
<1>5. \/ SetVersionDiscovery
      \/ SetGroupDiscovery \/ AddGroupVersion
      \/ UNCHANGED <<versionDiscovery, groupDiscovery, aggregated, request,
                     reply, learned>>
      \/ \E c \in Clients : Client(c)
  BY DEF Next, Worker, StartSync, StopWorker, BeginGroupVersion, FinishSync,
         GrowSlice, StoreLen, StoreElement, CloseStopCh, vars, tableVars,
         clientVars
<1> QED
  BY <1>1, <1>2, <1>3, <1>4, <1>5

(* Worker, slices, tables and the unsynchronised reads together keep what  *)
(* the service promises.                                                   *)
THEOREM ServiceRefinement == Safety => ImplementsService
  BY ServiceInvariance, ServiceInit, ServiceNext, PTL
  DEF Safety, ImplementsService, Service!Spec
=============================================================================
