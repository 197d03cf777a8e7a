------------------------------- MODULE Gateway -------------------------------
(***************************************************************************)
(* The life of a request in the gateway: resourceHandler.ServeHTTP sends   *)
(* it to a managed cluster through the cluster proxy, to one of the two    *)
(* discovery handlers, to the search backend, or answers it itself.        *)
(*                                                                         *)
(* A proxied request needs the token of the cluster's managed service      *)
(* account, which Proxy reads from the hub in two separate GETs, the       *)
(* ManagedServiceAccount and then the Secret it names, while the hub's     *)
(* controllers create, rotate and delete both.  Around the handler stand   *)
(* two filters of the generic API server.  One logs a panic and panics     *)
(* again, so that the client's connection is dropped without an answer.    *)
(* The other answers for a handler that takes too long and drops whatever  *)
(* that handler writes afterwards.  Each proxied request dials a           *)
(* connection of its own, which stays behind when the request is done.     *)
(***************************************************************************)
EXTENDS Naturals, Sequences

CONSTANTS
    Requests,     \* the requests
    Clusters,     \* the managed clusters
    MaxWrites,    \* bound: how often each cluster's token is written
    None,         \* no secret, no token
    Tokenless     \* a secret without a "token" entry

ASSUME GatewayAssumption ==
    /\ MaxWrites \in Nat \ {0}
    /\ None # Tokenless

VARIABLES
    msa,       \* msa[cl]: the ManagedServiceAccount "fleet-gateway" of cl
    secret,    \* secret[cl]: the content of the secret its status names
    version,   \* version[cl]: how many tokens were written for cl
    pc,        \* pc[r]: where the handler of r is
    target,    \* target[r]: what ServeHTTP reads off the request
    token,     \* token[r]: what Proxy puts into the Authorization header
    answers,   \* answers[r]: the answers begun to the client
    timedOut,  \* the requests the timeout filter has ended
    conn,      \* conn[r]: the connection Proxy made for r
    oldest,    \* history: the oldest token r's cluster had since r came in
    steady     \* history: r's cluster had a ready account and a token,
               \* and the hub answered, since r was received

hubVars == <<msa, secret, version>>
handlerVars == <<pc, target, token, answers, timedOut, conn>>
vars == <<hubVars, handlerVars, oldest, steady>>
-----------------------------------------------------------------------------
(* What ServeHTTP tells apart.  The server's mux hands it the paths under  *)
(* /api, /apis/ and /clusters/, the filters before it attach a RequestInfo *)
(* to every request.  A path that names no resource is known by its first  *)
(* segment and its length; longer ones under /api and /apis name a         *)
(* resource, and /clusters/ without a cluster is not proxied.  `known'     *)
(* says whether the discovery table has the path's version or group, which *)
(* is module Discovery's subject.  A resource request may have an empty    *)
(* resource ("/api/v1//x"), a verb and a subresource.                      *)
ProxyTargets == [kind : {"proxy"}, cluster : Clusters]
PathTargets == {t \in [kind : {"path"}, first : {"api", "apis", "clusters"},
                       parts : 1 .. 4, known : BOOLEAN] :
                  /\ t.first = "api" => t.parts <= 2
                  /\ t.first = "apis" => t.parts <= 3
                  /\ t.first = "clusters" => ~t.known}
ResourceTargets == [kind : {"resource"}, named : BOOLEAN,
                    verb : {"list", "other"}, subresource : BOOLEAN]
Targets == ProxyTargets \cup PathTargets \cup ResourceTargets
NoTarget == [kind |-> "none"]

Token == [cluster : Clusters, version : 1 .. MaxWrites]
Proxying == {"getMSA", "getSecret", "upstream", "relay"}
Active == Proxying \cup {"serve", "search"}
Ended == {"done", "aborted"}
Answers == {"badRequest", "notAcceptable", "internalError", "badGateway",
            "gatewayTimeout", "notFound", "notAllowed", "upstream", "version",
            "group", "apiVersions", "list"}

Proxied(r, cl) == pc[r] \in Proxying \cup {"serve"}
                  /\ target[r].kind = "proxy" /\ target[r].cluster = cl
Steady(cl) == msa[cl] = "ready" /\ secret[cl] \notin {None, Tokenless}

Init ==
    /\ msa = [cl \in Clusters |-> "absent"]
    /\ secret = [cl \in Clusters |-> None]
    /\ version = [cl \in Clusters |-> 0]
    /\ pc = [r \in Requests |-> "idle"]
    /\ target = [r \in Requests |-> NoTarget]
    /\ token = [r \in Requests |-> None]
    /\ answers = [r \in Requests |-> << >>]
    /\ timedOut = {}
    /\ conn = [r \in Requests |-> "none"]
    /\ oldest = [r \in Requests |-> 0]
    /\ steady = [r \in Requests |-> FALSE]
-----------------------------------------------------------------------------
(* The hub, external.  Each write is one request to its API server.        *)
HubWrites(cl) ==
    \/ /\ msa[cl] = "absent"
       /\ msa' = [msa EXCEPT ![cl] = "pending"]   \* created, no status yet
       /\ UNCHANGED <<secret, version>>
    \/ /\ msa[cl] # "absent"
       /\ secret[cl] = None
       /\ secret' = [secret EXCEPT ![cl] = Tokenless]
       /\ UNCHANGED <<msa, version>>
    \/ /\ msa[cl] # "absent"                      \* first token, or rotation
       /\ version[cl] < MaxWrites
       /\ version' = [version EXCEPT ![cl] = @ + 1]
       /\ secret' = [secret EXCEPT
            ![cl] = [cluster |-> cl, version |-> version[cl] + 1]]
       /\ UNCHANGED msa
    \/ /\ msa[cl] = "pending"
       /\ secret[cl] # None
       /\ msa' = [msa EXCEPT ![cl] = "ready"]     \* TokenSecretRef is set
       /\ UNCHANGED <<secret, version>>
    \/ /\ msa[cl] # "absent"
       /\ msa' = [msa EXCEPT ![cl] = "absent"]
       /\ UNCHANGED <<secret, version>>
    \/ /\ secret[cl] # None
       /\ secret' = [secret EXCEPT ![cl] = None]
       /\ UNCHANGED <<msa, version>>

HubStep(cl) ==
    /\ HubWrites(cl)
    /\ steady' = [r \in Requests |->
         steady[r] /\ (Proxied(r, cl) => Steady(cl)')]
    /\ UNCHANGED <<handlerVars, oldest>>
-----------------------------------------------------------------------------
Receive(r, t) ==
    /\ pc[r] = "idle"
    /\ pc' = [pc EXCEPT ![r] = "serve"]
    /\ target' = [target EXCEPT ![r] = t]
    /\ oldest' = [oldest EXCEPT ![r] =
         IF t.kind # "proxy" THEN 0
         ELSE IF secret[t.cluster] \in Token THEN version[t.cluster]
         ELSE version[t.cluster] + 1]
    /\ steady' = [steady EXCEPT ![r] = t.kind = "proxy" /\ Steady(t.cluster)]
    /\ UNCHANGED <<hubVars, token, answers, timedOut, conn>>

Goto(r, label) ==
    /\ pc' = [pc EXCEPT ![r] = label]
    /\ UNCHANGED <<answers>>

(* The handler writes an answer and goes on at label; after the timeout    *)
(* filter has answered, writes go nowhere.                                 *)
Write(r, answer, label) ==
    /\ answers' = [answers EXCEPT
         ![r] = IF r \in timedOut THEN @ ELSE Append(@, answer)]
    /\ pc' = [pc EXCEPT ![r] = label]
Respond(r, answer) == Write(r, answer, "done")

(* The handler panics.  The timeout filter hands the panic on, unless it   *)
(* has answered before: then it logs it.  The panic filter writes an error *)
(* into the server's buffer and panics again (HandleCrash), and the server *)
(* drops the connection before any of the buffer is sent.                  *)
Panic(r) == Goto(r, IF r \in timedOut THEN "done" ELSE "aborted")

(* The two discovery handlers, each with the path check of its own; the    *)
(* delegate, which they fall back to, finds nothing.                       *)
VersionHandler(t) ==
    IF t.known /\ \/ t.parts = 2 /\ t.first = "api"
                  \/ t.parts = 3 /\ t.first = "apis"
    THEN "version" ELSE "notFound"
GroupHandler(t) ==
    CASE t.parts = 1 /\ t.first = "api" -> "apiVersions"
      [] t.parts = 2 /\ t.first = "apis" /\ t.known -> "group"
      [] OTHER -> "notFound"

(* A variant of PathAnswer that sends every two-segment path to groups.   *)
PathAnswerByLength(t) ==
    IF t.parts = 3 THEN VersionHandler(t) ELSE GroupHandler(t)

(* ServeHTTP's choice of a discovery handler for a path of no resource.    *)
PathAnswer(t) ==
    CASE t.parts = 3 -> VersionHandler(t)
      [] t.parts = 2 /\ t.first = "apis" -> GroupHandler(t)
      [] t.parts = 2 /\ t.first # "apis" -> VersionHandler(t)
      [] t.parts = 1 -> GroupHandler(t)
      [] OTHER -> "notFound"

ServeHTTP(r) ==
    /\ pc[r] = "serve"
    /\ LET t == target[r] IN
       \/ t.kind = "proxy" /\ Goto(r, "getMSA")
       \/ t.kind = "path" /\ Respond(r, PathAnswer(t))
       \/ t.kind = "resource" /\ ~t.named /\ Respond(r, "internalError")
       \/ /\ t.kind = "resource" /\ t.named
          /\ \/ t.subresource /\ Respond(r, "notFound")
             \/ ~t.subresource /\ t.verb = "list" /\ Goto(r, "search")
             \/ ~t.subresource /\ t.verb # "list" /\ Respond(r, "notAllowed")
    /\ UNCHANGED <<hubVars, target, token, timedOut, conn, oldest, steady>>

(* The list handler refuses the options or the media type, the backend     *)
(* fails, or there is a list; a field selector panics in the handler, and  *)
(* an item that lacks a field in a type assertion of searchClient.List.    *)
Search(r) ==
    /\ pc[r] = "search"
    /\ \/ \E a \in {"badRequest", "notAcceptable", "internalError", "list"} :
            Respond(r, a)
       \/ Panic(r)
    /\ UNCHANGED <<hubVars, target, token, timedOut, conn, oldest, steady>>

(* The hub refuses a read or cannot be reached: Proxy returns the error    *)
(* and ServeHTTP answers "bad request".                                    *)
HubFails(r) ==
    /\ pc[r] \in {"getMSA", "getSecret"}
    /\ Respond(r, "badRequest")
    /\ steady' = [steady EXCEPT ![r] = FALSE]
    /\ UNCHANGED <<hubVars, target, token, timedOut, conn, oldest>>

(* The first read.  An account without a status has no TokenSecretRef:     *)
(* reading its name dereferences nil.                                      *)
GetMSA(r) ==
    /\ pc[r] = "getMSA"
    /\ LET account == msa[target[r].cluster] IN
       \/ account = "absent" /\ Respond(r, "badRequest")
       \/ account = "pending" /\ Panic(r)
       \/ account = "ready" /\ Goto(r, "getSecret")
    /\ UNCHANGED <<hubVars, target, token, timedOut, conn, oldest, steady>>

(* The second read; the name comes from the first, so the secret may have  *)
(* been rotated, or deleted together with its account, in between.  With   *)
(* one of the usable tokens Proxy sends the request to the cluster proxy,  *)
(* through a transport, and so over a connection, that it made for it.     *)
SendWith(r, usable) ==
    /\ pc[r] = "getSecret"
    /\ \/ /\ usable = {}
          /\ Respond(r, "badRequest")
          /\ UNCHANGED <<token, conn>>
       \/ /\ \E t \in usable : token' = [token EXCEPT ![r] = t]
          /\ conn' = [conn EXCEPT ![r] = "open"]
          /\ Goto(r, "upstream")
    /\ UNCHANGED <<hubVars, target, timedOut, oldest, steady>>

Usable(r) == {secret[target[r].cluster]} \ {None, Tokenless}

(* Variants of GetSecret: with a cache of tokens that rotation does not    *)
(* clear, taking a missing entry for a token, remembering failures.        *)
GetSecretCached(r) ==
    SendWith(r, IF Usable(r) = {} THEN {} ELSE
                Usable(r) \cup {token[q] : q \in
                  {q \in Requests : token[q] # None
                     /\ token[q].cluster = target[r].cluster}})
GetSecretUnchecked(r) == SendWith(r, {secret[target[r].cluster]} \ {None})
GetSecretNegativeCache(r) ==
    SendWith(r, IF \E q \in Requests : target[q] = target[r]
                     /\ answers[q] = <<"badRequest">>
                THEN {} ELSE Usable(r))

GetSecret(r) == SendWith(r, Usable(r))

(* The reverse proxy begins to relay the upstream's answer.                *)
UpstreamBegins(r) ==
    /\ pc[r] = "upstream"
    /\ Write(r, "upstream", "relay")
    /\ UNCHANGED <<hubVars, target, token, timedOut, conn, oldest, steady>>

(* The answer is complete, which a watch or a log never is; its connection *)
(* becomes an idle one of a transport that nobody will use again.          *)
UpstreamEnds(r) ==
    /\ pc[r] = "relay"
    /\ Goto(r, "done")
    /\ conn' = [conn EXCEPT ![r] = "idle"]
    /\ UNCHANGED <<hubVars, target, token, timedOut, oldest, steady>>

(* Variants of UpstreamFails: the error handler answers on top of an       *)
(* answer that was begun; cancellation is not noticed while relaying.      *)
UpstreamFailsTwice(r) ==
    /\ pc[r] \in {"upstream", "relay"}
    /\ Respond(r, "badGateway")
    /\ conn' = [conn EXCEPT ![r] = "closed"]
    /\ UNCHANGED <<hubVars, target, token, timedOut, oldest, steady>>
UpstreamFailsEarly(r) == pc[r] = "upstream" /\ UpstreamFailsTwice(r)

(* The upstream cannot be reached, breaks off, or the request's context is *)
(* done: the ErrorHandler answers, or an answer that was begun is cut.     *)
UpstreamFails(r) ==
    /\ \/ pc[r] = "upstream" /\ Respond(r, "badGateway")
       \/ pc[r] = "relay" /\ Goto(r, "done")
    /\ conn' = [conn EXCEPT ![r] = "closed"]
    /\ UNCHANGED <<hubVars, target, token, timedOut, oldest, steady>>

(* A variant of IdleExpires for a transport without IdleConnTimeout.       *)
IdleExpiresNever(r) == FALSE /\ UNCHANGED vars

(* The transport's IdleConnTimeout.                                        *)
IdleExpires(r) ==
    /\ conn[r] = "idle"
    /\ conn' = [conn EXCEPT ![r] = "closed"]
    /\ UNCHANGED <<hubVars, pc, target, token, answers, timedOut, oldest, steady>>

EndTime(r) ==
    /\ r \notin timedOut
    /\ timedOut' = timedOut \cup {r}
    /\ answers' = [answers EXCEPT
         ![r] = IF @ = << >> THEN Append(@, "gatewayTimeout") ELSE @]
    /\ UNCHANGED <<hubVars, pc, target, token, conn, oldest, steady>>

(* A variant of Timeout that takes proxied requests for long-running ones. *)
TimeoutSparingProxied(r) == pc[r] \in Active \ Proxying /\ EndTime(r)

(* The request's context is done: its time is up, or its client is gone.   *)
(* To the filter no proxied path is long-running, also not a watch.  It    *)
(* answers, or breaks the connection of an answer that was begun.  The     *)
(* handler goes on: its reads of the hub use context.TODO(), and only its  *)
(* calls of the backend and of the upstream notice.                        *)
Timeout(r) == pc[r] \in Active /\ EndTime(r)

Handle(r) == ServeHTTP(r) \/ Search(r) \/ GetMSA(r) \/ GetSecret(r)
             \/ HubFails(r) \/ UpstreamBegins(r) \/ UpstreamEnds(r)
             \/ UpstreamFails(r) \/ IdleExpires(r)
Cancelled(r) == r \in timedOut /\ (Search(r) \/ UpstreamFails(r))

Next ==
    \/ \E cl \in Clusters : HubStep(cl)
    \/ \E r \in Requests :
         \/ \E t \in Targets : Receive(r, t)
         \/ Handle(r)
         \/ Timeout(r)

Safety == Init /\ [][Next]_vars

(* The scheduler runs ServeHTTP, the timers of the filter and of the       *)
(* transports fire, and calls that were given the request's context end    *)
(* when it is done.  Nothing is assumed of the hub, the search backend and *)
(* the proxied clusters: their calls may never return.                     *)
Spec == Safety /\ \A r \in Requests :
          /\ WF_vars(ServeHTTP(r)) /\ WF_vars(Timeout(r))
          /\ WF_vars(Cancelled(r)) /\ WF_vars(IdleExpires(r))
-----------------------------------------------------------------------------
(* Every variable keeps its type; a request carries no token or a real one *)
(* (secret.Data["token"] is checked before it is used, proxy line 119).    *)
TypeOK ==
    /\ msa \in [Clusters -> {"absent", "pending", "ready"}]
    /\ secret \in [Clusters -> Token \cup {None, Tokenless}]
    /\ version \in [Clusters -> 0 .. MaxWrites]
    /\ pc \in [Requests -> Active \cup Ended \cup {"idle"}]
    /\ target \in [Requests -> Targets \cup {NoTarget}]
    /\ token \in [Requests -> Token \cup {None}]
    /\ answers \in [Requests -> Seq(Answers)]
    /\ timedOut \subseteq Requests
    /\ conn \in [Requests -> {"none", "open", "idle", "closed"}]
    /\ oldest \in [Requests -> 0 .. MaxWrites + 1]
    /\ steady \in [Requests -> BOOLEAN]

(* However the branches, the error handler, the panics and the timeout     *)
(* race, no second answer is begun.  A handler that relays or has ended    *)
(* has left its client exactly one, unless it panicked in time: then there *)
(* is none and the connection is dropped, which the panics of a proxied    *)
(* request and of a resource request do, and no late panic does.           *)
OneAnswerUnlessPanic ==
    \A r \in Requests :
        /\ Len(answers[r]) <= 1
        /\ pc[r] \in {"relay", "done"} => Len(answers[r]) = 1
        /\ pc[r] = "aborted" => /\ answers[r] = << >>
                                /\ r \notin timedOut
                                /\ target[r].kind \in {"proxy", "resource"}

(* A request never leaves for a cluster with a token of another cluster,   *)
(* nor with one that was rotated away before the request came in.          *)
TokenHeldDuringRequest ==
    \A r \in Requests : conn[r] = "open" =>
        token[r].cluster = target[r].cluster /\ token[r].version >= oldest[r]

(* A cluster whose account and token were in place all the while the       *)
(* request was handled is asked: the gateway refuses a proxied request, or *)
(* panics over it (proxy line 114), only for the hub's state.              *)
SteadyClusterIsReached ==
    \A r \in Requests : (pc[r] \in Ended /\ steady[r]) =>
        answers[r] \in {<<"upstream">>, <<"badGateway">>, <<"gatewayTimeout">>}

(* `only match /apis/<group>/<version>', `only match /apis/<group>':       *)
(* between them the checks of ServeHTTP and of the two discovery handlers  *)
(* answer a known version's path and a known group's path with that        *)
(* version or group, /api with the core versions, and nothing else.        *)
TableOwnsPath ==
    \A r \in Requests :
      (pc[r] = "done" /\ target[r].kind = "path" /\ r \notin timedOut) =>
        LET t == target[r]
            at == <<t.first, t.parts>>
        IN  /\ answers[r] = <<"version">> <=>
                 t.known /\ at \in {<<"api", 2>>, <<"apis", 3>>}
            /\ answers[r] = <<"group">> <=> t.known /\ at = <<"apis", 2>>
            /\ answers[r] = <<"apiVersions">> <=> at = <<"api", 1>>

(* No client waits for ever, even if the hub, the search backend or the    *)
(* proxied cluster never answers the gateway: each gets an answer or, when *)
(* the handler panics, sees its connection dropped.                        *)
NoClientLeftWaiting ==
    \A r \in Requests :
        pc[r] = "serve" ~> answers[r] # << >> \/ pc[r] = "aborted"

(* A watch, log or exec that the upstream never ends, or a backend that is *)
(* silent, does not hold a handler for ever.  (A silent hub does: its      *)
(* reads use a context that is never done.)                                *)
CancellationEndsHandlers ==
    \A r \in Requests :
        pc[r] \in {"search", "upstream", "relay"} ~> pc[r] \in Ended

(* The connection of every proxied request is closed in the end, although  *)
(* no transport is used twice and none is told to close its idle ones.     *)
ConnectionsClosed ==
    \A r \in Requests : conn[r] = "open" ~> conn[r] = "closed"
=============================================================================
