---------------------------- MODULE GatewayProofs ----------------------------
(***************************************************************************)
(* Proofs about the life of a request, for every number of requests and of *)
(* clusters and every number of token writes.                              *)
(***************************************************************************)
EXTENDS Gateway, Integers, TLAPS

USE DEF Ended

(* The secret of a cluster holds the newest of its tokens, if any.         *)
Held(cl) == secret[cl] \notin {None, Tokenless}
HubInv ==
    \A cl \in Clusters :
        Held(cl) => secret[cl] = [cluster |-> cl, version |-> version[cl]]

(* Before the handler has begun an answer there is none but the timeout    *)
(* filter's; when it has, or has ended, there is exactly one, unless it    *)
(* panicked before that filter answered.                                   *)
AnswerOK(r) ==
    /\ pc[r] \in {"idle", "aborted"} => r \notin timedOut
    /\ pc[r] \in {"relay", "done"} => \E a \in Answers : answers[r] = <<a>>
    /\ pc[r] \notin {"relay", "done"} =>
         answers[r] = IF r \in timedOut THEN <<"gatewayTimeout">> ELSE << >>

(* The branch of ServeHTTP that a handler is in fits its request.          *)
BranchOK(r) ==
    /\ pc[r] # "idle" => target[r] \in Targets
    /\ pc[r] \in Proxying => target[r].kind = "proxy"
    /\ pc[r] = "search" => target[r].kind = "resource"
    /\ pc[r] = "aborted" => target[r].kind \in {"proxy", "resource"}

(* The connection is open from the request to the upstream to the end of   *)
(* the answer, and for no other handler.                                   *)
ConnOK(r) ==
    /\ pc[r] = "idle" => conn[r] = "none"
    /\ conn[r] = "open" <=> pc[r] \in {"upstream", "relay"}

(* While the secret is still to be read, what it holds or will hold next   *)
(* is not older than the request; once it was read, the token is that.     *)
TokenOK(r) ==
    /\ (pc[r] \in {"serve", "getMSA", "getSecret"} /\ target[r].kind = "proxy") =>
         LET cl == target[r].cluster IN
         oldest[r] <= IF Held(cl) THEN version[cl] ELSE version[cl] + 1
    /\ conn[r] = "open" =>
         /\ token[r] \in Token
         /\ token[r].cluster = target[r].cluster
         /\ token[r].version >= oldest[r]

(* The history variable steady tells the truth as long as the handler may  *)
(* look at the hub, and a handler that is not cut short then gets through. *)
SteadyOK(r) ==
    steady[r] =>
        /\ pc[r] \notin {"idle", "aborted"}
        /\ target[r].kind = "proxy"
        /\ pc[r] \in Proxying \cup {"serve"} => Steady(target[r].cluster)
        /\ pc[r] \in {"relay", "done"} =>
             answers[r][1] \in {"upstream", "badGateway", "gatewayTimeout"}

PathOK(r) ==
    (pc[r] = "done" /\ target[r].kind = "path" /\ r \notin timedOut) =>
        answers[r] = <<PathAnswer(target[r])>>

RequestOK(r) ==
    /\ AnswerOK(r)
    /\ BranchOK(r)
    /\ ConnOK(r)
    /\ TokenOK(r)
    /\ SteadyOK(r)
    /\ PathOK(r)

IInv ==
    /\ TypeOK
    /\ HubInv
    /\ \A r \in Requests : RequestOK(r)
-----------------------------------------------------------------------------
(* Before any request there is nothing to hold of it.                      *)
LEMMA InitInv == Init => IInv
<1> SUFFICES ASSUME Init PROVE IInv
  OBVIOUS
<1>1. TypeOK
  <2>1. answers \in [Requests -> Seq(Answers)]
    BY DEF Init
  <2>2. steady \in [Requests -> BOOLEAN]
    BY Zenon DEF Init
  <2> QED
    BY <2>1, <2>2, GatewayAssumption DEF Init, TypeOK
<1>2. HubInv
  BY DEF Init, HubInv, Held
<1>3. ASSUME NEW r \in Requests PROVE RequestOK(r)
  <2>1. pc[r] = "idle" /\ r \notin timedOut /\ answers[r] = << >>
    BY DEF Init
  <2>2. conn[r] = "none" /\ ~steady[r]
    BY DEF Init
  <2> QED
    BY <2>1, <2>2 DEF RequestOK, AnswerOK, BranchOK, ConnOK, TokenOK,
                      SteadyOK, PathOK, Proxying
<1> QED
  BY <1>1, <1>2, <1>3 DEF IInv

(* What is known of a request stays known as long as neither it nor the    *)
(* hub changes: the requests an action is not about need no more.          *)
Untouched(q) ==
    /\ pc'[q] = pc[q]
    /\ target'[q] = target[q]
    /\ token'[q] = token[q]
    /\ answers'[q] = answers[q]
    /\ q \in timedOut' <=> q \in timedOut
    /\ conn'[q] = conn[q]
    /\ oldest'[q] = oldest[q]
    /\ steady'[q] = steady[q]

LEMMA UntouchedOK ==
  ASSUME NEW q \in Requests, RequestOK(q), Untouched(q), UNCHANGED hubVars
  PROVE  RequestOK(q)'
<1> USE DEF Untouched, RequestOK, hubVars
<1>1. AnswerOK(q)'
  BY DEF AnswerOK
<1>2. BranchOK(q)' /\ ConnOK(q)'
  BY DEF BranchOK, ConnOK
<1>3. TokenOK(q)'
  BY DEF TokenOK, Held
<1>4. SteadyOK(q)'
  BY DEF SteadyOK, Steady
<1>5. PathOK(q)'
  BY DEF PathOK, PathAnswer, VersionHandler, GroupHandler
<1> QED
  BY <1>1, <1>2, <1>3, <1>4, <1>5

(* A handler that has not begun its answer and writes one leaves its       *)
(* client that answer or, too late, the timeout filter's.                  *)
LEMMA WriteFacts ==
  ASSUME IInv, NEW r \in Requests, NEW a \in Answers,
         NEW label \in Active \cup Ended \cup {"idle"},
         pc[r] \notin {"idle", "relay", "done"}, Write(r, a, label)
  PROVE  /\ pc' \in [Requests -> Active \cup Ended \cup {"idle"}]
         /\ pc'[r] = label
         /\ answers' \in [Requests -> Seq(Answers)]
         /\ answers'[r] = IF r \in timedOut THEN <<"gatewayTimeout">> ELSE <<a>>
         /\ \A q \in Requests \ {r} : pc'[q] = pc[q] /\ answers'[q] = answers[q]
<1>1. /\ pc \in [Requests -> Active \cup Ended \cup {"idle"}]
      /\ answers \in [Requests -> Seq(Answers)]
  BY DEF IInv, TypeOK
<1>2. answers[r] = IF r \in timedOut THEN <<"gatewayTimeout">> ELSE << >>
  BY DEF IInv, RequestOK, AnswerOK
<1>3. /\ pc' = [pc EXCEPT ![r] = label]
      /\ answers' = [answers EXCEPT
           ![r] = IF r \in timedOut THEN answers[r] ELSE Append(answers[r], a)]
  BY DEF Write
<1>4. Append(<< >>, a) = <<a>> /\ <<a>> \in Seq(Answers)
  OBVIOUS
<1>5. (IF r \in timedOut THEN answers[r] ELSE Append(answers[r], a))
        = IF r \in timedOut THEN <<"gatewayTimeout">> ELSE <<a>>
  BY <1>2, <1>4
<1>6. <<"gatewayTimeout">> \in Seq(Answers)
  BY DEF Answers
<1> QED
  BY <1>1, <1>3, <1>4, <1>5, <1>6

(* The same for a handler that goes on without an answer.                  *)
LEMMA GotoFacts ==
  ASSUME IInv, NEW r \in Requests,
         NEW label \in Active \cup Ended \cup {"idle"}, Goto(r, label)
  PROVE  /\ pc' \in [Requests -> Active \cup Ended \cup {"idle"}]
         /\ pc'[r] = label
         /\ answers' = answers
         /\ \A q \in Requests \ {r} : pc'[q] = pc[q]
BY DEF IInv, TypeOK, Goto

(* Every answer of ServeHTTP to a path is one of the answers there are.    *)
LEMMA PathAnswerType == \A t : PathAnswer(t) \in Answers
BY DEF PathAnswer, VersionHandler, GroupHandler, Answers

(* A step that is about one request and leaves the hub alone preserves the *)
(* invariant when it does so for that request.                             *)
LEMMA OneRequest ==
  ASSUME IInv, NEW r \in Requests, TypeOK', UNCHANGED hubVars,
         \A q \in Requests \ {r} : Untouched(q), RequestOK(r)'
  PROVE  IInv'
<1>1. HubInv'
  BY DEF IInv, HubInv, Held, hubVars
<1>2. ASSUME NEW q \in Requests PROVE RequestOK(q)'
  <2>1. CASE q = r
    BY <2>1
  <2>2. CASE q # r
    BY <2>2, UntouchedOK DEF IInv
  <2> QED
    BY <2>1, <2>2
<1> QED
  BY <1>1, <1>2 DEF IInv
-----------------------------------------------------------------------------
(* The steps of a handler, one lemma each.                                 *)
LEMMA ReceiveInv ==
  ASSUME IInv, NEW r \in Requests, NEW t \in Targets, Receive(r, t)
  PROVE  IInv'
<1> USE DEF Receive, hubVars
<1>1. TypeOK /\ HubInv /\ RequestOK(r)
  BY DEF IInv
<1>2. oldest'[r] \in 0 .. MaxWrites + 1 /\ oldest' \in [Requests -> 0 .. MaxWrites + 1]
  <2>1. t.kind = "proxy" => t.cluster \in Clusters
    BY DEF Targets, ProxyTargets, PathTargets, ResourceTargets
  <2>2. t.kind = "proxy" => version[t.cluster] \in 0 .. MaxWrites
    BY <1>1, <2>1 DEF TypeOK
  <2> QED
    BY <1>1, <2>2, GatewayAssumption DEF TypeOK
<1>3. TypeOK'
  <2>1. steady' \in [Requests -> BOOLEAN]
    BY <1>1, Zenon DEF TypeOK
  <2> QED
    BY <1>1, <1>2, <2>1 DEF TypeOK, Active
<1>4. \A q \in Requests \ {r} : Untouched(q)
  BY <1>1 DEF Untouched, TypeOK
<1>5. /\ pc[r] = "idle" /\ pc'[r] = "serve" /\ target'[r] = t
      /\ answers[r] = << >> /\ r \notin timedOut /\ conn[r] = "none"
  BY <1>1 DEF TypeOK, RequestOK, AnswerOK, ConnOK
<1>6. AnswerOK(r)' /\ BranchOK(r)' /\ ConnOK(r)' /\ PathOK(r)'
  BY <1>5 DEF AnswerOK, BranchOK, ConnOK, PathOK, Proxying
<1>7. TokenOK(r)'
  <2>1. conn'[r] # "open"
    BY <1>5
  <2>2. CASE t.kind = "proxy"
    <3> DEFINE cl == t.cluster
    <3>1. cl \in Clusters
      BY <2>2 DEF Targets, ProxyTargets, PathTargets, ResourceTargets
    <3>2. secret[cl] \in Token \/ ~Held(cl)
      BY <1>1, <3>1 DEF TypeOK, Held
    <3>3. oldest'[r] = IF secret[cl] \in Token THEN version[cl] ELSE version[cl] + 1
      BY <1>1, <2>2 DEF TypeOK
    <3>4. version[cl] \in Nat
      BY <1>1, <3>1 DEF TypeOK
    <3> QED
      BY <1>5, <2>1, <3>2, <3>3, <3>4 DEF TokenOK, Held
  <2>3. CASE t.kind # "proxy"
    BY <1>5, <2>1, <2>3 DEF TokenOK
  <2> QED
    BY <2>2, <2>3
<1>8. SteadyOK(r)'
  <2>1. steady'[r] <=> t.kind = "proxy" /\ Steady(t.cluster)
    BY <1>1, Zenon DEF TypeOK
  <2> QED
    BY <1>5, <2>1 DEF SteadyOK, Steady
<1> QED
  BY <1>3, <1>4, <1>6, <1>7, <1>8, OneRequest DEF RequestOK

(* ServeHTTP answers at once or chooses the branch that its request needs. *)
LEMMA ServeHTTPInv ==
  ASSUME IInv, NEW r \in Requests, ServeHTTP(r)
  PROVE  IInv'
<1> DEFINE t == target[r]
<1> USE DEF hubVars
<1>1. TypeOK /\ RequestOK(r) /\ pc[r] = "serve" /\ t \in Targets
  BY DEF IInv, ServeHTTP, RequestOK, BranchOK
<1>2. UNCHANGED <<hubVars, target, token, timedOut, conn, oldest, steady>>
  BY DEF ServeHTTP
<1>3. \/ t.kind = "proxy" /\ Goto(r, "getMSA")
      \/ t.kind = "resource" /\ Goto(r, "search")
      \/ t.kind # "proxy" /\ \E a \in Answers :
           Respond(r, a) /\ (t.kind = "path" => a = PathAnswer(t))
  BY PathAnswerType DEF ServeHTTP, Answers
<1>4. CASE t.kind = "proxy" /\ Goto(r, "getMSA")
  <2>1. /\ pc' \in [Requests -> Active \cup Ended \cup {"idle"}]
        /\ pc'[r] = "getMSA" /\ answers' = answers
        /\ \A q \in Requests \ {r} : pc'[q] = pc[q]
    BY <1>4, GotoFacts DEF Active, Proxying
  <2>2. TypeOK'
    BY <1>1, <1>2, <2>1 DEF TypeOK
  <2>3. \A q \in Requests \ {r} : Untouched(q)
    BY <1>2, <2>1 DEF Untouched
  <2>4. AnswerOK(r)' /\ BranchOK(r)' /\ ConnOK(r)' /\ PathOK(r)'
    BY <1>1, <1>2, <1>4, <2>1 DEF RequestOK, AnswerOK, BranchOK, ConnOK, PathOK
  <2>5. TokenOK(r)' /\ SteadyOK(r)'
    BY <1>1, <1>2, <1>4, <2>1
      DEF RequestOK, TokenOK, SteadyOK, Proxying, Held, Steady
  <2> QED
    BY <1>2, <2>2, <2>3, <2>4, <2>5, OneRequest DEF RequestOK
<1>5. CASE t.kind = "resource" /\ Goto(r, "search")
  <2>1. /\ pc' \in [Requests -> Active \cup Ended \cup {"idle"}]
        /\ pc'[r] = "search" /\ answers' = answers
        /\ \A q \in Requests \ {r} : pc'[q] = pc[q]
    BY <1>5, GotoFacts DEF Active, Proxying
  <2>2. TypeOK'
    BY <1>1, <1>2, <2>1 DEF TypeOK
  <2>3. \A q \in Requests \ {r} : Untouched(q)
    BY <1>2, <2>1 DEF Untouched
  <2>4. AnswerOK(r)' /\ BranchOK(r)' /\ ConnOK(r)' /\ PathOK(r)'
    BY <1>1, <1>2, <1>5, <2>1
      DEF RequestOK, AnswerOK, BranchOK, ConnOK, PathOK, Proxying
  <2>5. TokenOK(r)' /\ SteadyOK(r)'
    BY <1>1, <1>2, <1>5, <2>1
      DEF RequestOK, TokenOK, SteadyOK, Proxying, Held, Steady, ConnOK
  <2> QED
    BY <1>2, <2>2, <2>3, <2>4, <2>5, OneRequest DEF RequestOK
<1>6. ASSUME NEW a \in Answers, Respond(r, a), t.kind # "proxy",
             t.kind = "path" => a = PathAnswer(t)
      PROVE  IInv'
  <2>1. /\ pc' \in [Requests -> Active \cup Ended \cup {"idle"}]
        /\ pc'[r] = "done"
        /\ answers' \in [Requests -> Seq(Answers)]
        /\ answers'[r] = IF r \in timedOut THEN <<"gatewayTimeout">> ELSE <<a>>
        /\ \A q \in Requests \ {r} : pc'[q] = pc[q] /\ answers'[q] = answers[q]
    BY <1>1, <1>6, WriteFacts DEF Respond
  <2>2. TypeOK'
    BY <1>1, <1>2, <2>1 DEF TypeOK
  <2>3. \A q \in Requests \ {r} : Untouched(q)
    BY <1>2, <2>1 DEF Untouched
  <2>4. AnswerOK(r)' /\ BranchOK(r)' /\ ConnOK(r)'
    BY <1>1, <1>2, <2>1 DEF RequestOK, AnswerOK, BranchOK, ConnOK, Proxying, Answers
  <2>5. PathOK(r)'
    BY <1>1, <1>2, <1>6, <2>1 DEF PathOK
  <2>6. TokenOK(r)' /\ SteadyOK(r)'
    BY <1>1, <1>2, <1>6, <2>1 DEF RequestOK, TokenOK, SteadyOK, ConnOK
  <2> QED
    BY <1>2, <2>2, <2>3, <2>4, <2>5, <2>6, OneRequest DEF RequestOK
<1> QED
  BY <1>3, <1>4, <1>5, <1>6

(* A handler that ends with an answer of its own before it asked upstream. *)
LEMMA RespondInv ==
  ASSUME IInv, NEW r \in Requests, NEW a \in Answers,
         pc[r] \in {"search", "getMSA", "getSecret"}, Respond(r, a),
         UNCHANGED <<hubVars, target, token, timedOut, conn, oldest>>,
         steady' \in [Requests -> BOOLEAN],
         \A q \in Requests \ {r} : steady'[q] = steady[q],
         ~steady'[r]
  PROVE  IInv'
<1>1. TypeOK /\ RequestOK(r)
  BY DEF IInv
<1>2. /\ pc' \in [Requests -> Active \cup Ended \cup {"idle"}]
      /\ pc'[r] = "done"
      /\ answers' \in [Requests -> Seq(Answers)]
      /\ answers'[r] = IF r \in timedOut THEN <<"gatewayTimeout">> ELSE <<a>>
      /\ \A q \in Requests \ {r} : pc'[q] = pc[q] /\ answers'[q] = answers[q]
  BY WriteFacts DEF Respond
<1>3. TypeOK'
  BY <1>1, <1>2 DEF TypeOK, hubVars
<1>4. \A q \in Requests \ {r} : Untouched(q)
  BY <1>2 DEF Untouched
<1>5. AnswerOK(r)' /\ BranchOK(r)' /\ ConnOK(r)'
  BY <1>1, <1>2 DEF RequestOK, AnswerOK, BranchOK, ConnOK, Proxying, Answers
<1>6. PathOK(r)'
  BY <1>1, <1>2 DEF RequestOK, BranchOK, PathOK, Proxying
<1>7. TokenOK(r)' /\ SteadyOK(r)'
  BY <1>1, <1>2 DEF RequestOK, TokenOK, SteadyOK, ConnOK
<1> QED
  BY <1>3, <1>4, <1>5, <1>6, <1>7, OneRequest DEF RequestOK

(* A handler that panics leaves its client the timeout filter's answer or  *)
(* none; the cluster of a request with which this happens is not steady.   *)
LEMMA PanicInv ==
  ASSUME IInv, NEW r \in Requests,
         pc[r] \in {"search", "getMSA"}, Panic(r), ~steady[r],
         UNCHANGED <<hubVars, target, token, timedOut, conn, oldest, steady>>
  PROVE  IInv'
<1>1. TypeOK /\ RequestOK(r)
  BY DEF IInv
<1>2. /\ pc' \in [Requests -> Active \cup Ended \cup {"idle"}]
      /\ pc'[r] = IF r \in timedOut THEN "done" ELSE "aborted"
      /\ answers' = answers
      /\ \A q \in Requests \ {r} : pc'[q] = pc[q]
  BY GotoFacts DEF Panic
<1>3. answers[r] = IF r \in timedOut THEN <<"gatewayTimeout">> ELSE << >>
  BY <1>1 DEF RequestOK, AnswerOK
<1>4. TypeOK'
  BY <1>1, <1>2 DEF TypeOK, hubVars
<1>5. \A q \in Requests \ {r} : Untouched(q)
  BY <1>2 DEF Untouched
<1>6. AnswerOK(r)'
  BY <1>2, <1>3 DEF AnswerOK, Answers
<1>7. BranchOK(r)' /\ ConnOK(r)' /\ PathOK(r)'
  BY <1>1, <1>2 DEF RequestOK, BranchOK, ConnOK, PathOK, Proxying
<1>8. TokenOK(r)' /\ SteadyOK(r)'
  BY <1>1, <1>2 DEF RequestOK, TokenOK, SteadyOK, ConnOK
<1> QED
  BY <1>4, <1>5, <1>6, <1>7, <1>8, OneRequest DEF RequestOK

LEMMA SearchInv ==
  ASSUME IInv, NEW r \in Requests, Search(r)
  PROVE  IInv'
<1>1. \/ \E a \in Answers : Respond(r, a)
      \/ Panic(r)
  BY DEF Search, Answers
<1>2. pc[r] = "search" /\ UNCHANGED <<hubVars, target, token, timedOut, conn, oldest, steady>>
  BY DEF Search
<1>3. steady \in [Requests -> BOOLEAN] /\ ~steady[r]
  BY <1>2 DEF IInv, TypeOK, RequestOK, SteadyOK, BranchOK
<1> QED
  BY <1>1, <1>2, <1>3, RespondInv, PanicInv

LEMMA HubFailsInv ==
  ASSUME IInv, NEW r \in Requests, HubFails(r)
  PROVE  IInv'
<1>1. steady \in [Requests -> BOOLEAN]
  BY DEF IInv, TypeOK
<1>2. /\ steady' \in [Requests -> BOOLEAN]
      /\ \A q \in Requests \ {r} : steady'[q] = steady[q]
      /\ ~steady'[r]
  BY <1>1, Zenon DEF HubFails
<1> QED
  BY <1>2, RespondInv DEF HubFails, Answers

(* An account that is not ready, or a secret without a token, is never     *)
(* that of a steady cluster.                                               *)
LEMMA GetMSAInv ==
  ASSUME IInv, NEW r \in Requests, GetMSA(r)
  PROVE  IInv'
<1>1. /\ TypeOK /\ RequestOK(r) /\ pc[r] = "getMSA"
      /\ UNCHANGED <<hubVars, target, token, timedOut, conn, oldest, steady>>
  BY DEF IInv, GetMSA
<1>2. CASE Goto(r, "getSecret")
  <2>1. /\ pc' \in [Requests -> Active \cup Ended \cup {"idle"}]
        /\ pc'[r] = "getSecret" /\ answers' = answers
        /\ \A q \in Requests \ {r} : pc'[q] = pc[q]
    BY <1>2, GotoFacts DEF Active, Proxying
  <2>2. TypeOK'
    BY <1>1, <2>1 DEF TypeOK, hubVars
  <2>3. \A q \in Requests \ {r} : Untouched(q)
    BY <1>1, <2>1 DEF Untouched
  <2>4. AnswerOK(r)' /\ BranchOK(r)' /\ ConnOK(r)' /\ PathOK(r)'
    BY <1>1, <2>1
      DEF RequestOK, AnswerOK, BranchOK, ConnOK, PathOK, Proxying
  <2>5. TokenOK(r)' /\ SteadyOK(r)'
    BY <1>1, <2>1
      DEF RequestOK, TokenOK, SteadyOK, Proxying, Held, Steady, hubVars
  <2> QED
    BY <1>1, <2>2, <2>3, <2>4, <2>5, OneRequest DEF RequestOK
<1>3. CASE /\ Respond(r, "badRequest") \/ Panic(r)
           /\ msa[target[r].cluster] # "ready"
  <2>1. steady \in [Requests -> BOOLEAN] /\ ~steady[r]
    BY <1>1, <1>3 DEF TypeOK, RequestOK, SteadyOK, Steady, Proxying
  <2> QED
    BY <1>1, <1>3, <2>1, RespondInv, PanicInv DEF Answers
<1> QED
  BY <1>2, <1>3 DEF GetMSA

(* What is read from the secret is a token of the request's cluster that   *)
(* is not older than the request.                                          *)
LEMMA GetSecretInv ==
  ASSUME IInv, NEW r \in Requests, GetSecret(r)
  PROVE  IInv'
<1> DEFINE cl == target[r].cluster
<1>1. /\ TypeOK /\ HubInv /\ RequestOK(r) /\ pc[r] = "getSecret"
      /\ UNCHANGED <<hubVars, target, timedOut, oldest, steady>>
  BY DEF IInv, GetSecret, SendWith
<1>2. cl \in Clusters /\ target[r].kind = "proxy"
  BY <1>1 DEF RequestOK, BranchOK, Proxying, Targets, ProxyTargets,
              PathTargets, ResourceTargets
<1>3. CASE /\ Usable(r) = {} /\ Respond(r, "badRequest")
           /\ UNCHANGED <<token, conn>>
  <2>1. ~Held(cl)
    BY <1>3 DEF Usable, Held
  <2>2. steady \in [Requests -> BOOLEAN] /\ ~steady[r]
    BY <1>1, <2>1 DEF TypeOK, RequestOK, SteadyOK, Steady, Held, Proxying
  <2> QED
    BY <1>1, <1>3, <2>2, RespondInv DEF Answers
<1>4. CASE /\ \E t \in Usable(r) : token' = [token EXCEPT ![r] = t]
           /\ conn' = [conn EXCEPT ![r] = "open"]
           /\ Goto(r, "upstream")
  <2>1. /\ pc' \in [Requests -> Active \cup Ended \cup {"idle"}]
        /\ pc'[r] = "upstream" /\ answers' = answers
        /\ \A q \in Requests \ {r} : pc'[q] = pc[q]
    BY <1>4, GotoFacts DEF Active, Proxying
  <2>2. /\ Held(cl)
        /\ token' = [token EXCEPT ![r] = secret[cl]]
    BY <1>4 DEF Usable, Held
  <2>3. secret[cl] \in Token /\ version[cl] \in Nat
    BY <1>1, <1>2, <2>2 DEF TypeOK, Held
  <2>4. /\ token'[r] = secret[cl] /\ conn'[r] = "open"
        /\ \A q \in Requests \ {r} : token'[q] = token[q] /\ conn'[q] = conn[q]
    BY <1>1, <1>4, <2>2 DEF TypeOK
  <2>5. TypeOK'
    BY <1>1, <1>4, <2>1, <2>2, <2>3 DEF TypeOK, hubVars
  <2>6. \A q \in Requests \ {r} : Untouched(q)
    BY <1>1, <2>1, <2>4 DEF Untouched
  <2>7. AnswerOK(r)' /\ BranchOK(r)' /\ ConnOK(r)' /\ PathOK(r)'
    BY <1>1, <2>1, <2>4
      DEF RequestOK, AnswerOK, BranchOK, ConnOK, PathOK, Proxying
  <2>8. TokenOK(r)'
    <3>1. secret[cl] = [cluster |-> cl, version |-> version[cl]]
      BY <1>1, <1>2, <2>2 DEF HubInv
    <3>2. oldest[r] <= version[cl]
      BY <1>1, <1>2, <2>2 DEF RequestOK, TokenOK
    <3> QED
      BY <1>1, <2>1, <2>3, <2>4, <3>1, <3>2 DEF TokenOK
  <2>9. SteadyOK(r)'
    BY <1>1, <2>1 DEF RequestOK, SteadyOK, Steady, Proxying, hubVars
  <2> QED
    BY <1>1, <2>5, <2>6, <2>7, <2>8, <2>9, OneRequest DEF RequestOK
<1> QED
  BY <1>3, <1>4 DEF GetSecret, SendWith

(* The upstream's answer, and the ways in which it ends.                   *)
LEMMA UpstreamBeginsInv ==
  ASSUME IInv, NEW r \in Requests, UpstreamBegins(r)
  PROVE  IInv'
<1>1. /\ TypeOK /\ RequestOK(r) /\ pc[r] = "upstream"
      /\ UNCHANGED <<hubVars, target, token, timedOut, conn, oldest, steady>>
  BY DEF IInv, UpstreamBegins
<1>2. /\ pc' \in [Requests -> Active \cup Ended \cup {"idle"}]
      /\ pc'[r] = "relay"
      /\ answers' \in [Requests -> Seq(Answers)]
      /\ answers'[r] = IF r \in timedOut THEN <<"gatewayTimeout">>
                       ELSE <<"upstream">>
      /\ \A q \in Requests \ {r} : pc'[q] = pc[q] /\ answers'[q] = answers[q]
  BY <1>1, WriteFacts DEF UpstreamBegins, Answers, Active, Proxying
<1>3. TypeOK'
  BY <1>1, <1>2 DEF TypeOK, hubVars
<1>4. \A q \in Requests \ {r} : Untouched(q)
  BY <1>1, <1>2 DEF Untouched
<1>5. AnswerOK(r)' /\ BranchOK(r)' /\ ConnOK(r)' /\ PathOK(r)'
  BY <1>1, <1>2
    DEF RequestOK, AnswerOK, BranchOK, ConnOK, PathOK, Proxying, Answers
<1>6. TokenOK(r)' /\ SteadyOK(r)'
  BY <1>1, <1>2 DEF RequestOK, TokenOK, SteadyOK, Steady, Proxying, hubVars
<1> QED
  BY <1>1, <1>3, <1>4, <1>5, <1>6, OneRequest DEF RequestOK

LEMMA UpstreamEndsInv ==
  ASSUME IInv, NEW r \in Requests, UpstreamEnds(r)
  PROVE  IInv'
<1>1. /\ TypeOK /\ RequestOK(r) /\ pc[r] = "relay"
      /\ UNCHANGED <<hubVars, target, token, timedOut, oldest, steady>>
      /\ conn' = [conn EXCEPT ![r] = "idle"]
  BY DEF IInv, UpstreamEnds
<1>2. /\ pc' \in [Requests -> Active \cup Ended \cup {"idle"}]
      /\ pc'[r] = "done" /\ answers' = answers
      /\ \A q \in Requests \ {r} : pc'[q] = pc[q]
  BY GotoFacts DEF UpstreamEnds
<1>3. /\ conn' \in [Requests -> {"none", "open", "idle", "closed"}]
      /\ conn'[r] = "idle"
      /\ \A q \in Requests \ {r} : conn'[q] = conn[q]
  BY <1>1 DEF TypeOK
<1>4. TypeOK'
  BY <1>1, <1>2, <1>3 DEF TypeOK, hubVars
<1>5. \A q \in Requests \ {r} : Untouched(q)
  BY <1>1, <1>2, <1>3 DEF Untouched
<1>6. AnswerOK(r)' /\ BranchOK(r)' /\ ConnOK(r)' /\ PathOK(r)'
  BY <1>1, <1>2, <1>3
    DEF RequestOK, AnswerOK, BranchOK, ConnOK, PathOK, Proxying
<1>7. TokenOK(r)' /\ SteadyOK(r)'
  BY <1>1, <1>2, <1>3 DEF RequestOK, TokenOK, SteadyOK, Proxying
<1> QED
  BY <1>1, <1>4, <1>5, <1>6, <1>7, OneRequest DEF RequestOK

LEMMA UpstreamFailsInv ==
  ASSUME IInv, NEW r \in Requests, UpstreamFails(r)
  PROVE  IInv'
<1>1. /\ TypeOK /\ RequestOK(r) /\ pc[r] \in {"upstream", "relay"}
      /\ UNCHANGED <<hubVars, target, token, timedOut, oldest, steady>>
      /\ conn' = [conn EXCEPT ![r] = "closed"]
  BY DEF IInv, UpstreamFails
<1>2. /\ pc' \in [Requests -> Active \cup Ended \cup {"idle"}]
      /\ pc'[r] = "done"
      /\ answers' \in [Requests -> Seq(Answers)]
      /\ \/ answers'[r] \in {<<"gatewayTimeout">>, <<"badGateway">>}
         \/ pc[r] = "relay" /\ answers'[r] = answers[r]
      /\ \A q \in Requests \ {r} : pc'[q] = pc[q] /\ answers'[q] = answers[q]
  <2>1. CASE pc[r] = "upstream" /\ Respond(r, "badGateway")
    BY <1>1, <2>1, WriteFacts DEF Respond, Answers
  <2>2. CASE pc[r] = "relay" /\ Goto(r, "done")
    BY <1>1, <2>2, GotoFacts DEF TypeOK
  <2> QED
    BY <2>1, <2>2 DEF UpstreamFails
<1>3. /\ conn' \in [Requests -> {"none", "open", "idle", "closed"}]
      /\ conn'[r] = "closed"
      /\ \A q \in Requests \ {r} : conn'[q] = conn[q]
  BY <1>1 DEF TypeOK
<1>4. TypeOK'
  BY <1>1, <1>2, <1>3 DEF TypeOK, hubVars
<1>5. \A q \in Requests \ {r} : Untouched(q)
  BY <1>1, <1>2, <1>3 DEF Untouched
<1>6. AnswerOK(r)' /\ BranchOK(r)' /\ ConnOK(r)' /\ PathOK(r)'
  BY <1>1, <1>2, <1>3
    DEF RequestOK, AnswerOK, BranchOK, ConnOK, PathOK, Proxying, Answers
<1>7. TokenOK(r)' /\ SteadyOK(r)'
  BY <1>1, <1>2, <1>3 DEF RequestOK, TokenOK, SteadyOK, Proxying
<1> QED
  BY <1>1, <1>4, <1>5, <1>6, <1>7, OneRequest DEF RequestOK

LEMMA IdleExpiresInv ==
  ASSUME IInv, NEW r \in Requests, IdleExpires(r)
  PROVE  IInv'
<1>1. /\ TypeOK /\ RequestOK(r) /\ conn[r] = "idle"
      /\ UNCHANGED <<hubVars, pc, target, token, answers, timedOut, oldest,
                     steady>>
      /\ conn' = [conn EXCEPT ![r] = "closed"]
  BY DEF IInv, IdleExpires
<1>2. /\ conn' \in [Requests -> {"none", "open", "idle", "closed"}]
      /\ conn'[r] = "closed"
      /\ \A q \in Requests \ {r} : conn'[q] = conn[q]
  BY <1>1 DEF TypeOK
<1>3. TypeOK'
  BY <1>1, <1>2 DEF TypeOK, hubVars
<1>4. \A q \in Requests \ {r} : Untouched(q)
  BY <1>1, <1>2 DEF Untouched
<1>5. AnswerOK(r)' /\ BranchOK(r)' /\ ConnOK(r)' /\ PathOK(r)'
  BY <1>1, <1>2 DEF RequestOK, AnswerOK, BranchOK, ConnOK, PathOK
<1>6. TokenOK(r)' /\ SteadyOK(r)'
  BY <1>1, <1>2
    DEF RequestOK, TokenOK, SteadyOK, Proxying, Held, Steady, hubVars
<1> QED
  BY <1>1, <1>3, <1>4, <1>5, <1>6, OneRequest DEF RequestOK

(* The timeout filter answers only for a handler that has not.             *)
LEMMA TimeoutInv ==
  ASSUME IInv, NEW r \in Requests, Timeout(r)
  PROVE  IInv'
<1>1. /\ TypeOK /\ RequestOK(r) /\ pc[r] \in Active /\ r \notin timedOut
      /\ UNCHANGED <<hubVars, pc, target, token, conn, oldest, steady>>
      /\ timedOut' = timedOut \cup {r}
  BY DEF IInv, Timeout, EndTime
<1>2. /\ answers' \in [Requests -> Seq(Answers)]
      /\ answers'[r] = IF pc[r] = "relay" THEN answers[r]
                       ELSE <<"gatewayTimeout">>
      /\ \A q \in Requests \ {r} : answers'[q] = answers[q]
  <2>1. answers[r] = << >> <=> pc[r] # "relay"
    BY <1>1 DEF RequestOK, AnswerOK, Active, Proxying
  <2>2. /\ Append(<< >>, "gatewayTimeout") = <<"gatewayTimeout">>
        /\ <<"gatewayTimeout">> \in Seq(Answers)
    BY DEF Answers
  <2>3. answers' = [answers EXCEPT
          ![r] = IF pc[r] = "relay" THEN answers[r] ELSE <<"gatewayTimeout">>]
    BY <2>1, <2>2 DEF Timeout, EndTime
  <2> QED
    BY <1>1, <2>2, <2>3 DEF TypeOK
<1>3. TypeOK'
  BY <1>1, <1>2 DEF TypeOK, hubVars
<1>4. \A q \in Requests \ {r} : Untouched(q)
  BY <1>1, <1>2 DEF Untouched
<1>5. AnswerOK(r)' /\ BranchOK(r)' /\ ConnOK(r)' /\ PathOK(r)'
  BY <1>1, <1>2
    DEF RequestOK, AnswerOK, BranchOK, ConnOK, PathOK, Active, Proxying
<1>6. TokenOK(r)' /\ SteadyOK(r)'
  BY <1>1, <1>2
    DEF RequestOK, TokenOK, SteadyOK, Active, Proxying, Held, Steady, hubVars
<1> QED
  BY <1>1, <1>3, <1>4, <1>5, <1>6, OneRequest DEF RequestOK
-----------------------------------------------------------------------------
(* The hub's writes: types are kept, other clusters are not touched, and   *)
(* the token that the secret holds or will hold next becomes no older.     *)
HubFacts(cl) ==
    /\ msa' \in [Clusters -> {"absent", "pending", "ready"}]
    /\ secret' \in [Clusters -> Token \cup {None, Tokenless}]
    /\ version' \in [Clusters -> 0 .. MaxWrites]
    /\ HubInv'
    /\ \A d \in Clusters \ {cl} : /\ msa'[d] = msa[d]
                                  /\ secret'[d] = secret[d]
                                  /\ version'[d] = version[d]
    /\ (IF Held(cl) THEN version[cl] ELSE version[cl] + 1)
         <= IF Held(cl)' THEN version'[cl] ELSE version'[cl] + 1

LEMMA HubWritesFacts ==
  ASSUME TypeOK, HubInv, NEW cl \in Clusters, HubWrites(cl)
  PROVE  HubFacts(cl)
<1> USE GatewayAssumption
<1>0. version[cl] \in 0 .. MaxWrites
  BY DEF TypeOK
<1>1. CASE UNCHANGED <<secret, version>>
  <2>1. msa' \in [Clusters -> {"absent", "pending", "ready"}]
    BY <1>1 DEF HubWrites, TypeOK
  <2>2. \A d \in Clusters \ {cl} : msa'[d] = msa[d]
    BY <1>1 DEF HubWrites, TypeOK
  <2> QED
    BY <1>0, <1>1, <2>1, <2>2 DEF HubFacts, TypeOK, HubInv, Held
<1>2. ASSUME NEW s \in {None, Tokenless}, secret' = [secret EXCEPT ![cl] = s],
             UNCHANGED <<msa, version>>, ~Held(cl) \/ s = None
      PROVE  HubFacts(cl)
  BY <1>0, <1>2 DEF HubFacts, TypeOK, HubInv, Held
<1>3. ASSUME version[cl] < MaxWrites,
             version' = [version EXCEPT ![cl] = @ + 1],
             secret' = [secret EXCEPT
               ![cl] = [cluster |-> cl, version |-> version[cl] + 1]],
             UNCHANGED msa
      PROVE  HubFacts(cl)
  <2>1. [cluster |-> cl, version |-> version[cl] + 1] \in Token
    BY <1>0, <1>3 DEF Token
  <2> QED
    BY <1>0, <1>3, <2>1 DEF HubFacts, TypeOK, HubInv, Held
<1> QED
  BY <1>1, <1>2, <1>3 DEF HubWrites, Held

LEMMA HubStepInv ==
  ASSUME IInv, NEW cl \in Clusters, HubStep(cl)
  PROVE  IInv'
<1>1. /\ TypeOK /\ HubFacts(cl)
      /\ UNCHANGED <<pc, target, token, answers, timedOut, conn, oldest>>
  BY HubWritesFacts DEF IInv, HubStep, handlerVars
<1>2. /\ steady' \in [Requests -> BOOLEAN]
      /\ \A r \in Requests :
           steady'[r] <=> steady[r] /\ (Proxied(r, cl) => Steady(cl)')
  <2>1. steady' = [r \in Requests |->
                     steady[r] /\ (Proxied(r, cl) => Steady(cl)')]
    BY DEF HubStep
  <2>2. steady \in [Requests -> BOOLEAN]
    BY <1>1 DEF TypeOK
  <2> QED
    BY <2>1, <2>2, Zenon
<1>3. TypeOK'
  BY <1>1, <1>2 DEF TypeOK, HubFacts
<1>4. ASSUME NEW r \in Requests PROVE RequestOK(r)'
  <2> DEFINE mine == target[r].cluster
  <2>1. RequestOK(r)
    BY DEF IInv
  <2>2. AnswerOK(r)' /\ BranchOK(r)' /\ ConnOK(r)'
    BY <1>1, <2>1 DEF RequestOK, AnswerOK, BranchOK, ConnOK
  <2>3. PathOK(r)'
    BY <1>1, <2>1
      DEF RequestOK, PathOK, PathAnswer, VersionHandler, GroupHandler
  <2>4. ASSUME pc[r] # "idle", target[r].kind = "proxy"
        PROVE  mine \in Clusters
    BY <2>1, <2>4 DEF RequestOK, BranchOK, Targets, ProxyTargets,
                      PathTargets, ResourceTargets
  <2>5. TokenOK(r)'
    <3>1. conn[r] = "open" => /\ token[r] \in Token
                              /\ token[r].cluster = target[r].cluster
                              /\ token[r].version >= oldest[r]
      BY <2>1 DEF RequestOK, TokenOK
    <3>2. ASSUME pc[r] \in {"serve", "getMSA", "getSecret"},
                 target[r].kind = "proxy"
          PROVE  oldest[r] <= IF Held(mine)' THEN version'[mine]
                              ELSE version'[mine] + 1
      <4>1. mine \in Clusters
        BY <2>4, <3>2
      <4>2. oldest[r] <= IF Held(mine) THEN version[mine] ELSE version[mine] + 1
        BY <2>1, <3>2 DEF RequestOK, TokenOK
      <4>3. /\ oldest[r] \in Int /\ version[mine] \in Int
            /\ version'[mine] \in Int
        BY <1>1, <1>3, <4>1 DEF TypeOK
      <4>4. (IF Held(mine) THEN version[mine] ELSE version[mine] + 1)
              <= IF Held(mine)' THEN version'[mine] ELSE version'[mine] + 1
        <5>1. CASE mine = cl
          BY <1>1, <5>1 DEF HubFacts, Held
        <5>2. CASE mine # cl
          BY <1>1, <4>1, <4>3, <5>2 DEF HubFacts, Held
        <5> QED
          BY <5>1, <5>2
      <4> QED
        BY <4>2, <4>3, <4>4
    <3> QED
      BY <1>1, <3>1, <3>2 DEF TokenOK, Held
  <2>6. SteadyOK(r)'
    <3>1. SUFFICES ASSUME steady'[r]
                   PROVE  /\ pc[r] \notin {"idle", "aborted"}
                          /\ target[r].kind = "proxy"
                          /\ pc[r] \in Proxying \cup {"serve"} => Steady(mine)'
                          /\ pc[r] \in {"relay", "done"} => answers[r][1] \in
                               {"upstream", "badGateway", "gatewayTimeout"}
      BY <1>1 DEF SteadyOK, Steady
    <3>2. steady[r] /\ (Proxied(r, cl) => Steady(cl)')
      BY <1>2, <3>1
    <3>3. /\ pc[r] \notin {"idle", "aborted"} /\ target[r].kind = "proxy"
          /\ pc[r] \in Proxying \cup {"serve"} => Steady(mine)
          /\ pc[r] \in {"relay", "done"} => answers[r][1] \in
               {"upstream", "badGateway", "gatewayTimeout"}
      BY <2>1, <3>2 DEF RequestOK, SteadyOK
    <3>4. ASSUME pc[r] \in Proxying \cup {"serve"} PROVE Steady(mine)'
      <4>1. CASE mine = cl
        BY <1>1, <3>2, <3>3, <3>4, <4>1 DEF Proxied, Steady
      <4>2. CASE mine # cl
        BY <1>1, <2>4, <3>3, <3>4, <4>2 DEF HubFacts, Steady
      <4> QED
        BY <4>1, <4>2
    <3> QED
      BY <3>3, <3>4
  <2> QED
    BY <2>2, <2>3, <2>5, <2>6 DEF RequestOK
<1> QED
  BY <1>1, <1>3, <1>4 DEF IInv, HubFacts
-----------------------------------------------------------------------------
(* Every step preserves the invariant.                                     *)
LEMMA NextInv == IInv /\ [Next]_vars => IInv'
<1> SUFFICES ASSUME IInv, [Next]_vars PROVE IInv'
  OBVIOUS
<1>1. ASSUME NEW cl \in Clusters, HubStep(cl) PROVE IInv'
  BY <1>1, HubStepInv
<1>2. ASSUME NEW r \in Requests, NEW t \in Targets, Receive(r, t) PROVE IInv'
  BY <1>2, ReceiveInv
<1>3. ASSUME NEW r \in Requests, Handle(r) PROVE IInv'
  BY <1>3, ServeHTTPInv, SearchInv, GetMSAInv, GetSecretInv, HubFailsInv,
     UpstreamBeginsInv, UpstreamEndsInv, UpstreamFailsInv, IdleExpiresInv
  DEF Handle
<1>4. ASSUME NEW r \in Requests, Timeout(r) PROVE IInv'
  BY <1>4, TimeoutInv
<1>5. CASE UNCHANGED vars
  <2>1. UNCHANGED <<msa, secret, version, pc, target, token, answers, timedOut,
                    conn, oldest, steady>>
    BY <1>5 DEF vars, hubVars, handlerVars
  <2>2. TypeOK' /\ HubInv'
    BY <2>1 DEF IInv, TypeOK, HubInv, Held
  <2>3. \A r \in Requests : RequestOK(r)'
    BY <2>1, UntouchedOK DEF IInv, Untouched, hubVars
  <2> QED
    BY <2>2, <2>3 DEF IInv
<1> QED
  BY <1>1, <1>2, <1>3, <1>4, <1>5 DEF Next

(* The invariant holds of every state the gateway can be in.               *)
THEOREM Invariance == Safety => []IInv
  BY InitInv, NextInv, PTL DEF Safety

(* Every variable keeps its type in every state; in particular no token    *)
(* but a real one ever gets into an Authorization header.                  *)
THEOREM TypeCorrect == Safety => []TypeOK
<1>1. IInv => TypeOK
  BY DEF IInv
<1> QED
  BY <1>1, Invariance, PTL

(* Whatever races, a client is begun at most one answer.  A handler that   *)
(* relays or has ended has left it exactly one; one whose panic the server *)
(* met before the timeout has left none, and was a proxied one or a list.  *)
THEOREM OneAnswerOrPanic == Safety => []OneAnswerUnlessPanic
<1>1. ASSUME IInv PROVE OneAnswerUnlessPanic
  <2> SUFFICES ASSUME NEW r \in Requests
               PROVE  /\ Len(answers[r]) <= 1
                      /\ pc[r] \in {"relay", "done"} => Len(answers[r]) = 1
                      /\ pc[r] = "aborted" =>
                           /\ answers[r] = << >>
                           /\ r \notin timedOut
                           /\ target[r].kind \in {"proxy", "resource"}
    BY DEF OneAnswerUnlessPanic
  <2>1. AnswerOK(r) /\ BranchOK(r)
    BY <1>1 DEF IInv, RequestOK
  <2>2. CASE pc[r] \in {"relay", "done"}
    <3>1. PICK a \in Answers : answers[r] = <<a>>
      BY <2>1, <2>2 DEF AnswerOK
    <3> QED
      BY <2>2, <3>1
  <2>3. CASE pc[r] \notin {"relay", "done"}
    <3>1. CASE r \in timedOut
      <4>1. pc[r] # "aborted" /\ \E a : answers[r] = <<a>>
        BY <2>1, <2>3, <3>1 DEF AnswerOK
      <4> QED
        BY <2>3, <4>1
    <3>2. CASE r \notin timedOut
      BY <2>1, <2>3, <3>2 DEF AnswerOK, BranchOK
    <3> QED
      BY <3>1, <3>2
  <2> QED
    BY <2>2, <2>3
<1> QED
  BY <1>1, Invariance, PTL

(* The token of an open connection is one of the cluster it goes to, and   *)
(* was not replaced by another before the request came in.                 *)
THEOREM TokensAreHeld == Safety => []TokenHeldDuringRequest
<1>1. IInv => TokenHeldDuringRequest
  BY DEF IInv, RequestOK, TokenOK, TokenHeldDuringRequest
<1> QED
  BY <1>1, Invariance, PTL

(* The gateway refuses a proxied request, or panics over it, only when the *)
(* hub's state, or a refused read of it, gave it a reason meanwhile.       *)
THEOREM SteadyClustersAreReached == Safety => []SteadyClusterIsReached
<1>1. ASSUME IInv PROVE SteadyClusterIsReached
  <2> SUFFICES ASSUME NEW r \in Requests, pc[r] \in Ended, steady[r]
               PROVE  answers[r] \in
                        {<<"upstream">>, <<"badGateway">>, <<"gatewayTimeout">>}
    BY DEF SteadyClusterIsReached
  <2>1. /\ pc[r] = "done"
        /\ answers[r][1] \in {"upstream", "badGateway", "gatewayTimeout"}
    BY <1>1 DEF IInv, RequestOK, SteadyOK
  <2>2. PICK a \in Answers : answers[r] = <<a>>
    BY <1>1, <2>1 DEF IInv, RequestOK, AnswerOK
  <2> QED
    BY <2>1, <2>2
<1> QED
  BY <1>1, Invariance, PTL

(* The answers to the paths, by first segment and length: the two nested   *)
(* choices, of ServeHTTP and of the discovery handlers, in one table.      *)
LEMMA PathTable ==
  ASSUME NEW t \in PathTargets
  PROVE  /\ PathAnswer(t) = "version" <=>
              t.known /\ <<t.first, t.parts>> \in {<<"api", 2>>, <<"apis", 3>>}
         /\ PathAnswer(t) = "group" <=>
              t.known /\ <<t.first, t.parts>> = <<"apis", 2>>
         /\ PathAnswer(t) = "apiVersions" <=>
              <<t.first, t.parts>> = <<"api", 1>>
<1>1. /\ t.first \in {"api", "apis", "clusters"} /\ t.parts \in 1 .. 4
      /\ t.known \in BOOLEAN
      /\ t.first = "api" => t.parts <= 2
      /\ t.first = "clusters" => ~t.known
  BY DEF PathTargets
<1>2. /\ 1 # 2 /\ 1 # 3 /\ 1 # 4 /\ 2 # 3 /\ 2 # 4 /\ 3 # 4
      /\ t.parts \in {1, 2, 3, 4}
      /\ t.first = "api" => t.parts # 3 /\ t.parts # 4
  BY <1>1
<1>3. CASE t.parts = 1
  <2>1. PathAnswer(t) = GroupHandler(t)
    BY <1>2, <1>3, Zenon DEF PathAnswer
  <2>2. GroupHandler(t) = IF t.first = "api" THEN "apiVersions" ELSE "notFound"
    BY <1>2, <1>3, Zenon DEF GroupHandler
  <2> QED
    BY <1>3, <2>1, <2>2
<1>4. CASE t.parts = 2
  <2>1. CASE t.first = "apis"
    <3>1. PathAnswer(t) = GroupHandler(t)
      BY <1>2, <1>4, <2>1, Zenon DEF PathAnswer
    <3>2. GroupHandler(t) = IF t.known THEN "group" ELSE "notFound"
      BY <1>2, <1>4, <2>1, Zenon DEF GroupHandler
    <3> QED
      BY <1>4, <2>1, <3>1, <3>2
  <2>2. CASE t.first # "apis"
    <3>1. PathAnswer(t) = VersionHandler(t)
      BY <1>2, <1>4, <2>2, Zenon DEF PathAnswer
    <3>2. VersionHandler(t) = IF t.known /\ t.first = "api"
                              THEN "version" ELSE "notFound"
      BY <1>2, <1>4, <2>2, Zenon DEF VersionHandler
    <3> QED
      BY <1>4, <2>2, <3>1, <3>2
  <2> QED
    BY <2>1, <2>2
<1>5. CASE t.parts = 3
  <2>1. PathAnswer(t) = VersionHandler(t)
    BY <1>2, <1>5, Zenon DEF PathAnswer
  <2>2. VersionHandler(t) = IF t.known /\ t.first = "apis"
                            THEN "version" ELSE "notFound"
    BY <1>2, <1>5 DEF VersionHandler
  <2> QED
    BY <1>5, <2>1, <2>2
<1>6. CASE t.parts = 4
  <2>1. PathAnswer(t) = "notFound"
    BY <1>2, <1>6, Zenon DEF PathAnswer
  <2> QED
    BY <1>6, <2>1
<1> QED
  BY <1>2, <1>3, <1>4, <1>5, <1>6

(* Known versions' and known groups' paths get that version or group, /api *)
(* the core versions, and no other path gets any of these.                 *)
THEOREM TableOwnsItsPaths == Safety => []TableOwnsPath
<1>1. ASSUME IInv PROVE TableOwnsPath
  <2> SUFFICES ASSUME NEW r \in Requests,
                      pc[r] = "done", target[r].kind = "path", r \notin timedOut
               PROVE  LET t == target[r]
                          at == <<t.first, t.parts>>
                      IN  /\ answers[r] = <<"version">> <=>
                               t.known /\ at \in {<<"api", 2>>, <<"apis", 3>>}
                          /\ answers[r] = <<"group">> <=>
                               t.known /\ at = <<"apis", 2>>
                          /\ answers[r] = <<"apiVersions">> <=> at = <<"api", 1>>
    BY DEF TableOwnsPath
  <2>1. BranchOK(r) /\ PathOK(r)
    BY <1>1 DEF IInv, RequestOK
  <2>2. target[r] \in PathTargets /\ answers[r] = <<PathAnswer(target[r])>>
    BY <2>1 DEF BranchOK, PathOK, Targets, ProxyTargets, ResourceTargets
  <2>3. \A a, b : <<a>> = <<b>> <=> a = b
    OBVIOUS
  <2> QED
    BY <2>2, <2>3, PathTable
<1> QED
  BY <1>1, Invariance, PTL
=============================================================================
