------------------------------ MODULE Lifecycle ------------------------------
(***************************************************************************)
(* The life of the gateway's process around module Discovery: the command  *)
(* assembles the server or exits with an error, the generic API server     *)
(* listens and then starts the post-start hook, the hook starts the        *)
(* discovery worker and waits, and a signal ends it all.  The process      *)
(* keeps nothing on disk, so a restart begins with empty tables.           *)
(*                                                                         *)
(* Server.Run takes a context.  The generic server shuts down when it is   *)
(* done: it closes the hooks' stop channel and accepts no new request,     *)
(* waits for the requests in flight, calls the registered destroy          *)
(* functions and returns.  The command itself passes context.TODO(), which *)
(* is never done, and installs no signal handler.                          *)
(***************************************************************************)
EXTENDS Discovery

CONSTANTS
    Contexts,     \* the kinds of context Run is called with
    MaxLives      \* bound: how often the process is started

ASSUME LifecycleAssumption ==
    /\ Contexts # {} /\ Contexts \subseteq {"TODO", "cancellable"}
    /\ MaxLives \in Nat \ {0}

VARIABLES
    phase,       \* how far the process is
    context,     \* the context of this life
    hook,        \* where the post-start hook is
    signalled,   \* SIGTERM was sent to this life
    exit,        \* how this life ended
    destroyed,   \* resourceHandler.destroy was called
    life         \* which life this is

lifeVars == <<phase, context, hook, signalled, exit, destroyed, life>>
allVars == <<vars, lifeVars>>
-----------------------------------------------------------------------------
StartUp == {"complete", "validate", "config", "new", "listen"}
Alive == exit = "none"

LifeInit ==
    /\ Init
    /\ phase = "complete"
    /\ context \in Contexts
    /\ hook = "none"
    /\ signalled = FALSE
    /\ exit = "none"
    /\ destroyed = FALSE
    /\ life = 1

(* main prints the error of Execute and exits with 1.                      *)
Fail ==
    /\ phase \in StartUp
    /\ Alive
    /\ exit' = "error"
    /\ UNCHANGED <<vars, phase, context, hook, signalled, destroyed, life>>

Step(from, to) ==
    /\ phase = from
    /\ Alive
    /\ phase' = to
    /\ UNCHANGED <<vars, context, signalled, exit, destroyed, life>>

(* The command: options.Complete, options.Validate, options.Config with    *)
(* the two clients, and New, which registers the handlers and the hook.    *)
CompleteOptions == Step("complete", "validate") /\ UNCHANGED hook
ValidateOptions == Step("validate", "config") /\ UNCHANGED hook
ConfigFromOptions == Step("config", "new") /\ UNCHANGED hook
NewGateway == Step("new", "listen") /\ hook' = "registered"

(* RunWithContext serves first and then runs the hooks, each in a          *)
(* goroutine of its own.                                                   *)
Listen == Step("listen", "serving") /\ UNCHANGED hook

HookStarts(next) ==
    /\ phase \in {"serving", "draining"}
    /\ Alive
    /\ hook = "registered"
    /\ hook' = next
    /\ UNCHANGED <<vars, phase, context, signalled, exit, destroyed, life>>

(* Variants of RunHook: the wait comes before the worker; there is no wait.*)
RunHookLate == stopCh /\ HookStarts("waiting")
RunHookReturning == HookStarts("returned")

(* The hook starts the discovery worker and waits for the stop channel.    *)
RunHook == HookStarts("waiting")

HookReturns ==
    /\ Alive
    /\ hook = "waiting"
    /\ stopCh
    /\ hook' = "returned"
    /\ UNCHANGED <<vars, phase, context, signalled, exit, destroyed, life>>

(* The generic server's check of the hook, part of healthz, livez and      *)
(* readyz: it fails until the hook has returned.                           *)
HookCheck == hook = "returned"
-----------------------------------------------------------------------------
(* Worker and requests, while the process lives.  A fault ends it.         *)
LifeWorker ==
    /\ Alive
    /\ hook \in {"waiting", "returned"}
    /\ Worker
    /\ UNCHANGED lifeVars

LifeRespond(c) == Alive /\ Respond(c) /\ UNCHANGED lifeVars

LifeFault(c) ==
    /\ Alive
    /\ FaultOnStray(c)
    /\ exit' = "fault"
    /\ UNCHANGED <<phase, context, hook, signalled, destroyed, life>>

LifeAccept(c) ==
    /\ phase = "serving"
    /\ Alive
    /\ \/ \E gv \in GroupVersions : ServeVersion(c, gv)
       \/ \E g \in Groups : ServeGroup(c, g)
       \/ ServeAPIVersions(c)
       \/ ServeAggregated(c)
    /\ UNCHANGED lifeVars
-----------------------------------------------------------------------------
(* SIGTERM.  A context made for it is done; with context.TODO() nobody     *)
(* listens, and the signal's default action ends the process.              *)
Terminate ==
    /\ Alive
    /\ ~signalled
    /\ signalled' = TRUE
    /\ exit' = IF context = "TODO" THEN "terminated" ELSE exit
    /\ UNCHANGED <<vars, phase, context, hook, destroyed, life>>

(* A variant of StopServing that begins the shutdown of a ready server     *)
(* only: it waits for a hook that waits for it.                            *)
StopServingWhenReady ==
    /\ phase = "serving"
    /\ Alive
    /\ HookCheck
    /\ context = "cancellable" /\ signalled
    /\ CloseStopCh
    /\ phase' = "draining"
    /\ UNCHANGED <<context, hook, signalled, exit, destroyed, life>>

(* The generic server notices that its context is done.                    *)
StopServing ==
    /\ phase = "serving"
    /\ Alive
    /\ context = "cancellable" /\ signalled
    /\ CloseStopCh
    /\ phase' = "draining"
    /\ UNCHANGED <<context, hook, signalled, exit, destroyed, life>>

(* The requests in flight have ended; hook and worker are not waited for.  *)
Drained ==
    /\ phase = "draining"
    /\ Alive
    /\ \A c \in Clients : request[c] = NoRequest
    /\ destroyed' = TRUE
    /\ exit' = "terminated"
    /\ UNCHANGED <<vars, phase, context, hook, signalled, life>>

Kill ==
    /\ Alive
    /\ exit' = "killed"
    /\ UNCHANGED <<vars, phase, context, hook, signalled, destroyed, life>>

(* A new process with empty tables; the clients keep what they know.       *)
Restart ==
    /\ ~Alive
    /\ life < MaxLives
    /\ life' = life + 1
    /\ stopCh' = FALSE
    /\ step' = "sleep"
    /\ round' = 0
    /\ todo' = {}
    /\ cur' = Nothing
    /\ slice' = [gv \in GroupVersions |-> [r \in Rounds |-> NewSlice]]
    /\ versionDiscovery' = [gv \in GroupVersions |-> NoHandler]
    /\ groupDiscovery' = [g \in Groups |-> << >>]
    /\ aggregated' = {}
    /\ request' = [c \in Clients |-> NoRequest]
    /\ phase' = "complete"
    /\ hook' = "none"
    /\ signalled' = FALSE
    /\ exit' = "none"
    /\ destroyed' = FALSE
    /\ UNCHANGED <<reply, learned, context>>

Command == CompleteOptions \/ ValidateOptions \/ ConfigFromOptions
           \/ NewGateway \/ Listen

LifeNext ==
    \/ Command
    \/ Fail
    \/ RunHook
    \/ HookReturns
    \/ LifeWorker
    \/ \E c \in Clients : LifeAccept(c) \/ LifeRespond(c) \/ LifeFault(c)
    \/ Terminate
    \/ StopServing
    \/ Drained
    \/ Kill
    \/ Restart

LifeSafety == LifeInit /\ [][LifeNext]_allVars

(* Everything the process does by itself happens in the end; errors,       *)
(* signals, kills, restarts and clients may come or not.                   *)
LifeSpec ==
    /\ LifeSafety
    /\ WF_allVars(Command)
    /\ WF_allVars(RunHook)
    /\ WF_allVars(LifeWorker)
    /\ \A c \in Clients : WF_allVars(LifeRespond(c))
    /\ WF_allVars(StopServing)
    /\ WF_allVars(Drained)
-----------------------------------------------------------------------------
(* Every variable keeps its type, in every life (server.Run and New).      *)
LifeTypeOK ==
    /\ TypeOK
    /\ phase \in StartUp \cup {"serving", "draining"}
    /\ context \in Contexts
    /\ hook \in {"none", "registered", "waiting", "returned"}
    /\ signalled \in BOOLEAN
    /\ exit \in {"none", "error", "fault", "terminated", "killed"}
    /\ destroyed \in BOOLEAN
    /\ life \in 1 .. MaxLives

(* As long as the server accepts requests, its health and readiness checks *)
(* fail: the hook is done only when the stop channel is closed, and that   *)
(* is after the last request was accepted.                                 *)
ServingIsNeverReady == Alive /\ phase = "serving" => ~HookCheck

(* In each life the catalog's versions and groups are refused only before  *)
(* the end of the life's first sync; a restart opens that window again,    *)
(* although clients know the versions from the life before.                *)
SyncedOnce == round > 1 \/ (round = 1 /\ step \in {"sleep", "stopped"})
RefusedOnlyWhenYoung ==
    [][SyncedOnce /\ life' = life => \A c \in Clients :
         reply'[c].kind \in {"versionNotFound", "groupNotFound"}
           => reply'[c] = reply[c]]_<<reply, life>>

(* A life that comes to serve brings the whole catalog into the tables,    *)
(* unless it ends or is told to: the hook does start the worker.           *)
EveryLifePublishes ==
    phase = "serving" /\ Alive ~> PublishedBy(1) \/ ~Alive \/ signalled

(* /api names v1 at once, the worker has to make that good: a client that  *)
(* was told v1 finds it there in the end, unless the process ends.         *)
ApiPromiseKept ==
    \A c \in Clients : \A gv \in GroupVersions :
        (GroupOf[gv] = CoreGroup /\ reply[c].kind = "apiVersions")
            ~> gv \in Published \/ ~Alive \/ signalled

(* SIGTERM ends the process, whatever is in flight and whether or not the  *)
(* worker and the hook have ended.                                         *)
SignalEnds == signalled ~> ~Alive \/ ~signalled

(* `Destroy shuts down storage layer for all registered CRDs.  It should   *)
(* be called as a last step of the shutdown sequence.'                     *)
DestroyedLast ==
    exit = "terminated" /\ phase \in {"serving", "draining"} => destroyed
=============================================================================
