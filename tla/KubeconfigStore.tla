-------------------------- MODULE KubeconfigStore ---------------------------
(***************************************************************************)
(* What concurrent runs of the plugin (cli/kubectl-gw) make of the         *)
(* kubeconfig, without files, lock files and the order of writes: a store  *)
(* that one client at a time replaces as a whole.  A client computes the   *)
(* replacement from what it took out earlier, so that it may undo what     *)
(* others committed since.  While a replacement is under way the store is  *)
(* torn: whoever takes a snapshot then gets anything.  A replacement that  *)
(* fails leaves anything; one whose client dies leaves the store torn for  *)
(* ever.                                                                   *)
(***************************************************************************)
CONSTANTS
    Clients,          \* the runs of the plugin
    Names,            \* the arguments they may be given
    Contents,         \* what may be stored
    Initially,        \* what may be stored at first
    Empty,            \* what a client that took nothing out holds
    Torn,             \* a store that is being replaced
    NoName,           \* the argument of a client that has not begun
    Replacement(_, _) \* what a client makes of a snapshot and its argument

VARIABLES
    stored,           \* the content, or Torn
    status,           \* status[c]: how far c is
    argument,         \* argument[c]: the argument of c
    taken             \* taken[c]: the snapshot of c

vars == <<stored, status, argument, taken>>

Init ==
    /\ stored \in Initially
    /\ status = [c \in Clients |-> "idle"]
    /\ argument = [c \in Clients |-> NoName]
    /\ taken = [c \in Clients |-> Empty]

Take(c) ==
    /\ status[c] = "idle"
    /\ \E s \in {"ready", "ended"} : status' = [status EXCEPT ![c] = s]
    /\ \E n \in Names : argument' = [argument EXCEPT ![c] = n]
    /\ taken'[c] \in IF stored = Torn THEN Contents ELSE {stored}
    /\ taken' = [taken EXCEPT ![c] = taken'[c]]
    /\ UNCHANGED stored

GiveUp(c) ==
    /\ status[c] = "ready"
    /\ status' = [status EXCEPT ![c] = "ended"]
    /\ UNCHANGED <<stored, argument, taken>>

Begin(c) ==
    /\ status[c] = "ready"
    /\ stored # Torn
    /\ stored' = Torn
    /\ status' = [status EXCEPT ![c] = "replacing"]
    /\ UNCHANGED <<argument, taken>>

Commit(c) ==
    /\ status[c] = "replacing"
    /\ stored' = Replacement(taken[c], argument[c])
    /\ status' = [status EXCEPT ![c] = "succeeded"]
    /\ UNCHANGED <<argument, taken>>

Abort(c) ==
    /\ status[c] = "replacing"
    /\ stored' \in Contents
    /\ status' = [status EXCEPT ![c] = "ended"]
    /\ UNCHANGED <<argument, taken>>

Die(c) ==
    /\ status[c] = "replacing"
    /\ status' = [status EXCEPT ![c] = "ended"]
    /\ UNCHANGED <<stored, argument, taken>>

Next == \E c \in Clients :
    Take(c) \/ GiveUp(c) \/ Begin(c) \/ Commit(c) \/ Abort(c) \/ Die(c)

Spec == Init /\ [][Next]_vars
=============================================================================
