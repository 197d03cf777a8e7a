--------------------------- MODULE DiscoveryService ---------------------------
(***************************************************************************)
(* What the discovery endpoints promise, without the worker, its slices    *)
(* and its locks: a version is published, its listing is guaranteed to     *)
(* have a number of leading resources (`floor'), a rebuild drops that      *)
(* guarantee to a single resource and regrows it, and documents advertise  *)
(* published versions only.                                                *)
(***************************************************************************)
EXTENDS Naturals

CONSTANTS
    GroupVersions,  \* the versions of the catalog
    Size,           \* Size[gv]: the number of resources of gv
    Clients,        \* the callers
    None            \* no request, no answer

VARIABLES
    floor,          \* floor[gv]: guaranteed resources; 0 before publication
    advertised,     \* the versions some document names
    pending,        \* pending[c]: the request c waits for
    answer,         \* answer[c]: what c was told last
    learned         \* learned[c]: the versions c saw in a document

vars == <<floor, advertised, pending, answer, learned>>

Init ==
    /\ floor = [gv \in GroupVersions |-> 0]
    /\ advertised = {}
    /\ pending = [c \in Clients |-> None]
    /\ answer = [c \in Clients |-> None]
    /\ learned = [c \in Clients |-> {}]

(* A sync publishes a version, or publishes it again, from its start.      *)
Rebuild(gv) ==
    /\ floor' = [floor EXCEPT ![gv] = 1]
    /\ UNCHANGED <<advertised, pending, answer, learned>>

Extend(gv) ==
    /\ floor[gv] \in 1 .. Size[gv] - 1
    /\ floor' = [floor EXCEPT ![gv] = @ + 1]
    /\ UNCHANGED <<advertised, pending, answer, learned>>

(* A document that names a version may replace one that named others.      *)
Advertise(gv) ==
    /\ floor[gv] > 0
    /\ \E kept \in SUBSET advertised : advertised' = kept \cup {gv}
    /\ UNCHANGED <<floor, pending, answer, learned>>

(* A version that was never published is refused at once.                  *)
Refuse(c, gv) ==
    /\ pending[c] = None
    /\ floor[gv] = 0
    /\ answer' = [answer EXCEPT ![c] = [of |-> gv, refused |-> TRUE]]
    /\ UNCHANGED <<floor, advertised, pending, learned>>

Ask(c, gv) ==
    /\ pending[c] = None
    /\ floor[gv] > 0
    /\ pending' = [pending EXCEPT ![c] = [of |-> gv, floor |-> floor[gv]]]
    /\ UNCHANGED <<floor, advertised, answer, learned>>

(* The answer has every resource guaranteed when the request was made; the *)
(* resources added since may be in it or not.                              *)
List(c) ==
    /\ pending[c] # None
    /\ \E intact \in SUBSET (1 .. Size[pending[c].of]) :
         /\ 1 .. pending[c].floor \subseteq intact
         /\ answer' = [answer EXCEPT
              ![c] = [of |-> pending[c].of, refused |-> FALSE,
                      intact |-> intact]]
    /\ pending' = [pending EXCEPT ![c] = None]
    /\ UNCHANGED <<floor, advertised, learned>>

(* A document names some of the advertised versions; the answer to a       *)
(* document is not of interest here.                                       *)
Learn(c) ==
    /\ pending[c] = None
    /\ answer' = [answer EXCEPT ![c] = None]
    /\ \E shown \in SUBSET advertised :
         learned' = [learned EXCEPT ![c] = @ \cup shown]
    /\ UNCHANGED <<floor, advertised, pending>>

(* The process may die, with every request in flight.                      *)
Die ==
    /\ pending' = [c \in Clients |-> None]
    /\ UNCHANGED <<floor, advertised, answer, learned>>

Next ==
    \/ \E gv \in GroupVersions : Rebuild(gv) \/ Extend(gv) \/ Advertise(gv)
    \/ \E c \in Clients :
         \/ \E gv \in GroupVersions : Refuse(c, gv) \/ Ask(c, gv)
         \/ List(c)
         \/ Learn(c)
    \/ Die

Spec == Init /\ [][Next]_vars
=============================================================================
