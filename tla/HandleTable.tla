----------------------------- MODULE HandleTable -----------------------------
(***************************************************************************)
(* What the Rust registries promise the Go side about numeric handles.     *)
(* A handle is issued once, as a root (a client) or as the child of a live *)
(* root (a request, a connection).  Closing a handle takes it and all its  *)
(* children out of service in one instant; the resources behind them are   *)
(* released later.  Nothing here says how: HttpBridge implements it.       *)
(***************************************************************************)
CONSTANTS Handles,    \* every handle value a caller could hold
          NoParent    \* the parent of a root, not a handle

VARIABLES issued,     \* handles handed out so far
          live,       \* handles that still name something
          parent,     \* the root a child was issued under
          released    \* handles whose cancellation token has fired

vars == <<issued, live, parent, released>>

Children(h) == {k \in live : parent[k] = h}

Init ==
  /\ issued = {}
  /\ live = {}
  /\ parent = [h \in Handles |-> NoParent]
  /\ released = {}

OpenRoot(h) ==
  /\ h \notin issued
  /\ issued' = issued \union {h}
  /\ live' = live \union {h}
  /\ UNCHANGED <<parent, released>>

OpenChild(h, p) ==
  /\ h \notin issued
  /\ p \in live
  /\ issued' = issued \union {h}
  /\ live' = live \union {h}
  /\ parent' = [parent EXCEPT ![h] = p]
  /\ UNCHANGED released

Close(h) ==
  /\ h \in live
  /\ live' = live \ ({h} \union Children(h))
  /\ UNCHANGED <<issued, parent, released>>

(* Only what is out of service is released. *)
Release(S) ==
  /\ S \subseteq issued \ live
  /\ released' = released \union S
  /\ UNCHANGED <<issued, live, parent>>

Next ==
  \/ \E h \in Handles :
       \/ OpenRoot(h)
       \/ \E p \in Handles : OpenChild(h, p)
       \/ Close(h)
  \/ \E S \in SUBSET Handles : Release(S)

Spec == Init /\ [][Next]_vars

-----------------------------------------------------------------------------
(* A child is in service only while its root is, and nothing in service    *)
(* has been released: a caller never meets a half-closed handle.           *)
Consistent ==
  /\ \A h \in live : parent[h] # NoParent => parent[h] \in live
  /\ live \intersect released = {}

(* Whatever is taken out of service is released in the end. *)
EventuallyReleased ==
  \A h \in Handles : (h \in issued \ live) ~> (h \in released)
=============================================================================
