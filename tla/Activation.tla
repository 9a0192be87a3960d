------------------------------ MODULE Activation ------------------------------
(***************************************************************************)
(* What Manager.Apply promises to everyone who edits the tables, without   *)
(* handlers, mutex, snapshots or failures: per row, nginx.conf trails the  *)
(* tables, never goes back, shows a row as it is when it has caught up     *)
(* with it, and OpenResty only ever takes over nginx.conf as a whole.      *)
(* ControlPlane implements it (its ActivationSpec).                        *)
(***************************************************************************)
EXTENDS Naturals

CONSTANT Ids       \* ids of the routing rows

VARIABLES
  stored,          \* stored[id]: what the tables ask nginx.conf to say of it
  version,         \* version[id]: how often that was written
  active,          \* active[id]: what nginx.conf says of it
  activeVersion,   \* the version that was taken from
  live             \* what the running workers do

vars == <<stored, version, active, activeVersion, live>>

Init ==
  /\ version = [id \in Ids |-> 0]
  /\ activeVersion = version
  /\ active = stored
  /\ live = active

(* A statement changes some rows, each of which gets a new version. *)
Write ==
  /\ \A id \in Ids : \/ version'[id] = version[id] /\ stored'[id] = stored[id]
                     \/ version'[id] = version[id] + 1
  /\ UNCHANGED <<active, activeVersion, live>>

(* An activation takes each row at its present version or at an earlier    *)
(* one, not at one older than nginx.conf has, and at the present version   *)
(* it takes the row as it is.                                              *)
Activate ==
  /\ \A id \in Ids :
       /\ activeVersion[id] <= activeVersion'[id]
       /\ activeVersion'[id] <= version[id]
       /\ activeVersion'[id] = version[id] => active'[id] = stored[id]
  /\ UNCHANGED <<stored, version, live>>

Reload ==
  /\ live' = active
  /\ UNCHANGED <<stored, version, active, activeVersion>>

Next == Write \/ Activate \/ Reload

Spec == Init /\ [][Next]_vars
=============================================================================
