------------------------ MODULE ControlPlaneInvariant ------------------------
(***************************************************************************)
(* What keeps the properties of ControlPlane true from step to step: the   *)
(* parts of an inductive invariant, checked by TLC and proved inductive in *)
(* ControlPlaneProof.                                                      *)
(***************************************************************************)
EXTENDS ControlPlane

(* Manager.mu is held by the one handler inside Apply.                     *)
Inside(c) == pc[c] \in {"routes", "lists", "activate", "signal"}

Exclusion == \A c \in Clients : Inside(c) <=> holder = c

(* What a handler works on fits its kind: an idle one has nothing, a write *)
(* has a row to write and a row id to write to, except that the id of a    *)
(* new row is not known before the INSERT.                                 *)
RequestShape(c) ==
  /\ pc[c] = "idle" <=> kind[c] = "none"
  /\ pc[c] = "idle" => mine[c] = 0
  /\ kind[c] \in {"update", "delete"} => tgt[c] \in Ids
  /\ kind[c] = "drop" => tgt[c] \in Refs
  /\ kind[c] \in {"none", "touch", "setting"} => tgt[c] = None
  /\ kind[c] \in Creations => IF pc[c] \in {"domains", "write", "failed"}
                              THEN tgt[c] \in Ids \cup {None}
                              ELSE tgt[c] \in Ids
  /\ kind[c] \in Creations \cup {"update"} => want[c] \in Row
  /\ pc[c] \in {"readOld", "checkRefs"} => kind[c] = "update"
  /\ pc[c] = "domains" => kind[c] \in {"createHost", "update"}
  /\ pc[c] = "write" => kind[c] \in Creations \cup {"update", "delete"}
  /\ pc[c] = "reread" => kind[c] \in Creations \cup {"update"}
  /\ pc[c] = "rollback" => kind[c] \in Creations \cup {"update", "setting"}
  /\ pc[c] \in {"checkRoutes", "drop", "erase"} => kind[c] = "drop"

Shapes == \A c \in Clients : RequestShape(c)

(* The rows Apply has read by now. *)
Read(c) ==
  CASE pc[c] = "routes" -> HostIds
    [] pc[c] \in {"lists", "activate"} -> Ids
    [] OTHER -> {}

(* Versions only grow along the way from the tables to nginx.conf. *)
VersionOrder ==
  /\ \A id \in Ids : confVer[id] <= ver[id]
  /\ \A c \in Clients : \A id \in Read(c) :
       confVer[id] <= snapVer[c][id] /\ snapVer[c][id] <= ver[id]

(* A handler's own write travels the same way: into the table, into what   *)
(* its Apply reads, into nginx.conf.                                       *)
OwnWriteTravels ==
  \A c \in Clients : tgt[c] \in Ids =>
    /\ mine[c] <= ver[tgt[c]]
    /\ tgt[c] \in Read(c) => mine[c] <= snapVer[c][tgt[c]]
    /\ pc[c] \in {"signal", "ok"} => mine[c] <= confVer[tgt[c]]

(* A row read at its present version is the present row, and if the access *)
(* lists and providers were read too, the ones it refers to are among them. *)
SnapshotCoherent ==
  \A c \in Clients : \A id \in Read(c) : snapVer[c][id] = ver[id] =>
    /\ snap[c][id] = rows[id]
    /\ pc[c] = "activate" /\ rows[id] # None => rows[id].refs \ Certs \subseteq seen[c]

(* All of it, the inductive invariant: handlers exclude one another inside *)
(* Apply, versions only grow on their way to nginx.conf, and what Apply    *)
(* has read of a row is a version the row had, with its references.        *)
Inv ==
  /\ TypeOK
  /\ Shapes
  /\ ForeignKeys
  /\ Exclusion
  /\ VersionOrder
  /\ OwnWriteTravels
  /\ SnapshotCoherent
  /\ ActivatedRowsAreCoherent

-----------------------------------------------------------------------------
(* Why the system settles: every version that is not in nginx.conf is owed *)
(* by a handler that has yet to read it for its Apply.                     *)

Owes(c, id) ==
  \/ pc[c] = "reread" /\ tgt[c] = id
  \/ pc[c] = "apply"
  \/ pc[c] = "routes" /\ id \in RouteIds

(* Nobody activates the rows a deleted certificate was taken from.         *)
Owed(id) == owner[id] = None \/ \E c \in Clients : owner[id] = c /\ Owes(c, id)

(* What the Apply in progress has read, or has activated, is up to date    *)
(* but for versions that are owed; and without one nginx.conf is, unless   *)
(* the last Apply failed.                                                  *)
NothingForgotten ==
  \A id \in Ids :
    /\ \A c \in Clients : id \in Read(c) => snapVer[c][id] = ver[id] \/ Owed(id)
    /\ \A c \in Clients : pc[c] = "signal" => confVer[id] = ver[id] \/ Owed(id)
    /\ \/ confVer[id] = ver[id] \/ Owed(id)
       \/ ~lastOk
       \/ \E c \in Clients : id \in Read(c)

(* A handler whose write is the last one to its row finds the row when it  *)
(* reads it again, and goes on to activate it.                             *)
WriterFindsRow ==
  \A c \in Clients :
    pc[c] = "reread" /\ owner[tgt[c]] = c => rows[tgt[c]] # None

(* OpenResty runs nginx.conf unless a reload is due, was refused or could  *)
(* not be asked for.                                                       *)
LiveOrDue ==
  \/ live = conf
  \/ pending \/ reloadLost \/ ~lastOk
  \/ \E c \in Clients : pc[c] = "signal"

(* Together: a change that was stored is either in nginx.conf and running, *)
(* or some handler, a due reload or a reported failure stands for it.      *)
SettlingInv == NothingForgotten /\ WriterFindsRow /\ LiveOrDue

-----------------------------------------------------------------------------
(* Why a handler that runs alone can take back what it did: nobody takes   *)
(* the domains it found free, the row it wrote or the objects the old row  *)
(* refers to.                                                              *)

WritesHost(c) ==
  \/ kind[c] = "createHost"
  \/ kind[c] = "update" /\ tgt[c] \in HostIds

(* The write has been made, and not been taken back. *)
Standing(c) ==
  /\ kind[c] \in Creations \cup {"update"}
  /\ pc[c] \in {"reread", "apply", "routes", "lists", "activate", "signal", "rollback"}
  /\ ~second[c]

Undisturbed(c) ==
  /\ kind[c] # "update" => old[c] = None
  /\ kind[c] \in Creations /\ pc[c] \in {"domains", "write"} => tgt[c] = None
  /\ pc[c] = "checkRefs" => tgt[c] \notin HostIds
  /\ pc[c] \in {"readOld", "write"} /\ WritesHost(c)
       => ~DomainTaken(want[c].domains, tgt[c])
  /\ old[c] # None =>
       /\ old[c].refs \subseteq refs
       /\ tgt[c] \in HostIds => ~DomainTaken(old[c].domains, tgt[c])
  /\ Standing(c) => rows[tgt[c]] # None
  /\ second[c] => pc[c] \in {"apply", "routes", "lists", "activate", "signal", "failed"}
  /\ second[c] /\ tgt[c] \in Ids => rows[tgt[c]] = old[c] /\ owner[tgt[c]] = c

SerialInv == DomainsUnique /\ \A c \in Clients : Undisturbed(c)

(* What the tables must hold at the start for domains to be unique.        *)
InitialDomainsUnique ==
  \A i, j \in HostIds :
    i # j /\ InitRows[i] # None /\ InitRows[j] # None
      => InitRows[i].domains \cap InitRows[j].domains = {}
=============================================================================
