-------------------------------- MODULE Lease --------------------------------
(***************************************************************************)
(* What becomes of the things a Run makes (applecontainer.go): they belong *)
(* to the Run while it goes on, and to the handle it returned after it; a  *)
(* Run that returns no handle abandons what it made, but nothing that was  *)
(* started.  Only a handle removes, the container before what it uses, and *)
(* an image that is to be kept stays.                                      *)
(***************************************************************************)
CONSTANT Runs

VARIABLES
  owner,      \* whose the things of a Run are: run, handle or nobody
  container,  \* none, idle, started or gone
  network,    \* none, exists or gone
  image,      \* none, exists or gone
  keep        \* the image is not to be removed

vars == <<owner, container, network, image, keep>>

Init ==
  /\ owner = [r \in Runs |-> "run"]
  /\ container = [r \in Runs |-> "none"]
  /\ network = [r \in Runs |-> "none"]
  /\ image = [r \in Runs |-> "none"]
  /\ keep \in [Runs -> BOOLEAN]

Pass(r, next) == owner' = [owner EXCEPT ![r] = next]

\* A Run makes each thing once; it may fail for having made it, and abandon it.
Make(r) ==
  /\ owner[r] = "run"
  /\ \/ /\ network[r] = "none"
        /\ network' = [network EXCEPT ![r] = "exists"]
        /\ UNCHANGED <<container, image>>
     \/ /\ image[r] = "none"
        /\ image' = [image EXCEPT ![r] = "exists"]
        /\ UNCHANGED <<container, network>>
     \/ /\ container[r] = "none"
        /\ container' = [container EXCEPT ![r] = "idle"]
        /\ UNCHANGED <<network, image>>
  /\ Pass(r, "run") \/ Pass(r, "nobody")
  /\ UNCHANGED keep

\* Whoever starts a container owns it, and the Run that fails for having started it
\* hands it over.
Start(r) ==
  /\ container[r] = "idle"
  /\ container' = [container EXCEPT ![r] = "started"]
  /\ \/ owner[r] = "run" /\ (Pass(r, "run") \/ Pass(r, "handle"))
     \/ owner[r] = "handle" /\ UNCHANGED owner
  /\ UNCHANGED <<network, image, keep>>

HandOver(r) ==
  /\ owner[r] = "run" /\ container[r] # "none"
  /\ Pass(r, "handle")
  /\ UNCHANGED <<container, network, image, keep>>

\* Nothing that was started is abandoned, nor anything of a container that was removed.
Abandon(r) ==
  /\ owner[r] = "run" /\ container[r] \in {"none", "idle"}
  /\ Pass(r, "nobody")
  /\ UNCHANGED <<container, network, image, keep>>

\* The daemon removes what has been started on its own (--rm), the handle at will.
RemoveContainer(r) ==
  /\ container[r] = "started" \/ (container[r] = "idle" /\ owner[r] = "handle")
  /\ container' = [container EXCEPT ![r] = "gone"]
  /\ UNCHANGED <<owner, network, image, keep>>

RemoveUsed(r) ==
  /\ owner[r] = "handle" /\ container[r] = "gone"
  /\ \/ /\ network[r] = "exists"
        /\ network' = [network EXCEPT ![r] = "gone"]
        /\ UNCHANGED image
     \/ /\ image[r] = "exists" /\ ~keep[r]
        /\ image' = [image EXCEPT ![r] = "gone"]
        /\ UNCHANGED network
  /\ UNCHANGED <<owner, container, keep>>

Next ==
  \E r \in Runs : \/ Make(r) \/ Start(r) \/ HandOver(r) \/ Abandon(r)
                  \/ RemoveContainer(r) \/ RemoveUsed(r)

Spec == Init /\ [][Next]_vars
=============================================================================
