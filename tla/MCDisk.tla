------------------------------- MODULE MCDisk -------------------------------
(***************************************************************************)
(* The buffer cache and the disk driver in one run.  The cache is modelled *)
(* against what the driver promises (ReturnsTransferred) and shares no     *)
(* state with it, so a behaviour exercises one of them: the initial state  *)
(* says which.                                                             *)
(***************************************************************************)
EXTENDS BufferCache, VirtioDisk, TLC

VARIABLE layer

vars == <<layer, bufvars, diskvars>>

\* The buffers of the driver are interchangeable.  So are the blocks of the
\* cache: what tells two of its states apart is which buffer holds a block,
\* what that block has on disk, and the contents of the blocks without buffer.
Symmetry == Permutations(IoBuf)

View ==
    << layer, diskvars,
       [f \in Buf |-> IF blockno[f] = NeverUsed THEN NeverUsed ELSE disk[blockno[f]]],
       bvalid, refcnt, contents, lockedby, lru, pinned, bpc, cur, panicked,
       [v \in Val |-> Cardinality({k \in BlockNo : Cached(k) = {} /\ disk[k] = v})] >>

Init == layer \in {"cache", "driver"} /\ BufInit /\ DiskInit

Next ==
    /\ UNCHANGED layer
    /\ \/ /\ layer = "cache"
          /\ BufNext \/ (panicked /\ UNCHANGED bufvars)
          /\ UNCHANGED diskvars
       \/ layer = "driver" /\ DiskNext /\ UNCHANGED bufvars

Spec == Init /\ [][Next]_vars

=============================================================================
