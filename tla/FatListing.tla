----------------------------- MODULE FatListing -----------------------------
(***************************************************************************)
(* directoryList of kernel/arch/i386/FAT.c: the walk over the clusters of  *)
(* a directory that prints the entries a caller wants to see.  An entry is *)
(* the kind of its name ("end", "free", "dots", "name"), its attributes as *)
(* a set, and an id that tells entries apart.  The listing is the sequence *)
(* of the ids printed.                                                     *)
(***************************************************************************)
EXTENDS Integers, Sequences

Attributes == {"READ_ONLY", "HIDDEN", "SYSTEM", "VOLUME_ID", "DIRECTORY", "ARCHIVE"}
FILE_LONG_NAME == {"READ_ONLY", "HIDDEN", "SYSTEM", "VOLUME_ID"}
END_CLUSTER == 99       \* stands for the values from END_CLUSTER_32 on

(* attributes_to_hide for the caller's attributesToAdd and exclusive.      *)
attributes_to_hide(add, exclusive) ==
  IF exclusive THEN Attributes \ add ELSE {"HIDDEN", "SYSTEM"} \ add

Skipped_KeepsDeleted(e, hide) ==
  FILE_LONG_NAME \subseteq e.attributes \/ e.attributes \cap hide # {}
Skipped(e, hide) ==
  \/ e.kind = "free"
  \/ FILE_LONG_NAME \subseteq e.attributes
  \/ e.attributes \cap hide # {}

(* The step at an entry the caller does not see: on to the next one while  *)
(* it lies in the cluster.                                                 *)
StaysInCluster(count, perCluster) == count < perCluster - 1

(* directoryList(cluster, add, exclusive).  vol.entries[c] is the sequence *)
(* of entries of cluster c, vol.next[c] what FATRead(c) returns, or -1     *)
(* when its read fails.  clusterRead puts the cluster in front of what the *)
(* transfer area held: vol.behind.  Only a skipped entry is followed by a  *)
(* test against the end of the cluster: after a printed one the walk may   *)
(* go on behind it.  -1 is END_CLUSTER or more to the unsigned comparison. *)
RECURSIVE Walk(_, _, _, _, _)
Walk(vol, cluster, hide, i, listed) ==
  LET perCluster == Len(vol.entries[cluster])
      e == (vol.entries[cluster] \o vol.behind)[i]
      next == vol.next[cluster]
      count == i - 1
  IN CASE e.kind = "end" -> [code |-> 0, listed |-> listed]
       [] e.kind = "dots" -> Walk(vol, cluster, hide, i + 1, Append(listed, e.id))
       [] e.kind \notin {"end", "dots"} /\ Skipped(e, hide) ->
            IF StaysInCluster(count, perCluster)
            THEN Walk(vol, cluster, hide, i + 1, listed)
            ELSE CASE next = -1 \/ next >= END_CLUSTER -> [code |-> 0, listed |-> listed]
                   [] next \in DOMAIN vol.entries ->
                        IF vol.readable[next] THEN Walk(vol, next, hide, 1, listed)
                        ELSE [code |-> -1, listed |-> listed]
                   [] OTHER -> [code |-> -1, listed |-> listed]
       [] OTHER -> Walk(vol, cluster, hide, i + 1, Append(listed, e.id))

directoryList(vol, cluster, add, exclusive) ==
  IF cluster \notin DOMAIN vol.entries \/ ~vol.readable[cluster]
  THEN [code |-> -1, listed |-> <<>>]
  ELSE Walk(vol, cluster, attributes_to_hide(add, exclusive), 1, <<>>)
=============================================================================
