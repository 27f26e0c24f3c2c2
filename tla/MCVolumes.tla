------------------------------- MODULE MCVolumes -------------------------------
(* Classes and names for module Volumes. *)
EXTENDS Volumes

\* "standard" is what the cluster starts with; "manual" has no StorageClass.
Given ==
  [standard |-> [waits |-> TRUE, policy |-> "Delete"],
   fast |-> [waits |-> FALSE, policy |-> "Retain"]]

VolumesGiven ==
  {[class |-> "standard", size |-> 1, policy |-> "Retain"],
   [class |-> "manual", size |-> 2, policy |-> "Delete"]}
ClaimsGiven ==
  {[class |-> None, size |-> 1], [class |-> "fast", size |-> 1],
   [class |-> "manual", size |-> 2]}

Dynamic == [c \in Claims |-> <<"pvc", c>>]
===============================================================================
