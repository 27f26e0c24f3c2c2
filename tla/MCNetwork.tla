------------------------------- MODULE MCNetwork -------------------------------
(* Services for module Network: what users write in manifests, and where. *)
EXTENDS Network

CONSTANTS a1, a2, n1, n2, n3, s2

\* s2 is the service of another namespace.
SpacesGiven == [x \in Services \cup Pods |-> IF x = s2 THEN "prod" ELSE "dev"]

Written(type, ip, selector, ports) ==
  [type |-> type, ip |-> ip, selector |-> selector, ports |-> ports]

SpecsGiven ==
  {Written("NodePort", None, "web", [http |-> None]),
   Written("NodePort", None, "web", [http |-> n1]),
   Written("NodePort", None, "db", [http |-> n2, https |-> n1]),
   Written("NodePort", None, "db", [http |-> n3, https |-> n2]),
   Written("NodePort", a2, "db", [http |-> n1]),
   Written("ClusterIP", a1, "web", [http |-> None]),
   Written("ClusterIP", Headless, "db", [http |-> None]),
   Written("ExternalName", None, None, [http |-> None])}
===============================================================================
