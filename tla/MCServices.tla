------------------------------- MODULE MCServices -------------------------------
(* Two of everything: a watcher and its successor, two reloaders, two callers  *)
(* of the registry, two saves of an SSH snapshot that may be there already and  *)
(* a load of it; and a fan-out over three providers.                           *)
EXTENDS Services

CONSTANTS u1, l1, n1, n2, g1, g2, p1, p2, p3, o1, o2, e1, e2, v1, v2, d1
================================================================================
