------------------------------ MODULE MCOperations ------------------------------
(* Small organizations, fewer workers or slots than repositories where it      *)
(* matters, three command lines for the synchronization, three repositories    *)
(* to configure in one of two ways, one of them with a second branch that is   *)
(* protected as well, and all graphs of four package managers within a larger  *)
(* one that has a circle.                                                      *)
EXTENDS Operations

CONSTANTS s1, s2, sw1, sw2, k1, k2, c1, c2, i1, i2, i3, main, dev, a1, a2, b1, b2, b3, b4

CommandLines ==
    {[create |-> TRUE, update |-> TRUE, force |-> FALSE, dry |-> FALSE, parts |-> {"code", "releases"}],
     [create |-> FALSE, update |-> TRUE, force |-> TRUE, dry |-> FALSE, parts |-> {"code", "issues"}],
     [create |-> TRUE, update |-> TRUE, force |-> TRUE, dry |-> TRUE, parts |-> {"code"}]}

Like(private, archived, default, onMain, onDev, team) ==
    [private |-> private, archived |-> archived, default |-> default,
     admins |-> [b \in {main, dev} |-> IF b = main THEN onMain ELSE onDev], team |-> team]

Repositories ==
    {Like(TRUE, FALSE, main, "bound", "bound", "read"),
     Like(TRUE, TRUE, main, "free", "none", "none"),
     Like(FALSE, FALSE, dev, "bound", "none", "admin")}

Configurations ==
    {Like(FALSE, FALSE, NoBranch, "free", "bound", "admin"),
     Like(TRUE, TRUE, dev, "none", "free", "read")}

Dependencies ==
    {g \in [{b1, b2, b3, b4} -> SUBSET {b1, b2, b3, b4}] :
       /\ g[b1] = {}
       /\ g[b2] \subseteq {b1, b4}
       /\ g[b3] \in {{}, {b1, b2}}
       /\ g[b4] \in {{b3}, {b2, b3}}}
================================================================================
