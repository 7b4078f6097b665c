-------------------------- MODULE FirstUsePromise --------------------------
(***************************************************************************)
(* What a user may expect of the first-use record over all runs of the     *)
(* service: a button needs no dialog only if its token confirmed one, now  *)
(* or in an earlier run; and as long as every start could read the file,   *)
(* the only thing that takes a confirmation of an installed application    *)
(* away is the loss of the whole file.                                     *)
(***************************************************************************)
EXTENDS Naturals

CONSTANT Token

VARIABLES
    inForce,      \* tokens that need no dialog now
    kept,         \* tokens that would need none after a start
    read,         \* TRUE: this run began by reading what was kept
    installed     \* tokens of installed applications

promiseVars == <<inForce, kept, read, installed>>

\* A service that has not started yet.
Init ==
    /\ inForce = {}
    /\ kept \in SUBSET Token
    /\ read = FALSE
    /\ installed = Token

Confirm(t) ==
    /\ inForce' = inForce \cup {t}
    /\ UNCHANGED <<kept, read, installed>>

\* The record is written anew from what is in force ...
Keep ==
    /\ kept' \subseteq inForce
    /\ read => kept \cap installed \subseteq kept'
    /\ UNCHANGED <<inForce, read, installed>>

\* ... or lost as a whole.
Lose ==
    /\ kept' = {}
    /\ UNCHANGED <<inForce, read, installed>>

\* A run ends.
Stop ==
    /\ inForce' = {}
    /\ read' = FALSE
    /\ UNCHANGED <<kept, installed>>

\* A run begins, with what was kept or, when that cannot be read, with nothing.
Start ==
    /\ inForce = {}
    /\ read' \in BOOLEAN
    /\ inForce' = IF read' THEN kept ELSE {}
    /\ UNCHANGED <<kept, installed>>

\* The identity of an application is not given to another one.
Uninstall(t) ==
    /\ installed' = installed \ {t}
    /\ UNCHANGED <<inForce, kept, read>>

Next ==
    \/ \E t \in Token : Confirm(t) \/ Uninstall(t)
    \/ Keep
    \/ Lose
    \/ Stop
    \/ Start

Spec == Init /\ [][Next]_promiseVars
=============================================================================
