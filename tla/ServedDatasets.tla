--------------------------- MODULE ServedDatasets ---------------------------
(***************************************************************************)
(* What the catalogue and the object store promise a reader together: a    *)
(* dataset is served only with all of its files, and while it is served    *)
(* none of them goes away.  Only withdrawn datasets lose files.            *)
(***************************************************************************)
CONSTANTS Datasets, Files

VARIABLES
    served,   \* the datasets a reader may look up
    content   \* content[d]: the files it finds

vars == <<served, content>>

Init ==
    /\ served = {}
    /\ content = [d \in Datasets |-> {}]

Write(d) ==
    /\ \E f \in Files : content' = [content EXCEPT ![d] = @ \cup {f}]
    /\ UNCHANGED served

Serve(d) ==
    /\ content[d] = Files
    /\ served' = served \cup {d}
    /\ UNCHANGED content

Withdraw(D) ==
    /\ D \subseteq served
    /\ served' = served \ D
    /\ UNCHANGED content

Erase(d) ==
    /\ d \notin served
    /\ \E f \in content[d] : content' = [content EXCEPT ![d] = @ \ {f}]
    /\ UNCHANGED served

Next ==
    \/ \E d \in Datasets : Write(d) \/ Serve(d) \/ Erase(d)
    \/ \E D \in SUBSET Datasets : Withdraw(D)

Spec == Init /\ [][Next]_vars
=============================================================================
