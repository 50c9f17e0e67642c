------------------------------ MODULE Custody ------------------------------
(***************************************************************************)
(* What an adoption promises about where a file's bytes are, whatever      *)
(* crashes on the way.  A file starts in the source; a call may put a copy *)
(* in the workspace; only a call in move mode lets go of the source, one    *)
(* file at a time and only where the copy is there.  A file that was moved  *)
(* stays moved.                                                            *)
(***************************************************************************)
CONSTANT Files

VARIABLES
    place,      \* "source", "both", "target", or "gone": the user deleted it
    moving      \* whether a call in move mode is running

vars == <<place, moving>>

Init == place = [f \in Files |-> "source"] /\ moving = FALSE

\* A call starts, returns or dies: no bytes move.
Switch == moving' \in BOOLEAN /\ UNCHANGED place

\* A copy lands; files with the same bytes may share a destination.
Copy == /\ \E S \in SUBSET {f \in Files : place[f] = "source"} :
              place' = [f \in Files |-> IF f \in S THEN "both" ELSE place[f]]
        /\ UNCHANGED moving

\* The copy is verified and the source is let go.
Release(f) == /\ moving /\ place[f] = "both"
              /\ place' = [place EXCEPT ![f] = "target"]
              /\ UNCHANGED moving

\* The user rewrites or deletes a file that is still in the source.
Edit(f) == /\ place[f] \in {"source", "both"}
           /\ \E p \in {"source", "both", "gone"} : place' = [place EXCEPT ![f] = p]
           /\ UNCHANGED moving

Next == Switch \/ Copy \/ \E f \in Files : Release(f) \/ Edit(f)

Spec == Init /\ [][Next]_vars

=============================================================================
