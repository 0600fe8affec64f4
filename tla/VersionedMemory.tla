--------------------------- MODULE VersionedMemory ---------------------------
(***************************************************************************)
(* What the memory store promises its callers, without sessions, tables or *)
(* conflicts: every memory is a history of contents.  It is created once,  *)
(* with the content its identifier was computed from; afterwards one call  *)
(* at a time adds one version at the end, and no version is ever changed   *)
(* or removed.                                                             *)
(***************************************************************************)
EXTENDS Sequences

CONSTANTS Ids, Contents, First(_)

VARIABLE history

Init == history = [id \in Ids |-> <<>>]

Create(id) ==
    /\ history[id] = <<>>
    /\ history' = [history EXCEPT ![id] = <<First(id)>>]

Change(id, c) ==
    /\ history[id] # <<>>
    /\ history' = [history EXCEPT ![id] = Append(@, c)]

Next == \E id \in Ids : Create(id) \/ \E c \in Contents : Change(id, c)

Spec == Init /\ [][Next]_history
=============================================================================
