------------------------------ MODULE BootGuard ------------------------------
(***************************************************************************)
(* What the failsafe boot update of gpt-utils promises, with no GPT, no    *)
(* stage and no fault in sight: the copies of an image take turns, and the *)
(* one that boots is never the one being written.                          *)
(***************************************************************************)
CONSTANT Images

VARIABLES
    booted,   \* booted[i]: the copy of image i a reboot would load
    content   \* content[i][c]: what copy c of image i holds

vars == <<booted, content>>

Copies  == {"main", "bak"}

Init ==
    /\ booted = [i \in Images |-> "main"]
    /\ content = [i \in Images |-> [c \in Copies |-> "old"]]

\* Any number of images switch at once, but only to complete copies.
Switch ==
    /\ booted' \in [Images -> Copies]
    /\ \A i \in Images : booted'[i] # booted[i] => content[i][booted'[i]] # "torn"
    /\ UNCHANGED content

Overwrite(i, c) ==
    /\ booted[i] # c
    /\ \/ content' = [content EXCEPT ![i][c] = "torn"]
       \/ content' = [content EXCEPT ![i][c] = "new"]
    /\ UNCHANGED booted

\* A new package makes old what was new.
Supersede ==
    /\ content' = [i \in Images |-> [c \in Copies |->
                      IF content[i][c] = "torn" THEN "torn" ELSE "old"]]
    /\ UNCHANGED booted

Next == \/ Switch
        \/ \E i \in Images, c \in Copies : Overwrite(i, c)
        \/ Supersede

Spec == Init /\ [][Next]_vars
=============================================================================
