----------------------------- MODULE MCServices -----------------------------
(***************************************************************************)
(* An instance of each of RailStream and DumpstateModem.                   *)
(* The two share no state and call nothing of each other, so a run         *)
(* explores them one at a time: service says which one moves.              *)
(***************************************************************************)
EXTENDS RailStream, DumpstateModem

Monitors == {"d1", "d2"}
Rails == [d \in Monitors |-> IF d = "d1" THEN <<"r1", "r2">> ELSE <<"r3">>]
Indices == {<<>>, <<2, 0>>}

LogNames == {<<"tcpdump">>, <<Prefix, "tcpdump", Prefix, Prefix>>}
LogNumbers == {-1, 2}

VARIABLE service

ServicesInit ==
    /\ service \in {"rail", "dump"}
    /\ RailInit /\ DumpInit

ServicesNext ==
    /\ UNCHANGED service
    /\ \/ service = "rail" /\ RailNext /\ UNCHANGED dumpVars
       \/ service = "dump" /\ DumpNext /\ UNCHANGED railVars

\* Each starts with something the surroundings do, which no fairness asks for.
ServicesSpec ==
    /\ ServicesInit
    /\ [][ServicesNext]_<<service, railVars, dumpVars>>
    /\ RailFairness /\ DumpFairness

\* Every variable of either part has its type.
ServicesTypeOK == RailTypeOK /\ DumpTypeOK
=============================================================================
