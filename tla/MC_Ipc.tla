------------------------------- MODULE MC_Ipc -------------------------------
(***************************************************************************)
(* Ipc.tla for TLC: hsctl (one command), a monitor (none), and a client    *)
(* that sends several lines at once.                                       *)
(***************************************************************************)
EXTENDS Ipc

CONSTANTS c1, c2, w1

Boot(l, first, second) == [listening |-> l, job |-> c1 :> first @@ c2 :> second]

MCBoots ==
    {Boot(FALSE, <<"start", "stop">>, <<>>),
     Boot(TRUE, <<"start", "status">>, <<"stop">>),
     Boot(TRUE, <<"junk", "status">>, <<>>),
     Boot(FALSE, <<"status">>, <<"odd">>)}
=============================================================================
