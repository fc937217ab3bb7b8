------------------------------- MODULE MCIpc -------------------------------
(***************************************************************************)
(* Model checking of Ipc.  What the network still holds of a connection    *)
(* that is closed is never read again, and is left out of the state TLC    *)
(* compares.                                                               *)
(***************************************************************************)
EXTENDS Ipc

Seen(f, default) == [c \in Conns |-> IF Live(c) THEN f[c] ELSE default]

LiveView == <<sels, cds, Seen(inq, <<>>), Seen(hung, FALSE), Seen(waits, 0), Seen(asks, <<>>),
              backlog, stack, evs, ops, env, stray, misled>>
=============================================================================
