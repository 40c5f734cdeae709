----------------------------- MODULE OpcSession -----------------------------
(***************************************************************************)
(* What the calls of opc_connect.c promise the client manager about the    *)
(* one OPC UA session of the process, each call taken as a whole.  The     *)
(* handle is null, holds a session, or holds a client that the stack has   *)
(* disconnected; the process has some sockets, one of them the session's.  *)
(***************************************************************************)
EXTENDS Naturals

CONSTANT FD_MAX    \* sockets the process may have

VARIABLES handle, sockets, ok

vars == <<handle, sockets, ok>>

Init == handle = "null" /\ sockets = 0 /\ ok = FALSE

\* The sockets there are once the session is closed.
Others == IF handle = "session" THEN sockets - 1 ELSE sockets

\* opcCloseConnection and opcConnect.  A connection that fails is given up
\* with the object, and may leave one socket behind.
Connect ==
  \/ Others < FD_MAX /\ handle' = "session" /\ sockets' = Others + 1 /\ ok'
  \/ handle' = "null" /\ sockets' \in {Others} \cup {n \in {Others + 1} : n <= FD_MAX} /\ ~ok'

\* A read succeeds on a session only; when it fails the session stays as it
\* is or is disconnected with its socket closed.
Read ==
  \/ handle = "session" /\ ok' /\ UNCHANGED <<handle, sockets>>
  \/ handle # "null" /\ ~ok' /\ UNCHANGED <<handle, sockets>>
  \/ handle = "session" /\ handle' = "disconnected" /\ sockets' = sockets - 1 /\ ~ok'

Next == Connect \/ Read

Spec == Init /\ [][Next]_vars
=============================================================================
