-------------------------- MODULE MCClientManager --------------------------
(***************************************************************************)
(* Instances of ClientManager for TLC: lists of clients such as            *)
(* configurations have, each with the server set for every client.         *)
(***************************************************************************)
EXTENDS ClientManager, Sequences

CONSTANTS s1, s2

Zero(s) == [i \in 0 .. Len(s) - 1 |-> s[i + 1]]

\* A Modbus TCP client and an OPC client, each with a server of its own.
SafeProtocol == Zero(<<"TCP", "OPC">>)
SafeServer   == Zero(<<s1, s2>>)

\* Every protocol, and three OPC clients: one of another server, of a data type
\* the OPC part does not read, and one of that server whose node name is too
\* long.
AnyProtocol == Zero(<<"OPC", "TCP", "RTU", "OPC", "OPC">>)
AnyServer   == Zero(<<s1, s1, s2, s2, s2>>)

\* Two OPC clients, of one server and of two.
OpcProtocol == Zero(<<"OPC", "OPC">>)
OneServer   == Zero(<<s1, s1>>)
TwoServers  == Zero(<<s1, s2>>)
=============================================================================
