---------------------------- MODULE ClientConfig ----------------------------
(***************************************************************************)
(* What manager_init_config (client_manager.c) makes of one entry of the   *)
(* list of clients: whether it is accepted, and the settings it leaves.    *)
(* An entry is what libconfig knows of it: the keys it lacks, and of the   *)
(* values those that the function looks at.                                *)
(***************************************************************************)
EXTENDS TsConst

DataTypes == {"bool", "int", "dword", "time", "enum"}

CommonKeys == {"name", "protocol", "refresh_rate", "data_type", "unit"}
TcpKeys    == {"mb_port", "mb_ip"}
RtuKeys    == {"mb_device", "mb_parity", "mb_baud_rate", "mb_data_bit", "mb_stop_bit"}
OpcKeys    == {"opc_ns", "opc_node", "opc_server"}
Keys       == CommonKeys \cup {"mb_id", "mb_type"} \cup TcpKeys \cup RtuKeys \cup OpcKeys

\* Entries of the list; "other" is any value the function does not know.
Entry == [missing  : SUBSET Keys,
          protocol : {"modbus", "opc", "other"},
          rate     : RefreshRate \cup {"other"},
          type     : DataTypes \cup {"other"},
          mbType   : {"TCP", "RTU", "other"},
          longName : BOOLEAN,
          longUnit : BOOLEAN,
          longNode : BOOLEAN]

\* A TCP client whose address nobody asks for.
KeysOfWithoutIp(e) ==
  CommonKeys \cup (IF e.protocol = "opc" THEN OpcKeys ELSE {"mb_id", "mb_type"} \cup
    (IF e.mbType = "RTU" THEN RtuKeys ELSE {}))

\* The keys an entry is asked for.  A Modbus type that is neither TCP nor RTU
\* is asked for nothing more.
KeysOf(e) ==
  CommonKeys \cup
  CASE e.protocol = "modbus" /\ e.mbType = "TCP" -> {"mb_id", "mb_type"} \cup TcpKeys
    [] e.protocol = "modbus" /\ e.mbType = "RTU" -> {"mb_id", "mb_type"} \cup RtuKeys
    [] e.protocol = "modbus" /\ e.mbType = "other" -> {"mb_id", "mb_type"}
    [] e.protocol = "opc" -> OpcKeys
    [] OTHER -> {}

Accepted(e) ==
  /\ KeysOf(e) \cap e.missing = {}
  /\ ~e.longName /\ ~e.longUnit
  /\ e.rate # "other" /\ e.type # "other" /\ e.protocol # "other"

registersToRead(type) ==
  CASE type = "bool" -> 1
    [] type \in {"int", "enum"} -> 2
    [] type \in {"dword", "time"} -> 4

\* The settings of an accepted entry.  _clientSettings is zeroed memory: the
\* pointers of what was not asked for are NULL, and an unknown Modbus type is
\* MPT_TCP.
Settings(e) ==
  [protocol        |-> e.protocol,
   refreshRate     |-> e.rate,
   dataType        |-> e.type,
   protocolType    |-> IF e.protocol = "modbus" /\ e.mbType = "RTU" THEN "RTU" ELSE "TCP",
   registersToRead |-> IF e.protocol = "modbus" THEN registersToRead(e.type) ELSE 0,
   given           |-> KeysOf(e) \ e.missing,
   longNode        |-> e.longNode]    \* longer than MAX_OPC_NODE_LEN: not looked at here

\* The pointers that the first connection and a read dereference
\* (modbusConnect, checkServer; opcConnect, opcReceiveData).
Dereferenced(s) ==
  CASE s.protocol = "opc" -> {"opc_node", "opc_server"}
    [] s.protocolType = "RTU" -> {"mb_device", "mb_parity"}
    [] OTHER -> {"mb_ip"}

=============================================================================
