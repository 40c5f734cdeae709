------------------------------ MODULE DataPath ------------------------------
(***************************************************************************)
(* The way of a reading: from the entry of its client in the configuration *)
(* through the registers or the OPC UA variant of a device, clientData     *)
(* (client_manager.c, modbus_connect.c, opc_connect.c) and the data array  *)
(* of main (main.c, ts_data.c) to the text that is published.  When and in *)
(* which order clients are surveyed, and how connections are lost, is the  *)
(* subject of MainLoop and ClientManager.                                  *)
(*                                                                         *)
(* A number is the sequence of its 16-bit words, the least significant one *)
(* first.                                                                  *)
(***************************************************************************)
EXTENDS ClientConfig, Sequences, FiniteSets

CONSTANTS
  Word,          \* values of a register
  BIG_ENDIAN,    \* the host's byte order
  TIME_WORDS,    \* sizeof(time_t) / 2: 2 or 4
  HEAP_MAX,      \* buffers that can be allocated
  ClientLists,   \* the lists of clients of the configuration file
  DataLists      \* its lists of published elements

\* Elements of the list: whether there is an alias, and the type.
DataEntry == [alias : BOOLEAN,
              type  : {"bool", "int", "long int", "*char", "other", "missing"}]

ASSUME DataPathAssumption ==
  /\ Word \subseteq Nat /\ 0 \in Word
  /\ BIG_ENDIAN \in BOOLEAN
  /\ TIME_WORDS \in {2, 4}
  /\ HEAP_MAX \in Nat
  /\ ClientLists \subseteq Seq(Entry)
  /\ DataLists \subseteq Seq(DataEntry)

VARIABLES
  clientConf, dataConf,   \* the configuration file
  pc,                     \* where the program is
  cause,                  \* what has crashed it
  settings,               \* the clients accepted so far
  clientData,             \* dataType, and the field of each type
  reading,                \* the client surveyed, what its device gave and whether that
                          \* fits the client's type; or Nothing
  data,                   \* the data array: element, type, alias set, fields
  wild,                   \* the array has been written beyond its end
  heap,                   \* buffers allocated and not freed
  published               \* what get_json made of the data array

conf == <<clientConf, dataConf>>
vars == <<conf, pc, cause, settings, clientData, reading, data, wild, heap, published>>

TIME == 1   \* elements of the data array, counted from 1 here
TEMP == 2
TYPE == 3

Undef   == <<>>        \* a field that has never been written
Garbage == <<-1>>      \* bytes of something else
Known   == <<0>>       \* the time, or the text "Test"
Twenty5 == <<25, 0>>

Registers == 0 .. 9    \* MAX_RCV_DATA_LEN
Fields    == {"b_data", "i_data", "l_data", "ch_data"}
Nothing   == [client |-> 0, value |-> Undef, fits |-> FALSE]

Init ==
  /\ clientConf \in ClientLists
  /\ dataConf \in DataLists
  /\ pc = "init_data"
  /\ cause = "none"
  /\ settings = <<>>
  /\ clientData = [dataType |-> "bool", field |-> [t \in DataTypes |-> Undef]]
  /\ reading = Nothing
  /\ data = <<>>
  /\ wild = FALSE
  /\ heap = 0
  /\ published = <<>>

Crash(c) == pc' = "crashed" /\ cause' = c

-----------------------------------------------------------------------------
(* init_count and init_data.                                               *)

\* The last element up to i that has a type, if there is one.
TypedLast(i) == {j \in 1 .. i : /\ dataConf[j].type # "missing"
                                /\ \A k \in j + 1 .. i : dataConf[k].type = "missing"}

\* The type an element gets: one that lacks it gets that of the element
\* before, and the first whatever an uninitialised pointer points to.
TypeOf(i) == IF TypedLast(i) = {} THEN "unknown"
             ELSE dataConf[CHOOSE j \in TypedLast(i) : TRUE].type

ListedTypes == {TypeOf(i) : i \in 1 .. Len(dataConf)}

\* An init_data that takes types it does not know.
DataAcceptedOther == dataConf # <<>> /\ "unknown" \notin ListedTypes

DataAccepted == dataConf # <<>> /\ ListedTypes \cap {"other", "unknown"} = {}

\* An array whose element TYPE is given no text.
NewFieldUnwritten(i, f) == Undef

NewField(i, f) == IF i = TYPE /\ f = "ch_data" THEN Known ELSE Undef

\* Main then writes the text of the element TYPE.
init_data ==
  /\ pc = "init_data"
  /\ \/ /\ DataAccepted
        /\ data' = [i \in 1 .. Len(dataConf) |->
             [type |-> TypeOf(i), alias |-> dataConf[i].alias,
              field |-> [f \in Fields |-> NewField(i, f)]]]
        /\ wild' = (Len(dataConf) < TYPE)
        /\ pc' = "config"
        /\ UNCHANGED cause
     \/ /\ ~DataAccepted
        /\ pc' = "exit"
        /\ UNCHANGED <<data, wild, cause>>
     \/ /\ "unknown" \in ListedTypes
        /\ Crash("data")
        /\ UNCHANGED <<data, wild>>
  /\ UNCHANGED <<conf, settings, clientData, reading, heap, published>>

-----------------------------------------------------------------------------
(* manager_init_config, one entry per step, and the first connection.      *)

NextEntry == clientConf[Len(settings) + 1]

ParseEntry ==
  /\ pc = "config"
  /\ Len(settings) < Len(clientConf)
  /\ \/ /\ Accepted(NextEntry)
        /\ settings' = Append(settings, Settings(NextEntry))
        /\ UNCHANGED pc
     \/ /\ ~Accepted(NextEntry)
        /\ pc' = "refused"
        /\ UNCHANGED settings
  /\ UNCHANGED <<conf, cause, clientData, reading, data, wild, heap, published>>

\* init_sys is called again, and reads the same file.
ParseAgain ==
  /\ pc = "refused"
  /\ pc' = "config"
  /\ settings' = <<>>
  /\ UNCHANGED <<conf, cause, clientData, reading, data, wild, heap, published>>

\* manager_init_connections follows a list that was accepted.
Connect ==
  /\ pc = "config"
  /\ Len(settings) = Len(clientConf)
  /\ \/ clientConf = <<>> /\ pc' = "refused" /\ UNCHANGED cause
     \/ /\ clientConf # <<>>
        /\ \A i \in DOMAIN settings : Dereferenced(settings[i]) \subseteq settings[i].given
        /\ pc' = "serve"
        /\ UNCHANGED cause
     \/ /\ \E i \in DOMAIN settings : ~(Dereferenced(settings[i]) \subseteq settings[i].given)
        /\ Crash("address")
  /\ UNCHANGED <<conf, settings, clientData, reading, data, wild, heap, published>>

-----------------------------------------------------------------------------
(* A survey.                                                               *)

\* Words of the value of each type.
numToCopy(type) == IF type = "time" THEN TIME_WORDS ELSE 2

\* The number n words in the host's memory stand for.
InMemory(mem, n) == [k \in 1 .. n |-> IF BIG_ENDIAN THEN mem[n - k] ELSE mem[k - 1]]

\* A conversion that forgets the host's order.
modbusToClientDataInOrder(d, type) ==
  IF type = "bool" THEN IF d[0] = 0 THEN <<0>> ELSE <<1>>
  ELSE InMemory([j \in 0 .. numToCopy(type) - 1 |-> d[j]], numToCopy(type))

\* modbusToClientData: the words are turned round on a big-endian host.
modbusToClientData(d, type) ==
  IF type = "bool" THEN IF d[0] = 0 THEN <<0>> ELSE <<1>>
  ELSE LET n == numToCopy(type)
       IN InMemory([j \in 0 .. n - 1 |-> IF BIG_ENDIAN THEN d[n - 1 - j] ELSE d[j]], n)

Store(type, value) ==
  clientData' = [clientData EXCEPT !.dataType = type, !.field[type] = value]

\* The words a value of each type has, whatever the code copies: an integer and
\* an enumeration are the host's int, a "Double word" (ts_module_const.h:52) is
\* as long, a time is a time_t.
WordsOf == [int |-> 2, enum |-> 2, dword |-> 2, time |-> TIME_WORDS]

\* What the device of a client means by its registers, the first of them the
\* least significant; read by the properties only.
Meant(type, regs) ==
  IF type = "bool" THEN IF regs[0] = 0 THEN <<0>> ELSE <<1>>
  ELSE [k \in 1 .. WordsOf[type] |-> regs[k - 1]]

\* modbusReceiveData clears the buffer and reads so many registers into it.
ReceiveModbus(i) ==
  /\ settings[i].protocol = "modbus"
  /\ \E regs \in [0 .. 3 -> Word] :
       LET d == [j \in Registers |-> IF j < settings[i].registersToRead THEN regs[j] ELSE 0]
       IN /\ Store(settings[i].dataType, modbusToClientData(d, settings[i].dataType))
          /\ reading' = [client |-> i, value |-> Meant(settings[i].dataType, regs), fits |-> TRUE]
  /\ pc' = "received"
  /\ UNCHANGED <<cause, heap>>

\* The OPC UA types the code takes a value of each data type for.
TakenFor(type) == CASE type = "bool" -> {"Boolean"}
                    [] type \in {"int", "enum"} -> {"Int32", "UInt32"}
                    [] type = "dword" -> {"Double"}
                    [] type = "time" -> {}

\* What a node may hold, if not nothing.  Of a Double its whole part is kept,
\* and that is undefined unless 32 bits without a sign can hold it.
Variants == [type : {"Boolean", "Int32", "UInt32", "Double"},
             value : {<<0>>, <<1>>} \cup [1 .. 2 -> Word], small : BOOLEAN]

Fits(type, v) ==
  /\ v.type \in TakenFor(type)
  /\ Len(v.value) = IF type = "bool" THEN 1 ELSE 2
  /\ type = "dword" => v.small

\* The field after a variant was read into it without a look at its type.
Taken(type, v) == IF Fits(type, v) THEN v.value ELSE Garbage

\* opcReceiveData: a node name that is too long is refused without a look at
\* the variant, which is not freed; a variant that could not be allocated and a
\* node that holds no value are NULL pointers, and a time is refused after its
\* type was stored.
ReceiveOpc(i) ==
  /\ settings[i].protocol = "opc"
  /\ \/ /\ ~settings[i].longNode /\ heap = HEAP_MAX
        /\ Crash("memory")
        /\ UNCHANGED <<clientData, reading, heap>>
     \/ /\ settings[i].longNode
        /\ heap' = IF heap < HEAP_MAX THEN heap + 1 ELSE heap
        /\ pc' = "failed"
        /\ UNCHANGED <<cause, clientData, reading>>
     \/ /\ ~settings[i].longNode /\ heap < HEAP_MAX
        /\ settings[i].dataType = "time"
        /\ clientData' = [clientData EXCEPT !.dataType = "time"]
        /\ pc' = "failed"
        /\ UNCHANGED <<cause, reading, heap>>
     \/ /\ ~settings[i].longNode /\ heap < HEAP_MAX
        /\ settings[i].dataType # "time"
        /\ \E v \in Variants :
             /\ Store(settings[i].dataType, Taken(settings[i].dataType, v))
             /\ reading' = [client |-> i, value |-> v.value, fits |-> Fits(settings[i].dataType, v)]
        /\ pc' = "received"
        /\ UNCHANGED <<cause, heap>>
     \/ /\ ~settings[i].longNode /\ heap < HEAP_MAX
        /\ settings[i].dataType # "time"
        /\ Crash("variant")
        /\ UNCHANGED <<clientData, reading, heap>>

\* The device cannot be read.
NoAnswer == pc' = "failed" /\ UNCHANGED <<cause, clientData, reading, heap>>

\* manager_receive_data for client i.
Survey(i) ==
  /\ pc = "serve"
  /\ ReceiveModbus(i) \/ ReceiveOpc(i) \/ NoAnswer
  /\ UNCHANGED <<conf, settings, data, wild, published>>

\* On to the next client, after a reading was sent or a survey has failed.
Continue ==
  /\ pc \in {"failed", "sent"}
  /\ pc' = "serve"
  /\ reading' = Nothing
  /\ published' = <<>>
  /\ UNCHANGED <<conf, cause, settings, clientData, data, wild, heap>>

\* A copy that takes the integer whatever the type of the client.
TempAnyType == clientData.field["int"]

\* What modbus_to_mqtt copies into the element TEMP.
Temp == IF clientData.dataType = "int" THEN clientData.field["int"] ELSE Twenty5

modbus_to_mqtt ==
  /\ pc = "received"
  /\ data' = [i \in DOMAIN data |->
       [data[i] EXCEPT !.field = [f \in Fields |->
          CASE i = TEMP /\ f = "i_data" -> Temp
            [] i = TIME /\ f = "l_data" -> Known
            [] OTHER -> data[i].field[f]]]]
  /\ wild' = (wild \/ Len(data) < TEMP)
  /\ pc' = "send"
  /\ UNCHANGED <<conf, cause, settings, clientData, reading, heap, published>>

-----------------------------------------------------------------------------
(* send_data and get_json.                                                 *)

FieldOf(type) == CASE type = "bool" -> "b_data"
                   [] type = "int" -> "i_data"
                   [] type = "long int" -> "l_data"
                   [] type = "*char" -> "ch_data"

\* The items of the text; its closing brace takes the place of the last comma.
get_json == [i \in DOMAIN data |->
              IF data[i].alias THEN data[i].field[FieldOf(data[i].type)] ELSE Undef]

\* The buffer is allocated and never freed.
send_data ==
  /\ pc = "send"
  /\ \/ /\ heap < HEAP_MAX
        /\ heap' = heap + 1
        /\ published' = get_json
        /\ pc' = "sent"
        /\ UNCHANGED cause
     \/ /\ heap = HEAP_MAX
        /\ Crash("memory")
        /\ UNCHANGED <<heap, published>>
  /\ UNCHANGED <<conf, settings, clientData, reading, data, wild>>

\* What was written beyond the array was something else's; it may take the
\* program down, or not.
Overwritten ==
  /\ wild
  /\ pc # "crashed"
  /\ Crash("array")
  /\ UNCHANGED <<conf, settings, clientData, reading, data, wild, heap, published>>

Next ==
  \/ init_data
  \/ ParseEntry \/ ParseAgain \/ Connect
  \/ \E i \in DOMAIN settings : Survey(i)
  \/ Continue
  \/ modbus_to_mqtt \/ send_data
  \/ Overwritten

Spec == Init /\ [][Next]_vars

-----------------------------------------------------------------------------
(* Properties.                                                             *)

Served == {"received", "send", "sent"}

Number == Seq(Nat) \cup {Garbage}

TypeOK ==
  /\ clientConf \in ClientLists /\ dataConf \in DataLists
  /\ pc \in {"init_data", "config", "refused", "serve", "failed", "exit", "crashed"} \cup Served
  /\ cause \in {"none", "data", "array", "address", "variant", "memory"}
  /\ settings \in Seq([protocol : {"modbus", "opc"}, refreshRate : RefreshRate,
                       dataType : DataTypes, protocolType : {"TCP", "RTU"},
                       registersToRead : {0, 1, 2, 4}, given : SUBSET Keys, longNode : BOOLEAN])
  /\ clientData \in [dataType : DataTypes, field : [DataTypes -> Number]]
  /\ reading \in [client : Nat, value : Number, fits : BOOLEAN]
  /\ data \in Seq([type : {"bool", "int", "long int", "*char"}, alias : BOOLEAN,
                   field : [Fields -> Number]])
  /\ wild \in BOOLEAN
  /\ heap \in 0 .. HEAP_MAX
  /\ published \in Seq(Number)

\* What a successful survey leaves in clientData is what the device of that
\* very client gave in that survey, of the client's type and with every word
\* of it, whatever the order of bytes of the host; unless an OPC UA node has
\* a value that does not fit the client's type, which nobody looks at.
ReadingIsDevices ==
  pc \in Served =>
    /\ clientData.dataType = settings[reading.client].dataType
    /\ reading.fits => clientData.field[clientData.dataType] = reading.value

\* The temperature published is the reading of this survey if its client is an
\* integer and the constant 25 if not: never what another client, or an
\* earlier survey, has left in the buffer.
PublishesThisReading ==
  pc = "sent" /\ Len(published) >= TEMP /\ data[TEMP].type = "int" /\ data[TEMP].alias =>
    IF settings[reading.client].dataType = "int"
      THEN reading.fits => published[TEMP] = reading.value
      ELSE published[TEMP] = Twenty5

\* The list of elements the program fills: time, temperature and type.
Filled == <<[alias |-> TRUE, type |-> "long int"], [alias |-> TRUE, type |-> "int"],
            [alias |-> TRUE, type |-> "*char"]>>

\* The elements published have all been written, and nothing but the elements
\* has been, with exactly one list of elements: the one of the file the
\* program comes with.  Nothing else makes init_data refuse another list.
DefinedForOneList ==
  pc = "sent" => (~wild /\ (\A i \in DOMAIN published : published[i] # Undef) <=> dataConf = Filled)

\* A client that was accepted can be connected to: the pointers its protocol
\* needs are there, unless its Modbus type is one nobody knows.
AcceptedConnects ==
  cause = "address" =>
    \E i \in DOMAIN clientConf : clientConf[i].protocol = "modbus" /\ clientConf[i].mbType = "other"

=============================================================================
