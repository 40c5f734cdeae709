--------------------------- MODULE DataPathProofs ---------------------------
(***************************************************************************)
(* Proofs about DataPath, for every configuration file, every set of       *)
(* register values, both orders of bytes of the host and both sizes of its *)
(* time_t.                                                                 *)
(***************************************************************************)
EXTENDS DataPath, SequenceTheorems, TLAPS

\* What modbusReceiveData leaves in its buffer of the registers of a device.
Buffer(type, regs) ==
  [j \in Registers |-> IF j < registersToRead(type) THEN regs[j] ELSE 0]

\* Enough registers are read for the words of every type.
LEMMA EnoughRegisters ==
  ASSUME NEW type \in DataTypes
  PROVE  /\ type # "bool" => numToCopy(type) \in 2 .. 4 /\ numToCopy(type) <= registersToRead(type)
         /\ registersToRead(type) \in 1 .. 4
<1>1. CASE type = "bool" BY <1>1 DEF registersToRead
<1>2. CASE type = "int" \/ type = "enum"
  <2>1. registersToRead(type) = 2 BY <1>2 DEF registersToRead
  <2>2. numToCopy(type) = 2 BY <1>2 DEF numToCopy
  <2> QED BY <2>1, <2>2
<1>3. CASE type = "dword"
  <2>1. registersToRead(type) = 4 BY <1>3 DEF registersToRead
  <2>2. numToCopy(type) = 2 BY <1>3 DEF numToCopy
  <2> QED BY <2>1, <2>2
<1>4. CASE type = "time"
  <2>1. registersToRead(type) = 4 BY <1>4 DEF registersToRead
  <2>2. numToCopy(type) \in {2, 4} BY <1>4, DataPathAssumption DEF numToCopy
  <2> QED BY <2>1, <2>2
<1> QED BY <1>1, <1>2, <1>3, <1>4 DEF DataTypes

\* As many words are copied as a value of the type has.
LEMMA EnoughCopied ==
  ASSUME NEW type \in DataTypes, type # "bool"
  PROVE  numToCopy(type) = WordsOf[type]
  BY DEF numToCopy, WordsOf, DataTypes

\* The conversion gives the number the device means, on every host: turning
\* the words round for a big-endian host is what undoes its order.
THEOREM ConversionCorrect ==
  ASSUME NEW type \in DataTypes, NEW regs \in [0 .. 3 -> Word]
  PROVE  modbusToClientData(Buffer(type, regs), type) = Meant(type, regs)
<1>1. CASE type = "bool"
  <2>1. Buffer(type, regs)[0] = regs[0]
    BY EnoughRegisters DEF Buffer, Registers
  <2> QED BY <1>1, <2>1 DEF modbusToClientData, Meant
<1>2. CASE type # "bool"
  <2> DEFINE n == numToCopy(type)
             d == Buffer(type, regs)
             mem == [j \in 0 .. n - 1 |-> IF BIG_ENDIAN THEN d[n - 1 - j] ELSE d[j]]
  <2>1. n \in 2 .. 4 /\ n <= registersToRead(type) /\ registersToRead(type) \in 1 .. 4
    BY <1>2, EnoughRegisters
  <2>2. ASSUME NEW k \in 0 .. n - 1 PROVE d[k] = regs[k]
    BY <2>1 DEF Buffer, Registers
  <2>3. modbusToClientData(d, type) = InMemory(mem, n)
    BY <1>2 DEF modbusToClientData
  <2>4. Meant(type, regs) = [k \in 1 .. n |-> regs[k - 1]]
    BY <1>2, EnoughCopied DEF Meant
  <2> HIDE DEF n, d
  <2>5. ASSUME NEW k \in 1 .. n
        PROVE  (IF BIG_ENDIAN THEN mem[n - k] ELSE mem[k - 1]) = regs[k - 1]
    <3>1. k - 1 \in 0 .. n - 1 /\ n - k \in 0 .. n - 1 /\ n - 1 - (n - k) = k - 1 BY <2>1, <2>5
    <3>2. CASE BIG_ENDIAN BY <2>2, <3>1, <3>2
    <3>3. CASE ~BIG_ENDIAN BY <2>2, <3>1, <3>3
    <3> QED BY <3>2, <3>3
  <2> HIDE DEF mem
  <2> QED BY <2>3, <2>4, <2>5 DEF InMemory, d
<1> QED BY <1>1, <1>2

-----------------------------------------------------------------------------

\* The settings are those of the entries accepted so far, in their order.
Configured ==
  /\ clientConf \in ClientLists \cap Seq(Entry) /\ dataConf \in DataLists
  /\ settings \in Seq({Settings(e) : e \in Entry})
  /\ Len(settings) <= Len(clientConf)
  /\ \A i \in DOMAIN settings : settings[i] = Settings(clientConf[i]) /\ Accepted(clientConf[i])

Typed ==
  /\ clientData \in [dataType : DataTypes, field : [DataTypes -> Number]]
  /\ data \in Seq([type : ListedTypes, alias : BOOLEAN, field : [Fields -> Number]])

\* A reading is of a configured client until the next survey.
Surveyed == pc \in Served => reading.client \in DOMAIN settings

\* From the survey's end to the text the element TEMP holds this reading.
Copied ==
  /\ pc \in {"send", "sent"} /\ TEMP \in DOMAIN data => data[TEMP].field["i_data"] = Temp
  /\ pc = "sent" => published = get_json

IInv == Configured /\ Typed /\ Surveyed /\ Copied /\ ReadingIsDevices /\ AcceptedConnects

\* An accepted entry that is no Modbus client of unknown type has everything
\* its connection looks at.
LEMMA GivenAll ==
  ASSUME NEW e \in Entry, Accepted(e), ~(Dereferenced(Settings(e)) \subseteq Settings(e).given)
  PROVE  e.protocol = "modbus" /\ e.mbType = "other"
<1>1. Settings(e).given = KeysOf(e) BY DEF Accepted, Settings
<1>2. e.protocol \in {"modbus", "opc"} BY DEF Accepted, Entry
<1>3. Settings(e).protocol = e.protocol BY DEF Settings
<1>4. Settings(e).protocolType = IF e.protocol = "modbus" /\ e.mbType = "RTU" THEN "RTU" ELSE "TCP"
  BY DEF Settings
<1>5. e.mbType \in {"TCP", "RTU", "other"} BY DEF Entry
<1>6. ~(Dereferenced(Settings(e)) \subseteq KeysOf(e)) BY <1>1
<1>7. CASE e.protocol = "opc"
  <2>1. Dereferenced(Settings(e)) = {"opc_node", "opc_server"}
    BY <1>3, <1>4, <1>7 DEF Dereferenced
  <2>2. KeysOf(e) = CommonKeys \cup OpcKeys BY <1>7 DEF KeysOf
  <2> QED BY <1>6, <2>1, <2>2 DEF OpcKeys
<1>8. CASE e.protocol = "modbus" /\ e.mbType = "RTU"
  BY <1>3, <1>4, <1>6, <1>8 DEF Dereferenced, KeysOf, RtuKeys
<1>9. CASE e.protocol = "modbus" /\ e.mbType = "TCP"
  BY <1>3, <1>4, <1>6, <1>9 DEF Dereferenced, KeysOf, TcpKeys
<1> QED BY <1>2, <1>5, <1>7, <1>8, <1>9

LEMMA Constants == Undef \in Number /\ Garbage \in Number /\ Known \in Number /\ Twenty5 \in Number
BY DEF Undef, Garbage, Known, Twenty5, Number

LEMMA InvInit == Init => IInv
<1> SUFFICES ASSUME Init PROVE IInv OBVIOUS
<1>1. Configured
  <2>1. clientConf \in ClientLists \cap Seq(Entry) /\ dataConf \in DataLists
    BY DataPathAssumption DEF Init
  <2>2. settings = <<>> /\ Len(settings) = 0 /\ DOMAIN settings = {} BY DEF Init
  <2> QED BY <2>1, <2>2 DEF Configured
<1>2. Typed
  <2>1. clientData \in [dataType : DataTypes, field : [DataTypes -> Number]]
    BY Constants DEF Init, DataTypes
  <2> QED BY <2>1 DEF Init, Typed
<1> QED
  BY <1>1, <1>2 DEF Init, IInv, Surveyed, Copied, ReadingIsDevices, AcceptedConnects, Served

\* An entry is accepted.
LEMMA ParseStep ==
  ASSUME Configured, ParseEntry
  PROVE  Configured'
<1>1. CASE UNCHANGED settings BY <1>1 DEF ParseEntry, Configured, conf
<1>2. CASE settings' = Append(settings, Settings(NextEntry)) /\ Accepted(NextEntry)
  <2>1. Len(settings) + 1 \in DOMAIN clientConf /\ NextEntry \in Entry
    BY DEF ParseEntry, Configured, NextEntry
  <2>2. /\ settings' \in Seq({Settings(e) : e \in Entry})
        /\ Len(settings') = Len(settings) + 1
    BY <1>2, <2>1 DEF Configured
  <2>3. ASSUME NEW i \in DOMAIN settings'
        PROVE  settings'[i] = Settings(clientConf[i]) /\ Accepted(clientConf[i])
    <3>1. CASE i = Len(settings) + 1
      BY <1>2, <2>1, <3>1 DEF Configured, NextEntry
    <3>2. CASE i # Len(settings) + 1
      <4>1. i \in DOMAIN settings BY <2>2, <2>3, <3>2 DEF Configured
      <4>2. settings'[i] = settings[i] BY <1>2, <2>1, <4>1 DEF Configured
      <4> QED BY <4>1, <4>2 DEF Configured
    <3> QED BY <3>1, <3>2
  <2>4. Len(settings') <= Len(clientConf) BY <2>1, <2>2 DEF Configured
  <2> QED BY <2>2, <2>3, <2>4 DEF ParseEntry, Configured, conf
<1> QED BY <1>1, <1>2 DEF ParseEntry

\* An accepted client that crashes the first connection.
LEMMA ConnectStep ==
  ASSUME IInv, Connect
  PROVE  AcceptedConnects'
<1>1. CASE cause' = cause BY <1>1 DEF Connect, IInv, AcceptedConnects, conf
<1>2. CASE \E i \in DOMAIN settings : ~(Dereferenced(settings[i]) \subseteq settings[i].given)
  <2>1. PICK i \in DOMAIN settings : ~(Dereferenced(settings[i]) \subseteq settings[i].given)
    BY <1>2
  <2>2. i \in DOMAIN clientConf /\ clientConf[i] \in Entry
    BY DEF Connect, IInv, Configured
  <2>3. clientConf[i].protocol = "modbus" /\ clientConf[i].mbType = "other"
    BY <2>1, <2>2, GivenAll DEF IInv, Configured
  <2> QED BY <2>2, <2>3 DEF Connect, AcceptedConnects, conf
<1> QED BY <1>1, <1>2 DEF Connect

\* The type of an accepted client, and what is read of a Modbus one.
LEMMA SettingsFacts ==
  ASSUME Configured, NEW i \in DOMAIN settings
  PROVE  /\ settings[i].dataType \in DataTypes
         /\ settings[i].protocol = "modbus" =>
              settings[i].registersToRead = registersToRead(settings[i].dataType)
<1>1. clientConf[i] \in Entry /\ settings[i] = Settings(clientConf[i]) /\ Accepted(clientConf[i])
  BY DEF Configured
<1> QED BY <1>1 DEF Settings, Accepted, Entry

LEMMA MeantNumber ==
  ASSUME NEW type \in DataTypes, NEW regs \in [0 .. 3 -> Word]
  PROVE  Meant(type, regs) \in Number
<1>1. CASE type = "bool"
  <2>1. <<0>> \in Number /\ <<1>> \in Number BY DEF Number
  <2> QED BY <1>1, <2>1 DEF Meant
<1>2. CASE type # "bool"
  <2>1. numToCopy(type) \in 2 .. 4 BY <1>2, EnoughRegisters
  <2>2. ASSUME NEW k \in 1 .. numToCopy(type) PROVE regs[k - 1] \in Nat
    <3>1. k - 1 \in 0 .. 3 BY <2>1
    <3>2. regs[k - 1] \in Word BY <3>1
    <3> QED BY <3>2, DataPathAssumption
  <2>3. Meant(type, regs) \in [1 .. numToCopy(type) -> Nat] BY <1>2, <2>2, EnoughCopied DEF Meant
  <2> QED BY <2>1, <2>3 DEF Number
<1> QED BY <1>1, <1>2

\* A survey over Modbus that succeeds.
LEMMA ModbusStep ==
  ASSUME IInv, NEW i \in DOMAIN settings, ReceiveModbus(i)
  PROVE  /\ clientData' \in [dataType : DataTypes, field : [DataTypes -> Number]]
         /\ reading'.client = i
         /\ clientData'.dataType = settings[i].dataType
         /\ clientData'.field[settings[i].dataType] = reading'.value
<1> DEFINE type == settings[i].dataType
<1>1. type \in DataTypes /\ settings[i].registersToRead = registersToRead(type)
  BY SettingsFacts DEF IInv, ReceiveModbus
<1>2. PICK regs \in [0 .. 3 -> Word] :
        /\ Store(type, modbusToClientData(Buffer(type, regs), type))
        /\ reading' = [client |-> i, value |-> Meant(type, regs), fits |-> TRUE]
  BY <1>1 DEF ReceiveModbus, Buffer
<1> HIDE DEF type
<1>3. clientData' = [clientData EXCEPT !.dataType = type, !.field[type] = Meant(type, regs)]
  BY <1>1, <1>2, ConversionCorrect DEF Store
<1>4. Meant(type, regs) \in Number BY <1>1, MeantNumber
<1> QED BY <1>1, <1>2, <1>3, <1>4 DEF IInv, Typed, type

\* The values a node may hold are numbers.
LEMMA VariantNumber ==
  ASSUME NEW v \in Variants
  PROVE  v.value \in Number
<1>1. <<0>> \in Number /\ <<1>> \in Number BY DEF Number
<1>2. ASSUME NEW w \in [1 .. 2 -> Word] PROVE w \in Number
  <2>1. Word \subseteq Nat BY DataPathAssumption
  <2>2. w \in [1 .. 2 -> Nat] BY <2>1
  <2>3. w \in Seq(Nat) BY <2>2, SeqDef
  <2> QED BY <2>3 DEF Number
<1>3. v.value \in {<<0>>, <<1>>} \cup [1 .. 2 -> Word] BY DEF Variants
<1> QED BY <1>1, <1>2, <1>3

LEMMA TakenNumber ==
  ASSUME NEW type \in DataTypes, NEW v \in Variants
  PROVE  Taken(type, v) \in Number
BY VariantNumber, Constants DEF Taken

\* A survey over OPC UA: what is stored is of the client's type, and the
\* node's value if that fits.
LEMMA OpcStep ==
  ASSUME IInv, NEW i \in DOMAIN settings, ReceiveOpc(i)
  PROVE  /\ clientData' \in [dataType : DataTypes, field : [DataTypes -> Number]]
         /\ pc' \in {"received", "failed", "crashed"}
         /\ cause' \in {cause, "memory", "variant"}
         /\ pc' = "received" =>
              /\ reading'.client = i
              /\ clientData'.dataType = settings[i].dataType
              /\ reading'.fits => clientData'.field[settings[i].dataType] = reading'.value
<1> DEFINE type == settings[i].dataType
<1>1. type \in DataTypes BY SettingsFacts DEF IInv
<1>2. CASE UNCHANGED clientData /\ pc' \in {"failed", "crashed"} /\ cause' \in {cause, "memory", "variant"}
  BY <1>2 DEF IInv, Typed
<1>3. CASE /\ clientData' = [clientData EXCEPT !.dataType = "time"]
           /\ pc' = "failed" /\ cause' = cause
  BY <1>3 DEF IInv, Typed, DataTypes
<1>4. ASSUME NEW v \in Variants, Store(type, Taken(type, v)),
             reading' = [client |-> i, value |-> v.value, fits |-> Fits(type, v)],
             pc' = "received", cause' = cause
      PROVE  /\ clientData' \in [dataType : DataTypes, field : [DataTypes -> Number]]
             /\ reading'.client = i
             /\ clientData'.dataType = type
             /\ reading'.fits => clientData'.field[type] = reading'.value
  <2>1. Taken(type, v) \in Number BY <1>1, TakenNumber
  <2>2. Fits(type, v) => Taken(type, v) = v.value BY DEF Taken
  <2> HIDE DEF type
  <2>3. /\ clientData' \in [dataType : DataTypes, field : [DataTypes -> Number]]
        /\ clientData'.dataType = type
        /\ clientData'.field[type] = Taken(type, v)
    BY <1>1, <1>4, <2>1 DEF Store, IInv, Typed
  <2>4. reading'.client = i /\ reading'.value = v.value /\ reading'.fits = Fits(type, v) BY <1>4
  <2> QED BY <2>2, <2>3, <2>4
<1> QED BY <1>2, <1>3, <1>4 DEF ReceiveOpc, Crash

\* A step that leaves the clients, the buffer and what is published alone and
\* is no survey.
LEMMA QuietStep ==
  ASSUME IInv, UNCHANGED <<conf, settings, clientData, reading>>,
         Typed', pc' \notin Served, cause' # "address" \/ cause' = cause
  PROVE  IInv'
<1>1. Configured' BY DEF IInv, Configured, conf
<1>2. Surveyed' /\ Copied' /\ ReadingIsDevices'
  BY DEF Surveyed, Copied, ReadingIsDevices, Served
<1>3. AcceptedConnects' BY DEF IInv, AcceptedConnects, conf
<1> QED BY <1>1, <1>2, <1>3 DEF IInv

LEMMA InitDataStep == IInv /\ init_data => IInv'
<1> SUFFICES ASSUME IInv, init_data PROVE IInv' OBVIOUS
<1>1. Typed'
  <2>1. CASE UNCHANGED data
    BY <2>1 DEF init_data, IInv, Typed, ListedTypes, TypeOf, TypedLast, conf
  <2>2. CASE data' = [i \in 1 .. Len(dataConf) |->
                       [type |-> TypeOf(i), alias |-> dataConf[i].alias,
                        field |-> [f \in Fields |-> NewField(i, f)]]]
    <3>1. Len(dataConf) \in Nat /\ \A i \in 1 .. Len(dataConf) : dataConf[i].alias \in BOOLEAN
      <4>1. dataConf \in Seq(DataEntry) BY DataPathAssumption DEF IInv, Configured
      <4>2. ASSUME NEW i \in 1 .. Len(dataConf) PROVE dataConf[i].alias \in BOOLEAN
        <5>1. dataConf[i] \in DataEntry BY <4>1, ElementOfSeq
        <5> QED BY <5>1 DEF DataEntry
      <4> QED BY <4>1, <4>2
    <3>2. ASSUME NEW i \in 1 .. Len(dataConf)
          PROVE  [type |-> TypeOf(i), alias |-> dataConf[i].alias,
                  field |-> [f \in Fields |-> NewField(i, f)]]
                   \in [type : ListedTypes, alias : BOOLEAN, field : [Fields -> Number]]
      <4>1. \A f \in Fields : NewField(i, f) \in Number BY Constants DEF NewField
      <4>2. TypeOf(i) \in ListedTypes BY DEF ListedTypes
      <4> QED BY <3>1, <4>1, <4>2
    <3>3. data' \in Seq([type : ListedTypes, alias : BOOLEAN, field : [Fields -> Number]])
      BY <2>2, <3>1, <3>2, SeqDef
    <3>4. ListedTypes' = ListedTypes BY DEF init_data, conf, ListedTypes, TypeOf, TypedLast
    <3> QED BY <3>3, <3>4 DEF init_data, IInv, Typed
  <2> QED BY <2>1, <2>2 DEF init_data
<1> QED BY <1>1, QuietStep DEF init_data, Crash, Served

LEMMA SurveyStep ==
  ASSUME IInv, NEW i \in DOMAIN settings, Survey(i)
  PROVE  IInv'
<1>1. Configured' BY DEF IInv, Configured, Survey, conf
<1>2. UNCHANGED <<ListedTypes, data>> BY DEF Survey, conf, ListedTypes, TypeOf, TypedLast
<1>3. CASE ReceiveModbus(i)
  <2>1. pc' = "received" /\ UNCHANGED cause BY <1>3 DEF ReceiveModbus
  <2>2. Typed' BY <1>2, <1>3, ModbusStep DEF IInv, Typed
  <2>3. Surveyed' /\ Copied' BY <1>3, <2>1, ModbusStep DEF Survey, Surveyed, Copied
  <2>4. ReadingIsDevices' BY <1>3, ModbusStep DEF Survey, ReadingIsDevices
  <2> QED
    BY <1>1, <2>1, <2>2, <2>3, <2>4 DEF Survey, IInv, AcceptedConnects, conf
<1>4. CASE ReceiveOpc(i)
  <2>1. Typed' BY <1>2, <1>4, OpcStep DEF IInv, Typed
  <2>2. Surveyed' /\ Copied' BY <1>4, OpcStep DEF Survey, Surveyed, Copied, Served
  <2>3. ReadingIsDevices' BY <1>4, OpcStep DEF Survey, ReadingIsDevices, Served
  <2>4. AcceptedConnects' BY <1>4, OpcStep DEF Survey, IInv, AcceptedConnects, conf
  <2> QED BY <1>1, <2>1, <2>2, <2>3, <2>4 DEF IInv
<1>5. CASE NoAnswer
  BY <1>2, <1>5, QuietStep DEF NoAnswer, Survey, IInv, Typed, Served
<1> QED BY <1>3, <1>4, <1>5 DEF Survey

\* The copying of the reading into the element TEMP.
LEMMA CopyStep == IInv /\ modbus_to_mqtt => IInv'
<1> SUFFICES ASSUME IInv, modbus_to_mqtt PROVE IInv' OBVIOUS
<1>1. Configured' BY DEF modbus_to_mqtt, IInv, Configured, conf
<1>2. Temp \in Number /\ UNCHANGED <<Temp, ListedTypes>>
  BY Constants DEF modbus_to_mqtt, IInv, Typed, Temp, DataTypes, conf, ListedTypes, TypeOf, TypedLast
<1> DEFINE New(i) == [data[i] EXCEPT !.field = [f \in Fields |->
                        CASE i = TEMP /\ f = "i_data" -> Temp
                          [] i = TIME /\ f = "l_data" -> Known
                          [] OTHER -> data[i].field[f]]]
<1>3. ASSUME NEW i \in DOMAIN data
      PROVE  /\ New(i) \in [type : ListedTypes, alias : BOOLEAN, field : [Fields -> Number]]
             /\ i = TEMP => New(i).field["i_data"] = Temp
  <2>1. data[i] \in [type : ListedTypes, alias : BOOLEAN, field : [Fields -> Number]]
    <3>1. data \in Seq([type : ListedTypes, alias : BOOLEAN, field : [Fields -> Number]])
      BY DEF IInv, Typed
    <3>2. i \in 1 .. Len(data) BY <3>1
    <3> QED BY <3>1, <3>2, ElementOfSeq
  <2> DEFINE G(f) == CASE i = TEMP /\ f = "i_data" -> Temp
                       [] i = TIME /\ f = "l_data" -> Known
                       [] OTHER -> data[i].field[f]
  <2>2. ASSUME NEW f \in Fields PROVE G(f) \in Number
    <3>1. TEMP # TIME BY DEF TEMP, TIME
    <3>2. CASE i = TEMP /\ f = "i_data"
      <4>1. G(f) = Temp BY <3>1, <3>2
      <4> QED BY <1>2, <4>1
    <3>3. CASE i = TIME /\ f = "l_data"
      <4>1. G(f) = Known BY <3>1, <3>3
      <4> QED BY <4>1, Constants
    <3>4. CASE ~(i = TEMP /\ f = "i_data") /\ ~(i = TIME /\ f = "l_data")
      <4>1. G(f) = data[i].field[f] BY <3>4
      <4> QED BY <2>1, <2>2, <4>1
    <3> QED BY <3>2, <3>3, <3>4
  <2>3. i = TEMP => G("i_data") = Temp BY DEF TEMP, TIME
  <2>4. New(i) = [data[i] EXCEPT !.field = [f \in Fields |-> G(f)]] OBVIOUS
  <2> HIDE DEF G
  <2>5. [f \in Fields |-> G(f)] \in [Fields -> Number] BY <2>2
  <2> QED BY <2>1, <2>3, <2>4, <2>5 DEF Fields
<1>4. data' = [i \in DOMAIN data |-> New(i)] BY DEF modbus_to_mqtt
<1> HIDE DEF New
<1>5. /\ data' \in Seq([type : ListedTypes, alias : BOOLEAN, field : [Fields -> Number]])
      /\ DOMAIN data' = DOMAIN data
  <2>1. DOMAIN data = 1 .. Len(data) /\ Len(data) \in Nat BY DEF IInv, Typed
  <2> QED BY <1>3, <1>4, <2>1, SeqDef
<1>6. Typed' BY <1>2, <1>5 DEF modbus_to_mqtt, IInv, Typed
<1>7. Copied' BY <1>2, <1>3, <1>4, <1>5 DEF modbus_to_mqtt, Copied
<1>8. Surveyed' /\ ReadingIsDevices'
  BY DEF modbus_to_mqtt, IInv, Surveyed, ReadingIsDevices, Served
<1> QED BY <1>1, <1>6, <1>7, <1>8 DEF modbus_to_mqtt, IInv, AcceptedConnects, conf

LEMMA SendStep == IInv /\ send_data => IInv'
<1> SUFFICES ASSUME IInv, send_data PROVE IInv' OBVIOUS
<1>1. Configured' BY DEF send_data, IInv, Configured, conf
<1>2. UNCHANGED <<Temp, get_json, ListedTypes>>
  BY DEF send_data, Temp, get_json, conf, ListedTypes, TypeOf, TypedLast
<1>3. Typed' BY <1>2 DEF send_data, IInv, Typed
<1>4. Copied' BY <1>2 DEF send_data, Crash, IInv, Copied
<1>5. Surveyed' /\ ReadingIsDevices'
  BY DEF send_data, Crash, IInv, Surveyed, ReadingIsDevices, Served
<1>6. AcceptedConnects' BY DEF send_data, Crash, IInv, AcceptedConnects, conf
<1> QED BY <1>1, <1>3, <1>4, <1>5, <1>6 DEF IInv

LEMMA InvStep == IInv /\ [Next]_vars => IInv'
<1> SUFFICES ASSUME IInv, [Next]_vars PROVE IInv' OBVIOUS
<1>1. CASE init_data BY <1>1, InitDataStep
<1>2. CASE ParseEntry \/ ParseAgain \/ Connect
  <2>1. UNCHANGED <<conf, clientData, data, reading>> /\ pc' \notin Served
    BY <1>2 DEF ParseEntry, ParseAgain, Connect, Crash, Served
  <2>2. Typed' BY <2>1 DEF IInv, Typed, ListedTypes, TypeOf, TypedLast, conf
  <2>3. Configured'
    <3>1. CASE ParseEntry BY <3>1, ParseStep DEF IInv
    <3>2. CASE ParseAgain BY <3>2 DEF ParseAgain, IInv, Configured, conf
    <3>3. CASE Connect BY <3>3 DEF Connect, IInv, Configured, conf
    <3> QED BY <1>2, <3>1, <3>2, <3>3
  <2>4. AcceptedConnects'
    <3>1. CASE ParseEntry \/ ParseAgain
      BY <3>1 DEF ParseEntry, ParseAgain, IInv, AcceptedConnects, conf
    <3>2. CASE Connect BY <3>2, ConnectStep
    <3> QED BY <1>2, <3>1, <3>2
  <2> QED
    BY <2>1, <2>2, <2>3, <2>4 DEF IInv, Surveyed, Copied, ReadingIsDevices, Served
<1>3. ASSUME NEW i \in DOMAIN settings, Survey(i) PROVE IInv'
  BY <1>3, SurveyStep
<1>4. CASE Continue
  <2>1. Configured' /\ Typed'
    BY <1>4 DEF Continue, IInv, Configured, Typed, ListedTypes, TypeOf, TypedLast, conf
  <2> QED
    BY <1>4, <2>1
    DEF Continue, IInv, Surveyed, Copied, ReadingIsDevices, AcceptedConnects, Served, conf
<1>5. CASE modbus_to_mqtt BY <1>5, CopyStep
<1>6. CASE send_data BY <1>6, SendStep
<1>7. CASE Overwritten
  <2>1. Typed' BY <1>7 DEF Overwritten, IInv, Typed, ListedTypes, TypeOf, TypedLast, conf
  <2> QED BY <1>7, <2>1, QuietStep DEF Overwritten, Crash, Served
<1>8. CASE UNCHANGED vars
  <2>1. UNCHANGED <<get_json, Temp, ListedTypes>>
    BY <1>8 DEF vars, get_json, Temp, ListedTypes, TypeOf, TypedLast, conf
  <2> QED
    BY <1>8, <2>1
    DEF vars, conf, IInv, Configured, Typed, Surveyed, Copied, ReadingIsDevices, AcceptedConnects
<1> QED BY <1>1, <1>2, <1>3, <1>4, <1>5, <1>6, <1>7, <1>8 DEF Next

THEOREM Invariance == Spec => []IInv
BY InvInit, InvStep, PTL DEF Spec

\* A survey that succeeds leaves the device's value in the field of its
\* client's type.
THEOREM ReadingCorrect == Spec => []ReadingIsDevices
<1>1. IInv => ReadingIsDevices BY DEF IInv
<1> QED BY <1>1, Invariance, PTL

\* Only a Modbus client of unknown type is accepted without what its
\* connection needs.
THEOREM AcceptedCorrect == Spec => []AcceptedConnects
<1>1. IInv => AcceptedConnects BY DEF IInv
<1> QED BY <1>1, Invariance, PTL

\* What is published as the temperature is the reading just made, or the
\* constant 25.
THEOREM PublishedReading == Spec => []PublishesThisReading
<1>1. IInv => PublishesThisReading
  <2> SUFFICES ASSUME IInv, pc = "sent", Len(published) >= TEMP, data[TEMP].type = "int",
                      data[TEMP].alias
               PROVE  IF settings[reading.client].dataType = "int"
                        THEN reading.fits => published[TEMP] = reading.value
                        ELSE published[TEMP] = Twenty5
    BY DEF PublishesThisReading
  <2>1. published = get_json BY DEF IInv, Copied
  <2>2. DOMAIN data = 1 .. Len(data) /\ Len(data) \in Nat BY DEF IInv, Typed
  <2>3. TEMP \in DOMAIN data
    <3>1. DOMAIN published = DOMAIN data BY <2>1 DEF get_json
    <3>2. Len(published) = Len(data) BY <2>1, <2>2 DEF get_json
    <3> QED BY <2>2, <3>2 DEF TEMP
  <2>4. published[TEMP] = data[TEMP].field["i_data"]
    BY <2>1, <2>3 DEF get_json, FieldOf
  <2>5. published[TEMP] = Temp BY <2>3, <2>4 DEF IInv, Copied
  <2>6. /\ clientData.dataType = settings[reading.client].dataType
        /\ reading.fits => clientData.field[clientData.dataType] = reading.value
    BY DEF IInv, ReadingIsDevices, Served
  <2> QED BY <2>5, <2>6 DEF Temp
<1> QED BY <1>1, Invariance, PTL

-----------------------------------------------------------------------------
(* Types, and what is published of a list of elements.                     *)

\* The types init_data knows.
Types == {"bool", "int", "long int", "*char"}

\* The fields the program writes at all.
Written == {<<TIME, "l_data">>, <<TEMP, "i_data">>, <<TYPE, "ch_data">>}

\* The array after init_data: it is that of the file, and nothing but the
\* three fields has been written.
Elements ==
  /\ data = <<>> => ~wild
  /\ data # <<>> =>
       /\ DataAccepted
       /\ Len(data) = Len(dataConf)
       /\ wild = (Len(data) < TYPE)
       /\ \A i \in 1 .. Len(data) :
            /\ data[i].type = TypeOf(i) /\ data[i].alias = dataConf[i].alias
            /\ \A f \in Fields : data[i].field[f] # Undef => <<i, f>> \in Written
            /\ i = TYPE => data[i].field["ch_data"] = Known

\* Where the program is, the array is there; a survey has stored a value, and
\* the copying has written the time.
Progress ==
  /\ pc \in {"config", "refused", "serve", "failed"} \cup Served => data # <<>>
  /\ pc \in Served => clientData.field[clientData.dataType] # Undef
  /\ pc \in {"send", "sent"} /\ data # <<>> => data[TIME].field["l_data"] = Known

Places ==
  /\ pc \in {"init_data", "config", "refused", "serve", "failed", "exit", "crashed"} \cup Served
  /\ pc \in {"init_data", "exit"} => data = <<>>
  /\ cause \in {"none", "data", "array", "address", "variant", "memory"}
  /\ reading \in [client : Nat, value : Number, fits : BOOLEAN]
  /\ heap \in 0 .. HEAP_MAX
  /\ wild \in BOOLEAN
  /\ published \in Seq(Number)

DataInv == IInv /\ Elements /\ Progress /\ Places

\* There is one last element with a type at most, and its type is that found.
LEMMA TypeOfLast ==
  ASSUME NEW i \in Nat, NEW j \in TypedLast(i)
  PROVE  TypeOf(i) = dataConf[j].type
<1>1. ASSUME NEW k \in TypedLast(i) PROVE k = j
  <2>1. /\ j \in 1 .. i /\ dataConf[j].type # "missing"
        /\ \A l \in j + 1 .. i : dataConf[l].type = "missing"
    BY DEF TypedLast
  <2>2. /\ k \in 1 .. i /\ dataConf[k].type # "missing"
        /\ \A l \in k + 1 .. i : dataConf[l].type = "missing"
    BY DEF TypedLast
  <2>3. k \notin j + 1 .. i /\ j \notin k + 1 .. i BY <2>1, <2>2
  <2> QED BY <2>1, <2>2, <2>3
<1>2. PICK k \in TypedLast(i) : TypeOf(i) = dataConf[k].type BY DEF TypeOf
<1> QED BY <1>1, <1>2

\* An element that has a type gets it; one that has none gets that of the
\* element before, and the first has none to get.
LEMMA TypeOfFacts ==
  ASSUME NEW i \in 1 .. Len(dataConf), Len(dataConf) \in Nat
  PROVE  /\ dataConf[i].type # "missing" => TypeOf(i) = dataConf[i].type
         /\ dataConf[i].type = "missing" =>
              \A h \in 1 .. Len(dataConf) : i = h + 1 => TypeOf(i) = TypeOf(h)
         /\ dataConf[i].type = "missing" /\ i = 1 => TypeOf(i) = "unknown"
<1>1. CASE dataConf[i].type # "missing"
  <2>1. TypedLast(i) = {i}
    <3>1. i \in TypedLast(i) BY <1>1 DEF TypedLast
    <3>2. ASSUME NEW j \in TypedLast(i) PROVE j = i
      <4>1. j \in 1 .. i /\ \A k \in j + 1 .. i : dataConf[k].type = "missing" BY DEF TypedLast
      <4>2. i \notin j + 1 .. i BY <1>1, <4>1
      <4> QED BY <4>1, <4>2
    <3> QED BY <3>1, <3>2
  <2> QED BY <1>1, <2>1 DEF TypeOf
<1>2. ASSUME NEW h \in 1 .. Len(dataConf), i = h + 1, dataConf[i].type = "missing"
      PROVE  TypeOf(i) = TypeOf(h)
  <2>1. ASSUME NEW j \in 1 .. h
        PROVE  (\A k \in j + 1 .. i : dataConf[k].type = "missing")
                 <=> (\A k \in j + 1 .. h : dataConf[k].type = "missing")
    BY <1>2
  <2>2. TypedLast(i) = TypedLast(h)
    <3>1. i \notin TypedLast(i) BY <1>2 DEF TypedLast
    <3>2. \A j : j \in TypedLast(i) <=> j \in TypedLast(h) BY <1>2, <2>1, <3>1 DEF TypedLast
    <3> QED BY <3>2
  <2>3. CASE TypedLast(i) = {} BY <2>2, <2>3 DEF TypeOf
  <2>4. CASE TypedLast(i) # {}
    <3>1. PICK j : j \in TypedLast(i) BY <2>4
    <3>2. TypeOf(i) = dataConf[j].type BY <3>1, TypeOfLast
    <3>3. TypeOf(h) = dataConf[j].type BY <2>2, <3>1, TypeOfLast
    <3> QED BY <3>2, <3>3
  <2> QED BY <2>3, <2>4
<1>3. CASE dataConf[i].type = "missing" /\ i = 1
  <2>1. TypedLast(i) = {} BY <1>3 DEF TypedLast
  <2> QED BY <1>3, <2>1 DEF TypeOf
<1> QED BY <1>1, <1>2, <1>3

\* No element's type is left missing.
LEMMA TypeOfKnown ==
  ASSUME dataConf \in Seq(DataEntry), NEW i \in 1 .. Len(dataConf)
  PROVE  TypeOf(i) \in Types \cup {"other", "unknown"}
<1>1. CASE TypedLast(i) = {} BY <1>1 DEF TypeOf
<1>2. CASE TypedLast(i) # {}
  <2>1. PICK j \in TypedLast(i) : TypeOf(i) = dataConf[j].type BY <1>2 DEF TypeOf
  <2>2. j \in 1 .. Len(dataConf) /\ dataConf[j].type # "missing" BY <2>1 DEF TypedLast
  <2>3. dataConf[j] \in DataEntry BY <2>2, ElementOfSeq
  <2> QED BY <2>1, <2>2, <2>3 DEF DataEntry, Types
<1> QED BY <1>1, <1>2

LEMMA AcceptedTypes ==
  ASSUME dataConf \in Seq(DataEntry), DataAccepted
  PROVE  ListedTypes \subseteq Types
BY TypeOfKnown DEF DataAccepted, ListedTypes

LEMMA DataInvInit == Init => DataInv
<1> SUFFICES ASSUME Init PROVE DataInv OBVIOUS
<1>1. Elements BY DEF Init, Elements
<1>2. Progress BY DEF Init, Progress, Served
<1>3. Places
  <2>1. 0 \in 0 .. HEAP_MAX BY DataPathAssumption
  <2>2. Nothing \in [client : Nat, value : Number, fits : BOOLEAN] BY Constants DEF Nothing
  <2>3. published \in Seq(Number) BY DEF Init
  <2> QED BY <2>1, <2>2, <2>3 DEF Init, Places
<1> QED BY <1>1, <1>2, <1>3, InvInit DEF DataInv

\* The list of the file, and what init_data makes of it, never change.
LEMMA ListKept ==
  ASSUME UNCHANGED conf
  PROVE  dataConf' = dataConf /\ DataAccepted' = DataAccepted /\ \A i : TypeOf(i)' = TypeOf(i)
BY DEF DataAccepted, ListedTypes, TypeOf, TypedLast, conf

\* What Elements says of the array outlives a step that leaves it alone.
LEMMA ElementsKept ==
  ASSUME Elements, UNCHANGED <<conf, data, wild>>
  PROVE  Elements'
BY ListKept DEF Elements

LEMMA ConstantsDiffer == Known # Undef /\ Twenty5 # Undef /\ Garbage # Undef
BY DEF Known, Undef, Twenty5, Garbage

LEMMA InitDataElements ==
  ASSUME DataInv, init_data
  PROVE  Elements' /\ Progress' /\ Places'
<1>1. CASE pc' # "config"
  <2>1. UNCHANGED <<data, wild>> /\ pc' \in {"exit", "crashed"} /\ data = <<>>
    BY <1>1 DEF init_data, Crash, DataInv, Places
  <2>2. Elements' BY <2>1, ElementsKept DEF init_data, DataInv
  <2>3. Progress' BY <2>1 DEF Progress, Served
  <2>4. Places' BY <2>1 DEF init_data, Crash, DataInv, Places
  <2> QED BY <2>2, <2>3, <2>4
<1>2. CASE pc' = "config"
  <2>1. /\ DataAccepted
        /\ data' = [i \in 1 .. Len(dataConf) |->
             [type |-> TypeOf(i), alias |-> dataConf[i].alias,
              field |-> [f \in Fields |-> NewField(i, f)]]]
        /\ wild' = (Len(dataConf) < TYPE)
        /\ UNCHANGED <<conf, cause, reading, heap, published>>
    BY <1>2 DEF init_data, Crash
  <2>2. dataConf \in Seq(DataEntry) /\ dataConf # <<>> /\ Len(dataConf) \in Nat \ {0}
    BY <2>1, DataPathAssumption DEF DataInv, IInv, Configured, DataAccepted
  <2>3. Len(data') = Len(dataConf) /\ data' # <<>> BY <2>1, <2>2
  <2>4. DataAccepted' /\ dataConf' = dataConf /\ \A i : TypeOf(i)' = TypeOf(i)
    BY <2>1, ListKept
  <2>5. ASSUME NEW i \in 1 .. Len(data')
        PROVE  /\ data'[i].type = TypeOf(i) /\ data'[i].alias = dataConf[i].alias
               /\ \A f \in Fields : data'[i].field[f] # Undef => <<i, f>> \in Written
               /\ i = TYPE => data'[i].field["ch_data"] = Known
    BY <2>1, <2>3 DEF Written, NewField, Fields
  <2>6. Elements' BY <2>1, <2>3, <2>4, <2>5 DEF Elements
  <2>7. Progress' BY <1>2, <2>3 DEF Progress, Served
  <2>8. Places' BY <1>2, <2>1, <2>2, <2>3 DEF DataInv, Places
  <2> QED BY <2>6, <2>7, <2>8
<1> QED BY <1>1, <1>2

\* The steps that leave the array and what is published of it alone.
LEMMA OtherElements ==
  ASSUME DataInv, UNCHANGED <<conf, data, wild>>,
         ParseEntry \/ ParseAgain \/ Connect \/ Continue \/ Overwritten \/ UNCHANGED vars
  PROVE  Elements' /\ Progress' /\ Places'
<1>1. Elements' BY ElementsKept DEF DataInv
<1>2. CASE ParseEntry \/ ParseAgain \/ Connect
  <2>1. Progress'
    BY <1>2 DEF ParseEntry, ParseAgain, Connect, Crash, DataInv, Progress, Served
  <2>2. Places'
    BY <1>2 DEF ParseEntry, ParseAgain, Connect, Crash, DataInv, Places
  <2> QED BY <1>1, <2>1, <2>2
<1>3. CASE Continue
  <2>1. Progress' BY <1>3 DEF Continue, DataInv, Progress, Served
  <2>2. <<>> \in Seq(Number) /\ Nothing \in [client : Nat, value : Number, fits : BOOLEAN]
    BY Constants DEF Nothing
  <2>3. Places' BY <1>3, <2>2 DEF Continue, DataInv, Places
  <2> QED BY <1>1, <2>1, <2>3
<1>4. CASE Overwritten
  <2>1. pc' = "crashed" /\ Progress' BY <1>4 DEF Overwritten, Crash, Progress, Served
  <2>2. Places' BY <1>4 DEF Overwritten, Crash, DataInv, Places
  <2> QED BY <1>1, <2>1, <2>2
<1>5. CASE UNCHANGED vars
  <2>1. Progress' /\ Places' BY <1>5 DEF vars, DataInv, Progress, Places
  <2> QED BY <1>1, <2>1
<1> QED BY <1>2, <1>3, <1>4, <1>5

\* What a survey over Modbus stores is a number.
LEMMA ModbusValue ==
  ASSUME IInv, NEW i \in DOMAIN settings, ReceiveModbus(i)
  PROVE  /\ reading' \in [client : Nat, value : Number, fits : BOOLEAN]
         /\ reading'.value # Undef
<1> DEFINE type == settings[i].dataType
<1>1. type \in DataTypes BY SettingsFacts DEF IInv
<1>2. PICK regs \in [0 .. 3 -> Word] :
        reading' = [client |-> i, value |-> Meant(type, regs), fits |-> TRUE]
  BY DEF ReceiveModbus
<1>3. i \in Nat BY DEF IInv, Configured
<1> HIDE DEF type
<1>4. Meant(type, regs) \in Number BY <1>1, MeantNumber
<1>5. Meant(type, regs) # Undef
  <2>1. CASE type = "bool" BY <2>1 DEF Meant, Undef
  <2>2. CASE type # "bool"
    <3>1. 1 \in 1 .. numToCopy(type) BY <1>1, <2>2, EnoughRegisters
    <3>2. 1 \in DOMAIN Meant(type, regs) BY <1>1, <2>2, <3>1, EnoughCopied DEF Meant
    <3>3. 1 \notin DOMAIN Undef BY DEF Undef
    <3> QED BY <3>2, <3>3
  <2> QED BY <2>1, <2>2
<1> QED BY <1>2, <1>3, <1>4, <1>5

\* And so is what one over OPC UA stores, whatever the node holds.
LEMMA OpcValue ==
  ASSUME IInv, NEW i \in DOMAIN settings, ReceiveOpc(i),
         reading \in [client : Nat, value : Number, fits : BOOLEAN]
  PROVE  /\ reading' \in [client : Nat, value : Number, fits : BOOLEAN]
         /\ pc' = "received" => clientData'.field[clientData'.dataType] # Undef
<1> DEFINE type == settings[i].dataType
<1>1. type \in DataTypes BY SettingsFacts DEF IInv
<1>2. CASE UNCHANGED reading /\ pc' \in {"failed", "crashed"} BY <1>2
<1>3. ASSUME NEW v \in Variants, Store(type, Taken(type, v)),
             reading' = [client |-> i, value |-> v.value, fits |-> Fits(type, v)]
      PROVE  /\ reading' \in [client : Nat, value : Number, fits : BOOLEAN]
             /\ clientData'.field[clientData'.dataType] # Undef
  <2>1. v.value \in Number /\ v.value # Undef
    <3>1. CASE v.value \in {<<0>>, <<1>>}
      <4>1. <<0>> # Undef /\ <<1>> # Undef BY DEF Undef
      <4> QED BY <3>1, <4>1, VariantNumber
    <3>2. CASE v.value \in [1 .. 2 -> Word]
      <4>1. 1 \in DOMAIN v.value /\ 1 \notin DOMAIN Undef BY <3>2 DEF Undef
      <4> QED BY <4>1, VariantNumber
    <3> QED BY <3>1, <3>2 DEF Variants
  <2>2. Fits(type, v) \in BOOLEAN
    <3>1. v.small \in BOOLEAN BY DEF Variants
    <3> QED BY <3>1 DEF Fits
  <2>3. i \in Nat BY DEF IInv, Configured
  <2>4. Taken(type, v) # Undef BY <2>1, ConstantsDiffer DEF Taken
  <2> HIDE DEF type
  <2>5. clientData'.dataType = type /\ clientData'.field[type] = Taken(type, v)
    BY <1>1, <1>3 DEF Store, IInv, Typed
  <2> QED BY <1>3, <2>1, <2>2, <2>3, <2>4, <2>5
<1> QED BY <1>2, <1>3 DEF ReceiveOpc, Crash

LEMMA SurveyElements ==
  ASSUME DataInv, NEW i \in DOMAIN settings, Survey(i)
  PROVE  Elements' /\ Progress' /\ Places'
<1> USE DEF DataInv
<1>1. /\ UNCHANGED <<conf, data, wild, published>> /\ data # <<>>
      /\ heap \in 0 .. HEAP_MAX /\ HEAP_MAX \in Nat
  BY DataPathAssumption DEF Survey, Progress, Places
<1>2. Elements' BY <1>1, ElementsKept
<1>3. CASE ReceiveModbus(i)
  <2>1. pc' = "received" /\ UNCHANGED <<cause, heap>> BY <1>3 DEF ReceiveModbus
  <2>2. clientData'.field[clientData'.dataType] # Undef
    BY <1>3, ModbusStep, ModbusValue
  <2>3. reading' \in [client : Nat, value : Number, fits : BOOLEAN] BY <1>3, ModbusValue
  <2>4. Progress' BY <1>1, <2>1, <2>2 DEF Progress
  <2>5. Places' BY <1>1, <2>1, <2>3 DEF Places, Served
  <2> QED BY <1>2, <2>4, <2>5
<1>4. CASE ReceiveOpc(i)
  <2>1. /\ reading' \in [client : Nat, value : Number, fits : BOOLEAN]
        /\ pc' = "received" => clientData'.field[clientData'.dataType] # Undef
    BY <1>4, OpcValue DEF Places
  <2>2. /\ pc' \in {"received", "failed", "crashed"}
        /\ cause' \in {cause, "memory", "variant"}
    BY <1>4, OpcStep
  <2>3. heap' \in 0 .. HEAP_MAX BY <1>1, <1>4 DEF ReceiveOpc, Crash
  <2>4. Progress' BY <1>1, <2>1, <2>2 DEF Progress, Served
  <2>5. Places' BY <1>1, <2>1, <2>2, <2>3 DEF Places, Served
  <2> QED BY <1>2, <2>4, <2>5
<1>5. CASE NoAnswer
  <2>1. Progress' BY <1>1, <1>5 DEF NoAnswer, Progress, Served
  <2>2. Places' BY <1>1, <1>5 DEF NoAnswer, Places
  <2> QED BY <1>2, <2>1, <2>2
<1> QED BY <1>3, <1>4, <1>5 DEF Survey

\* The copying writes the time and the temperature, wherever the array has
\* them, and beyond its end where it has not.
LEMMA CopyElements ==
  ASSUME DataInv, modbus_to_mqtt
  PROVE  Elements' /\ Progress' /\ Places'
<1> DEFINE G(i, f) == CASE i = TEMP /\ f = "i_data" -> Temp
                        [] i = TIME /\ f = "l_data" -> Known
                        [] OTHER -> data[i].field[f]
           New(i) == [data[i] EXCEPT !.field = [f \in Fields |-> G(i, f)]]
<1>1. data' = [i \in DOMAIN data |-> New(i)] BY DEF modbus_to_mqtt
<1>2. ASSUME NEW i, NEW f
      PROVE  /\ <<i, f>> \notin Written => G(i, f) = data[i].field[f]
             /\ i = TIME /\ f = "l_data" => G(i, f) = Known
             /\ i = TYPE => G(i, f) = data[i].field[f]
  <2>1. TIME # TEMP /\ TIME # TYPE /\ TEMP # TYPE BY DEF TIME, TEMP, TYPE
  <2>2. CASE i = TEMP /\ f = "i_data" BY <2>1, <2>2 DEF Written
  <2>3. CASE i = TIME /\ f = "l_data"
    <3>1. G(i, f) = Known BY <2>1, <2>3
    <3> QED BY <2>1, <2>3, <3>1 DEF Written
  <2>4. CASE ~(i = TEMP /\ f = "i_data") /\ ~(i = TIME /\ f = "l_data")
    <3>1. G(i, f) = data[i].field[f] BY <2>4
    <3> QED BY <2>4, <3>1
  <2> QED BY <2>2, <2>3, <2>4
<1> HIDE DEF G
<1>3. /\ data # <<>> /\ DOMAIN data = 1 .. Len(data) /\ Len(data) \in Nat \ {0}
      /\ \A i \in 1 .. Len(data) : DOMAIN data[i] = {"type", "alias", "field"}
  <2>1. data \in Seq([type : ListedTypes, alias : BOOLEAN, field : [Fields -> Number]])
    BY DEF DataInv, IInv, Typed
  <2>2. data # <<>> BY DEF DataInv, Progress, modbus_to_mqtt, Served
  <2>3. \A i \in 1 .. Len(data) : data[i] \in [type : ListedTypes, alias : BOOLEAN,
                                                field : [Fields -> Number]]
    BY <2>1, ElementOfSeq
  <2> QED BY <2>1, <2>2, <2>3
<1>4. ASSUME NEW i \in 1 .. Len(data)
      PROVE  /\ New(i).type = data[i].type /\ New(i).alias = data[i].alias
             /\ \A f \in Fields : New(i).field[f] = G(i, f)
  BY <1>3
<1> HIDE DEF New
<1>5. DOMAIN data' = DOMAIN data /\ Len(data') = Len(data) /\ data' # <<>>
  BY <1>1, <1>3
<1>6. DataAccepted' /\ dataConf' = dataConf /\ \A i : TypeOf(i)' = TypeOf(i)
  BY <1>3, ListKept DEF modbus_to_mqtt, DataInv, Elements
<1>7. wild' = (Len(data) < TYPE)
  <2>1. wild = (Len(data) < TYPE) BY <1>3 DEF DataInv, Elements
  <2>2. wild' = (wild \/ Len(data) < TEMP) BY DEF modbus_to_mqtt
  <2>3. Len(data) < TEMP => Len(data) < TYPE BY <1>3 DEF TYPE, TEMP
  <2>4. (Len(data) < TYPE \/ Len(data) < TEMP) = (Len(data) < TYPE) BY <2>3
  <2> QED BY <2>1, <2>2, <2>4, Zenon
<1>8. ASSUME NEW i \in 1 .. Len(data')
      PROVE  /\ data'[i].type = TypeOf(i) /\ data'[i].alias = dataConf[i].alias
             /\ \A f \in Fields : data'[i].field[f] # Undef => <<i, f>> \in Written
             /\ i = TYPE => data'[i].field["ch_data"] = Known
  <2>1. data'[i] = New(i) /\ i \in 1 .. Len(data) BY <1>1, <1>3, <1>5
  <2>2. /\ data[i].type = TypeOf(i) /\ data[i].alias = dataConf[i].alias
        /\ \A f \in Fields : data[i].field[f] # Undef => <<i, f>> \in Written
        /\ i = TYPE => data[i].field["ch_data"] = Known
    BY <1>3, <2>1 DEF DataInv, Elements
  <2>3. "ch_data" \in Fields BY DEF Fields
  <2> QED BY <1>2, <1>4, <2>1, <2>2, <2>3
<1>9. Elements'
  <2>1. Len(data') = Len(dataConf') /\ wild' = (Len(data') < TYPE)
    BY <1>3, <1>5, <1>6, <1>7 DEF DataInv, Elements
  <2> QED BY <1>5, <1>6, <1>8, <2>1 DEF Elements
<1>10. Progress'
  <2>1. TIME \in 1 .. Len(data) /\ "l_data" \in Fields BY <1>3 DEF TIME, Fields
  <2>2. data'[TIME].field["l_data"] = Known BY <1>1, <1>2, <1>3, <1>4, <2>1
  <2> QED BY <1>5, <2>2 DEF modbus_to_mqtt, DataInv, Progress, Served
<1>11. Places' BY <1>7 DEF modbus_to_mqtt, DataInv, Places, Served
<1> QED BY <1>9, <1>10, <1>11

\* What is published are numbers.
LEMMA JsonNumbers ==
  ASSUME DataInv
  PROVE  get_json \in Seq(Number)
<1>1. data \in Seq([type : ListedTypes, alias : BOOLEAN, field : [Fields -> Number]])
  BY DEF DataInv, IInv, Typed
<1>2. CASE data = <<>>
  <2>1. get_json = <<>> BY <1>2 DEF get_json
  <2> QED BY <2>1
<1>3. CASE data # <<>>
  <2>1. ListedTypes \subseteq Types
    BY <1>3, AcceptedTypes, DataPathAssumption DEF DataInv, IInv, Configured, Elements
  <2>2. ASSUME NEW i \in 1 .. Len(data)
        PROVE  (IF data[i].alias THEN data[i].field[FieldOf(data[i].type)] ELSE Undef) \in Number
    <3>1. data[i] \in [type : ListedTypes, alias : BOOLEAN, field : [Fields -> Number]]
      BY <1>1, ElementOfSeq
    <3>2. data[i].type \in Types BY <2>1, <3>1
    <3>3. FieldOf(data[i].type) \in Fields BY <3>2 DEF Types, FieldOf, Fields
    <3> QED BY <3>1, <3>3, Constants
  <2>3. DOMAIN data = 1 .. Len(data) /\ Len(data) \in Nat BY <1>1
  <2> QED BY <2>2, <2>3, SeqDef DEF get_json
<1> QED BY <1>2, <1>3

LEMMA SendElements ==
  ASSUME DataInv, send_data
  PROVE  Elements' /\ Progress' /\ Places'
<1>1. Elements' BY ElementsKept DEF send_data, DataInv
<1>2. Progress' BY DEF send_data, Crash, DataInv, Progress, Served
<1>3. Places'
  <2>1. heap' \in 0 .. HEAP_MAX BY DataPathAssumption DEF send_data, DataInv, Places
  <2>2. published' \in Seq(Number) BY JsonNumbers DEF send_data, DataInv, Places
  <2> QED BY <2>1, <2>2 DEF send_data, Crash, DataInv, Places, Served
<1> QED BY <1>1, <1>2, <1>3

LEMMA DataInvStep == DataInv /\ [Next]_vars => DataInv'
<1> SUFFICES ASSUME DataInv, [Next]_vars PROVE DataInv' OBVIOUS
<1>1. IInv' BY InvStep DEF DataInv
<1>2. CASE init_data BY <1>1, <1>2, InitDataElements DEF DataInv
<1>3. CASE ParseEntry \/ ParseAgain \/ Connect \/ Continue \/ Overwritten \/ UNCHANGED vars
  <2>1. UNCHANGED <<conf, data, wild>>
    BY <1>3 DEF ParseEntry, ParseAgain, Connect, Continue, Overwritten, vars
  <2> QED BY <1>1, <1>3, <2>1, OtherElements DEF DataInv
<1>4. ASSUME NEW i \in DOMAIN settings, Survey(i) PROVE DataInv'
  <2>1. Elements' /\ Progress' /\ Places' BY <1>4, SurveyElements
  <2> QED BY <1>1, <2>1 DEF DataInv
<1>5. CASE modbus_to_mqtt BY <1>1, <1>5, CopyElements DEF DataInv
<1>6. CASE send_data BY <1>1, <1>6, SendElements DEF DataInv
<1> QED BY <1>2, <1>3, <1>4, <1>5, <1>6 DEF Next

THEOREM DataInvariance == Spec => []DataInv
BY DataInvInit, DataInvStep, PTL DEF Spec

\* Everything keeps its type: the settings are those of an accepted entry,
\* the array has the four types only, and what is published are numbers.
THEOREM TypeCorrect == Spec => []TypeOK
<1>1. DataInv => TypeOK
  <2> SUFFICES ASSUME DataInv PROVE TypeOK OBVIOUS
  <2> USE DEF DataInv
  <2> DEFINE S == [protocol : {"modbus", "opc"}, refreshRate : RefreshRate,
                   dataType : DataTypes, protocolType : {"TCP", "RTU"},
                   registersToRead : {0, 1, 2, 4}, given : SUBSET Keys, longNode : BOOLEAN]
  <2>1. ASSUME NEW i \in 1 .. Len(settings)
        PROVE  settings[i] \in S
    <3>1. /\ i \in DOMAIN settings /\ clientConf[i] \in Entry
          /\ settings[i] = Settings(clientConf[i]) /\ Accepted(clientConf[i])
      BY DEF IInv, Configured
    <3> DEFINE e == clientConf[i]
    <3> HIDE DEF e
    <3>2. e \in Entry /\ Accepted(e) /\ settings[i] = Settings(e) BY <3>1 DEF e
    <3>3. /\ e.protocol \in {"modbus", "opc"} /\ e.rate \in RefreshRate
          /\ e.type \in DataTypes /\ e.longNode \in BOOLEAN
      BY <3>2 DEF Entry, Accepted
    <3>4. registersToRead(e.type) \in {0, 1, 2, 4}
      BY <3>3 DEF registersToRead, DataTypes
    <3>5. KeysOf(e) \subseteq Keys
      BY <3>2 DEF KeysOf, Keys, Entry, CommonKeys, TcpKeys, RtuKeys, OpcKeys
    <3> QED BY <3>2, <3>3, <3>4, <3>5 DEF Settings
  <2>2. settings \in Seq(S)
    <3> HIDE DEF S
    <3>1. settings \in Seq({Settings(e) : e \in Entry}) BY DEF IInv, Configured
    <3>2. /\ Len(settings) \in Nat
          /\ settings = [i \in 1 .. Len(settings) |-> settings[i]]
      BY <3>1
    <3>3. settings \in [1 .. Len(settings) -> S] BY <2>1, <3>2
    <3> QED BY <3>2, <3>3, SeqDef
  <2>3. data \in Seq([type : {"bool", "int", "long int", "*char"}, alias : BOOLEAN,
                      field : [Fields -> Number]])
    <3>1. CASE data = <<>> BY <3>1
    <3>2. CASE data # <<>>
      <4>1. ListedTypes \subseteq Types
        BY <3>2, AcceptedTypes, DataPathAssumption DEF IInv, Configured, Elements
      <4> DEFINE R == [type : ListedTypes, alias : BOOLEAN, field : [Fields -> Number]]
                 Q == [type : {"bool", "int", "long int", "*char"}, alias : BOOLEAN,
                       field : [Fields -> Number]]
      <4>2. R \subseteq Q BY <4>1 DEF Types
      <4>3. data \in Seq(R) BY DEF IInv, Typed
      <4> HIDE DEF R, Q
      <4>4. Len(data) \in Nat /\ data \in [1 .. Len(data) -> Q] BY <4>2, <4>3
      <4>5. data \in Seq(Q) BY <4>4, SeqDef
      <4> QED BY <4>5 DEF Q
    <3> QED BY <3>1, <3>2
  <2> QED BY <2>2, <2>3 DEF IInv, Configured, Typed, Places, TypeOK
<1> QED BY <1>1, DataInvariance, PTL

\* The items of the text, one for each element of the file's list.
LEMMA Items ==
  ASSUME DataInv, pc = "sent"
  PROVE  /\ data # <<>> /\ dataConf \in Seq(DataEntry)
         /\ Len(data) = Len(dataConf) /\ Len(dataConf) \in Nat \ {0}
         /\ DOMAIN published = 1 .. Len(dataConf)
         /\ \A i \in 1 .. Len(dataConf) :
              /\ TypeOf(i) \in Types
              /\ published[i] = IF dataConf[i].alias THEN data[i].field[FieldOf(TypeOf(i))]
                                ELSE Undef
<1> USE DEF DataInv
<1>1. data # <<>> /\ data \in Seq([type : ListedTypes, alias : BOOLEAN, field : [Fields -> Number]])
  BY DEF Progress, Served, IInv, Typed
<1>2. dataConf \in Seq(DataEntry) BY DataPathAssumption DEF IInv, Configured
<1>3. DataAccepted /\ Len(data) = Len(dataConf) BY <1>1 DEF Elements
<1>4. DOMAIN data = 1 .. Len(dataConf) /\ Len(dataConf) \in Nat \ {0} BY <1>1, <1>3
<1>5. published = get_json BY DEF IInv, Copied
<1>6. \A i \in 1 .. Len(dataConf) : TypeOf(i) \in Types
  BY <1>2, <1>3, AcceptedTypes DEF ListedTypes
<1>7. \A i \in 1 .. Len(dataConf) : data[i].type = TypeOf(i) /\ data[i].alias = dataConf[i].alias
  BY <1>1, <1>3 DEF Elements
<1> QED BY <1>1, <1>2, <1>3, <1>4, <1>5, <1>6, <1>7 DEF get_json

\* What has been written of the array when a text is made of it.
LEMMA WhatIsWritten ==
  ASSUME DataInv, pc = "sent"
  PROVE  /\ \A i \in 1 .. Len(dataConf), f \in Fields :
              data[i].field[f] # Undef => <<i, f>> \in Written
         /\ data[TIME].field["l_data"] # Undef
         /\ Len(dataConf) >= TEMP => data[TEMP].field["i_data"] # Undef
         /\ Len(dataConf) >= TYPE => data[TYPE].field["ch_data"] # Undef
         /\ wild <=> Len(dataConf) < TYPE
<1> USE DEF DataInv
<1>1. data # <<>> /\ Len(data) = Len(dataConf) /\ Len(dataConf) \in Nat \ {0} BY Items
<1>2. \A i \in 1 .. Len(dataConf), f \in Fields :
        data[i].field[f] # Undef => <<i, f>> \in Written
  BY <1>1 DEF Elements
<1>3. data[TIME].field["l_data"] # Undef BY <1>1, ConstantsDiffer DEF Progress
<1>4. Len(dataConf) >= TEMP => data[TEMP].field["i_data"] # Undef
  <2> SUFFICES ASSUME Len(dataConf) >= TEMP PROVE data[TEMP].field["i_data"] # Undef OBVIOUS
  <2>1. TEMP \in DOMAIN data
    <3>1. DOMAIN data = 1 .. Len(data) BY DEF IInv, Typed
    <3> QED BY <1>1, <3>1 DEF TEMP
  <2>2. data[TEMP].field["i_data"] = Temp BY <2>1 DEF IInv, Copied
  <2>3. clientData.field[clientData.dataType] # Undef BY DEF Progress, Served
  <2> QED BY <2>2, <2>3, ConstantsDiffer DEF Temp
<1>5. Len(dataConf) >= TYPE => data[TYPE].field["ch_data"] # Undef
  BY <1>1, ConstantsDiffer DEF Elements, TYPE
<1>6. wild <=> Len(dataConf) < TYPE BY <1>1 DEF Elements
<1> QED BY <1>2, <1>3, <1>4, <1>5, <1>6

\* With any list but the one the program comes with, it publishes what was
\* never written or writes where there is no array.
LEMMA OnlyFilled ==
  ASSUME DataInv, pc = "sent", ~wild, \A i \in DOMAIN published : published[i] # Undef
  PROVE  dataConf = Filled
<1>1. /\ dataConf \in Seq(DataEntry) /\ Len(dataConf) \in Nat
      /\ DOMAIN published = 1 .. Len(dataConf)
  BY Items
<1>2. Len(dataConf) >= 3 BY <1>1, WhatIsWritten DEF TYPE
<1>3. ASSUME NEW i \in 1 .. Len(dataConf)
      PROVE  dataConf[i].alias /\ <<i, FieldOf(TypeOf(i))>> \in Written /\ TypeOf(i) \in Types
  <2>1. TypeOf(i) \in Types BY <1>3, Items
  <2>2. dataConf[i] \in DataEntry BY <1>1, ElementOfSeq
  <2>3. published[i] # Undef BY <1>1
  <2>4. dataConf[i].alias /\ published[i] = data[i].field[FieldOf(TypeOf(i))]
    BY <1>3, <2>2, <2>3, Items DEF DataEntry
  <2>5. FieldOf(TypeOf(i)) \in Fields BY <2>1 DEF Types, FieldOf, Fields
  <2> HIDE DEF Types
  <2>6. <<i, FieldOf(TypeOf(i))>> \in Written BY <2>3, <2>4, <2>5, WhatIsWritten
  <2> QED BY <2>1, <2>4, <2>6
<1>4. ASSUME NEW i \in 1 .. Len(dataConf)
      PROVE  /\ i \in 1 .. 3
             /\ i = 1 => TypeOf(i) = "long int"
             /\ i = 2 => TypeOf(i) = "int"
             /\ i = 3 => TypeOf(i) = "*char"
  <2>1. \/ i = 1 /\ FieldOf(TypeOf(i)) = "l_data"
        \/ i = 2 /\ FieldOf(TypeOf(i)) = "i_data"
        \/ i = 3 /\ FieldOf(TypeOf(i)) = "ch_data"
    BY <1>3 DEF Written, TIME, TEMP, TYPE
  <2>2. ASSUME NEW t \in Types
        PROVE  /\ FieldOf(t) = "l_data" => t = "long int"
               /\ FieldOf(t) = "i_data" => t = "int"
               /\ FieldOf(t) = "ch_data" => t = "*char"
    BY DEF Types, FieldOf
  <2>3. TypeOf(i) \in Types BY <1>3
  <2> HIDE DEF Types
  <2>4. /\ FieldOf(TypeOf(i)) = "l_data" => TypeOf(i) = "long int"
        /\ FieldOf(TypeOf(i)) = "i_data" => TypeOf(i) = "int"
        /\ FieldOf(TypeOf(i)) = "ch_data" => TypeOf(i) = "*char"
    BY <2>2, <2>3, Zenon
  <2>5. i \in 1 .. 3 BY <2>1
  <2>6. i = 1 => FieldOf(TypeOf(i)) = "l_data" BY <2>1
  <2>7. i = 2 => FieldOf(TypeOf(i)) = "i_data" BY <2>1
  <2>8. i = 3 => FieldOf(TypeOf(i)) = "ch_data" BY <2>1
  <2> QED BY <2>4, <2>5, <2>6, <2>7, <2>8, Zenon
<1>5. Len(dataConf) = 3
  <2>1. Len(dataConf) \in 1 .. Len(dataConf) BY <1>1, <1>2
  <2>2. Len(dataConf) \in 1 .. 3 BY <1>4, <2>1, Zenon
  <2> QED BY <1>2, <2>2
<1>6. 1 \in 1 .. Len(dataConf) /\ 2 \in 1 .. Len(dataConf) /\ 3 \in 1 .. Len(dataConf)
  BY <1>5
<1>7. TypeOf(1) = "long int" /\ TypeOf(2) = "int" /\ TypeOf(3) = "*char"
  <2>1. TypeOf(1) = "long int" BY <1>4, <1>6, Zenon
  <2>2. TypeOf(2) = "int" BY <1>4, <1>6, Zenon
  <2>3. TypeOf(3) = "*char" BY <1>4, <1>6, Zenon
  <2> QED BY <2>1, <2>2, <2>3
<1>8. dataConf[1].type # "missing" /\ dataConf[2].type # "missing" /\ dataConf[3].type # "missing"
  <2>1. dataConf[1].type = "missing" => TypeOf(1) = "unknown" BY <1>1, <1>6, TypeOfFacts
  <2>2. dataConf[2].type = "missing" => TypeOf(2) = TypeOf(1) BY <1>1, <1>6, TypeOfFacts
  <2>3. dataConf[3].type = "missing" => TypeOf(3) = TypeOf(2) BY <1>1, <1>6, TypeOfFacts
  <2> QED BY <1>7, <2>1, <2>2, <2>3
<1>9. /\ dataConf[1].type = "long int" /\ dataConf[2].type = "int" /\ dataConf[3].type = "*char"
  <2>1. \A i \in 1 .. Len(dataConf) : dataConf[i].type # "missing" => TypeOf(i) = dataConf[i].type
    BY <1>1, TypeOfFacts
  <2> QED BY <1>6, <1>7, <1>8, <2>1
<1>10. ASSUME NEW e \in DataEntry, e.alias, NEW t, e.type = t
       PROVE  e = [alias |-> TRUE, type |-> t]
  <2>1. e.alias = TRUE BY <1>10 DEF DataEntry
  <2> QED BY <1>10, <2>1 DEF DataEntry
<1>11. \A i \in 1 .. Len(dataConf) : dataConf[i] \in DataEntry /\ dataConf[i].alias
  BY <1>1, <1>3, ElementOfSeq
<1>12. /\ dataConf[1] = [alias |-> TRUE, type |-> "long int"]
       /\ dataConf[2] = [alias |-> TRUE, type |-> "int"]
       /\ dataConf[3] = [alias |-> TRUE, type |-> "*char"]
  BY <1>6, <1>9, <1>10, <1>11
<1> DEFINE a == [alias |-> TRUE, type |-> "long int"]
           b == [alias |-> TRUE, type |-> "int"]
           c == [alias |-> TRUE, type |-> "*char"]
<1>13. Filled = <<a, b, c>> BY DEF Filled
<1>14. dataConf[1] = a /\ dataConf[2] = b /\ dataConf[3] = c BY <1>12
<1> HIDE DEF a, b, c
<1> QED BY <1>1, <1>5, <1>13, <1>14

\* The file has the list the program comes with.
IsFilled == dataConf = Filled

\* With that list every item has been written when the text is made of it.
LEMMA FilledDefined ==
  ASSUME DataInv, pc = "sent", IsFilled
  PROVE  ~wild /\ \A i \in DOMAIN published : published[i] # Undef
<1>1. Len(dataConf) = 3 BY DEF IsFilled, Filled
<1>2. ~wild BY <1>1, WhatIsWritten DEF TYPE
<1>3. ASSUME NEW i \in 1 .. 3
      PROVE  /\ dataConf[i].alias
             /\ i = 1 => dataConf[i].type = "long int"
             /\ i = 2 => dataConf[i].type = "int"
             /\ i = 3 => dataConf[i].type = "*char"
  <2>1. dataConf[1].alias /\ dataConf[1].type = "long int" BY DEF IsFilled, Filled
  <2>2. dataConf[2].alias /\ dataConf[2].type = "int" BY DEF IsFilled, Filled
  <2>3. dataConf[3].alias /\ dataConf[3].type = "*char" BY DEF IsFilled, Filled
  <2>4. i = 1 \/ i = 2 \/ i = 3 OBVIOUS
  <2> QED BY <2>1, <2>2, <2>3, <2>4, Zenon
<1>4. ASSUME NEW i \in 1 .. 3
      PROVE  /\ i = 1 => TypeOf(i) = "long int"
             /\ i = 2 => TypeOf(i) = "int"
             /\ i = 3 => TypeOf(i) = "*char"
  <2>1. dataConf[i].type # "missing"
    <3>1. i = 1 \/ i = 2 \/ i = 3 OBVIOUS
    <3>2. "long int" # "missing" /\ "int" # "missing" /\ "*char" # "missing" OBVIOUS
    <3> QED BY <1>3, <3>1, <3>2, Zenon
  <2>2. TypeOf(i) = dataConf[i].type BY <1>1, <2>1, TypeOfFacts
  <2> QED BY <1>3, <2>2
<1>5. ASSUME NEW i \in 1 .. 3
      PROVE  /\ i = 1 => published[i] = data[i].field["l_data"]
             /\ i = 2 => published[i] = data[i].field["i_data"]
             /\ i = 3 => published[i] = data[i].field["ch_data"]
  <2>1. published[i] = data[i].field[FieldOf(TypeOf(i))] BY <1>1, <1>3, Items
  <2>2. FieldOf("long int") = "l_data" /\ FieldOf("int") = "i_data" /\ FieldOf("*char") = "ch_data"
    BY DEF FieldOf
  <2> QED BY <1>4, <2>1, <2>2, Zenon
<1>6. DOMAIN published = 1 .. 3 BY <1>1, Items
<1>7. ASSUME NEW i \in 1 .. 3 PROVE published[i] # Undef
  BY <1>1, <1>5, WhatIsWritten DEF TIME, TEMP, TYPE
<1> QED BY <1>2, <1>6, <1>7

\* Of all lists of elements, exactly the one the program comes with is
\* published without an element never written, and without a write beyond
\* the array.
THEOREM DefinedCorrect == Spec => []DefinedForOneList
<1>1. DataInv => DefinedForOneList
  BY OnlyFilled, FilledDefined DEF DefinedForOneList, IsFilled
<1> QED BY <1>1, DataInvariance, PTL
=============================================================================
