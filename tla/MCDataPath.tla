----------------------------- MODULE MCDataPath -----------------------------
(***************************************************************************)
(* An instance of DataPath for TLC: registers of one bit, and lists that   *)
(* have every entry that differs in one respect from one that is accepted. *)
(***************************************************************************)
EXTENDS DataPath

\* Entries with everything in them, of every protocol and type.
Full == {[missing |-> {}, protocol |-> p[1], rate |-> "1s", type |-> t, mbType |-> p[2],
          longName |-> FALSE, longUnit |-> FALSE, longNode |-> FALSE] :
          p \in {<<"modbus", "TCP">>, <<"modbus", "RTU">>, <<"opc", "TCP">>}, t \in DataTypes}

\* The integer clients of each protocol, with one thing wrong.
Flawed == UNION {{[e EXCEPT !.missing = {k}] : k \in Keys}
                 \cup {[e EXCEPT !.protocol = "other"], [e EXCEPT !.rate = "other"],
                       [e EXCEPT !.type = "other"], [e EXCEPT !.mbType = "other"],
                       [e EXCEPT !.longName = TRUE], [e EXCEPT !.longUnit = TRUE],
                       [e EXCEPT !.longNode = TRUE]} :
                 e \in {f \in Full : f.type = "int"}}

Ints == {f \in Full : f.type = "int" /\ f.mbType = "TCP"}

MCClientLists == {<<>>} \cup {<<e>> : e \in Full \cup Flawed} \cup {<<e, f>> : e \in Ints, f \in Full}

Element(t) == [alias |-> TRUE, type |-> t]

MCDataLists == {<<>>, Filled, <<Filled[2]>>, <<Filled[1], Filled[2]>>,
                <<Filled[2], Filled[1], Filled[3]>>, Append(Filled, Element("bool")),
                Append(Filled, Element("missing")),
                <<Element("missing"), Filled[2], Filled[3]>>,
                <<Filled[1], Element("missing"), Filled[3]>>,
                <<Filled[1], Filled[2], Element("other")>>,
                <<[alias |-> FALSE, type |-> "long int"], Filled[2], Filled[3]>>}
=============================================================================
