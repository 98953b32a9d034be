------------------------------- MODULE MCMeteo -------------------------------
(* Instances of Meteo with two or three structs and one or two ids.        *)
EXTENDS Meteo, TLC

CONSTANTS t1, t2, ch1, ch2

MCOrder      == <<"METEO">>
MCOf         == [m \in Msgs |-> "METEO"]
MCMsgTypes   == Requests \cup Replies
MCParsed     == Requests
MCSerialized == Replies
MCTransIds   == {t1, t2}
OneTransId   == {t1}
MCErrors     == MeteoErrors

Frame(tid, type, arg) == [tid |-> tid, sub |-> "METEO", type |-> type, arg |-> arg]

(* Two kinds of requests under two ids for two channels, and one whose     *)
(* channel number does not parse.                                          *)
SensorFrames == {Frame(t1, "GET_TEMPERATURE", ch1), Frame(t2, "GET_HUMIDITY", ch2),
                 Frame(t2, "GET_PRESSURE", "bad")}
(* The request that meets every error a measurement can end in.            *)
LightFrames == {Frame(t1, "GET_LIGHT_LEVEL", ch1)}
(* Structs and payloads are interchangeable in safety properties.          *)
Slots == Permutations(Msgs) \cup Permutations(Payloads)
=============================================================================
