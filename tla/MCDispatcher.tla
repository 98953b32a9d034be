---------------------------- MODULE MCDispatcher ----------------------------
(* An instance of Dispatcher: a subsystem with two structs, one that has   *)
(* run out of them, and frames for both, of a type without a parser, for a *)
(* subsystem nobody registered and with an id that is not a number.        *)
EXTENDS Dispatcher, TLC

CONSTANTS b1, b2, t1

MCMsgTypes   == {"GET", "REPLY"}
MCParsed     == {"GET"}
MCSerialized == {"REPLY"}

Frame(tid, sub, type) == [tid |-> tid, sub |-> sub, type |-> type, arg |-> "none"]

MCOrder == <<"A", "B">>
MCOf    == (b1 :> "B") @@ (b2 :> "B")
MCFrames == {Frame(t1, "A", "GET"), Frame(t1, "B", "GET"), Frame(t1, "A", "REPLY"),
              Frame(t1, "unknown", "GET"), Frame("bad", "A", "GET")}

MCTransIds == {t1}
MCTaskErrors == {-1}
=============================================================================
