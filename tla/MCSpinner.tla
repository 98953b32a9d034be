------------------------------ MODULE MCSpinner ------------------------------
(* Instances of Spinner.                                                   *)
EXTENDS Spinner, TLC

CONSTANTS t1, t2

MCOrder      == <<"SPINNER">>
MCOf         == [m \in Msgs |-> "SPINNER"]
MCMsgTypes   == Requests \cup Replies
MCParsed     == Requests
MCSerialized == Replies
MCTransIds   == {t1, t2}
OneTransId   == {t1}

Frame(tid, type, ch, value) ==
    [tid |-> tid, sub |-> "SPINNER", type |-> type, arg |-> [channel |-> ch, value |-> value]]

(* A plan and a query of it, a plan with a leg too many, start and stop of *)
(* the channel, and a query of a channel there is not.                     *)
PlanFrames == {Frame(t1, "SET_PLAN", 0, 1), Frame(t2, "GET_PLAN", 0, 0),
               Frame(t2, "SET_PLAN", 0, 3),
               Frame(t1, "SET_STATE", 0, RUNNING), Frame(t1, "SET_STATE", 0, STOPPED),
               Frame(t1, "GET_STATE", 1, 0)}
(* For the liveness run: queries whose answer needs a plan block, of which *)
(* there may be none left.                                                 *)
LiveFrames == {Frame(t1, "GET_PLAN", 0, 0)}

(* With the lengths of the code: a plan of more legs than the Rust half    *)
(* holds, and one of as many legs as the C half holds.                     *)
LongPlan == {Frame(t1, "SET_PLAN", 0, RustLegs + 1)}
FullPlan == {Frame(t1, "SET_PLAN", 0, MaxLegs)}

(* Structs and data blocks of one pool are interchangeable.                *)
Slots == Permutations(Msgs) \cup Permutations(Plans) \cup Permutations(Smalls)
=============================================================================
