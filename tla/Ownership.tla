------------------------------ MODULE Ownership ------------------------------
(***************************************************************************)
(* What the contract of src/message_dispatcher.h promises about a message  *)
(* struct, seen from one struct: who may hand it to whom.  Module          *)
(* Dispatcher implements this, and the subsystems through it.              *)
(*                                                                         *)
(*   pool -> rx -> incoming -> held -> pool            a request           *)
(*   pool -> held -> outgoing -> tx -> pool            a reply             *)
(*                                                                         *)
(* A struct taken from the pool of a subsystem stays with this subsystem.  *)
(***************************************************************************)
CONSTANTS Msgs, Subsystems, SubsystemOf

VARIABLE owner      \* [Msgs -> place of the struct]

Init == owner = [m \in Msgs |-> <<"pool">>]

MayPass(s) ==
    { <<<<"pool">>, <<"rx">>>>,            <<<<"rx">>, <<"pool">>>>,
      <<<<"rx">>, <<"incoming", s>>>>,     <<<<"incoming", s>>, <<"held", s>>>>,
      <<<<"pool">>, <<"held", s>>>>,       <<<<"held", s>>, <<"pool">>>>,
      <<<<"held", s>>, <<"outgoing", s>>>>, <<<<"outgoing", s>>, <<"tx">>>>,
      <<<<"tx">>, <<"pool">>>> }

Free(worker) == \A m \in Msgs : owner[m] # worker

HandOver(m, to) ==
    /\ <<owner[m], to>> \in MayPass(SubsystemOf[m])
    /\ to \in {<<"rx">>, <<"tx">>} => Free(to)     \* a worker has one struct at a time
    /\ owner' = [owner EXCEPT ![m] = to]

Next ==
    \E m \in Msgs :
       LET from == owner[m]
       IN  \E pass \in MayPass(SubsystemOf[m]) : pass[1] = from /\ HandOver(m, pass[2])

Spec == Init /\ [][Next]_owner
=============================================================================
