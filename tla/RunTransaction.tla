--------------------------- MODULE RunTransaction ---------------------------
(***************************************************************************)
(* What run_transaction (rust/src/bsp/i2c/mod.rs) promises the tasks that  *)
(* call it, without interrupts, peripheral and bus.  Module I2C implements *)
(* this, and METEO's sensor drivers rely on it.                            *)
(*                                                                         *)
(* One caller is served at a time.  While it is, the bytes the device      *)
(* sends come into the buffers of its Reads, each once and in their order; *)
(* the task gets Ok only when these are full.  A caller is refused only    *)
(* while another is served.                                                *)
(***************************************************************************)
EXTENDS Integers

CONSTANTS Tasks, Programs

VARIABLES
    caller,     \* where each task is: outside run_transaction, or served by it
    steps,      \* the transaction of the task that is served
    buf,        \* its buffers
    result      \* what run_transaction last returned to each task

vars == <<caller, steps, buf, result>>

(* A buffer with the first n bytes the device sends; 0 is no byte of it.   *)
Filled(len, n) == [k \in 1..len |-> IF k <= n THEN k ELSE 0]
Full(i) == steps[i].dir = "Read" => buf[i] = Filled(steps[i].len, steps[i].len)

Nobody == \A t \in Tasks : caller[t] = "outside"

Init ==
    /\ caller = [t \in Tasks |-> "outside"]
    /\ steps = <<>> /\ buf = <<>>
    /\ result = [t \in Tasks |-> "none"]

Accept(t, p) ==
    /\ Nobody
    /\ caller' = [caller EXCEPT ![t] = "served"]
    /\ steps' = p /\ buf' = [i \in DOMAIN p |-> Filled(p[i].len, 0)]
    /\ UNCHANGED result

Refuse(t) ==
    /\ caller[t] = "outside" /\ ~Nobody
    /\ result' = [result EXCEPT ![t] = "Err"]
    /\ UNCHANGED <<caller, steps, buf>>

(* Bytes n + 1 to m of Read i arrive; the Reads before it are full.        *)
Fill(i, n, m) ==
    /\ steps[i].dir = "Read" /\ n < m
    /\ \A j \in 1..i - 1 : Full(j)
    /\ buf[i] = Filled(steps[i].len, n)
    /\ buf' = [buf EXCEPT ![i] = Filled(steps[i].len, m)]
    /\ UNCHANGED <<caller, steps, result>>

Return(t, r) ==
    /\ caller[t] = "served"
    /\ caller' = [caller EXCEPT ![t] = "outside"]
    /\ steps' = <<>> /\ buf' = <<>>
    /\ result' = [result EXCEPT ![t] = r]

Succeed(t) == (\A i \in DOMAIN steps : Full(i)) /\ Return(t, "Ok")
Fail(t)    == Return(t, "Err")

Next ==
    \/ \E t \in Tasks :
          (\E p \in Programs : Accept(t, p)) \/ Refuse(t) \/ Succeed(t) \/ Fail(t)
    \/ \E i \in DOMAIN steps : \E n, m \in 0..steps[i].len : Fill(i, n, m)

Spec == Init /\ [][Next]_vars
=============================================================================
