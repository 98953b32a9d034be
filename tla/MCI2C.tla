-------------------------------- MODULE MCI2C --------------------------------
(* Instances of I2C: the transactions of the firmware's two sensors, with  *)
(* Reads of 3 and 4 bytes for those of 5 and 22, and others the interface  *)
(* allows.                                                                 *)
EXTENDS I2C, TLC

R(n) == [dir |-> "Read", len |-> n]
W(n) == [dir |-> "Write", len |-> n]

(* tsl2651.rs:78,98 and bmp085.rs:104,130 write; bmp085.rs:72,110,136 and  *)
(* tsl2651.rs:111 write the address of a register and read it.             *)
SensorPrograms == {<<W(2)>>, <<W(3)>>, <<W(1), R(2)>>, <<W(1), R(3)>>, <<W(1), R(4)>>}
(* Reads of one byte, and Reads that are not the last step.                *)
OtherPrograms == {<<R(1)>>, <<R(1), W(1)>>, <<R(2), W(2)>>, <<R(3), R(1)>>, <<R(4), W(2)>>}
AllPrograms == SensorPrograms \cup OtherPrograms

AllTasks == Permutations(Tasks)
=============================================================================
