------------------------------- MODULE MCIde -------------------------------
(***************************************************************************)
(* main, which identifies the disks and makes one request, and a second    *)
(* task, which makes two: one it has to wait for, and one the unit left by *)
(* the waiting lets in beside main.  The sector is beyond 2^24, where the  *)
(* address needs the device register.  It is the last of disk 0, and disk  *)
(* 1, identified after it, ends just before it.                            *)
(***************************************************************************)
EXTENDS Ide

CONSTANTS main, a

MCSectors  == {2^24 + 1}
MCCapacity == [d \in Disk |-> IF d = 0 THEN 2^24 + 2 ELSE 2^24 + 1]
MCRequests == [t \in Task |-> IF t = main THEN 1 ELSE 2]
=============================================================================
