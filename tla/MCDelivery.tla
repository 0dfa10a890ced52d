----------------------------- MODULE MCDelivery -----------------------------
(* Small instances of Delivery: which faults, and how many of each.        *)
EXTENDS Delivery

Budget(crash, damage, remove, io, fsync) ==
    [crash |-> crash, damage |-> damage, remove |-> remove, io |-> io, fsync |-> fsync]

CrashesAndIo == Budget(2, 0, 0, 1, 0)
CrashAndDamage == Budget(1, 1, 0, 0, 0)
CrashDamageRemoval == Budget(1, 1, 1, 0, 0)
=============================================================================
