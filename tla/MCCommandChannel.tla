-------------------------- MODULE MCCommandChannel --------------------------
(* Small instances of CommandChannel: up to three commands, a few seconds. *)
EXTENDS CommandChannel, TLC

\* k and l change the host, c collects; u is unreadable, r refused by policy.
CreatedEarly == [id \in Ids |-> 1]
ExpiresSoon == [id \in Ids |-> 3]
ExpiresLater == [id \in Ids |-> 4]
\* The record of u can go before k and l expire.
RoomReturns == [id \in Ids |-> IF id \in Unreadable THEN 2 ELSE 4]

\* The commands that change the host are alike.
Symmetry == Permutations(Changing)

Budget(crash, write, sync, lose) ==
    [crash |-> crash, write |-> write, sync |-> sync, lose |-> lose]
OneWrite == Budget(0, 1, 0, 0)
TwoCrashes == Budget(2, 0, 0, 0)
CrashAndWrite == Budget(1, 1, 0, 0)
AllFaults == Budget(2, 1, 1, 1)
=============================================================================
