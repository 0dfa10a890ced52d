--------------------------- MODULE CommandProofs ---------------------------
(***************************************************************************)
(* AtMostOnce for every set of commands, every policy and every number of  *)
(* crashes, failed writes, failed syncs and lost ledgers, as long as every *)
(* command says when it was issued and a restart takes longer than a       *)
(* command's time of issue can be ahead of this host's clock.              *)
(***************************************************************************)
EXTENDS ChannelProofs

\* The initial state: a new ledger, nothing run.
THEOREM ChannelInitInv == Init => IInv
<1> SUFFICES ASSUME Init PROVE IInv
  OBVIOUS
<1>1. Nothing \in Line /\ Nothing.state = "none"
  BY DEF Nothing, Line, States, Results
<1>2. TypeOK
  <2>1. entries \in [Ids -> Line] /\ cached \in [Ids -> Line] /\ stable \in [Ids -> Line]
        /\ \A id \in Ids : entries[id].state = "none"
    BY <1>1 DEF Init, LedgerInit
  <2>2. open \in BOOLEAN /\ lost \in BOOLEAN
    BY ZenonT(30) DEF Init, LedgerInit
  <2>3. faults \in [LedgerFaults -> Nat] /\ epoch \in Nat
    BY LedgerAssumption DEF Init, LedgerInit
  <2>4. ChannelTypes
    BY DEF Init, ChannelTypes, Pcs, Loops, Results
  <2> QED
    BY <2>1, <2>2, <2>3, <2>4 DEF TypeOK, ChannelTypes
<1>3. Recorded /\ Delivered
  BY <1>1 DEF Init, LedgerInit, Recorded, Known, Delivered
<1>4. RanIsBarred /\ AboutToRun /\ AtMostOnce /\ now > 0 /\ epoch > 0 /\ pc # "down"
  BY DEF Init, LedgerInit, RanIsBarred, AboutToRun, AtMostOnce
<1> QED
  BY <1>2, <1>3, <1>4 DEF IInv
-----------------------------------------------------------------------------
\* Time passes, or the file is removed behind the process's back.
LEMMA OutsideInv ==
    ASSUME IInv, Delivered', Tick \/ Lose
    PROVE  IInv'
<1>1. TypeOK /\ Recorded /\ RanIsBarred /\ AboutToRun /\ AtMostOnce /\ Lead \in Nat
  BY LeadFacts DEF IInv
<1>2. /\ UNCHANGED <<entries, epoch, open, cached, stable, pc, loop, work, current, result, decided,
                     change_times, manager, answers, ran, ran_at>>
      /\ now' \in {now, now + 1}
  BY DEF Tick, Lose, LoseLedger, ledgerVars, channelVars, external, history
<1>3. faults' \in [LedgerFaults -> Nat]
  BY <1>1 DEF Tick, Lose, LoseLedger, Spend, TypeOK, ledgerVars, LedgerFaults
<1>4. lost' \in BOOLEAN
  BY ZenonT(30), <1>1 DEF Tick, Lose, LoseLedger, TypeOK, ledgerVars
<1>5. now \in Nat /\ now' \in Nat /\ now <= now' /\ now > 0 /\ epoch > 0
  BY <1>1, <1>2 DEF TypeOK, IInv
<1>6. TypeOK'
  BY <1>1, <1>2, <1>3, <1>4, <1>5 DEF TypeOK
<1>7. Recorded' /\ AtMostOnce' /\ (pc' = "down" => \A id \in Ids : ~Known(id)')
  BY ZenonT(30), <1>1, <1>2 DEF Recorded, AtMostOnce, Known, IInv
<1>8. \A id \in Ids : created[id] \in Nat /\ expires[id] \in Nat
  BY ChannelAssumption, LedgerAssumption
<1>9. \A id \in Ids : created[id] <= now + Lead => created[id] <= now' + Lead
  BY <1>1, <1>5, <1>8
<1>10. \A id \in Ids : expires[id] <= now => expires[id] <= now'
  BY <1>5, <1>8
<1>11. RanIsBarred'
  BY SMTT(30), <1>1, <1>2, <1>9, <1>10 DEF RanIsBarred, BarredOnDisk, Barred, LedgerReset, Known
<1>12. AboutToRun'
  BY ZenonT(30), <1>1, <1>2, <1>9 DEF AboutToRun, Known
<1>13. now' > 0 /\ epoch' > 0
  BY <1>2, <1>5
<1> QED
  BY <1>6, <1>7, <1>11, <1>12, <1>13 DEF IInv

\* The process dies: what was synced stays, so what ran is barred on disk.
LEMMA CrashInv ==
    ASSUME IInv, Delivered', Crash
    PROVE  IInv'
<1>1. TypeOK /\ Recorded /\ RanIsBarred /\ AtMostOnce /\ now > 0 /\ epoch > 0
  BY DEF IInv
<1>2. Nothing \in Line /\ Nothing.state = "none" /\ "none" \in Results
  BY DEF Nothing, Line, States, Results
<1>3. PICK kept \in SUBSET Ids :
        cached' = [id \in Ids |-> IF id \in kept THEN cached[id] ELSE stable[id]]
  BY DEF Crash, LedgerDies
<1>4. /\ cached' \in [Ids -> Line] /\ stable' = cached'
      /\ \A id \in Ids : stable[id].state # "none" => stable'[id].state # "none"
  BY SMTT(30), <1>1, <1>3 DEF Crash, LedgerDies, TypeOK, Recorded
<1>5. entries' \in [Ids -> Line] /\ \A id \in Ids : entries'[id].state = "none"
  BY <1>2 DEF Crash, LedgerDies
<1>6. faults' \in [LedgerFaults -> Nat]
  BY <1>1 DEF Crash, Spend, TypeOK, LedgerFaults
<1>7. open' \in BOOLEAN /\ lost' \in BOOLEAN /\ epoch' = epoch
  BY ZenonT(30), <1>1 DEF Crash, LedgerDies, TypeOK
<1>8. pc' = "down" /\ UNCHANGED <<now, manager, answers, ran, ran_at>>
  BY DEF Crash, Goto, external, history
<1>9. ChannelTypes'
  BY SMTT(30), <1>1, <1>2, <1>8 DEF Crash, TypeOK, ChannelTypes, Pcs, Loops
<1>10. TypeOK'
  BY SMTT(30), <1>1, <1>4, <1>5, <1>6, <1>7, <1>9 DEF TypeOK, ChannelTypes
<1>11. Recorded' /\ AboutToRun' /\ AtMostOnce' /\ \A id \in Ids : ~Known(id)'
  BY ZenonT(30), <1>1, <1>4, <1>5, <1>8 DEF Recorded, AboutToRun, AtMostOnce, Known
<1>12. RanIsBarred'
  BY ZenonT(30), <1>1, <1>4, <1>7, <1>8 DEF RanIsBarred, BarredOnDisk, LedgerReset
<1> QED
  BY <1>1, <1>7, <1>8, <1>10, <1>11, <1>12 DEF IInv

\* The next process opens the ledger.  A file it cannot trust is replaced by
\* one whose epoch is above the creation time of everything that ran, as long
\* as the restart takes longer than the clocks are apart.
LEMMA RestartInv ==
    ASSUME IInv, Delivered', Restart, RestartDelay > Lead, \A id \in Ids : created[id] > 0
    PROVE  IInv'
<1>1. /\ TypeOK /\ Recorded /\ RanIsBarred /\ AtMostOnce
      /\ now \in Nat /\ now > 0 /\ epoch \in Nat /\ epoch > 0
  BY DEF IInv, TypeOK
<1>2. Lead \in Nat /\ RestartDelay \in Nat /\ KeepAfterExpiry \in Nat
  BY LeadFacts, ChannelAssumption, LedgerAssumption
<1>3. Nothing \in Line /\ Nothing.state = "none"
  BY DEF Nothing, Line, States, Results
<1>4. now' = now + RestartDelay /\ pc' = "wait" /\ OpenLedger(now')
      /\ UNCHANGED <<loop, work, current, result, decided, change_times, manager, answers, ran, ran_at>>
  BY DEF Restart, Goto, channelVars, external, history
<1>5. now' \in Nat /\ now < now' /\ now' > 0 /\ now + Lead < now'
  BY <1>1, <1>2, <1>4
<1>6. entries' = [id \in Ids |-> IF Untrusted \/ Expired(id, now') THEN Nothing ELSE cached[id]]
      /\ cached' = entries' /\ stable' = entries' /\ epoch' = (IF Untrusted THEN now' ELSE epoch)
  BY <1>4 DEF OpenLedger
<1>7. epoch' \in Nat /\ epoch' > 0
  BY <1>1, <1>5, <1>6
<1>8. open' \in BOOLEAN /\ lost' \in BOOLEAN /\ faults' \in [LedgerFaults -> Nat]
  BY ZenonT(30), <1>1, <1>4 DEF OpenLedger, TypeOK
<1>9. entries' \in [Ids -> Line] /\ \A id \in Ids : entries'[id].state # "malformed"
  BY <1>1, <1>3, <1>6 DEF TypeOK, Untrusted
<1>10. ChannelTypes'
  BY SMTT(30), <1>1, <1>4, <1>5 DEF TypeOK, ChannelTypes, Pcs
<1>11. TypeOK'
  BY <1>6, <1>7, <1>8, <1>9, <1>10 DEF TypeOK, ChannelTypes
<1>12. Recorded' /\ AboutToRun' /\ AtMostOnce'
  BY ZenonT(30), <1>1, <1>4, <1>6 DEF Recorded, AboutToRun, AtMostOnce, Known
<1>13. RanIsBarred'
  <2> SUFFICES ASSUME NEW id \in Ids, ran[id] > 0
               PROVE  created[id] <= now' + Lead /\ BarredOnDisk(id)' /\ Barred(id)'
    BY ZenonT(30), <1>4 DEF RanIsBarred
  <2>1. created[id] <= now + Lead /\ BarredOnDisk(id)
    BY <1>1 DEF RanIsBarred
  <2>2. created[id] \in Nat /\ expires[id] \in Nat /\ created[id] > 0
    BY SMTT(30), ChannelAssumption, LedgerAssumption
  <2>3. created[id] <= now' + Lead /\ created[id] < now'
    <3>1. now \in Nat /\ now' \in Nat /\ Lead \in Nat /\ now + Lead < now'
      BY ZenonT(30), <1>1, <1>2, <1>5
    <3>2. \A a, b, c, d \in Nat : a <= b + c /\ b + c < d => a <= d + c /\ a < d
      OBVIOUS
    <3> QED
      BY Zenon, <2>1, <2>2, <3>1, <3>2
  <2>4. entries'[id].state # "none" \/ expires[id] <= now' \/ (created[id] > 0 /\ epoch' > 0 /\ created[id] < epoch')
    <3>1. CASE Untrusted
      BY SMTT(30), <1>5, <1>6, <2>2, <2>3, <3>1
    <3>2. CASE Expired(id, now')
      BY SMTT(30), <1>2, <1>5, <2>2, <3>2 DEF Expired
    <3>3. CASE ~Untrusted /\ ~Expired(id, now')
      <4>1. entries'[id] = cached[id] /\ epoch' = epoch
        BY SMTT(30), <1>6, <3>3
      <4>2. CASE stable[id].state # "none"
        BY SMTT(30), <1>1, <4>1, <4>2 DEF Recorded
      <4>3. CASE expires[id] <= now
        BY <1>1, <1>5, <2>2, <4>3
      <4> QED
        BY <2>1, <4>1, <4>2, <4>3 DEF BarredOnDisk, LedgerReset
    <3> QED
      BY SMTT(30), <3>1, <3>2, <3>3
  <2> QED
    BY SMTT(30), <1>6, <2>3, <2>4 DEF Barred, BarredOnDisk, LedgerReset, Known
<1> QED
  BY <1>4, <1>5, <1>7, <1>11, <1>12, <1>13 DEF IInv
-----------------------------------------------------------------------------
\* The commands being handled were issued by the Manager's clock.
LEMMA DeliveredInv ==
    ASSUME IInv, [Next]_vars
    PROVE  Delivered'
<1>1. TypeOK /\ Delivered /\ now \in Nat /\ ManagerAhead \in Nat /\ RestartDelay \in Nat
  BY ZenonT(30), ChannelAssumption DEF IInv, TypeOK
<1>2. \A id \in Ids : created[id] \in Nat
  BY ChannelAssumption
<1>3. ASSUME work' \subseteq work, loop' = loop, now' \in Nat, now <= now',
             pc' \in {"poll", "commands"} => loop = "commands"
      PROVE  Delivered'
  <2>1. \A id \in work : created[id] <= now + ManagerAhead => created[id] <= now' + ManagerAhead
    BY <1>1, <1>2, <1>3 DEF TypeOK
  <2> QED
    BY <1>1, <1>3, <2>1 DEF Delivered
<1> USE DEF Goto
<1>4. ASSUME work' = {}, pc' \in {"poll", "commands"} => loop' = "commands" PROVE Delivered'
  BY <1>4 DEF Delivered
<1>5. CASE UNCHANGED vars
  BY <1>1, <1>3, <1>5 DEF vars, channelVars, Delivered
<1>6. CASE BeginStep
  BY <1>6 DEF BeginStep, Delivered
<1>7. CASE EndLoop
  BY <1>4, <1>7 DEF EndLoop, Delivered
<1>8. CASE CloseInterrupted \/ RepeatResult
  BY <1>1, <1>3, <1>8 DEF CloseInterrupted, RepeatResult, Resume, Submit
<1>9. CASE Poll
  <2>1. CASE pc' = "wait" /\ UNCHANGED work
    BY <1>1, <1>3, <1>9, <2>1 DEF Poll
  <2>2. CASE \E sent \in SUBSET Deliverable : work' = sent
    <3>1. \A id \in work' : created[id] <= now + ManagerAhead
      BY <2>2 DEF Deliverable
    <3> QED
      BY <1>1, <1>9, <3>1 DEF Poll, Delivered
  <2> QED
    BY <1>9, <2>1, <2>2 DEF Poll
<1>10. CASE Redelivered
  <2>1. /\ work' \subseteq work /\ UNCHANGED <<loop, now>> /\ pc = "commands"
        /\ pc' \in {"commands", "submit"}
    BY ZenonT(30), <1>10 DEF Redelivered, Resume, Submit
  <2> QED
    BY SMTT(30), <1>1, <1>3, <2>1 DEF Delivered
<1>11. CASE HandleRefused \/ HandleAccepted
  <2>1. work' \subseteq work /\ UNCHANGED <<loop, now>> /\ pc' \in {"refuse", "accept", "submit"}
    BY SMTT(30), <1>11 DEF HandleRefused, HandleAccepted, Submit
  <2> QED
    BY <1>1, <1>3, <2>1
<1>12. CASE RecordRefusal \/ Accept \/ Execute \/ Finish
  BY SMTT(30), <1>1, <1>3, <1>12 DEF RecordRefusal, Accept, Execute, Finish, Submit
<1>13. CASE Report \/ Note
  BY <1>1, <1>3, <1>13 DEF Report, Note, Return, TypeOK, Loops
<1>14. CASE Tick
  BY <1>1, <1>3, <1>14 DEF Tick, channelVars, Delivered
<1>15. CASE Crash
  BY <1>4, <1>15 DEF Crash
<1>16. CASE Restart
  BY <1>1, <1>3, <1>16 DEF Restart, channelVars
<1>17. CASE Lose
  BY <1>1, <1>3, <1>17 DEF Lose, channelVars, Delivered
<1> QED
  BY SMTT(30), <1>5, <1>6, <1>7, <1>8, <1>9, <1>10, <1>11, <1>12, <1>13, <1>14, <1>15, <1>16, <1>17
     DEF Next, Thread

\* Every step of the channel, the clock and the faults keeps the invariant.
THEOREM ChannelNextInv ==
    ASSUME IInv, [Next]_vars, RestartDelay > Lead, \A id \in Ids : created[id] > 0
    PROVE  IInv'
<1>1. CASE UNCHANGED vars
  <2>1. UNCHANGED <<entries, epoch, open, cached, stable, lost, faults, pc, loop, work, current, result,
                    decided, change_times, now, manager, answers, ran, ran_at>>
    BY <1>1 DEF vars, ledgerVars, channelVars, external, history
  <2> QED
    BY ZenonT(30), <2>1 DEF IInv, TypeOK, Recorded, RanIsBarred, AboutToRun, AtMostOnce, Barred, BarredOnDisk,
       LedgerReset, Known, Delivered
<1>2. Delivered'
  BY DeliveredInv
<1>3. CASE Next
  BY <1>2, <1>3, LoopInv, OutcomeInv, HandleInv, AcceptInv, ExecuteInv, OutsideInv, CrashInv, RestartInv
     DEF Next, Thread
<1> QED
  BY <1>1, <1>3

\* No command acts on the host twice (the promise of command_ledger), for any
\* number of commands, redeliveries, crashes, failed writes and lost ledgers,
\* as long as every command says when it was issued and a restart takes longer
\* than a command's time of issue can be ahead of this host's clock.
THEOREM CommandsAtMostOnce ==
    ASSUME RestartDelay > Lead, \A id \in Ids : created[id] > 0
    PROVE  Spec => []AtMostOnce
<1>1. IInv => AtMostOnce
  BY DEF IInv
<1>2. IInv /\ [Next]_vars => IInv'
  BY ChannelNextInv
<1> QED
  BY <1>1, <1>2, ChannelInitInv, PTL DEF Spec

\* The channel's state stays well-formed; in particular open() never loads a
\* ledger with a line it could not parse.
THEOREM ChannelTypesHold ==
    ASSUME RestartDelay > Lead, \A id \in Ids : created[id] > 0
    PROVE  Spec => []TypeOK
<1>1. IInv => TypeOK
  BY DEF IInv
<1>2. IInv /\ [Next]_vars => IInv'
  BY ChannelNextInv
<1> QED
  BY <1>1, <1>2, ChannelInitInv, PTL DEF Spec
=============================================================================
