--------------------------- MODULE ChannelProofs ---------------------------
(***************************************************************************)
(* What the ledger's operations preserve, and that the steps of the        *)
(* channel thread preserve the invariant of CommandChannel.                *)
(***************************************************************************)
EXTENDS CommandChannel, TLAPS

\* What a ledger operation may do to the ledger: it forgets nothing, and
\* takes nothing into memory that is not on disk.
LedgerGrows ==
    /\ entries' \in [Ids -> Line] /\ cached' \in [Ids -> Line] /\ stable' \in [Ids -> Line]
    /\ \A id \in Ids :
         /\ entries'[id].state # "malformed"
         /\ Known(id) => entries'[id].state # "none"
         /\ stable[id].state # "none" => stable'[id].state # "none"
         /\ stable'[id].state # "none" => cached'[id].state # "none"
         /\ entries'[id].state # "none" => stable'[id].state # "none"
    /\ epoch' = epoch /\ open' \in BOOLEAN /\ lost' \in BOOLEAN
    /\ faults' \in [LedgerFaults -> Nat]

\* A line about a command leaves it with an entry, or makes it malformed.
LEMMA ParsedIsLine ==
    ASSUME NEW line \in Line, NEW op, NEW outcome \in Results
    PROVE  Parsed(line, op, outcome) \in Line /\ Parsed(line, op, outcome).state # "none"
  BY DEF Parsed, Line, States, Results, Outcomes

\* The file after append() has an entry for the command and keeps the others.
LEMMA WrittenFacts ==
    ASSUME TypeOK, NEW id \in Ids, NEW op, NEW outcome \in Results
    PROVE  /\ Written(op, id, outcome) \in [Ids -> Line]
           /\ Written(op, id, outcome)[id].state # "none"
           /\ \A i \in Ids : cached[i].state # "none" => Written(op, id, outcome)[i].state # "none"
<1>1. cached[id] \in Line
  BY DEF TypeOK
<1> QED
  BY <1>1, ParsedIsLine DEF TypeOK, Written

\* A failed append changes no entry and loses no line.
LEMMA AppendFailsGrows ==
    ASSUME TypeOK, Recorded, NEW id \in Ids, NEW op, NEW outcome \in Results,
           AppendFails(op, id, outcome)
    PROVE  LedgerGrows
<1>1. faults' \in [LedgerFaults -> Nat]
  BY DEF AppendFails, Spend, TypeOK, LedgerFaults
<1>2. open' \in BOOLEAN /\ lost' \in BOOLEAN
  BY Zenon DEF AppendFails, TypeOK
<1>3. cached' \in [Ids -> Line] /\ \A i \in Ids : cached[i].state # "none" => cached'[i].state # "none"
  <2>1. CASE cached' = cached
    BY <2>1 DEF TypeOK
  <2>2. CASE cached' = Written(op, id, outcome)
    BY <2>2, WrittenFacts
  <2> QED
    BY <2>1, <2>2 DEF AppendFails
<1> QED
  BY <1>1, <1>2, <1>3 DEF AppendFails, TypeOK, Recorded, LedgerGrows, Known

\* An append that succeeds, with the entry it is made for.
LEMMA AppendsGrows ==
    ASSUME TypeOK, Recorded, NEW id \in Ids, NEW op, NEW outcome \in Results,
           NEW entry \in Line, entry.state \notin {"none", "malformed"},
           Appends(op, id, outcome), entries' = [entries EXCEPT ![id] = entry]
    PROVE  LedgerGrows /\ entries'[id] = entry
<1>1. cached' \in [Ids -> Line] /\ stable' = cached' /\ cached'[id].state # "none"
      /\ \A i \in Ids : cached[i].state # "none" => cached'[i].state # "none"
  BY WrittenFacts DEF Appends
<1>2. entries' \in [Ids -> Line] /\ entries'[id] = entry /\ \A i \in Ids : i # id => entries'[i] = entries[i]
  BY DEF TypeOK
<1>3. open' \in BOOLEAN /\ lost' \in BOOLEAN /\ epoch' = epoch /\ faults' \in [LedgerFaults -> Nat]
  BY DEF Appends, TypeOK
<1> QED
  BY <1>1, <1>2, <1>3 DEF TypeOK, Recorded, LedgerGrows, Known

\* A step that leaves the ledger alone.
LEMMA QuietGrows ==
    ASSUME TypeOK, Recorded, UNCHANGED ledgerVars
    PROVE  LedgerGrows
  BY DEF TypeOK, Recorded, LedgerGrows, Known, ledgerVars

\* mark_received() puts the command into the ledger, or changes no entry.
LEMMA MarkReceivedGrows ==
    ASSUME TypeOK, Recorded, NEW id \in Ids
    PROVE  /\ MarkReceived(id) => LedgerGrows /\ Known(id)'
           /\ MarkReceivedFails(id) => LedgerGrows
<1> DEFINE entry == [state |-> "received", outcome |-> "none"]
<1>1. entry \in Line /\ entry.state \notin {"none", "malformed"} /\ "none" \in Results
  BY DEF Line, States, Results
<1>2. ASSUME MarkReceived(id) PROVE LedgerGrows /\ Known(id)'
  BY ZenonT(30), <1>1, <1>2, AppendsGrows DEF MarkReceived, Known
<1>3. ASSUME MarkReceivedFails(id) PROVE LedgerGrows
  BY <1>1, <1>3, AppendFailsGrows, QuietGrows DEF MarkReceivedFails
<1> QED
  BY <1>2, <1>3

\* mark_done() and mark_reported() keep every command in the ledger.
LEMMA MarkGrows ==
    ASSUME TypeOK, Recorded, NEW id \in Ids, NEW outcome \in Results
    PROVE  (MarkDone(id, outcome) \/ MarkReported(id)) => LedgerGrows
<1>1. ASSUME MarkDone(id, outcome) PROVE LedgerGrows
  <2> DEFINE entry == [state |-> "done", outcome |-> outcome]
  <2>1. entry \in Line /\ entry.state \notin {"none", "malformed"}
    BY DEF Line, States
  <2> HIDE DEF entry
  <2>2. CASE Appends("D", id, outcome) /\ entries' = [entries EXCEPT ![id] = entry]
    BY ZenonT(30), <2>1, <2>2, AppendsGrows
  <2> QED
    BY <1>1, <2>2, AppendFailsGrows, QuietGrows DEF MarkDone, entry
<1>2. ASSUME MarkReported(id) PROVE LedgerGrows
  <2> DEFINE entry == [entries[id] EXCEPT !.state = "reported"]
  <2>1. entry \in Line /\ entry.state \notin {"none", "malformed"} /\ "none" \in Results
    BY SMTT(30) DEF Line, States, TypeOK, Results
  <2>2. [entries EXCEPT ![id].state = "reported"] = [entries EXCEPT ![id] = entry]
    BY DEF TypeOK
  <2> HIDE DEF entry
  <2>3. CASE Appends("S", id, "none") /\ entries' = [entries EXCEPT ![id] = entry]
    BY ZenonT(30), <2>1, <2>3, AppendsGrows
  <2> QED
    BY <1>2, <2>1, <2>2, <2>3, AppendFailsGrows, QuietGrows DEF MarkReported
<1> QED
  BY <1>1, <1>2
-----------------------------------------------------------------------------
\* The types of everything that is not the ledger.
ChannelTypes ==
    /\ pc \in Pcs /\ loop \in Loops /\ work \subseteq Ids
    /\ current \in Ids \cup {NoId} /\ result \in Results
    /\ decided \in Nat /\ now \in Nat
    /\ change_times \subseteq Nat \X Ids
    /\ manager \in [Ids -> {"open", "accepted"}]
    /\ answers \in [Ids -> SUBSET Results]
    /\ ran \in [Ids -> Nat] /\ ran_at \in [Ids -> Nat]

\* The lead is one of the two clocks' bounds.
LEMMA LeadFacts == Lead \in Nat
  BY ChannelAssumption DEF Lead

\* A step of the running process during which nothing acts on the host: what
\* ran stays barred, because the ledger grows and time does not go back.
LEMMA StepKeeps ==
    ASSUME IInv, Delivered', LedgerGrows, ChannelTypes', pc # "down", pc' # "down",
           ran' = ran, now' \in {now, now + 1}, AboutToRun'
    PROVE  IInv'
<1>1. TypeOK /\ Recorded /\ RanIsBarred
  BY DEF IInv
<1>2. now \in Nat /\ now' \in Nat /\ now <= now' /\ Lead \in Nat /\ epoch \in Nat /\ epoch' = epoch
  BY <1>1, LeadFacts DEF TypeOK, LedgerGrows
<1>3. TypeOK'
  BY <1>2 DEF TypeOK, LedgerGrows, ChannelTypes
<1>4. Recorded'
  BY DEF Recorded, LedgerGrows, Known
<1>5. RanIsBarred'
  <2> SUFFICES ASSUME NEW id \in Ids, ran[id] > 0
               PROVE  created[id] <= now' + Lead /\ BarredOnDisk(id)' /\ Barred(id)'
    BY DEF RanIsBarred
  <2>1. created[id] <= now + Lead /\ BarredOnDisk(id) /\ Barred(id)
    BY <1>1 DEF RanIsBarred
  <2>2. created[id] \in Nat /\ expires[id] \in Nat
    BY ChannelAssumption, LedgerAssumption
  <2>3. created[id] <= now' + Lead /\ (expires[id] <= now => expires[id] <= now')
    BY <1>2, <2>1, <2>2
  <2>4. BarredOnDisk(id)'
    BY <1>2, <2>1, <2>3 DEF BarredOnDisk, LedgerReset, LedgerGrows
  <2>5. Barred(id)'
    BY <1>2, <2>1, <2>3 DEF Barred, LedgerReset, Known, LedgerGrows
  <2> QED
    BY <2>3, <2>4, <2>5
<1>6. now' > 0 /\ epoch' > 0 /\ AtMostOnce'
  BY <1>2 DEF IInv, AtMostOnce
<1> QED
  BY <1>3, <1>4, <1>5, <1>6 DEF IInv
-----------------------------------------------------------------------------
\* The parts of a step that write no command into the ledger.
LEMMA LoopInv ==
    ASSUME IInv, Delivered',
           BeginStep \/ EndLoop \/ CloseInterrupted \/ RepeatResult \/ Poll \/ Redelivered
    PROVE  IInv'
<1>1. TypeOK /\ Recorded /\ "indeterminate" \in Results /\ "none" \in Results
  BY DEF IInv, Results, Outcomes
<1> USE DEF external, history, Goto
<1>2. ASSUME pc \in {"interrupted", "commands"}, NEW id \in work, Resume(id) PROVE IInv'
  <2>1. id \in Ids
    BY <1>1 DEF TypeOK
  <2>2. LedgerGrows
    BY <1>1, <1>2, <2>1, MarkGrows DEF Resume
  <2>3. ChannelTypes' /\ pc' = "submit" /\ current' = id /\ ran' = ran /\ now' = now
    BY <1>1, <1>2, <2>1 DEF Resume, Submit, TypeOK, ChannelTypes, Pcs
  <2> QED
    BY <1>2, <2>1, <2>2, <2>3, StepKeeps DEF AboutToRun
<1>3. ASSUME UNCHANGED ledgerVars, ChannelTypes', pc # "down",
             pc' \in {"interrupted", "unreported", "commands", "wait", "poll"}, ran' = ran, now' = now
      PROVE  IInv'
  BY <1>1, <1>3, QuietGrows, StepKeeps DEF AboutToRun
<1>4. CASE BeginStep
  BY <1>1, <1>3, <1>4 DEF BeginStep, TypeOK, ChannelTypes, Pcs, Loops, InState
<1>5. CASE EndLoop
  BY <1>1, <1>3, <1>5 DEF EndLoop, TypeOK, ChannelTypes, Pcs, Loops, InState
<1>6. CASE CloseInterrupted
  BY <1>2, <1>6 DEF CloseInterrupted
<1>7. CASE RepeatResult
  <2>1. PICK id \in work : Submit(id, entries[id].outcome) /\ work' = work \ {id}
    BY <1>7 DEF RepeatResult
  <2>2. id \in Ids /\ entries[id].outcome \in Results
    BY <1>1 DEF TypeOK, Line
  <2>3. ChannelTypes' /\ pc' = "submit" /\ current' = id /\ ran' = ran /\ now' = now
    BY <1>1, <1>7, <2>1, <2>2 DEF RepeatResult, Submit, TypeOK, ChannelTypes, Pcs
  <2> QED
    BY <1>1, <1>7, <2>2, <2>3, QuietGrows, StepKeeps DEF RepeatResult, AboutToRun
<1>8. CASE Poll
  <2>1. work' \subseteq Ids
    BY <1>1, <1>8 DEF Poll, Deliverable, TypeOK
  <2>2. pc' \in {"commands", "wait"} /\ pc # "down" /\ UNCHANGED <<ledgerVars, now, ran>>
    BY <1>8 DEF Poll
  <2>3. pc' \in Pcs
    BY <2>2 DEF Pcs, Loops
  <2>4. ChannelTypes'
    BY <1>1, <1>8, <2>1, <2>3 DEF Poll, TypeOK, ChannelTypes
  <2> QED
    BY <1>3, <2>2, <2>4
<1>9. CASE Redelivered
  <2>1. PICK id \in work :
          \/ entries[id].state = "received" /\ id \notin Unreadable /\ Resume(id)
          \/ /\ manager' \in {manager, [manager EXCEPT ![id] = "accepted"]}
             /\ work' = work \ {id} /\ Goto("commands")
             /\ UNCHANGED <<ledgerVars, loop, current, result, decided, change_times, now,
                            answers, history>>
          \/ /\ work' = work \ {id} /\ Goto("commands")
             /\ UNCHANGED <<ledgerVars, loop, current, result, decided, change_times, now,
                            external, history>>
    BY ZenonT(30), <1>9 DEF Redelivered
  <2>2. pc = "commands" /\ id \in Ids
    BY <1>1, <1>9 DEF Redelivered, TypeOK
  <2>3. [manager EXCEPT ![id] = "accepted"]
            \in [Ids -> {"open", "accepted"}]
    BY <1>1, <2>2 DEF TypeOK
  <2> QED
    BY SMTT(30), <1>1, <1>2, <1>3, <2>1, <2>2, <2>3 DEF TypeOK, ChannelTypes, Pcs, Loops
<1> QED
  BY <1>4, <1>5, <1>6, <1>7, <1>8, <1>9

\* Recording, reporting and noting an outcome: nothing acts on the host.
LEMMA OutcomeInv ==
    ASSUME IInv, Delivered', RecordRefusal \/ Finish \/ Report \/ Note
    PROVE  IInv'
<1>1. TypeOK /\ Recorded /\ "rejected" \in Results /\ "none" \in Results
  BY SMTT(30) DEF IInv, Results, Outcomes
<1>2. current \in Ids /\ pc # "down"
  BY DEF IInv, AboutToRun, RecordRefusal, Finish, Report, Note
<1> USE DEF external, history, Goto
<1>3. CASE RecordRefusal
  <2>1. LedgerGrows
    BY <1>1, <1>2, <1>3, MarkGrows DEF RecordRefusal
  <2>2. ChannelTypes' /\ pc' = "submit" /\ current' = current /\ ran' = ran /\ now' = now
    BY <1>1, <1>3 DEF RecordRefusal, Submit, TypeOK, ChannelTypes, Pcs
  <2> QED
    BY <1>2, <2>1, <2>2, StepKeeps DEF AboutToRun
<1>4. CASE Finish
  <2>1. LedgerGrows
    BY <1>1, <1>2, <1>4, MarkGrows DEF Finish, TypeOK
  <2>2. ChannelTypes' /\ pc' = "submit" /\ current' = current /\ ran' = ran /\ now' = now
    BY <1>1, <1>4 DEF Finish, Submit, TypeOK, ChannelTypes, Pcs
  <2> QED
    BY <1>2, <2>1, <2>2, StepKeeps DEF AboutToRun
<1>5. CASE Report
  <2>1. answers' \in [Ids -> SUBSET Results] /\ manager' \in [Ids -> {"open", "accepted"}]
    BY <1>1, <1>2, <1>5 DEF Report, TypeOK
  <2>2. ChannelTypes' /\ ran' = ran /\ now' = now
    BY <1>1, <1>5, <2>1 DEF Report, Return, TypeOK, ChannelTypes, Pcs
  <2>3. pc' \in Loops \/ (pc' = "note" /\ current' = current)
    BY <1>1, <1>5 DEF Report, Return, TypeOK
  <2>4. UNCHANGED ledgerVars
    BY <1>5 DEF Report
  <2> QED
    BY <1>1, <1>2, <2>2, <2>3, <2>4, QuietGrows, StepKeeps DEF AboutToRun, Loops
<1>6. CASE Note
  <2>1. LedgerGrows
    BY <1>1, <1>2, <1>6, MarkGrows DEF Note
  <2>2. ChannelTypes' /\ pc' \in Loops /\ ran' = ran /\ now' = now
    BY <1>1, <1>6 DEF Note, Return, TypeOK, ChannelTypes, Pcs
  <2> QED
    BY <1>2, <2>1, <2>2, StepKeeps DEF AboutToRun, Loops
<1> QED
  BY <1>3, <1>4, <1>5, <1>6

\* A command that handle() refuses, or that passes all its checks: the
\* latter has not run, because what ran is known, expired or too old.
LEMMA HandleInv ==
    ASSUME IInv, Delivered', HandleRefused \/ HandleAccepted
    PROVE  IInv'
<1>1. TypeOK /\ Recorded /\ RanIsBarred /\ now \in Nat /\ epoch \in Nat /\ epoch > 0 /\ Lead \in Nat /\ Delivered
  BY LeadFacts DEF IInv, TypeOK
<1> USE DEF external, history, Goto
<1>2. PICK id \in work :
        /\ ~Known(id)
        /\ \/ MarkReceived(id) /\ pc' \in {"refuse", "accept"} /\ current' = id /\ UNCHANGED result
           \/ MarkReceivedFails(id) /\ Submit(id, "turned_away")
        /\ work' = work \ {id}
        /\ change_times' \in {RecentChanges, change_times}
        /\ HandleAccepted => ~Refused(id)
        /\ pc' = "accept" => ~Refused(id)
  <2>1. CASE HandleRefused /\ ~HandleAccepted
    BY <2>1 DEF HandleRefused, Submit
  <2>2. CASE HandleAccepted
    BY <2>2 DEF HandleAccepted
  <2> QED
    BY <2>1, <2>2
<1>3. id \in Ids /\ pc = "commands"
  BY <1>1, <1>2 DEF TypeOK, HandleRefused, HandleAccepted
<1>4. LedgerGrows /\ (pc' = "accept" => Known(id)')
  BY <1>1, <1>2, <1>3, MarkReceivedGrows DEF Submit
<1>5. change_times' \subseteq Nat \X Ids
  BY <1>1, <1>2 DEF RecentChanges, TypeOK
<1>6. /\ pc' \in {"refuse", "accept", "submit"} /\ current' = id /\ result' \in Results
      /\ work' \subseteq Ids /\ decided' \in Nat
      /\ UNCHANGED <<loop, now, manager, answers, ran, ran_at>>
  <2>1. "turned_away" \in Results
    BY DEF Results, Outcomes
  <2> QED
    BY <1>1, <1>2, <2>1 DEF TypeOK, HandleRefused, HandleAccepted, Submit
<1>7. ChannelTypes'
  BY <1>1, <1>3, <1>5, <1>6 DEF TypeOK, ChannelTypes, Pcs
<1>8. ASSUME pc' = "accept" PROVE ran[id] = 0 /\ created[id] <= now + Lead
  <2>1. created[id] \in Nat /\ expires[id] \in Nat /\ ran[id] \in Nat
    BY <1>1, <1>3, ChannelAssumption, LedgerAssumption DEF TypeOK
  <2>2. ~OutOfTime(id) /\ ~LedgerReset(id)
    BY <1>2, <1>8 DEF Refused
  <2>3. created[id] <= now + ManagerAhead
    BY <1>1, <1>2, <1>3 DEF Delivered
  <2>4. ~(created[id] > now + ClockSkew) /\ ~(expires[id] <= now)
    BY <2>2 DEF OutOfTime
  <2>5. created[id] <= now + Lead
    BY <1>1, <2>1, <2>3, <2>4, ChannelAssumption DEF Lead
  <2>6. ~Barred(id)
    BY <1>2, <2>2, <2>4 DEF Barred
  <2>7. ~(ran[id] > 0)
    <3>1. RanIsBarred /\ pc # "down"
      BY <1>1, <1>3
    <3> QED
      BY <1>3, <2>6, <3>1 DEF RanIsBarred
  <2> QED
    BY <2>1, <2>5, <2>7
<1>9. AboutToRun'
  BY <1>3, <1>4, <1>6, <1>8 DEF AboutToRun
<1> QED
  BY <1>3, <1>4, <1>6, <1>7, <1>9, StepKeeps

\* The acceptance, and the end of a collection that got none.
LEMMA AcceptInv ==
    ASSUME IInv, Delivered', Accept
    PROVE  IInv'
<1>1. TypeOK /\ Recorded /\ AboutToRun /\ pc = "accept" /\ "rejected" \in Results
  BY DEF IInv, Accept, Results, Outcomes
<1>2. current \in Ids
  BY <1>1 DEF AboutToRun
<1> USE DEF external, history, Goto
<1>3. Accepted \in [Ids -> {"open", "accepted"}]
  BY <1>1, <1>2 DEF Accepted, TypeOK
<1>4. \/ UNCHANGED <<ledgerVars, result>> /\ pc' = "execute"
      \/ MarkDone(current, "rejected") /\ pc' = "submit" /\ result' = "rejected"
  BY DEF Accept, Submit
<1>5. LedgerGrows
  BY <1>1, <1>2, <1>4, MarkGrows, QuietGrows
<1>6. /\ current' = current /\ manager' \in {manager, Accepted}
      /\ UNCHANGED <<loop, work, decided, change_times, now, answers, ran, ran_at>>
  BY DEF Accept, Submit
<1>7. ChannelTypes'
  BY SMTT(30), <1>1, <1>3, <1>4, <1>6 DEF TypeOK, ChannelTypes, Pcs
<1>8. AboutToRun'
  BY <1>1, <1>2, <1>4, <1>5, <1>6 DEF AboutToRun, LedgerGrows, Known
<1> QED
  BY <1>1, <1>4, <1>5, <1>6, <1>7, <1>8, StepKeeps

\* The executor acts on a command that is recorded and has not run.
LEMMA ExecuteInv ==
    ASSUME IInv, Delivered', Execute
    PROVE  IInv'
<1>1. TypeOK /\ Recorded /\ RanIsBarred /\ AboutToRun /\ AtMostOnce /\ pc = "execute"
  BY DEF IInv, Execute
<1>2. current \in Ids /\ ran[current] = 0 /\ Known(current) /\ created[current] <= now + Lead
  BY <1>1 DEF AboutToRun
<1> USE DEF external, history, Goto
<1>3. /\ pc' = "finish" /\ result' \in Results
      /\ UNCHANGED <<ledgerVars, loop, work, current, decided, now, manager, answers>>
  BY DEF Execute, Results, Outcomes
<1>4. change_times' \subseteq Nat \X Ids
  BY <1>1, <1>2 DEF Execute, TypeOK
<1>5. /\ ran' \in [Ids -> Nat] /\ ran_at' \in [Ids -> Nat]
      /\ ran'[current] <= 1
      /\ \A id \in Ids : id # current => ran'[id] = ran[id]
  BY <1>1, <1>2 DEF Execute, TypeOK
<1>6. TypeOK'
  <2>1. UNCHANGED <<entries, epoch, open, cached, stable, lost, faults>>
    BY <1>3 DEF ledgerVars
  <2>2. ChannelTypes'
    BY SMTT(30), <1>1, <1>3, <1>4, <1>5 DEF TypeOK, ChannelTypes, Pcs
  <2> QED
    BY <1>1, <2>1, <2>2 DEF TypeOK, ChannelTypes
<1>7. Recorded'
  BY <1>1, <1>3 DEF Recorded, Known, ledgerVars
<1>8. RanIsBarred'
  <2> SUFFICES ASSUME NEW id \in Ids, ran'[id] > 0
               PROVE  created[id] <= now + Lead /\ BarredOnDisk(id)' /\ Barred(id)'
    BY <1>3 DEF RanIsBarred
  <2>1. created[id] <= now + Lead /\ BarredOnDisk(id) /\ Barred(id)
    BY <1>1, <1>2, <1>5 DEF RanIsBarred, Recorded, Barred, BarredOnDisk
  <2> QED
    BY <1>3, <2>1 DEF Barred, BarredOnDisk, LedgerReset, Known, ledgerVars
<1>9. AtMostOnce'
  BY SMTT(30), <1>1, <1>5 DEF AtMostOnce
<1>10. AboutToRun' /\ pc' # "down" /\ now' > 0 /\ epoch' > 0
  BY <1>2, <1>3 DEF AboutToRun, IInv, ledgerVars
<1> QED
  BY <1>6, <1>7, <1>8, <1>9, <1>10 DEF IInv
=============================================================================
