--------------------------- MODULE CommandChannel ---------------------------
(***************************************************************************)
(* The command channel (sensor/command_channel.cpp): one thread that, in   *)
(* each step, answers what a previous process left begun, repeats results  *)
(* the Manager has not acknowledged, polls for commands and handles them.  *)
(* The step is cut at every ledger append and network call, because the    *)
(* process can die between any two of them.                                *)
(***************************************************************************)
EXTENDS CommandLedger

CONSTANTS
    created,            \* Ids -> created_unix, by the Manager's clock; 0: not given
    Refusable,          \* refused for what they are: identity, signature, boot, policy
    Unreadable,         \* not even a command, but addressable
    Changing,           \* command_action_changes_host
    Collection,         \* collections: run only with the Manager's acceptance
    Enforce,            \* policy.mode = enforce; otherwise a dry run
    ClockSkew, MaximumLifetime, MaximumChanges,
    RateWindow,         \* the rolling minute
    ManagerAhead,       \* external: the Manager's clock is at most this far ahead
    PollsAccepted,      \* external: the Manager may send an accepted command again
    RestartDelay,       \* external: how long a restart takes
    NoId,               \* no command
    SlowCalls,          \* time passes inside a step, not only between steps
    MaxTime             \* bound: the last second of a behaviour

ASSUME ChannelAssumption ==
    /\ created \in [Ids -> Nat] /\ NoId \notin Ids
    /\ Refusable \subseteq Ids /\ Unreadable \subseteq Ids
    /\ Changing \subseteq Ids /\ Collection \subseteq Ids
    /\ Enforce \in BOOLEAN /\ PollsAccepted \in BOOLEAN /\ SlowCalls \in BOOLEAN
    /\ ClockSkew \in Nat /\ MaximumLifetime \in Nat /\ MaximumChanges \in Nat
    /\ RateWindow \in Nat /\ ManagerAhead \in Nat /\ RestartDelay \in Nat
    /\ MaxTime \in Nat

VARIABLES
    pc,         \* where the thread is
    loop,       \* which loop of step() a report returns to
    work,       \* what is left of that loop
    current,    \* the command being handled or reported
    result,     \* the outcome about to be reported
    decided,    \* handle()'s `current`: the time its checks used
    change_times,  \* change_times_, as pairs of time and id
    now,
    manager,    \* external: the Manager's state of each command
    answers,    \* external: the outcomes the Manager has been given
    ran,        \* how often the executor acted
    ran_at      \* history: when it last did

channelVars == <<loop, work, current, result, decided, change_times>>
external == <<manager, answers>>
history == <<ran, ran_at>>
vars == <<ledgerVars, pc, channelVars, now, external, history>>

Loops == {"interrupted", "unreported", "commands"}
Pcs == Loops \cup {"wait", "poll", "refuse", "accept", "execute", "finish",
                   "submit", "note", "down"}

\* The state's types.  In particular no parsed entry in memory is malformed:
\* open() never loads such a file.
TypeOK ==
    /\ entries \in [Ids -> Line] /\ cached \in [Ids -> Line] /\ stable \in [Ids -> Line]
    /\ \A id \in Ids : entries[id].state # "malformed"
    /\ epoch \in Nat /\ open \in BOOLEAN /\ lost \in BOOLEAN
    /\ faults \in [LedgerFaults -> Nat]
    /\ pc \in Pcs /\ loop \in Loops /\ work \subseteq Ids
    /\ current \in Ids \cup {NoId} /\ result \in Results
    /\ decided \in Nat /\ now \in Nat
    /\ change_times \subseteq Nat \X Ids
    /\ manager \in [Ids -> {"open", "accepted"}]
    /\ answers \in [Ids -> SUBSET Results]
    /\ ran \in [Ids -> Nat] /\ ran_at \in [Ids -> Nat]
-----------------------------------------------------------------------------
\* command_processor::handle: the checks before the ledger, in their order.
OutOfTime(id) ==
    \/ expires[id] <= now
    \/ created[id] > now + ClockSkew
    \/ expires[id] - now > MaximumLifetime + ClockSkew
    \/ created[id] > 0 /\ expires[id] - created[id] > MaximumLifetime + ClockSkew
LedgerReset(id) == created[id] > 0 /\ epoch > 0 /\ created[id] < epoch
RecentChanges == {c \in change_times : c[1] > now - RateWindow}
Changes(id) == id \in Changing /\ Enforce

\* Mutant: one change too many.
RateLimitedLate(id) == Changes(id) /\ Cardinality(RecentChanges) > MaximumChanges
RateLimited(id) == Changes(id) /\ Cardinality(RecentChanges) >= MaximumChanges
Refused(id) ==
    id \in Refusable \/ OutOfTime(id) \/ LedgerReset(id) \/ RateLimited(id)

Goto(place) == pc' = place
Submit(id, outcome) ==
    pc' = "submit" /\ current' = id /\ result' = outcome

\* report() returns; the locals of the handling go out of scope.
Return ==
    pc' = loop /\ current' = NoId /\ result' = "none" /\ decided' = 0

\* Mutant: entries still marked as begun are left alone.
BeginStepForgets ==
    /\ pc = "wait"
    /\ Goto("interrupted") /\ loop' = "interrupted" /\ work' = {}
    /\ UNCHANGED <<ledgerVars, current, result, decided, change_times, now, external, history>>

\* step(): what the last process left begun, then the unacknowledged results.
BeginStep ==
    /\ pc = "wait"
    /\ Goto("interrupted") /\ loop' = "interrupted" /\ work' = InState("received")
    /\ UNCHANGED <<ledgerVars, current, result, decided, change_times, now, external, history>>

EndLoop ==
    /\ pc \in Loops /\ work = {}
    /\ \/ /\ pc = "interrupted" /\ Goto("unreported")
          /\ loop' = "unreported" /\ work' = InState("done")
       \/ pc = "unreported" /\ Goto("poll") /\ loop' = "commands" /\ UNCHANGED work
       \/ pc = "commands" /\ Goto("wait") /\ UNCHANGED <<loop, work>>
    /\ UNCHANGED <<ledgerVars, current, result, decided, change_times, now, external, history>>

\* Mutant: an interrupted command is taken not to have run.
ResumeRejects(id) ==
    /\ MarkDone(id, "rejected")
    /\ Submit(id, "rejected")
    /\ work' = work \ {id}
    /\ UNCHANGED <<loop, decided, change_times, now, external, history>>

\* command_processor::resume on an entry still marked as begun.
Resume(id) ==
    /\ MarkDone(id, "indeterminate")
    /\ Submit(id, "indeterminate")
    /\ work' = work \ {id}
    /\ UNCHANGED <<loop, decided, change_times, now, external, history>>

CloseInterrupted ==
    pc = "interrupted" /\ \E id \in work : Resume(id)

RepeatResult ==
    /\ pc = "unreported"
    /\ \E id \in work :
         /\ Submit(id, entries[id].outcome)
         /\ work' = work \ {id}
    /\ UNCHANGED <<ledgerVars, loop, decided, change_times, now, external, history>>

\* The Manager sends again what it has not had accepted, answered or not; what
\* it may repeat beyond that is its affair.
Deliverable ==
    {id \in Ids : /\ created[id] <= now + ManagerAhead
                  /\ manager[id] = "open" \/ PollsAccepted}

Poll ==
    /\ pc = "poll"
    /\ \/ /\ \E sent \in SUBSET Deliverable : work' = sent
          /\ Goto("commands")
       \/ Goto("wait") /\ UNCHANGED work
    /\ UNCHANGED <<ledgerVars, loop, current, result, decided, change_times, now, external, history>>
-----------------------------------------------------------------------------
\* One command of the reply that the ledger knows: answered, closed again,
\* or left to the retry of the next step.
Redelivered ==
    /\ pc = "commands"
    /\ \E id \in work :
         \/ entries[id].state = "received" /\ id \notin Unreadable /\ Resume(id)
         \/ /\ entries[id].state = "reported" /\ id \notin Unreadable
            /\ manager' \in {manager, [manager EXCEPT ![id] = "accepted"]}
            /\ work' = work \ {id} /\ Goto("commands")
            /\ UNCHANGED <<ledgerVars, loop, current, result, decided, change_times, now,
                           answers, history>>
         \/ /\ entries[id].state = "done" \/ (Known(id) /\ id \in Unreadable)
            /\ work' = work \ {id} /\ Goto("commands")
            /\ UNCHANGED <<ledgerVars, loop, current, result, decided, change_times, now,
                           external, history>>

\* refuse(), unreadable(): the refusal is recorded if the ledger takes it; if
\* not, it is answered all the same and decided anew when the command returns.
HandleRefused ==
    /\ pc = "commands"
    /\ \E id \in work :
         /\ ~Known(id) /\ (Refused(id) \/ id \in Unreadable)
         /\ \/ MarkReceived(id) /\ Goto("refuse") /\ current' = id /\ UNCHANGED result
            \/ MarkReceivedFails(id) /\ Submit(id, "turned_away")
         /\ work' = work \ {id}
         /\ change_times' = IF Changes(id) /\ id \notin Unreadable \cup Refusable
                               /\ ~OutOfTime(id) /\ ~LedgerReset(id)
                            THEN RecentChanges ELSE change_times
    /\ UNCHANGED <<loop, decided, now, external, history>>

RecordRefusal ==
    /\ pc = "refuse"
    /\ MarkDone(current, "rejected") /\ Submit(current, "rejected")
    /\ UNCHANGED <<loop, work, decided, change_times, now, external, history>>

\* handle(): every check passed; the intent is on disk before the action, or
\* the answer is rejected/ledger_unavailable.
HandleAccepted ==
    /\ pc = "commands"
    /\ \E id \in work :
         /\ ~Known(id) /\ ~Refused(id) /\ id \notin Unreadable
         /\ \/ MarkReceived(id) /\ Goto("accept") /\ current' = id /\ UNCHANGED result
            \/ MarkReceivedFails(id) /\ Submit(id, "turned_away")
         /\ work' = work \ {id}
         /\ change_times' = IF Changes(id) THEN RecentChanges ELSE change_times
    /\ decided' = now
    /\ UNCHANGED <<loop, now, external, history>>

\* transport->accept: the Manager may hear of it or not.  A collection goes
\* on only if its answer came back.
Accepted == [manager EXCEPT ![current] = "accepted"]
Accept ==
    /\ pc = "accept"
    /\ \/ /\ current \notin Collection /\ manager' \in {manager, Accepted}
          /\ Goto("execute") /\ UNCHANGED <<ledgerVars, current, result>>
       \/ /\ current \in Collection /\ manager' = Accepted
          /\ Goto("execute") /\ UNCHANGED <<ledgerVars, current, result>>
       \/ /\ current \in Collection /\ manager' \in {manager, Accepted}
          /\ MarkDone(current, "rejected") /\ Submit(current, "rejected")
    /\ UNCHANGED <<loop, work, decided, change_times, now, answers, history>>

\* executor_.execute: it acts, or finds the target not to be what the
\* command names and answers "rejected"; a dry run only ever does that.
Execute ==
    /\ pc = "execute"
    /\ change_times' = IF Changes(current)
                       THEN change_times \cup {<<decided, current>>} ELSE change_times
    /\ \/ /\ result' \in Outcomes \ {"rejected"}
          /\ current \in Changing => Enforce
          /\ ran' = [ran EXCEPT ![current] = @ + 1]
          /\ ran_at' = [ran_at EXCEPT ![current] = now]
       \/ result' = "rejected" /\ UNCHANGED history
    /\ Goto("finish")
    /\ UNCHANGED <<ledgerVars, loop, work, current, decided, now, external>>

\* Mutant: the outcome is reported without being recorded.
FinishUnrecorded ==
    /\ pc = "finish"
    /\ Submit(current, result)
    /\ UNCHANGED <<ledgerVars, loop, work, decided, change_times, now, external, history>>

Finish ==
    /\ pc = "finish"
    /\ MarkDone(current, result) /\ Submit(current, result)
    /\ UNCHANGED <<loop, work, decided, change_times, now, external, history>>

\* report(): the answer is taken, refused for good, or lost on the way.  A
\* result does not stop the Manager from sending the command: accept() does.
Report ==
    /\ pc = "submit"
    /\ answers' \in {answers, [answers EXCEPT ![current] = @ \cup {result}]}
    /\ \/ Goto("note") /\ UNCHANGED <<current, result, decided>>
       \/ Return
    /\ UNCHANGED <<ledgerVars, loop, work, change_times, now, manager, history>>

Note ==
    /\ pc = "note"
    /\ MarkReported(current) /\ Return
    /\ UNCHANGED <<loop, work, change_times, now, external, history>>
-----------------------------------------------------------------------------
Tick ==
    /\ now < MaxTime /\ (pc = "wait" \/ SlowCalls)
    /\ now' = now + 1
    /\ UNCHANGED <<ledgerVars, pc, channelVars, external, history>>

Crash ==
    /\ pc # "down" /\ Spend("crash")
    /\ LedgerDies
    /\ Goto("down") /\ loop' = "commands" /\ work' = {} /\ change_times' = {}
    /\ current' = NoId /\ result' = "none" /\ decided' = 0
    /\ UNCHANGED <<now, external, history>>

Restart ==
    /\ pc = "down" /\ now + RestartDelay <= MaxTime
    /\ now' = now + RestartDelay
    /\ OpenLedger(now')
    /\ Goto("wait")
    /\ UNCHANGED <<channelVars, external, history>>

Lose ==
    /\ LoseLedger
    /\ UNCHANGED <<pc, channelVars, now, external, history>>

Init ==
    /\ now = 1 /\ LedgerInit(1)
    /\ pc = "wait" /\ loop = "commands" /\ work = {} /\ current = NoId
    /\ result = "none" /\ decided = 0 /\ change_times = {}
    /\ manager = [id \in Ids |-> "open"] /\ answers = [id \in Ids |-> {}]
    /\ ran = [id \in Ids |-> 0] /\ ran_at = [id \in Ids |-> 0]

Thread ==
    \/ BeginStep \/ EndLoop \/ CloseInterrupted \/ RepeatResult \/ Poll
    \/ Redelivered \/ HandleRefused \/ RecordRefusal \/ HandleAccepted
    \/ Accept \/ Execute \/ Finish \/ Report \/ Note

Next == Thread \/ Tick \/ Crash \/ Restart \/ Lose

Spec == Init /\ [][Next]_vars
-----------------------------------------------------------------------------
\* No command acts on the host twice, whatever is redelivered and wherever
\* the process dies (command_channel.hpp: the id is recorded before the
\* action starts, and a new ledger refuses what is older than itself).
AtMostOnce == \A id \in Ids : ran[id] <= 1

\* The ledger keeps a reported command until a day after it expired; that
\* long its answer is known.
Kept(id) == now <= expires[id] + KeepAfterExpiry

\* The Manager is never given two different answers for one command, the ones
\* of which no record could be made aside: a repeated result is the stored one
\* (handle(), resume(), the retry in step()), although a command that was turned
\* away for want of room is handled again, and perhaps run, when room returns.
OneAnswer == \A id \in Ids : Kept(id) => Cardinality(answers[id] \ {"turned_away"}) <= 1

\* An answer is true across crashes between action, record and report: what was
\* answered "rejected" never acts, whoever is refused or turned away has not
\* acted so far, and what was answered "succeeded" has.
AnswersTrue ==
    \A id \in Ids : Kept(id) =>
        /\ "rejected" \in answers[id] => ran[id] = 0
        /\ pc = "submit" /\ current = id /\ result \in {"rejected", "turned_away"}
             => ran[id] = 0
        /\ "succeeded" \in answers[id] => ran[id] > 0

\* No more changing actions than the policy allows in any rolling window, until
\* the process first dies and change_times_ with it.
RateBounded ==
    faults.crash = MaxLedgerFaults.crash => \A t \in 1 .. now :
        Cardinality({id \in Changing : ran[id] > 0 /\ ran_at[id] \in t .. t + RateWindow - 1})
            <= MaximumChanges

\* The thread keeps stepping, the supervisor restarts the process, and no
\* command's result is lost or refused on every try.
Fairness ==
    /\ WF_vars(Thread) /\ WF_vars(Restart)
    /\ \A id \in Ids :
         SF_vars(Report /\ current = id /\ result \in answers'[id] /\ pc' = "note")
FairSpec == Spec /\ Fairness

\* A command the Manager was told is accepted gets its answer, one that is on
\* record, or the Manager has refused to take it (step(): entries still marked as
\* begun are answered first, because the Manager never sends them again).
AcceptedCloses ==
    \A id \in Ids :
        (manager[id] = "accepted") ~>
            (answers[id] \ {"turned_away"} # {} \/ cached[id].state = "reported")
-----------------------------------------------------------------------------
(* The inductive invariant behind AtMostOnce.                              *)

\* How far ahead of this clock the creation time of a command that runs can
\* be: handle() allows ClockSkew, the Manager's clock gives no more than its lead.
Lead == IF ClockSkew <= ManagerAhead THEN ClockSkew ELSE ManagerAhead

\* The commands of a reply were issued by the Manager's clock.
Delivered ==
    /\ pc \in {"poll", "commands"} => loop = "commands"
    /\ loop = "commands" => \A id \in work : created[id] <= now + ManagerAhead

\* A command that must not run (again) is known, expired, or older than the
\* ledger: each of the three makes handle() refuse it.
Barred(id) == Known(id) \/ expires[id] <= now \/ LedgerReset(id)

\* The same for what a crash leaves behind.
BarredOnDisk(id) ==
    stable[id].state # "none" \/ expires[id] <= now \/ LedgerReset(id)

\* What is in memory is on disk, and no line leaves the file.
Recorded ==
    \A id \in Ids :
        /\ stable[id].state # "none" => cached[id].state # "none"
        /\ Known(id) => stable[id].state # "none"

\* What ran was issued before now, and cannot run again.
RanIsBarred ==
    \A id \in Ids : ran[id] > 0 =>
        /\ created[id] <= now + Lead
        /\ BarredOnDisk(id)
        /\ pc # "down" => Barred(id)

\* What is about to run is recorded and has not run.
AboutToRun ==
    /\ pc \in {"refuse", "accept", "execute", "finish", "submit", "note"} => current \in Ids
    /\ pc \in {"accept", "execute"} =>
         ran[current] = 0 /\ Known(current) /\ created[current] <= now + Lead

\* All of it: preserved by every step of the thread, the clock and the faults.
IInv ==
    /\ TypeOK /\ Delivered /\ Recorded /\ RanIsBarred /\ AboutToRun /\ AtMostOnce
    /\ now > 0 /\ epoch > 0
    /\ pc = "down" => \A id \in Ids : ~Known(id)
=============================================================================
