--------------------------- MODULE CommandLedger ---------------------------
(***************************************************************************)
(* The durable record of every command this endpoint has acted on          *)
(* (sensor/command_channel.cpp, class command_ledger): an append-only file *)
(* of R, D and S lines, an in-memory copy, an epoch, and what happens to   *)
(* them when an append fails, the process dies or the file is lost.        *)
(*                                                                         *)
(* The lines about different commands do not interact, so the file is kept *)
(* as what open() makes of the lines of each command so far.               *)
(***************************************************************************)
EXTENDS Integers, FiniteSets

CONSTANTS
    Ids,               \* command ids
    expires,           \* Ids -> expires_unix
    KeepAfterExpiry,   \* keep_after_expiry
    MaximumEntries,
    MaxLedgerFaults    \* bound: faults of each kind in one behaviour

LedgerFaults == {"crash", "write", "sync", "lose"}
Outcomes == {"succeeded", "failed", "rejected", "indeterminate"}
\* "turned_away" is "rejected" of which the ledger took no record.
Results == Outcomes \cup {"turned_away", "none"}
States == {"none", "received", "done", "reported", "malformed"}
Line == [state : States, outcome : Results]

ASSUME LedgerAssumption ==
    /\ expires \in [Ids -> Nat]
    /\ KeepAfterExpiry \in Nat /\ MaximumEntries \in Nat
    /\ MaxLedgerFaults \in [LedgerFaults -> Nat]

VARIABLES
    entries,   \* entries_, by id; state "none": not in the map
    epoch,     \* epoch_unix_, and the file's E line
    open,      \* fd_ >= 0
    cached,    \* the file as the kernel holds it
    stable,    \* the file as the last fdatasync left it
    lost,      \* the file was removed or altered from outside
    faults     \* faults left, by kind

ledgerVars == <<entries, epoch, open, cached, stable, lost, faults>>

Nothing == [state |-> "none", outcome |-> "none"]
InState(state) == {id \in Ids : entries[id].state = state}
Known(id) == entries[id].state # "none"

Spend(fault) ==
    /\ faults[fault] > 0
    /\ faults' = [faults EXCEPT ![fault] = @ - 1]

\* What open() makes of one more line about a command.
Parsed(line, op, outcome) ==
    CASE line.state = "malformed" -> line
      [] op = "R" /\ line.state # "malformed" -> [state |-> "received", outcome |-> "none"]
      [] op = "D" /\ line.state \notin {"none", "malformed"} ->
             [state |-> "done", outcome |-> outcome]
      [] op = "S" /\ line.state = "done" -> [line EXCEPT !.state = "reported"]
      [] OTHER -> [line EXCEPT !.state = "malformed"]
-----------------------------------------------------------------------------
Written(op, id, outcome) == [cached EXCEPT ![id] = Parsed(@, op, outcome)]

\* append(): the line is written and synced.
Appends(op, id, outcome) ==
    /\ open
    /\ cached' = Written(op, id, outcome)
    /\ stable' = cached'
    /\ UNCHANGED <<epoch, open, lost, faults>>

\* append() returns an error: the ledger is closed; or the write failed and
\* the record was cut back, or could not be and the ledger closes; or the
\* line is written but fdatasync failed.
AppendFails(op, id, outcome) ==
    /\ \/ ~open /\ UNCHANGED <<open, cached, faults>>
       \/ open /\ Spend("write") /\ open' \in BOOLEAN /\ UNCHANGED cached
       \/ open /\ Spend("sync") /\ cached' = Written(op, id, outcome) /\ UNCHANGED open
    /\ UNCHANGED <<entries, epoch, stable, lost>>

\* Mutant: the intent is kept in memory only.
MarkReceivedInMemory(id) ==
    /\ entries' = [entries EXCEPT ![id] = [state |-> "received", outcome |-> "none"]]
    /\ UNCHANGED <<epoch, open, cached, stable, lost, faults>>

\* mark_received() for an id that is not in the map.
MarkReceived(id) ==
    /\ Cardinality({i \in Ids : Known(i)}) < MaximumEntries
    /\ Appends("R", id, "none")
    /\ entries' = [entries EXCEPT ![id] = [state |-> "received", outcome |-> "none"]]

MarkReceivedFails(id) ==
    \/ /\ Cardinality({i \in Ids : Known(i)}) >= MaximumEntries
       /\ UNCHANGED ledgerVars
    \/ /\ Cardinality({i \in Ids : Known(i)}) < MaximumEntries
       /\ AppendFails("R", id, "none")

\* mark_done(), whose result every caller ignores.
MarkDone(id, outcome) ==
    \/ /\ entries[id].state # "received"
       /\ UNCHANGED ledgerVars
    \/ /\ entries[id].state = "received"
       /\ \/ /\ Appends("D", id, outcome)
             /\ entries' = [entries EXCEPT ![id] = [state |-> "done", outcome |-> outcome]]
          \/ AppendFails("D", id, outcome)

\* mark_reported(), likewise.
MarkReported(id) ==
    \/ /\ entries[id].state # "done"
       /\ UNCHANGED ledgerVars
    \/ /\ entries[id].state = "done"
       /\ \/ /\ Appends("S", id, "none")
             /\ entries' = [entries EXCEPT ![id].state = "reported"]
          \/ AppendFails("S", id, "none")
-----------------------------------------------------------------------------
\* The process dies.  Of the lines no fdatasync covered, some are on disk.
LedgerDies ==
    /\ \E kept \in SUBSET Ids :
         cached' = [id \in Ids |-> IF id \in kept THEN cached[id] ELSE stable[id]]
    /\ stable' = cached'
    /\ entries' = [id \in Ids |-> Nothing]
    /\ open' = FALSE
    /\ UNCHANGED <<epoch, lost>>

LoseLedger ==
    /\ ~lost /\ Spend("lose")
    /\ lost' = TRUE
    /\ UNCHANGED <<entries, epoch, open, cached, stable>>

\* open_or_recover(): a file that does not parse is set aside and a new one
\* begins; one that is gone begins anew too.  Old reported entries go.
Untrusted == lost \/ \E id \in Ids : cached[id].state = "malformed"
Expired(id, time) ==
    cached[id].state = "reported" /\ expires[id] + KeepAfterExpiry < time

OpenLedger(time) ==
    /\ entries' = [id \in Ids |-> IF Untrusted \/ Expired(id, time) THEN Nothing ELSE cached[id]]
    /\ cached' = entries' /\ stable' = entries'
    /\ epoch' = IF Untrusted THEN time ELSE epoch
    /\ open' = TRUE /\ lost' = FALSE
    /\ UNCHANGED faults

\* The first start, at the given time: a new file with that epoch.
LedgerInit(time) ==
    /\ entries = [id \in Ids |-> Nothing]
    /\ cached = entries /\ stable = entries
    /\ epoch = time /\ open = TRUE /\ lost = FALSE
    /\ faults = MaxLedgerFaults
=============================================================================
