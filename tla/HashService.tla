---------------------------- MODULE HashService ----------------------------
(***************************************************************************)
(* File hashing off the event path (sensor/hash_service.cpp): the pipeline *)
(* thread submits a subject with an open descriptor and gets an answer at  *)
(* once or "pending"; one worker thread hashes what is queued and answers  *)
(* every subject that waits for the same content; the pipeline drains the  *)
(* answers.  The destructor stops the worker in the middle of anything.    *)
(***************************************************************************)
EXTENDS Integers, Sequences, FiniteSets, SequencesExt

CONSTANTS
    Subjects,        \* hash_subjects; each is submitted once
    KeyOf,           \* subject -> hash_key: the content it asks for
    HashCapacity,   \* hash_options::queue_capacity
    CacheEntries,    \* hash_options::cache_entries
    MaximumWaiters   \* hash_options::maximum_waiters

NoSubject == "none"

ASSUME HashAssumption ==
    /\ IsFiniteSet(Subjects) /\ NoSubject \notin Subjects /\ Subjects \subseteq DOMAIN KeyOf
    /\ HashCapacity \in Nat \ {0} /\ CacheEntries \in Nat /\ MaximumWaiters \in Nat \ {0}

VARIABLES
    hash_queue,  \* queue_: subjects whose descriptor the service holds
    hashing,     \* the worker's current request
    waiters,     \* in_flight_: key -> the subjects that wait for it
    cache,       \* cache_order_: the keys whose hash is cached, oldest first
    finished,    \* finished_: answers not yet drained
    stopping,    \* stopping_
    reaped,      \* the destructor has joined the worker and closed the queue
    \* History.
    reply,       \* subject -> what submit() returned: "none", "pending", "final"
    results,     \* subject -> results drained for it
    opened,      \* subjects submitted with an open descriptor
    closes       \* subject -> times its descriptor was closed

hashVars == <<hash_queue, hashing, waiters, cache, finished, stopping, reaped, reply,
              results, opened, closes>>

Contents == {KeyOf[s] : s \in Subjects}
Closed(s, fd) == closes' = IF fd THEN [closes EXCEPT ![s] = @ + 1] ELSE closes
Replies(s, answer) == reply' = [reply EXCEPT ![s] = answer]
Submits(s, fd) ==
    /\ reply[s] = "none" /\ ~reaped
    /\ opened' = IF fd THEN opened \cup {s} ELSE opened
-----------------------------------------------------------------------------
(* submit(), one action per way out; `fd` says whether the image opened.   *)

Waiting(s) == waiters[KeyOf[s]] # {}
Cached(s) == Contains(cache, KeyOf[s])

\* A cached hash, or a refusal: stopping, too many waiters, unreadable, full.
\* The descriptor is closed on every path that does not queue it.
SubmitFinal(s, fd) ==
    /\ Submits(s, fd)
    /\ \/ stopping \/ Cached(s)
       \/ Waiting(s) /\ Cardinality(waiters[KeyOf[s]]) >= MaximumWaiters
       \/ ~Waiting(s) /\ (~fd \/ Len(hash_queue) >= HashCapacity)
    /\ Replies(s, "final") /\ Closed(s, fd)
    /\ UNCHANGED <<hash_queue, hashing, waiters, cache, finished, stopping, reaped, results>>

\* Mutant: the descriptor of a subject that joins a request stays open.
SubmitJoinsLeaking(s, fd) ==
    /\ Submits(s, fd) /\ ~stopping /\ ~Cached(s) /\ Waiting(s)
    /\ Cardinality(waiters[KeyOf[s]]) < MaximumWaiters
    /\ waiters' = [waiters EXCEPT ![KeyOf[s]] = @ \cup {s}]
    /\ Replies(s, "pending")
    /\ UNCHANGED <<hash_queue, hashing, cache, finished, stopping, reaped, results, closes>>

\* The request already under way covers this subject.
SubmitJoins(s, fd) ==
    /\ Submits(s, fd) /\ ~stopping /\ ~Cached(s) /\ Waiting(s)
    /\ Cardinality(waiters[KeyOf[s]]) < MaximumWaiters
    /\ waiters' = [waiters EXCEPT ![KeyOf[s]] = @ \cup {s}]
    /\ Replies(s, "pending") /\ Closed(s, fd)
    /\ UNCHANGED <<hash_queue, hashing, cache, finished, stopping, reaped, results>>

SubmitQueues(s) ==
    /\ Submits(s, TRUE) /\ ~stopping /\ ~Cached(s) /\ ~Waiting(s)
    /\ Len(hash_queue) < HashCapacity
    /\ waiters' = [waiters EXCEPT ![KeyOf[s]] = {s}]
    /\ hash_queue' = Append(hash_queue, s)
    /\ Replies(s, "pending")
    /\ UNCHANGED <<hashing, cache, finished, stopping, reaped, results, closes>>

Drain ==
    /\ finished # {}
    /\ results' = [s \in Subjects |-> results[s] + (IF s \in finished THEN 1 ELSE 0)]
    /\ finished' = {}
    /\ UNCHANGED <<hash_queue, hashing, waiters, cache, stopping, reaped, reply, opened, closes>>
-----------------------------------------------------------------------------
(* run(): the worker.                                                      *)

Take ==
    /\ hashing = NoSubject /\ hash_queue # <<>> /\ ~stopping
    /\ hashing' = Head(hash_queue) /\ hash_queue' = Tail(hash_queue)
    /\ UNCHANGED <<waiters, cache, finished, stopping, reaped, reply, results, opened, closes>>

\* remember(): the oldest entry makes room.
Remembered(key) ==
    LET order == IF Contains(cache, key) THEN cache ELSE Append(cache, key)
    IN  SubSeq(order, 1 + (IF Len(order) > CacheEntries THEN Len(order) - CacheEntries ELSE 0),
               Len(order))

\* Mutant: only the subject that was queued is answered.
FinishOne(known) ==
    /\ hashing # NoSubject /\ hashing' = NoSubject
    /\ Closed(hashing, TRUE)
    /\ cache' = IF known THEN Remembered(KeyOf[hashing]) ELSE cache
    /\ finished' = finished \cup {hashing}
    /\ waiters' = [waiters EXCEPT ![KeyOf[hashing]] = {}]
    /\ UNCHANGED <<hash_queue, stopping, reaped, reply, results, opened>>

\* The hash is done: everyone who waits is answered.  `known`: it was computed
\* or the file is too large, so it is cached; otherwise it was unreadable, or
\* stopping_ cut the read short.
Finish(known) ==
    /\ hashing # NoSubject /\ hashing' = NoSubject
    /\ Closed(hashing, TRUE)
    /\ cache' = IF known THEN Remembered(KeyOf[hashing]) ELSE cache
    /\ finished' = finished \cup waiters[KeyOf[hashing]]
    /\ waiters' = [waiters EXCEPT ![KeyOf[hashing]] = {}]
    /\ UNCHANGED <<hash_queue, stopping, reaped, reply, results, opened>>

\* ~hash_service: the worker is told, joined, and what it left is closed.
Destroy ==
    /\ ~stopping /\ stopping' = TRUE
    /\ UNCHANGED <<hash_queue, hashing, waiters, cache, finished, reaped, reply, results,
                   opened, closes>>
Reap ==
    /\ stopping /\ hashing = NoSubject /\ ~reaped /\ reaped' = TRUE
    /\ closes' = [s \in Subjects |-> closes[s] + (IF Contains(hash_queue, s) THEN 1 ELSE 0)]
    /\ UNCHANGED <<hash_queue, hashing, waiters, cache, finished, stopping, reply, results, opened>>

HashInit ==
    /\ hash_queue = <<>> /\ hashing = NoSubject /\ waiters = [k \in Contents |-> {}]
    /\ cache = <<>> /\ finished = {} /\ stopping = FALSE /\ reaped = FALSE
    /\ reply = [s \in Subjects |-> "none"] /\ results = [s \in Subjects |-> 0]
    /\ opened = {} /\ closes = [s \in Subjects |-> 0]

HashWorker == Take \/ \E known \in BOOLEAN : Finish(known)
HashNext ==
    \/ \E s \in Subjects, fd \in BOOLEAN : SubmitFinal(s, fd) \/ SubmitJoins(s, fd)
    \/ \E s \in Subjects : SubmitQueues(s)
    \/ HashWorker \/ Drain \/ Destroy \/ Reap
HashSpec == HashInit /\ [][HashNext]_hashVars
-----------------------------------------------------------------------------
\* Whoever was told "pending" is in exactly one place - waiting, answered or
\* drained - and whoever got a final answer in none, so drain() gives "one per
\* submitted subject that returned pending" (hash_service.hpp) and no more.
Places(s) ==
    (IF \E k \in Contents : s \in waiters[k] THEN 1 ELSE 0)
    + (IF s \in finished THEN 1 ELSE 0) + results[s]
OneResult == \A s \in Subjects : Places(s) = IF reply[s] = "pending" THEN 1 ELSE 0

UnderWay == (IF hashing = NoSubject THEN {} ELSE {hashing}) \cup Range(hash_queue)

\* A descriptor is open exactly while its request is queued or being hashed,
\* and closed once ("it is closed on every path"), the destructor included.
DescriptorsClosed ==
    \A s \in Subjects :
        closes[s] = IF s \in opened /\ (reaped \/ s \notin UnderWay) THEN 1 ELSE 0

\* The worker runs and the pipeline drains on every step.
HashFairness == WF_hashVars(HashWorker) /\ WF_hashVars(Drain)
HashFairSpec == HashSpec /\ HashFairness

\* A pending hash arrives, unless the service is destroyed first: again and again,
\* nobody waits (Subjects is finite).
PendingArrives ==
    []<>(stopping \/ \A s \in Subjects : reply[s] = "pending" => results[s] = 1)
=============================================================================
