----------------------------- MODULE Integrity -----------------------------
(***************************************************************************)
(* The sensor's check of its own installation (sensor/integrity.cpp): a    *)
(* signed build manifest says what the installed binary must be; each      *)
(* refresh stats and reads the manifest, stats and hashes the file, and    *)
(* turns what it finds into "violated" and "restored" records.  The file   *)
(* and the manifest may change between any two of those steps.             *)
(*                                                                         *)
(* One listed file; its content is the number of the build it belongs to   *)
(* (0: not there).  A manifest is the number of its build, 0 when it is    *)
(* missing and -1 when it does not verify.  Times are in seconds.          *)
(***************************************************************************)
EXTENDS Integers, FiniteSets

CONSTANTS
    Builds,        \* build times, increasing with the version
    Quiet,         \* seconds a file must have been quiet for its hash to be trusted (2)
    MaxClock,      \* bound on time
    HostEdits      \* bounds: a set of [file, manifest, restart, save]

ASSUME IntegrityAssumption == Builds \subseteq Nat \ {0} /\ Quiet \in Nat

VARIABLES
    clock,
    bin,           \* the file: [content, ctime, inode]
    manifest,      \* the manifest file: [build, ctime]
    image,         \* running_fd_: [content, inode] of the image that runs
    phase,         \* where refresh() is: "idle", "read", "hash"
    began,         \* now_unix of the refresh in progress
    seen_file,     \* fstat() of the file in it
    manifest_id,   \* manifest_identity_ (ctime; -1: none)
    problem,       \* manifest_problem_: "", "manifest_missing", "manifest_invalid"
    in_force,      \* manifest_ (0: none yet)
    reread,        \* the manifest is read in this refresh
    high_water, saved_water, \* high_water_built_, and the one in the state file
    rollback,      \* rollback_
    hashes,        \* hashes_: [content, ctime, inode, at] of the last look at the file
    reported, pending, first_refresh,
    edits_left,
    \* History.
    newest_build,  \* the newest build ever verified
    mark,          \* its high-water mark: "saved", "unsaved" (in memory only), or
                   \* "forgotten" with the process that could not save it
    calm           \* refreshes begun and concluded since anything changed

integrityVars == <<clock, bin, manifest, image, phase, began, seen_file, manifest_id, problem,
    in_force, reread, high_water, saved_water, rollback, hashes, reported, pending,
    first_refresh, edits_left, newest_build, mark, calm>>
monitor == <<phase, began, seen_file, manifest_id, problem, in_force, reread, high_water,
    saved_water, rollback, hashes, reported, pending, first_refresh, newest_build,
    mark>>

CanEdit(what) == edits_left[what] > 0
Edited(what) == edits_left' = [edits_left EXCEPT ![what] = @ - 1]
NoHash == [content |-> -1, ctime |-> -9, inode |-> -1, at |-> -9]
-----------------------------------------------------------------------------
(* The host.  The kernel stamps a change with a clock that lags the time by *)
(* up to one tick, so two changes may carry one stamp.  The inode of the     *)
(* image that runs cannot be written (ETXTBSY); it can be put back.         *)

ClockTicks == clock < MaxClock /\ clock' = clock + 1
              /\ UNCHANGED <<bin, manifest, image, monitor, edits_left, calm>>

WriteFile(content, inode, stamp) ==
    /\ CanEdit("file") /\ Edited("file") /\ calm' = -1
    /\ stamp \in {clock, clock - 1} /\ stamp >= bin.ctime
    /\ bin' = [content |-> content, ctime |-> stamp, inode |-> inode]
    /\ content # bin.content \/ inode # bin.inode
    /\ content = 0 => inode = bin.inode
    /\ inode = image.inode => content \in {0, image.content}
    /\ UNCHANGED <<clock, manifest, image, monitor>>

\* Two versions of the manifest never carry one stamp (see README).
WriteManifest(build) ==
    /\ CanEdit("manifest") /\ Edited("manifest") /\ calm' = -1
    /\ build # manifest.build /\ manifest.ctime < clock
    /\ manifest' = [build |-> build, ctime |-> clock]
    /\ UNCHANGED <<clock, bin, image, monitor>>

\* The sensor starts again, from the file on disk.
RestartSensor ==
    /\ CanEdit("restart") /\ Edited("restart") /\ calm' = -1 /\ bin.content # 0
    /\ image' = [content |-> bin.content, inode |-> bin.inode]
    /\ phase' = "idle" /\ began' = 0 /\ seen_file' = NoHash /\ reread' = FALSE
    /\ manifest_id' = -1 /\ problem' = "" /\ in_force' = 0 /\ rollback' = FALSE
    /\ high_water' = saved_water /\ hashes' = NoHash
    /\ reported' = {} /\ pending' = {} /\ first_refresh' = TRUE
    /\ mark' = IF mark = "unsaved" THEN "forgotten" ELSE mark
    /\ UNCHANGED <<clock, bin, manifest, saved_water, newest_build>>
-----------------------------------------------------------------------------
(* refresh().                                                              *)

\* refresh_manifest() up to its stat().
StatManifest ==
    /\ phase = "idle" /\ phase' = "read" /\ began' = clock
    /\ calm' = IF calm = -1 THEN 0 ELSE calm
    /\ IF manifest.build = 0
       THEN manifest_id' = -1 /\ problem' = "manifest_missing" /\ reread' = FALSE
       ELSE /\ reread' = (manifest_id # manifest.ctime \/ manifest.ctime >= clock - 1 \/ problem # "")
            /\ manifest_id' = manifest.ctime /\ UNCHANGED problem
    /\ UNCHANGED <<clock, bin, manifest, image, seen_file, in_force, high_water, saved_water,
                   rollback, hashes, reported, pending, first_refresh, edits_left, newest_build,
                   mark>>

\* History: what became of the mark of a build above the one in memory.
Marked(build, became) ==
    /\ newest_build' = IF build > newest_build THEN build ELSE newest_build
    /\ mark' = IF build < newest_build THEN mark ELSE became

\* Mutant: the mark is kept in memory only.
NoteBuildInMemory(build) ==
    /\ rollback' = (build < high_water)
    /\ \/ build <= high_water /\ UNCHANGED <<high_water, newest_build, mark>>
       \/ build > high_water /\ high_water' = build /\ Marked(build, "saved")
    /\ UNCHANGED <<saved_water, edits_left>>

\* note_build(): the mark only rises, and is saved when it does; nobody hears
\* of a failure.
NoteBuild(build) ==
    /\ rollback' = (build < high_water)
    /\ \/ /\ build <= high_water
          /\ UNCHANGED <<high_water, saved_water, newest_build, mark, edits_left>>
       \/ /\ build > high_water /\ high_water' = build
          /\ \/ saved_water' = build /\ Marked(build, "saved") /\ UNCHANGED edits_left
             \/ /\ CanEdit("save") /\ Edited("save") /\ Marked(build, "unsaved")
                /\ UNCHANGED saved_water

\* The manifest is read and verified; then check_files() opens the file.
ReadManifest ==
    /\ phase = "read" /\ phase' = "hash" /\ seen_file' = bin
    /\ IF reread /\ manifest.build \in Builds
       THEN in_force' = manifest.build /\ problem' = "" /\ NoteBuild(manifest.build)
       ELSE /\ problem' = IF reread THEN "manifest_invalid" ELSE problem
            /\ UNCHANGED <<in_force, high_water, saved_water, rollback, newest_build, mark,
                           edits_left>>
    /\ UNCHANGED <<clock, bin, manifest, image, began, manifest_id, reread, hashes, reported,
                   pending, first_refresh, calm>>

\* Mutant: a hash is trusted however recent the last change was.
TrustedAlways(h) == h.ctime = seen_file.ctime /\ h.inode = seen_file.inode

\* hash_of(): the cached hash is used for the same file that had been quiet when it was hashed.
Trusted(h) == h.ctime = seen_file.ctime /\ h.inode = seen_file.inode /\ h.at - h.ctime >= Quiet

\* What check_files() finds, given the look `h` at the file.
FileFindings(h) ==
    IF in_force = 0 THEN {}
    ELSE LET file == IF h.content = 0 THEN {"binary_missing"}
                     ELSE IF h.content # in_force THEN {"binary_modified"} ELSE {}
         IN  file \cup (IF image.content # in_force THEN {"image_modified"}
                        ELSE IF bin.content # 0 /\ bin.inode # image.inode /\ file = {}
                             THEN {"binary_replaced"} ELSE {})
ManifestFindings ==
    (IF problem = "" THEN {} ELSE {problem}) \cup (IF rollback /\ in_force # 0 THEN {"manifest_rollback"} ELSE {})

\* A finding is reported at once by the first refresh and by a later one when seen
\* twice in a row; one that is gone is restored.
Conclude(h, found) ==
    /\ hashes' = h
    /\ reported' = {f \in found : f \in reported \/ first_refresh \/ f \in pending}
    /\ pending' = found \ reported' /\ first_refresh' = FALSE

\* The file that was opened is hashed: one put in its place since is not seen, one
\* written into since is seen before or after.
Hashed ==
    IF seen_file.content = 0 THEN {0}
    ELSE {seen_file.content} \cup
         {c \in {bin.content} : c # 0 /\ bin.inode = seen_file.inode}

\* hash_of(), the rest of check_files(), and the records of refresh().  A trusted hash
\* is taken again all the same once full_check_seconds have passed, here at any time.
HashFile ==
    /\ phase = "hash" /\ phase' = "idle"
    /\ \/ \E content \in Hashed :
            LET fresh == [content |-> content, ctime |-> seen_file.ctime,
                          inode |-> seen_file.inode, at |-> began]
            IN  Conclude(fresh, FileFindings(fresh) \cup ManifestFindings)
       \/ /\ seen_file.content # 0 /\ Trusted(hashes)
          /\ Conclude(hashes, FileFindings(hashes) \cup ManifestFindings)
    /\ calm' = IF calm \in 0..1 THEN calm + 1 ELSE calm
    /\ began' = 0 /\ seen_file' = NoHash /\ reread' = FALSE
    /\ UNCHANGED <<clock, bin, manifest, image, manifest_id, problem, in_force, high_water,
                   saved_water, rollback, edits_left, newest_build, mark>>

IntegrityInit ==
    /\ clock = 0 /\ \E b \in Builds :
        /\ bin = [content |-> b, ctime |-> -3, inode |-> 1] /\ manifest = [build |-> b, ctime |-> -3]
        /\ image = [content |-> b, inode |-> 1]
    /\ phase = "idle" /\ began = 0 /\ seen_file = NoHash /\ manifest_id = -1 /\ problem = ""
    /\ in_force = 0 /\ reread = FALSE /\ high_water = 0 /\ saved_water = 0 /\ rollback = FALSE
    /\ hashes = NoHash /\ reported = {} /\ pending = {} /\ first_refresh = TRUE
    /\ edits_left \in HostEdits /\ newest_build = 0 /\ mark = "saved"
    /\ calm = -1

IntegrityNext ==
    \/ ClockTicks \/ RestartSensor \/ StatManifest \/ ReadManifest \/ HashFile
    \/ \E c \in Builds \cup {0}, i \in 1..2, s \in {clock, clock - 1} : WriteFile(c, i, s)
    \/ \E b \in Builds \cup {0, -1} : WriteManifest(b)
IntegritySpec == IntegrityInit /\ [][IntegrityNext]_integrityVars
-----------------------------------------------------------------------------
\* What is wrong with the installation.
Wrong ==
    LET b == manifest.build
        file == IF bin.content = 0 THEN {"binary_missing"}
                ELSE IF bin.content # b THEN {"binary_modified"} ELSE {}
    IN  (IF b < newest_build /\ mark # "forgotten" THEN {"manifest_rollback"} ELSE {}) \cup file
        \cup (IF image.content # b THEN {"image_modified"}
              ELSE IF bin.inode # image.inode /\ file = {} THEN {"binary_replaced"} ELSE {})

\* Two refreshes after the last change, what is reported is what is wrong: a
\* finding is neither lost by a cached hash, nor by a manifest taken as known,
\* nor kept once it is gone.
ReportedIsWrong ==
    calm = 2 /\ phase = "idle" =>
        IF manifest.build \in Builds THEN reported = Wrong
        ELSE (IF manifest.build = 0 THEN "manifest_missing" ELSE "manifest_invalid") \in reported

\* No build older than one this endpoint has ever verified is in force unnoticed,
\* in this process or a later one, unless the process that verified it could not
\* save its mark and has ended (note_build(): a failure "leaves the value in memory
\* only, which still protects this run").
NoQuietRollback ==
    in_force \in Builds /\ in_force < newest_build /\ mark # "forgotten" => rollback
=============================================================================
