----------------------------- MODULE LogCleanup -----------------------------
(***************************************************************************)
(* The log files of requests and the thread that removes them              *)
(* (src/observability/log_cleanup.py), with the part of turn_logging.py    *)
(* that writes them.                                                       *)
(*                                                                         *)
(* The event loop and the cleanup thread share the directories and, under  *)
(* _lock, the counter _active.  A request takes its time stamp, registers  *)
(* its turn, writes its files one by one without the lock, and unregisters *)
(* when its response is complete.  A cleanup takes a snapshot of _active,  *)
(* reads the directories of logs/raw and then those of logs/session while  *)
(* requests go on, and removes turns from the oldest to the newest, each   *)
(* file by file while it holds the lock.                                   *)
(*                                                                         *)
(* Time is counted in milliseconds, the resolution of the time stamp in a  *)
(* file name; late tells that the clock, read in microseconds by a         *)
(* cleanup, is past the start of its millisecond.  Every file has size 1,  *)
(* and the several raw (or session) files of a request, which are written  *)
(* in one go, are one file, and so are those of its response.              *)
(***************************************************************************)
EXTENDS Integers, FiniteSets

CONSTANTS
    Turn,         \* requests that are logged
    SessionTurn,  \* those with a session id, whose files have session copies
    Retention,    \* retention_days, in milliseconds
    MaxBytes,     \* max_bytes
    MayFail,      \* writing, reading or removing a file may raise OSError
    MaxTime, MaxCrashes   \* bounds on the model

ASSUME TurnAssumption == IsFiniteSet(Turn) /\ SessionTurn \subseteq Turn
ASSUME LimitAssumption == Retention \in Nat /\ MaxBytes \in Nat
ASSUME FailAssumption == MayFail \in BOOLEAN
ASSUME BoundAssumption == MaxTime \in Nat /\ MaxCrashes \in Nat

VARIABLES
    stage,     \* where each turn is in its life
    stamp,     \* the time stamp of each turn that has one
    written,   \* how many of its log writes a turn has come to
    active,    \* _active: how many requests protect each time stamp
    disk,      \* log files on disk
    now, late, \* the clock
    crashes,   \* restarts of the proxy so far
    phase,     \* what the cleanup thread is doing
    begun,     \* now of cleanup_logs: its millisecond, and whether past its start
    protected, \* its snapshot of _active
    listing,   \* files that were there when it opened the directories it reads
    seen,      \* groups: the files it has found
    queue,     \* time stamps of seen it has still to consider
    removing,  \* files of the turn it is removing, under the lock
    total,     \* its count of the bytes in the logs
    stuck,     \* files it could not remove
    missed     \* history: time stamps taken, but not registered, at its snapshot

requests == <<stage, stamp, written>>
clock == <<now, late>>
scan == <<phase, begun, protected, listing, seen, queue, removing, total, stuck,
          missed>>
vars == <<requests, active, disk, clock, crashes, scan>>

Time == 0..MaxTime

(* Raw files lie under logs/raw, their session copies under logs/session.   *)
Root == {"raw", "session"}
File == [turn : Turn, root : Root, part : {"req", "res"}]
FileOf(t, root, part) == [turn |-> t, root |-> root, part |-> part]

(* The writes of a turn, in order. *)
LogRequestRaw == 0
LogRequestSession == 1
LogResponseRaw == 2
LogResponseSession == 3
AllWritten == 4

(* date >= now and date >= cutoff, for the now of the running cleanup.      *)
NotBefore(s, t) == IF begun.late THEN s > t ELSE s >= t
InFuture(s) == NotBefore(s, begun.now)
Retained(s) == NotBefore(s, begun.now - Retention)

Group(s) == {f \in seen : stamp[f.turn] = s}
Under(root) == {f \in disk : f.root = root}

TypeOK ==
    /\ stage \in [Turn -> {"new", "stamped", "open", "done"}]
    /\ stamp \in [Turn -> Time]
    /\ written \in [Turn -> LogRequestRaw..AllWritten]
    /\ active \in [Time -> Nat]
    /\ disk \subseteq File
    /\ now \in Time /\ late \in BOOLEAN
    /\ crashes \in 0..MaxCrashes
    /\ phase \in {"idle", "raw", "session", "evict", "unlink"}
    /\ begun \in [now : Time, late : BOOLEAN]
    /\ protected \subseteq Time
    /\ listing \subseteq File
    /\ seen \subseteq File
    /\ queue \subseteq Time
    /\ removing \subseteq File
    /\ total \in Int
    /\ stuck \subseteq File
    /\ missed \subseteq Time

Asleep ==
    /\ phase = "idle"
    /\ begun = [now |-> 0, late |-> FALSE]
    /\ protected = {}
    /\ listing = {}
    /\ seen = {}
    /\ queue = {}
    /\ removing = {}
    /\ total = 0
    /\ stuck = {}
    /\ missed = {}

Init ==
    /\ stage = [t \in Turn |-> "new"]
    /\ stamp = [t \in Turn |-> 0]
    /\ written = [t \in Turn |-> LogRequestRaw]
    /\ active = [s \in Time |-> 0]
    /\ disk = {}
    /\ now = 0
    /\ late = FALSE
    /\ crashes = 0
    /\ Asleep

-----------------------------------------------------------------------------
(* Requests. *)

(* The counter with one more request at time stamp s. *)
\* slip: a set of time stamps instead of a counter
RegisteredOnce(s) == [active EXCEPT ![s] = 1]
Registered(s) == [active EXCEPT ![s] = @ + 1]

(* The one event loop runs build_turn_log_paths without an await: nothing  *)
(* else of a request happens between the time stamp and the registration.  *)
LoopFree == \A t \in Turn : stage[t] # "stamped"

(* The cleanup thread holds _lock. *)
Locked == phase = "unlink"

(* build_turn_log_paths names the turn by the current millisecond.         *)
Stamp(t) ==
    /\ stage[t] = "new" /\ LoopFree
    /\ stage' = [stage EXCEPT ![t] = "stamped"]
    /\ stamp' = [stamp EXCEPT ![t] = now]
    /\ UNCHANGED <<written, active, disk, clock, crashes, scan>>

(* track_turn, before the first file is written.                           *)
Register(t) ==
    /\ stage[t] = "stamped" /\ ~Locked
    /\ stage' = [stage EXCEPT ![t] = "open"]
    /\ active' = Registered(stamp[t])
    /\ UNCHANGED <<stamp, written, disk, clock, crashes, scan>>

(* _dump_json: an OSError is logged and the file is not there. *)
Dump(f) == \/ disk' = disk \cup {f}
           \/ MayFail /\ UNCHANGED disk

WriteRaw(t) ==
    /\ stage[t] = "open" /\ LoopFree
    /\ \/ written[t] = LogRequestRaw /\ Dump(FileOf(t, "raw", "req"))
       \/ written[t] = LogResponseRaw /\ Dump(FileOf(t, "raw", "res"))
    /\ written' = [written EXCEPT ![t] = @ + 1]
    /\ UNCHANGED <<stage, stamp, active, clock, crashes, scan>>

(* Turns without a session id have no session copies. *)
WriteSession(t) ==
    /\ stage[t] = "open" /\ LoopFree
    /\ \/ /\ written[t] = LogRequestSession
          /\ t \in SessionTurn /\ Dump(FileOf(t, "session", "req"))
       \/ /\ written[t] = LogResponseSession
          /\ t \in SessionTurn /\ Dump(FileOf(t, "session", "res"))
       \/ /\ written[t] \in {LogRequestSession, LogResponseSession}
          /\ t \notin SessionTurn /\ UNCHANGED disk
    /\ written' = [written EXCEPT ![t] = @ + 1]
    /\ UNCHANGED <<stage, stamp, active, clock, crashes, scan>>

(* A response with status 400 or more: the session keeps nothing of it. *)
DiscardSession(t) ==
    /\ stage[t] = "open" /\ LoopFree
    /\ written[t] = LogResponseSession
    /\ disk' = disk \ {FileOf(t, "session", "req")}
    /\ written' = [written EXCEPT ![t] = AllWritten]
    /\ UNCHANGED <<stage, stamp, active, clock, crashes, scan>>

(* request_log_scope ends, with the response, an exception or a cancelled  *)
(* connection.                                                             *)
Finish(t) ==
    /\ stage[t] = "open" /\ LoopFree /\ ~Locked
    /\ stage' = [stage EXCEPT ![t] = "done"]
    /\ active' = [active EXCEPT ![stamp[t]] = @ - 1]
    /\ UNCHANGED <<stamp, written, disk, clock, crashes, scan>>

-----------------------------------------------------------------------------
(* The cleanup thread. *)

Sleep ==
    /\ phase' = "idle"
    /\ begun' = [now |-> 0, late |-> FALSE]
    /\ protected' = {}
    /\ listing' = {}
    /\ seen' = {}
    /\ queue' = {}
    /\ removing' = {}
    /\ total' = 0
    /\ stuck' = {}
    /\ missed' = {}

(* The start of cleanup_logs: its now, its snapshot, and the opening of the *)
(* raw directories.                                                        *)
BeginCleanup ==
    /\ phase = "idle"
    /\ phase' = "raw"
    /\ begun' = [now |-> now, late |-> late]
    /\ protected' = {s \in Time : active[s] # 0}
    /\ listing' = Under("raw")
    /\ missed' = {stamp[t] : t \in {u \in Turn : stage[u] = "stamped"}}
    /\ UNCHANGED <<requests, active, disk, clock, crashes, seen, queue, removing,
                   total, stuck>>

(* Reading a directory while files come and go finds every file that is    *)
(* there throughout, and any of those that came or went meanwhile.         *)
Found(root, F) ==
    /\ listing \cap disk \subseteq F
    /\ F \subseteq listing \cup Under(root)

ScanRaw ==
    /\ phase = "raw"
    /\ phase' = "session"
    /\ \E F \in SUBSET (listing \cup Under("raw")) :
         Found("raw", F) /\ seen' = F
    /\ listing' = Under("session")
    /\ UNCHANGED <<requests, active, disk, clock, crashes, begun, protected,
                   queue, removing, total, stuck, missed>>

ScanSession ==
    /\ phase = "session"
    /\ phase' = "evict"
    /\ \E F \in SUBSET (listing \cup Under("session")) :
         /\ Found("session", F)
         /\ seen' = seen \cup F
         /\ queue' = {stamp[f.turn] : f \in seen \cup F}
         /\ total' = Cardinality(seen \cup F)
    /\ listing' = {}
    /\ UNCHANGED <<requests, active, disk, clock, crashes, begun, protected,
                   removing, stuck, missed>>

(* An OSError while a directory is read ends the cleanup. *)
ScanFails ==
    /\ MayFail
    /\ phase \in {"raw", "session"}
    /\ Sleep
    /\ UNCHANGED <<requests, active, disk, clock, crashes>>

(* The oldest time stamp still to consider. *)
\* slip: sorted the other way round
Newest(s) == s \in queue /\ \A u \in queue : u <= s
Oldest(s) == s \in queue /\ \A u \in queue : s <= u

(* The cleanup stops at s: young enough, and the logs fit. *)
\* slip: retention is not looked at
SatisfiedBySize(s) == total <= MaxBytes
\* slip: one too many
SatisfiedByOne(s) == Retained(s) /\ total <= MaxBytes + 1
Satisfied(s) == Retained(s) /\ total <= MaxBytes

(* A turn is not removed that was open at the snapshot, is younger than    *)
(* the cleanup, or is open now.                                            *)
\* slip: _active is not looked at again under the lock
HeldAtSnapshot(s) == s \in protected \/ InFuture(s)
\* slip: no snapshot is taken
HeldNow(s) == InFuture(s) \/ active[s] # 0
Held(s) == s \in protected \/ InFuture(s) \/ active[s] # 0

(* The loop ends at the first turn young enough once the logs fit, or when *)
(* there are no more.                                                      *)
EndCleanup ==
    /\ phase = "evict"
    /\ \A s \in queue : Oldest(s) => Satisfied(s)
    /\ Sleep
    /\ UNCHANGED <<requests, active, disk, clock, crashes>>

(* A turn that is held is passed over. *)
PassOver(s) ==
    /\ phase = "evict"
    /\ Oldest(s) /\ ~Satisfied(s) /\ Held(s)
    /\ queue' = queue \ {s}
    /\ UNCHANGED <<requests, active, disk, clock, crashes, phase, begun,
                   protected, listing, seen, removing, total, stuck, missed>>

(* Otherwise it takes the lock, looks at _active and goes over the files   *)
(* it has found of the turn.                                               *)
Evict(s) ==
    /\ phase = "evict"
    /\ Oldest(s) /\ ~Satisfied(s) /\ ~Held(s)
    /\ phase' = "unlink"
    /\ removing' = Group(s)
    /\ queue' = queue \ {s}
    /\ UNCHANGED <<requests, active, disk, clock, crashes, begun, protected,
                   listing, seen, total, stuck, missed>>

(* The files are removed in the order they were found, those under raw     *)
(* first.  A file that has gone is subtracted as well, one whose removal   *)
(* raises OSError is not.  The lock is released after the last one.        *)
Unlink(f) ==
    /\ phase = "unlink"
    /\ f \in removing
    /\ f.root = "session" => \A g \in removing : g.root = "session"
    /\ \/ disk' = disk \ {f} /\ total' = total - 1 /\ UNCHANGED stuck
       \/ /\ MayFail /\ f \in disk
          /\ stuck' = stuck \cup {f} /\ UNCHANGED <<disk, total>>
    /\ removing' = removing \ {f}
    /\ phase' = IF removing' = {} THEN "evict" ELSE "unlink"
    /\ UNCHANGED <<requests, active, clock, crashes, begun, protected, listing,
                   seen, queue, missed>>

-----------------------------------------------------------------------------
(* The clock moves within a millisecond, then to the next one. *)
Tick ==
    /\ \/ ~late /\ late' = TRUE /\ UNCHANGED now
       \/ late /\ now < MaxTime /\ now' = now + 1 /\ late' = FALSE
    /\ UNCHANGED <<requests, active, disk, crashes, scan>>

(* The process dies, at any point, and is started again: its requests are  *)
(* gone and their files stay.                                              *)
Crash ==
    /\ crashes < MaxCrashes
    /\ crashes' = crashes + 1
    /\ stage' = [t \in Turn |-> IF stage[t] = "new" THEN "new" ELSE "done"]
    /\ active' = [s \in Time |-> 0]
    /\ Sleep
    /\ UNCHANGED <<stamp, written, disk, clock>>

Request(t) ==
    \/ Stamp(t) \/ Register(t)
    \/ WriteRaw(t) \/ WriteSession(t) \/ DiscardSession(t) \/ Finish(t)

Cleanup ==
    \/ BeginCleanup \/ ScanRaw \/ ScanSession \/ ScanFails \/ EndCleanup
    \/ \E s \in Time : PassOver(s) \/ Evict(s)
    \/ \E f \in removing : Unlink(f)

Next == (\E t \in Turn : Request(t)) \/ Cleanup \/ Tick \/ Crash

Spec == Init /\ [][Next]_vars

(* The worker thread runs a cleanup every five minutes; the clock goes on; *)
(* the event loop goes on, and every response ends, if only by its timeout. *)
FairSpec ==
    /\ Spec
    /\ WF_vars(Cleanup)
    /\ WF_vars(Tick)
    /\ \A t \in Turn : WF_vars(Register(t)) /\ WF_vars(Finish(t))

-----------------------------------------------------------------------------
(* Properties. *)

FilesOf(t) == {f \in disk : f.turn = t}

(* "In-flight requests, including streaming responses, are protected": as  *)
(* long as a request goes on, none of its files goes, except the session   *)
(* copy that its own error response discards.                              *)
InFlightProtected ==
    [][\A t \in Turn :
          stage[t] = "open" /\ stage'[t] = "open" /\ ~DiscardSession(t)
              => FilesOf(t) \subseteq disk']_vars

(* A step of the cleanup removes a file of turn t. *)
RemovesOf(t) == Locked /\ UNCHANGED requests /\ ~(FilesOf(t) \subseteq disk')

(* The cleanup comes to the end of its loop over the files of time stamp s. *)
RemovedAll(s) ==
    Locked /\ phase' = "evict" /\ \E f \in removing : stamp[f.turn] = s

(* "Request and response files are removed together": when a cleanup has   *)
(* removed a turn, the only files left of it are those it failed to        *)
(* remove.  It holds for turns stamped before the millisecond the cleanup  *)
(* began in and registered, or not yet stamped, at its snapshot: requests  *)
(* that were answered while it read the directories do not lose half of    *)
(* their files.  A turn of that millisecond may, and so may one that had   *)
(* its stamp but was not registered; a crash within the loop leaves what   *)
(* the loop had not come to.                                               *)
EarlierRemovedTogether ==
    [][\A t \in Turn :
          RemovedAll(stamp[t]) /\ stamp[t] < begun.now /\ stamp[t] \notin missed
              => {f \in disk' : f.turn = t} \subseteq stuck']_vars

(* "The oldest turns are removed until they fit": a file of a turn goes    *)
(* only when every older file left is of a request that was open, or had   *)
(* just got its stamp, when the cleanup began, or could not be removed.    *)
OldestFirst ==
    [][\A t \in Turn :
          RemovesOf(t) => \A f \in disk' :
              stamp[f.turn] < stamp[t] =>
                  f \in stuck' \/ stamp[f.turn] \in protected \cup missed]_vars

(* When a cleanup ends, the logs it found fit and are within retention,    *)
(* but for those of requests open, or stamped and not yet registered, when *)
(* it began, those of its own millisecond or later, and those it could not *)
(* remove.                                                                 *)
CleanupDelivers ==
    [][EndCleanup =>
          LET left == {f \in disk : /\ f \notin stuck
                                    /\ stamp[f.turn] \notin protected \cup missed
                                    /\ stamp[f.turn] < begun.now}
          IN  /\ \A f \in left : Retained(stamp[f.turn])
              /\ Cardinality(seen \cap disk) <= MaxBytes \/ left = {}]_vars

(* A turn that has outlived its retention is gone in the end, also when    *)
(* the proxy was restarted before it was answered.                         *)
ExpiredTurnsGo ==
    \A t \in Turn :
        stage[t] = "done" /\ stamp[t] + Retention < now ~> FilesOf(t) = {}
=============================================================================
