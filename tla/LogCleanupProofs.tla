-------------------------- MODULE LogCleanupProofs --------------------------
(***************************************************************************)
(* Proofs about LogCleanup, for any set of requests, any limits and any    *)
(* failures.  The promises of README.md that are proved,                   *)
(* InFlightProtected, EarlierRemovedTogether, OldestFirst and              *)
(* CleanupDelivers, rest on one inductive invariant (and the last on one   *)
(* more, below):                                                           *)
(*   Counted   _active counts the open requests of each time stamp;        *)
(*   Stamped   no time stamp is ahead of the clock, and a request has no   *)
(*             file before it is registered;                               *)
(*   Unlinking the files a cleanup removes under the lock are of one time  *)
(*             stamp, older than those still to consider, at which no      *)
(*             request is open;                                            *)
(*   Covered   a request stamped in a millisecond before that of the       *)
(*             running cleanup, and neither in its snapshot nor missed by  *)
(*             it between stamp and registration, is over, and the cleanup *)
(*             has found every file of it that is left (in the directories *)
(*             it has read so far, or opened).                             *)
(***************************************************************************)
EXTENDS LogCleanup, FiniteSetTheorems, TLAPS

OpenAt(s) == {t \in Turn : stage[t] = "open" /\ stamp[t] = s}

Counted == \A s \in Time : active[s] = Cardinality(OpenAt(s))

Stamped ==
    /\ \A t \in Turn : stamp[t] <= now
    /\ begun.now <= now
    /\ \A f \in disk \cup listing \cup seen : stage[f.turn] \notin {"new", "stamped"}

Unlinking ==
    /\ phase # "unlink" => removing = {}
    /\ phase = "unlink" =>
          \E s \in Time : /\ removing \subseteq Group(s) /\ OpenAt(s) = {}
                         /\ s \notin protected /\ ~InFuture(s)
                         /\ \A u \in queue : s < u

Earlier(t) ==
    stage[t] # "new" /\ stamp[t] < begun.now /\ stamp[t] \notin protected \cup missed

FoundSoFar(f) ==
    /\ phase = "raw" /\ f.root = "raw" => f \in listing
    /\ phase = "session" => f \in IF f.root = "raw" THEN seen ELSE listing
    /\ phase \in {"evict", "unlink"} =>
          f \in seen /\ (stamp[f.turn] \in queue \/ f \in removing \/ f \in stuck)

Covered ==
    phase # "idle" =>
        /\ \A t \in Turn : Earlier(t) => stage[t] = "done"
        /\ \A f \in disk : Earlier(f.turn) => FoundSoFar(f)

IInv == TypeOK /\ Counted /\ Stamped /\ Unlinking /\ Covered

-----------------------------------------------------------------------------
(* A file is a record of its turn, its root and its part. *)
LEMMA FileFields ==
    /\ \A f \in File : f.turn \in Turn /\ f.root \in Root
    /\ \A t \in Turn, root \in Root, part \in {"req", "res"} :
          /\ FileOf(t, root, part) \in File
          /\ FileOf(t, root, part).turn = t
          /\ FileOf(t, root, part).root = root
BY DEF File, FileOf

(* There are finitely many files: each is one of four of a turn. *)
LEMMA FilesFinite == IsFiniteSet(File)
<1> DEFINE Of(root, part) == {FileOf(t, root, part) : t \in Turn}
           Map(root, part) == [t \in Turn |-> FileOf(t, root, part)]
<1>1. ASSUME NEW root \in Root, NEW part \in {"req", "res"}
      PROVE  IsFiniteSet(Of(root, part))
  <2>1. Map(root, part) \in Surjection(Turn, Of(root, part))
    BY DEF Surjection
  <2> QED BY <2>1, TurnAssumption, FS_Surjection
<1>2. File \subseteq (Of("raw", "req") \cup Of("raw", "res"))
                    \cup (Of("session", "req") \cup Of("session", "res"))
  <2>1. ASSUME NEW f \in File PROVE f \in Of(f.root, f.part)
    <3>1. f.turn \in Turn /\ f = FileOf(f.turn, f.root, f.part)
      BY DEF File, FileOf
    <3> QED BY <3>1
  <2>2. \A f \in File : f.root \in {"raw", "session"} /\ f.part \in {"req", "res"}
    BY DEF File, Root
  <2> HIDE DEF Of
  <2> QED BY <2>1, <2>2
<1> HIDE DEF Of
<1>3. IsFiniteSet((Of("raw", "req") \cup Of("raw", "res"))
                      \cup (Of("session", "req") \cup Of("session", "res")))
  BY <1>1, FS_Union DEF Root
<1> QED BY <1>2, <1>3, FS_Subset

(* Nothing is open at a time stamp that _active does not count, and the    *)
(* set of requests open at a time stamp is finite.                         *)
LEMMA OpenCounted ==
    ASSUME TypeOK, Counted, NEW t \in Turn, stage[t] = "open"
    PROVE  active[stamp[t]] # 0
<1>1. stamp[t] \in Time /\ t \in OpenAt(stamp[t]) BY DEF TypeOK, OpenAt
<1>2. OpenAt(stamp[t]) \subseteq Turn BY DEF OpenAt
<1>3. IsFiniteSet(OpenAt(stamp[t])) BY <1>2, TurnAssumption, FS_Subset
<1>4. Cardinality(OpenAt(stamp[t])) # 0 BY <1>1, <1>3, FS_EmptySet
<1> QED BY <1>1, <1>4 DEF Counted

-----------------------------------------------------------------------------
(* Type correctness, one group of actions at a time. *)

(* The variables of the cleanup between two runs. *)
LEMMA SleepType ==
    ASSUME Sleep
    PROVE  /\ phase' = "idle" /\ begun' = [now |-> 0, late |-> FALSE]
           /\ begun' \in [now : Time, late : BOOLEAN]
           /\ protected' \subseteq Time /\ listing' \subseteq File
           /\ seen' \subseteq File /\ queue' \subseteq Time
           /\ total' \in Int /\ stuck' \subseteq File
           /\ removing' = {} /\ missed' = {}
<1>1. 0 \in Time BY BoundAssumption DEF Time
<1> QED BY <1>1 DEF Sleep

(* The initial states are of their type. *)
LEMMA InitType == Init => TypeOK
<1> SUFFICES ASSUME Init PROVE TypeOK OBVIOUS
<1>1. 0 \in Time /\ 0 \in 0..MaxCrashes BY BoundAssumption DEF Time
<1>2. /\ stage \in [Turn -> {"new", "stamped", "open", "done"}]
      /\ stamp \in [Turn -> Time]
      /\ written \in [Turn -> LogRequestRaw..AllWritten]
      /\ active \in [Time -> Nat]
  BY <1>1 DEF Init, LogRequestRaw, AllWritten
<1>3. begun = [now |-> 0, late |-> FALSE] BY DEF Init, Asleep
<1>4. begun \in [now : Time, late : BOOLEAN] BY <1>1, <1>3
<1>5. late \in BOOLEAN BY DEF Init
<1>6. /\ now \in Time /\ crashes \in 0..MaxCrashes /\ total \in Int
      /\ phase \in {"idle", "raw", "session", "evict", "unlink"}
  BY <1>1 DEF Init, Asleep
<1>7. /\ disk \subseteq File /\ protected \subseteq Time
      /\ listing \subseteq File /\ seen \subseteq File
      /\ queue \subseteq Time /\ stuck \subseteq File
      /\ removing \subseteq File /\ missed \subseteq Time
  BY DEF Init, Asleep
<1> QED BY <1>2, <1>4, <1>5, <1>6, <1>7 DEF TypeOK

(* A request step keeps the types. *)
LEMMA RequestType ==
    ASSUME TypeOK, Counted, NEW t \in Turn, Request(t)
    PROVE  TypeOK'
<1> USE DEF TypeOK
<1>1. CASE Stamp(t)
  BY <1>1 DEF Stamp, scan, clock
<1>6. CASE Register(t)
  <2>1. active[stamp[t]] + 1 \in Nat OBVIOUS
  <2>2. active' \in [Time -> Nat] BY <1>6, <2>1 DEF Register, Registered
  <2> QED BY <1>6, <2>2 DEF Register, scan, clock
<1>2. CASE WriteRaw(t)
  <2>1. disk' \subseteq File
    BY <1>2, FileFields DEF WriteRaw, Dump, Root
  <2>2. written[t] + 1 \in LogRequestRaw..AllWritten
    BY <1>2 DEF WriteRaw, LogRequestRaw, LogResponseRaw, AllWritten
  <2>3. written' \in [Turn -> LogRequestRaw..AllWritten]
    BY <1>2, <2>2 DEF WriteRaw
  <2> QED BY <1>2, <2>1, <2>3 DEF WriteRaw, scan, clock
<1>3. CASE WriteSession(t)
  <2>1. disk' \subseteq File
    BY <1>3, FileFields DEF WriteSession, Dump, Root
  <2>2. written[t] + 1 \in LogRequestRaw..AllWritten
    BY <1>3 DEF WriteSession, LogRequestRaw, LogRequestSession,
                LogResponseSession, AllWritten
  <2>3. written' \in [Turn -> LogRequestRaw..AllWritten]
    BY <1>3, <2>2 DEF WriteSession
  <2> QED BY <1>3, <2>1, <2>3 DEF WriteSession, scan, clock
<1>4. CASE DiscardSession(t)
  <2>1. AllWritten \in LogRequestRaw..AllWritten
    BY DEF LogRequestRaw, AllWritten
  <2> QED BY <1>4, <2>1 DEF DiscardSession, scan, clock
<1>5. CASE Finish(t)
  <2>1. active[stamp[t]] # 0 BY <1>5, OpenCounted DEF Finish
  <2>2. active[stamp[t]] - 1 \in Nat BY <2>1
  <2>3. active' \in [Time -> Nat] BY <1>5, <2>2 DEF Finish
  <2> QED BY <1>5, <2>3 DEF Finish, scan, clock
<1> QED BY <1>1, <1>2, <1>3, <1>4, <1>5, <1>6 DEF Request

(* A step of the cleanup keeps the types. *)
LEMMA CleanupType ==
    ASSUME TypeOK, Cleanup
    PROVE  TypeOK'
<1>1. CASE BeginCleanup
  <2>1. begun' \in [now : Time, late : BOOLEAN]
    BY <1>1 DEF BeginCleanup, TypeOK
  <2> QED BY <1>1, <2>1 DEF BeginCleanup, TypeOK, requests, clock, Under
<1>2. CASE ScanRaw
  BY <1>2 DEF ScanRaw, TypeOK, requests, clock, Under
<1>3. CASE ScanSession
  <2>1. PICK F \in SUBSET (listing \cup Under("session")) :
              /\ seen' = seen \cup F
              /\ queue' = {stamp[f.turn] : f \in seen \cup F}
              /\ total' = Cardinality(seen \cup F)
    BY <1>3 DEF ScanSession
  <2>2. seen \cup F \subseteq File BY DEF TypeOK, Under
  <2>3. Cardinality(seen \cup F) \in Int
    BY <2>2, FilesFinite, FS_Subset, FS_CardinalityType
  <2>4. queue' \subseteq Time BY <2>1, <2>2, FileFields DEF TypeOK
  <2> QED BY <1>3, <2>1, <2>2, <2>3, <2>4 DEF ScanSession, TypeOK, requests, clock
<1>4. CASE ScanFails
  BY <1>4, SleepType DEF ScanFails, TypeOK, requests, clock
<1>5. CASE EndCleanup
  BY <1>5, SleepType DEF EndCleanup, TypeOK, requests, clock
<1>6. ASSUME NEW s \in Time, PassOver(s) PROVE TypeOK'
  BY <1>6 DEF PassOver, TypeOK, requests, clock
<1>7. ASSUME NEW s \in Time, Evict(s) PROVE TypeOK'
  <2>1. Group(s) \subseteq File BY DEF TypeOK, Group
  <2> QED BY <1>7, <2>1 DEF Evict, TypeOK, requests, clock
<1>8. ASSUME NEW f \in removing, Unlink(f) PROVE TypeOK'
  <2>1. /\ disk' \subseteq disk /\ removing' \subseteq removing
        /\ stuck' \subseteq stuck \cup removing
        /\ total' = total \/ total' = total - 1
        /\ phase' \in {"evict", "unlink"}
    BY <1>8 DEF Unlink
  <2>2. UNCHANGED <<requests, active, clock, crashes, begun, protected, listing,
                    seen, queue, missed>>
    BY <1>8 DEF Unlink
  <2> QED BY <2>1, <2>2 DEF TypeOK, requests, clock
<1> QED BY <1>1, <1>2, <1>3, <1>4, <1>5, <1>6, <1>7, <1>8 DEF Cleanup

(* Every step keeps the types. *)
LEMMA NextType ==
    ASSUME TypeOK, Counted, [Next]_vars
    PROVE  TypeOK'
<1>1. CASE Tick
  <2>1. now' \in Time BY <1>1, BoundAssumption DEF Tick, TypeOK, Time
  <2>2. late' \in BOOLEAN BY <1>1 DEF Tick
  <2> QED BY <1>1, <2>1, <2>2 DEF Tick, TypeOK, requests, scan
<1>2. CASE Crash
  <2>1. stage' \in [Turn -> {"new", "stamped", "open", "done"}] BY <1>2 DEF Crash, TypeOK
  <2>2. active' \in [Time -> Nat] BY <1>2 DEF Crash
  <2>3. crashes' \in 0..MaxCrashes BY <1>2, BoundAssumption DEF Crash, TypeOK
  <2> QED BY <1>2, <2>1, <2>2, <2>3, SleepType DEF Crash, TypeOK, clock
<1>3. CASE UNCHANGED vars
  BY <1>3 DEF vars, requests, clock, scan, TypeOK
<1> QED BY <1>1, <1>2, <1>3, RequestType, CleanupType DEF Next

-----------------------------------------------------------------------------
(* _active stays the count of the open requests of each time stamp. *)

(* The requests open at a time stamp are finitely many. *)
LEMMA OpenFinite == \A s : IsFiniteSet(OpenAt(s))
<1>1. \A s : OpenAt(s) \subseteq Turn BY DEF OpenAt
<1> QED BY <1>1, TurnAssumption, FS_Subset

(* At the start nothing is open and nothing counted. *)
LEMMA InitCounted == Init => Counted
<1>1. \A s \in Time : Init => OpenAt(s) = {} BY DEF Init, OpenAt
<1> QED BY <1>1, FS_EmptySet DEF Init, Counted

(* Every step keeps the count. *)
LEMMA NextCounted ==
    ASSUME TypeOK, Counted, [Next]_vars
    PROVE  Counted'
<1>1. ASSUME NEW t \in Turn, Register(t) PROVE Counted'
  <2> SUFFICES ASSUME NEW s \in Time PROVE active'[s] = Cardinality(OpenAt(s)')
    BY DEF Counted
  <2>1. stamp[t] \in Time BY DEF TypeOK
  <2>2. CASE s = stamp[t]
    <3>1. OpenAt(s)' = OpenAt(s) \cup {t} BY <1>1, <2>2 DEF Register, OpenAt, TypeOK
    <3>2. t \notin OpenAt(s) BY <1>1 DEF Register, OpenAt
    <3>3. Cardinality(OpenAt(s)') = Cardinality(OpenAt(s)) + 1
      BY <3>1, <3>2, OpenFinite, FS_AddElement
    <3>4. active'[s] = active[s] + 1
      BY <1>1, <2>2 DEF Register, Registered, TypeOK
    <3> QED BY <3>3, <3>4 DEF Counted
  <2>3. CASE s # stamp[t]
    <3>1. OpenAt(s)' = OpenAt(s) BY <1>1, <2>3 DEF Register, OpenAt, TypeOK
    <3>2. active'[s] = active[s]
      BY <1>1, <2>1, <2>3 DEF Register, Registered, TypeOK
    <3> QED BY <3>1, <3>2 DEF Counted
  <2> QED BY <2>2, <2>3
<1>2. ASSUME NEW t \in Turn, Finish(t) PROVE Counted'
  <2> SUFFICES ASSUME NEW s \in Time PROVE active'[s] = Cardinality(OpenAt(s)')
    BY DEF Counted
  <2>1. stamp[t] \in Time BY DEF TypeOK
  <2>2. CASE s = stamp[t]
    <3>1. OpenAt(s)' = OpenAt(s) \ {t} BY <1>2, <2>2 DEF Finish, OpenAt, TypeOK
    <3>2. t \in OpenAt(s) BY <1>2, <2>2 DEF Finish, OpenAt
    <3>3. Cardinality(OpenAt(s)') = Cardinality(OpenAt(s)) - 1
      BY <3>1, <3>2, OpenFinite, FS_RemoveElement
    <3>4. active'[s] = active[s] - 1 BY <1>2, <2>2 DEF Finish, TypeOK
    <3> QED BY <3>3, <3>4 DEF Counted
  <2>3. CASE s # stamp[t]
    <3>1. OpenAt(s)' = OpenAt(s) BY <1>2, <2>3 DEF Finish, OpenAt, TypeOK
    <3>2. active'[s] = active[s] BY <1>2, <2>1, <2>3 DEF Finish, TypeOK
    <3> QED BY <3>1, <3>2 DEF Counted
  <2> QED BY <2>2, <2>3
<1>3. CASE Crash
  <2>1. ASSUME NEW s \in Time PROVE OpenAt(s)' = {}
    BY <1>3 DEF Crash, OpenAt, TypeOK
  <2> QED BY <1>3, <2>1, FS_EmptySet DEF Crash, Counted
<1>4. ASSUME UNCHANGED <<stage, stamp, active>> PROVE Counted'
  BY <1>4 DEF Counted, OpenAt
<1>5. ASSUME NEW t \in Turn, WriteRaw(t) \/ WriteSession(t) \/ DiscardSession(t)
      PROVE  UNCHANGED <<stage, stamp, active>>
  BY <1>5 DEF WriteRaw, WriteSession, DiscardSession
<1>6. CASE Cleanup
  BY <1>4, <1>6 DEF Cleanup, BeginCleanup, ScanRaw, ScanSession, ScanFails,
                    EndCleanup, PassOver, Evict, Unlink, requests
<1>7. CASE Tick \/ UNCHANGED vars
  BY <1>4, <1>7 DEF Tick, vars, requests
<1>8. ASSUME NEW t \in Turn, Stamp(t) PROVE Counted'
  <2>1. \A s : OpenAt(s)' = OpenAt(s) BY <1>8 DEF Stamp, OpenAt, TypeOK
  <2> QED BY <1>8, <2>1 DEF Stamp, Counted
<1> QED BY <1>1, <1>2, <1>3, <1>4, <1>5, <1>6, <1>7, <1>8 DEF Next, Request

-----------------------------------------------------------------------------
(* Time stamps are not ahead of the clock, and files are of registered     *)
(* requests.                                                               *)

(* At the start the clock and all time stamps are 0. *)
LEMMA InitStamped == Init => Stamped
<1> SUFFICES ASSUME Init PROVE Stamped OBVIOUS
<1>1. /\ begun = [now |-> 0, late |-> FALSE] /\ now = 0
      /\ disk = {} /\ listing = {} /\ seen = {}
  BY DEF Init, Asleep
<1>2. \A t \in Turn : stamp[t] <= now BY DEF Init
<1> QED BY <1>1, <1>2 DEF Stamped

(* Every step keeps the time stamps behind the clock. *)
LEMMA NextStamped ==
    ASSUME TypeOK, Stamped, [Next]_vars
    PROVE  Stamped'
<1>1. ASSUME UNCHANGED <<stamp, now>> PROVE \A t \in Turn : stamp'[t] <= now'
  BY <1>1 DEF Stamped
<1>2. ASSUME UNCHANGED <<begun, now>> PROVE begun'.now <= now'
  BY <1>2 DEF Stamped
<1> DEFINE Known == disk \cup listing \cup seen
           Fresh(t) == stage[t] \in {"new", "stamped"}
<1>3. ASSUME Known' \subseteq Known,
             \A t \in Turn : Fresh(t)' => Fresh(t)
      PROVE  \A f \in Known' : ~Fresh(f.turn)'
  <2>1. \A f \in Known : f.turn \in Turn BY FileFields DEF TypeOK
  <2> QED BY <1>3, <2>1 DEF Stamped
<1>4. ASSUME Sleep PROVE begun'.now <= now
  <2>1. begun'.now = 0 BY <1>4 DEF Sleep
  <2> QED BY <2>1, BoundAssumption DEF TypeOK, Time
<1>5. ASSUME NEW t \in Turn, Stamp(t) PROVE Stamped'
  <2>1. \A u \in Turn : stamp'[u] <= now'
    BY <1>5, BoundAssumption DEF Stamp, TypeOK, Stamped, clock, Time
  <2>2. \A u \in Turn : Fresh(u)' => Fresh(u)
    BY <1>5 DEF Stamp, TypeOK
  <2>3. Known' = Known /\ UNCHANGED <<begun, now>>
    BY <1>5 DEF Stamp, scan, clock
  <2> QED BY <1>2, <1>3, <2>1, <2>2, <2>3 DEF Stamped
<1>6. ASSUME NEW t \in Turn, WriteRaw(t) \/ WriteSession(t) PROVE Stamped'
  <2>1. \A f \in disk' : f \in disk \/ f.turn = t
    BY <1>6, FileFields DEF WriteRaw, WriteSession, Dump, Root
  <2>2. stage[t] = "open" BY <1>6 DEF WriteRaw, WriteSession
  <2>3. UNCHANGED <<stage, stamp, begun, now, listing, seen>>
    BY <1>6 DEF WriteRaw, WriteSession, scan, clock
  <2> QED BY <1>1, <1>2, <2>1, <2>2, <2>3 DEF Stamped
<1>7. ASSUME NEW t \in Turn, DiscardSession(t) PROVE Stamped'
  <2>1. Known' \subseteq Known /\ UNCHANGED <<stage, stamp, begun, now>>
    BY <1>7 DEF DiscardSession, scan, clock
  <2> QED BY <1>1, <1>2, <1>3, <2>1 DEF Stamped
<1>8. ASSUME NEW t \in Turn, Register(t) \/ Finish(t) PROVE Stamped'
  <2>1. \A u \in Turn : Fresh(u)' => Fresh(u)
    BY <1>8 DEF Register, Finish, TypeOK
  <2>2. Known' = Known /\ UNCHANGED <<stamp, begun, now>>
    BY <1>8 DEF Register, Finish, scan, clock
  <2> QED BY <1>1, <1>2, <1>3, <2>1, <2>2 DEF Stamped
<1>9. CASE Cleanup
  <2>1. UNCHANGED <<stage, stamp, now>>
    BY <1>9 DEF Cleanup, BeginCleanup, ScanRaw, ScanSession, ScanFails,
                EndCleanup, PassOver, Evict, Unlink, requests, clock
  <2>2. \/ begun' = begun \/ Sleep \/ begun' = [now |-> now, late |-> late]
    BY <1>9 DEF Cleanup, BeginCleanup, ScanRaw, ScanSession, ScanFails,
                EndCleanup, PassOver, Evict, Unlink
  <2>3. begun'.now <= now'
    BY <1>4, <2>1, <2>2, BoundAssumption DEF Stamped, TypeOK, Time
  <2>4. Known' \subseteq Known
    BY <1>9 DEF Cleanup, BeginCleanup, ScanRaw, ScanSession, ScanFails, Sleep,
                EndCleanup, PassOver, Evict, Unlink, Under, Found
  <2> QED BY <1>1, <1>3, <2>1, <2>3, <2>4 DEF Stamped
<1>10. CASE Tick
  <2>1. now' >= now /\ now' \in Int
    BY <1>10, BoundAssumption DEF Tick, TypeOK, Time
  <2>2. UNCHANGED <<stage, stamp, disk, begun, listing, seen>>
    BY <1>10 DEF Tick, requests, scan
  <2>3. begun.now \in Int /\ now \in Int /\ \A t \in Turn : stamp[t] \in Int
    BY BoundAssumption DEF TypeOK, Time
  <2> QED BY <2>1, <2>2, <2>3 DEF Stamped
<1>11. CASE Crash
  <2>1. \A u \in Turn : Fresh(u)' => Fresh(u)
    BY <1>11 DEF Crash, TypeOK
  <2>2. Known' \subseteq Known BY <1>11 DEF Crash, Sleep
  <2> QED BY <1>1, <1>3, <1>4, <1>11, <2>1, <2>2 DEF Crash, Stamped, clock
<1>12. CASE UNCHANGED vars
  BY <1>1, <1>2, <1>12 DEF vars, requests, clock, scan, Stamped
<1> QED BY <1>5, <1>6, <1>7, <1>8, <1>9, <1>10, <1>11, <1>12 DEF Next, Request

-----------------------------------------------------------------------------
(* While a cleanup holds the lock, no request of the time stamp it removes *)
(* is open, nor can one be registered.                                     *)

(* A turn that is evicted has nothing open, and is the oldest considered.  *)
LEMMA EvictedIsClosed ==
    ASSUME TypeOK, Counted, NEW s \in Time, Evict(s)
    PROVE  /\ OpenAt(s) = {} /\ s \notin protected /\ ~InFuture(s)
           /\ \A u \in queue' : s < u
<1>1. active[s] = 0 /\ s \notin protected /\ ~InFuture(s) BY DEF Evict, Held
<1>2. OpenAt(s) = {} BY <1>1, OpenFinite, FS_EmptySet DEF Counted
<1>3. \A u \in queue' : u # s /\ s <= u /\ u \in Int /\ s \in Int
  BY DEF Evict, Oldest, TypeOK, Time
<1> QED BY <1>1, <1>2, <1>3

(* Every step keeps the files under removal to one closed time stamp.      *)
LEMMA NextUnlinking ==
    ASSUME TypeOK, Counted, Stamped, Unlinking, [Next]_vars
    PROVE  Unlinking'
<1> DEFINE Closed(s) == /\ removing \subseteq Group(s) /\ OpenAt(s) = {}
                        /\ s \notin protected /\ ~InFuture(s)
                        /\ \A u \in queue : s < u
<1>1. ASSUME NEW t \in Turn, Request(t) PROVE Unlinking'
  <2>1. UNCHANGED <<phase, begun, protected, seen, queue, removing>>
    BY <1>1 DEF Request, Stamp, Register, WriteRaw, WriteSession, DiscardSession,
                Finish, scan
  <2> SUFFICES ASSUME phase = "unlink", NEW s \in Time, Closed(s)
               PROVE  Closed(s)'
    BY <2>1 DEF Unlinking
  <2>2. ~Register(t) BY DEF Register, Locked
  <2>3. \A f \in removing : f \in seen /\ stamp[f.turn] = s BY DEF Group
  <2>4. ASSUME NEW f \in removing PROVE stamp'[f.turn] = s
    <3>1. f.turn \in Turn /\ stage[f.turn] # "new"
      BY <2>3, FileFields DEF TypeOK, Stamped
    <3>2. stamp'[f.turn] = stamp[f.turn]
      BY <1>1, <2>2, <3>1 DEF Request, Stamp, WriteRaw, WriteSession,
                              DiscardSession, Finish, TypeOK
    <3> QED BY <2>3, <3>2
  <2>5. \A u \in Turn : stage'[u] = "open" => stage[u] = "open" /\ stamp'[u] = stamp[u]
    BY <1>1, <2>2 DEF Request, Stamp, WriteRaw, WriteSession, DiscardSession,
                      Finish, TypeOK
  <2>6. OpenAt(s)' = {} BY <2>5 DEF OpenAt
  <2>7. removing' \subseteq Group(s)' BY <2>1, <2>3, <2>4 DEF Group
  <2>8. ~InFuture(s)' BY <2>1 DEF InFuture, NotBefore
  <2> QED BY <2>1, <2>6, <2>7, <2>8
<1>2. ASSUME NEW s \in Time, Evict(s) PROVE Unlinking'
  <2>1. phase' = "unlink" /\ removing' = Group(s)
        /\ UNCHANGED <<stage, stamp, begun, protected, seen>>
    BY <1>2 DEF Evict, requests
  <2>2. Group(s)' = Group(s) /\ OpenAt(s)' = OpenAt(s)
        /\ (InFuture(s)' <=> InFuture(s))
    BY <2>1 DEF Group, OpenAt, InFuture, NotBefore
  <2> QED BY <1>2, <2>1, <2>2, EvictedIsClosed DEF Unlinking
<1>3. ASSUME NEW f \in removing, Unlink(f) PROVE Unlinking'
  <2>1. /\ removing' = removing \ {f}
        /\ phase' = IF removing' = {} THEN "evict" ELSE "unlink"
        /\ UNCHANGED <<stage, stamp, begun, protected, seen, queue>>
    BY <1>3 DEF Unlink, requests
  <2>2. PICK s \in Time : Closed(s) BY <1>3 DEF Unlinking, Unlink
  <2>3. Group(s)' = Group(s) /\ OpenAt(s)' = OpenAt(s)
        /\ (InFuture(s)' <=> InFuture(s))
    BY <2>1 DEF Group, OpenAt, InFuture, NotBefore
  <2>4. Closed(s)' BY <2>1, <2>2, <2>3
  <2> HIDE DEF Closed
  <2>5. phase' # "unlink" => removing' = {} BY <2>1
  <2> QED BY <2>4, <2>5 DEF Unlinking, Closed
<1>4. CASE Tick \/ UNCHANGED vars
  <2>1. UNCHANGED <<phase, stage, stamp, begun, protected, seen, queue, removing>>
    BY <1>4 DEF Tick, vars, requests, scan
  <2> QED BY <2>1 DEF Unlinking, Group, OpenAt, InFuture, NotBefore
<1>5. CASE BeginCleanup \/ ScanRaw \/ ScanSession \/ \E s \in Time : PassOver(s)
  <2>1. phase # "unlink" /\ phase' # "unlink" /\ removing' = removing
    BY <1>5 DEF BeginCleanup, ScanRaw, ScanSession, PassOver
  <2> QED BY <2>1 DEF Unlinking
<1>6. CASE ScanFails \/ EndCleanup \/ Crash
  BY <1>6 DEF ScanFails, EndCleanup, Crash, Sleep, Unlinking
<1> QED BY <1>1, <1>2, <1>3, <1>4, <1>5, <1>6 DEF Next, Cleanup

-----------------------------------------------------------------------------
(* A running cleanup has found what is left of the requests that were      *)
(* over when it began.                                                     *)

(* A request of an earlier millisecond than the cleanup is not in the      *)
(* future of it.                                                           *)
LEMMA EarlierNotInFuture ==
    ASSUME TypeOK, NEW s \in Time, s < begun.now
    PROVE  ~InFuture(s)
<1>1. s \in Int /\ begun.now \in Int BY DEF TypeOK, Time
<1>2. ~(s > begun.now) /\ ~(s >= begun.now) BY <1>1
<1> QED BY <1>2 DEF InFuture, NotBefore

(* A cleanup passes over no time stamp of a request it must remove.        *)
LEMMA PassedOverIsLater ==
    ASSUME TypeOK, Counted, Covered, NEW s \in Time, PassOver(s)
    PROVE  s \in protected \cup missed \/ ~(s < begun.now)
<1> SUFFICES ASSUME s \notin protected \cup missed, s < begun.now PROVE FALSE OBVIOUS
<1>1. active[s] # 0 BY EarlierNotInFuture DEF PassOver, Held
<1>2. OpenAt(s) # {} BY <1>1, FS_EmptySet DEF Counted
<1>3. PICK t \in Turn : stage[t] = "open" /\ stamp[t] = s BY <1>2 DEF OpenAt
<1>4. Earlier(t) BY <1>3 DEF Earlier
<1> QED BY <1>3, <1>4 DEF Covered, PassOver

(* What a request does leaves Covered true. *)
LEMMA RequestCovered ==
    ASSUME TypeOK, Stamped, Covered, NEW t \in Turn, Request(t)
    PROVE  Covered'
<1>1. UNCHANGED <<phase, begun, protected, listing, seen, queue, removing, stuck, missed>>
  BY DEF Request, Stamp, Register, WriteRaw, WriteSession, DiscardSession, Finish, scan
<1> SUFFICES ASSUME phase # "idle" PROVE Covered'
  BY <1>1 DEF Covered
<1>2. CASE Stamp(t)
  <2>1. stage[t] = "new" /\ stage'[t] = "stamped" /\ stamp'[t] = now /\ disk' = disk
    BY <1>2 DEF Stamp, TypeOK
  <2>2. \A u \in Turn \ {t} : stage'[u] = stage[u] /\ stamp'[u] = stamp[u]
    BY <1>2 DEF Stamp, TypeOK
  <2>3. now \in Int /\ begun.now \in Int /\ begun.now <= now
    BY DEF TypeOK, Time, Stamped
  <2>4. ~Earlier(t)' BY <1>1, <2>1, <2>3 DEF Earlier
  <2>5. \A u \in Turn \ {t} : Earlier(u)' <=> Earlier(u)
    BY <1>1, <2>2 DEF Earlier
  <2>6. \A f \in disk' : f \in disk /\ f.turn \in Turn \ {t}
    BY <2>1, FileFields DEF Stamped, TypeOK
  <2> QED BY <1>1, <2>2, <2>4, <2>5, <2>6 DEF Covered, FoundSoFar
<1>3. ASSUME WriteRaw(t) \/ WriteSession(t) \/ DiscardSession(t) PROVE Covered'
  <2>1. stage[t] = "open" /\ UNCHANGED <<stage, stamp>>
    BY <1>3 DEF WriteRaw, WriteSession, DiscardSession
  <2>2. ~Earlier(t) BY <2>1 DEF Covered
  <2>3. \A f \in disk' : f \in disk \/ f.turn = t
    BY <1>3, FileFields DEF WriteRaw, WriteSession, DiscardSession, Dump, Root
  <2>4. \A u \in Turn : Earlier(u)' <=> Earlier(u) BY <1>1, <2>1 DEF Earlier
  <2>5. \A f \in disk : f.turn \in Turn BY FileFields DEF TypeOK
  <2> QED BY <1>1, <2>1, <2>2, <2>3, <2>4, <2>5 DEF Covered, FoundSoFar
<1>4. CASE Finish(t)
  <2>1. stage[t] = "open" /\ UNCHANGED <<stamp, disk>> BY <1>4 DEF Finish
  <2>2. \A u \in Turn : \/ stage'[u] = stage[u]
                        \/ stage[u] = "open" /\ stage'[u] = "done"
    BY <1>4 DEF Finish, TypeOK
  <2>3. \A u \in Turn : Earlier(u)' <=> Earlier(u)
    BY <1>1, <2>1, <2>2 DEF Earlier
  <2>4. \A f \in disk : f.turn \in Turn BY FileFields DEF TypeOK
  <2> QED BY <1>1, <2>1, <2>2, <2>3, <2>4 DEF Covered, FoundSoFar
<1>5. CASE Register(t)
  <2>1. stage[t] = "stamped" /\ UNCHANGED <<stamp, disk>> BY <1>5 DEF Register
  <2>2. ~Earlier(t) BY <2>1 DEF Covered
  <2>3. \A u \in Turn \ {t} : stage'[u] = stage[u] BY <1>5 DEF Register, TypeOK
  <2>4. ~Earlier(t)' BY <1>1, <2>1, <2>2 DEF Earlier
  <2>5. \A u \in Turn \ {t} : Earlier(u)' <=> Earlier(u)
    BY <1>1, <2>1, <2>3 DEF Earlier
  <2>6. \A f \in disk : f.turn \in Turn BY FileFields DEF TypeOK
  <2> QED BY <1>1, <2>1, <2>3, <2>4, <2>5, <2>6 DEF Covered, FoundSoFar
<1> QED BY <1>2, <1>3, <1>4, <1>5 DEF Request

(* What the cleanup does leaves Covered true. *)
LEMMA CleanupCovered ==
    ASSUME TypeOK, Counted, Stamped, Unlinking, Covered, Cleanup
    PROVE  Covered'
<1>1. \A f \in disk : f.turn \in Turn /\ f.root \in Root
  BY FileFields DEF TypeOK
<1>2. CASE BeginCleanup
  <2>1. ASSUME NEW t \in Turn, Earlier(t)' PROVE stage'[t] = "done"
    <3>1. /\ stage'[t] = stage[t] /\ stage[t] # "new" /\ active[stamp[t]] = 0
          /\ stage[t] # "stamped"
      BY <1>2, <2>1 DEF BeginCleanup, Earlier, requests, TypeOK
    <3> QED BY <3>1, OpenCounted DEF TypeOK
  <2>2. ASSUME NEW f \in disk' PROVE FoundSoFar(f)'
    BY <1>2, <2>2 DEF BeginCleanup, FoundSoFar, Under
  <2> QED BY <2>1, <2>2 DEF Covered
<1>3. CASE ScanRaw
  <2>1. UNCHANGED <<stage, stamp, disk, begun, protected, missed>> /\ phase = "raw"
    BY <1>3 DEF ScanRaw, requests
  <2>2. \A t : Earlier(t)' <=> Earlier(t) BY <2>1 DEF Earlier
  <2>3. ASSUME NEW f \in disk, Earlier(f.turn) PROVE FoundSoFar(f)'
    <3>1. CASE f.root = "raw"
      <4>1. f \in listing BY <2>1, <2>3, <3>1 DEF Covered, FoundSoFar
      <4>2. f \in seen' BY <1>3, <4>1 DEF ScanRaw, Found
      <4> QED BY <1>3, <3>1, <4>2 DEF ScanRaw, FoundSoFar
    <3>2. CASE f.root = "session"
      BY <1>3, <3>2 DEF ScanRaw, FoundSoFar, Under
    <3> QED BY <1>1, <3>1, <3>2 DEF Root
  <2> QED BY <2>1, <2>2, <2>3 DEF Covered
<1>4. CASE ScanSession
  <2>1. UNCHANGED <<stage, stamp, disk, begun, protected, missed>> /\ phase = "session"
    BY <1>4 DEF ScanSession, requests
  <2>2. \A t : Earlier(t)' <=> Earlier(t) BY <2>1 DEF Earlier
  <2>3. ASSUME NEW f \in disk, Earlier(f.turn) PROVE FoundSoFar(f)'
    <3>1. f \in IF f.root = "raw" THEN seen ELSE listing
      BY <2>1, <2>3 DEF Covered, FoundSoFar
    <3>2. PICK F \in SUBSET (listing \cup Under("session")) :
                /\ listing \cap disk \subseteq F
                /\ seen' = seen \cup F
                /\ queue' = {stamp[g.turn] : g \in seen \cup F}
      BY <1>4 DEF ScanSession, Found
    <3>3. f \in seen' BY <2>3, <3>1, <3>2
    <3>4. stamp[f.turn] \in queue' BY <3>2, <3>3
    <3> QED BY <1>4, <2>1, <3>3, <3>4 DEF ScanSession, FoundSoFar
  <2> QED BY <2>1, <2>2, <2>3 DEF Covered
<1>5. CASE ScanFails \/ EndCleanup
  BY <1>5 DEF ScanFails, EndCleanup, Sleep, Covered
<1>6. ASSUME NEW s \in Time, PassOver(s) PROVE Covered'
  <2>1. UNCHANGED <<stage, stamp, disk, phase, begun, protected, seen, removing,
                    stuck, missed>>
    BY <1>6 DEF PassOver, requests
  <2>2. \A t : Earlier(t)' <=> Earlier(t) BY <2>1 DEF Earlier
  <2>3. ASSUME NEW f \in disk, Earlier(f.turn) PROVE FoundSoFar(f)'
    <3>1. phase = "evict" BY <1>6 DEF PassOver
    <3>2. stamp[f.turn] # s BY <1>6, <2>3, PassedOverIsLater DEF Earlier
    <3>3. FoundSoFar(f) BY <2>3, <3>1 DEF Covered
    <3> QED BY <1>6, <2>1, <3>1, <3>2, <3>3 DEF PassOver, FoundSoFar
  <2>4. phase = "evict" BY <1>6 DEF PassOver
  <2> QED BY <2>1, <2>2, <2>3, <2>4 DEF Covered
<1>7. ASSUME NEW s \in Time, Evict(s) PROVE Covered'
  <2>1. /\ UNCHANGED <<stage, stamp, disk, begun, protected, seen, stuck, missed>>
        /\ phase = "evict" /\ phase' = "unlink"
        /\ removing' = Group(s) /\ queue' = queue \ {s} /\ removing = {}
    BY <1>7 DEF Evict, requests, Unlinking
  <2>2. \A t : Earlier(t)' <=> Earlier(t) BY <2>1 DEF Earlier
  <2>3. ASSUME NEW f \in disk, Earlier(f.turn) PROVE FoundSoFar(f)'
    <3>1. f \in seen /\ (stamp[f.turn] \in queue \/ f \in stuck)
      BY <2>1, <2>3 DEF Covered, FoundSoFar
    <3>2. stamp[f.turn] = s => f \in removing' BY <2>1, <3>1 DEF Group
    <3> QED BY <2>1, <3>1, <3>2 DEF FoundSoFar
  <2> QED BY <2>1, <2>2, <2>3 DEF Covered
<1>8. ASSUME NEW g \in removing, Unlink(g) PROVE Covered'
  <2>1. /\ UNCHANGED <<stage, stamp, begun, protected, seen, queue, missed>>
        /\ phase = "unlink" /\ phase' \in {"evict", "unlink"}
        /\ removing' = removing \ {g}
        /\ \/ disk' = disk \ {g} /\ stuck' = stuck
           \/ disk' = disk /\ stuck' = stuck \cup {g}
    BY <1>8 DEF Unlink, requests
  <2>2. \A t : Earlier(t)' <=> Earlier(t) BY <2>1 DEF Earlier
  <2>3. ASSUME NEW f \in disk', Earlier(f.turn) PROVE FoundSoFar(f)'
    <3>1. f \in disk BY <2>1, <2>3
    <3>2. f \in seen /\ (stamp[f.turn] \in queue \/ f \in removing \/ f \in stuck)
      BY <2>1, <2>3, <3>1 DEF Covered, FoundSoFar
    <3>3. f = g => f \in stuck' BY <2>1, <2>3
    <3> QED BY <2>1, <3>2, <3>3 DEF FoundSoFar
  <2>4. disk' \subseteq disk BY <2>1
  <2> QED BY <2>1, <2>2, <2>3, <2>4 DEF Covered
<1> QED BY <1>2, <1>3, <1>4, <1>5, <1>6, <1>7, <1>8 DEF Cleanup

(* So does every other step. *)
LEMMA NextCovered ==
    ASSUME TypeOK, Counted, Stamped, Unlinking, Covered, [Next]_vars
    PROVE  Covered'
<1>1. CASE Tick \/ UNCHANGED vars
  <2>1. UNCHANGED <<stage, stamp, disk, phase, begun, protected, listing, seen,
                    queue, removing, stuck, missed>>
    BY <1>1 DEF Tick, vars, requests, scan
  <2> QED BY <2>1 DEF Covered, Earlier, FoundSoFar
<1>2. CASE Crash BY <1>2 DEF Crash, Sleep, Covered
<1> QED BY <1>1, <1>2, RequestCovered, CleanupCovered DEF Next

-----------------------------------------------------------------------------
(* The inductive invariant holds in every reachable state: the counter of  *)
(* protected turns is exact and a cleanup misses nothing it must handle.   *)
THEOREM Invariant == Spec => []IInv
<1>1. Init => IInv
  <2>1. Init => Covered BY DEF Init, Asleep, Covered
  <2>2. Init => Unlinking BY DEF Init, Asleep, Unlinking
  <2> QED BY <2>1, <2>2, InitType, InitCounted, InitStamped DEF IInv
<1>2. IInv /\ [Next]_vars => IInv'
  BY NextType, NextCounted, NextStamped, NextUnlinking, NextCovered DEF IInv
<1> QED BY <1>1, <1>2, PTL DEF Spec

(* Every variable of the log directories, the counter and the cleanup      *)
(* keeps its type.                                                         *)
THEOREM TypeCorrect == Spec => []TypeOK
<1>1. IInv => TypeOK BY DEF IInv
<1> QED BY <1>1, Invariant, PTL

(* No step but the discarding of an error response takes a file away from  *)
(* a request that is still open: in-flight requests are protected, and     *)
(* requests that share a time stamp protect each other.                    *)
THEOREM InFlight == Spec => InFlightProtected
<1>1. ASSUME IInv, [Next]_vars, NEW t \in Turn,
             stage[t] = "open", stage'[t] = "open", ~DiscardSession(t)
      PROVE  FilesOf(t) \subseteq disk'
  <2>1. ASSUME NEW g \in removing, Unlink(g) PROVE FilesOf(t) \subseteq disk'
    <3>1. PICK s \in Time : removing \subseteq Group(s) /\ OpenAt(s) = {}
      BY <1>1, <2>1 DEF IInv, Unlinking, Unlink
    <3>2. g.turn # t BY <1>1, <3>1 DEF Group, OpenAt
    <3> QED BY <2>1, <3>2 DEF Unlink, FilesOf
  <2>2. ASSUME NEW u \in Turn, DiscardSession(u) PROVE FilesOf(t) \subseteq disk'
    <3>1. u # t BY <1>1, <2>2
    <3>2. FileOf(u, "session", "req").turn = u BY DEF FileOf
    <3> QED BY <2>2, <3>1, <3>2 DEF DiscardSession, FilesOf
  <2>3. ASSUME NEW u \in Turn,
               \/ Stamp(u) \/ Register(u)
               \/ WriteRaw(u) \/ WriteSession(u) \/ Finish(u)
        PROVE  disk \subseteq disk'
    BY <2>3 DEF Stamp, Register, WriteRaw, WriteSession, Finish, Dump
  <2>4. CASE \/ BeginCleanup \/ ScanRaw \/ ScanSession \/ ScanFails \/ EndCleanup
             \/ \E s \in Time : PassOver(s) \/ Evict(s)
             \/ Tick \/ Crash \/ UNCHANGED vars
    BY <2>4 DEF BeginCleanup, ScanRaw, ScanSession, ScanFails, EndCleanup,
                PassOver, Evict, Tick, Crash, vars, FilesOf
  <2>5. disk \subseteq disk' => FilesOf(t) \subseteq disk' BY DEF FilesOf
  <2> QED BY <1>1, <2>1, <2>2, <2>3, <2>4, <2>5 DEF Next, Request, Cleanup
<1>2. IInv /\ [Next]_vars =>
          [\A t \in Turn :
              stage[t] = "open" /\ stage'[t] = "open" /\ ~DiscardSession(t)
                  => FilesOf(t) \subseteq disk']_vars
  BY <1>1
<1> QED BY <1>2, Invariant, PTL DEF Spec, InFlightProtected

(* A step that removes a file of a turn while the lock is held unlinks one *)
(* of its files, and the loop over the files ends with the last of them.   *)
LEMMA RemovalIsUnlink ==
    ASSUME TypeOK, [Next]_vars, NEW t \in Turn, RemovesOf(t)
    PROVE  \E g \in removing : Unlink(g) /\ g.turn = t
<1>1. UNCHANGED requests /\ phase = "unlink" /\ disk' # disk
  BY DEF RemovesOf, FilesOf, Locked
<1>2. ASSUME NEW u \in Turn PROVE ~Request(u)
  <2>1. stage'[u] = stage[u] /\ written'[u] = written[u] BY <1>1 DEF requests
  <2>2. ~Stamp(u) /\ ~Register(u) /\ ~Finish(u)
    BY <2>1 DEF Stamp, Register, Finish, TypeOK
  <2>3. written[u] \in Int BY DEF TypeOK, LogRequestRaw, AllWritten
  <2>4. ~WriteRaw(u) /\ ~WriteSession(u)
    BY <2>1, <2>3 DEF WriteRaw, WriteSession, TypeOK
  <2>5. ~DiscardSession(u)
    BY <2>1, <2>3 DEF DiscardSession, TypeOK, LogResponseSession, AllWritten
  <2> QED BY <2>2, <2>4, <2>5 DEF Request
<1>3. ~Tick /\ ~Crash /\ ~UNCHANGED vars
  BY <1>1 DEF Tick, Crash, vars
<1>4. PICK g \in removing : Unlink(g)
  BY <1>1, <1>2, <1>3 DEF Next, Cleanup, BeginCleanup, ScanRaw, ScanSession,
                          ScanFails, EndCleanup, PassOver, Evict
<1>5. g.turn = t
  BY <1>4 DEF RemovesOf, FilesOf, Unlink
<1> QED BY <1>4, <1>5

(* When the loop over the files of a turn ends, the last one of them has   *)
(* been removed, or could not be.                                          *)
LEMMA LastUnlink ==
    ASSUME [Next]_vars, NEW s, RemovedAll(s)
    PROVE  \E g \in removing : Unlink(g) /\ removing' = {}
<1>1. phase = "unlink" /\ phase' = "evict" BY DEF RemovedAll, Locked
<1>2. ASSUME NEW u \in Turn PROVE ~Request(u)
  BY <1>1 DEF Request, Stamp, Register, WriteRaw, WriteSession, DiscardSession,
              Finish, scan
<1>3. ~Tick /\ ~Crash /\ ~UNCHANGED vars
  BY <1>1 DEF Tick, Crash, Sleep, vars, scan
<1>4. PICK g \in removing : Unlink(g)
  BY <1>1, <1>2, <1>3 DEF Next, Cleanup, BeginCleanup, ScanRaw, ScanSession,
                          ScanFails, EndCleanup, PassOver, Evict
<1> QED BY <1>1, <1>4 DEF Unlink

(* Requests stamped in an earlier millisecond than a cleanup, and not      *)
(* caught between stamp and registration by its snapshot, have no file     *)
(* left when the cleanup has removed their turn, but for those it failed   *)
(* to remove.                                                              *)
THEOREM EarlierTogether == Spec => EarlierRemovedTogether
<1>1. ASSUME IInv, [Next]_vars, NEW t \in Turn, RemovedAll(stamp[t]),
             stamp[t] < begun.now, stamp[t] \notin missed,
             NEW f \in disk', f.turn = t
      PROVE  f \in stuck'
  <2>1. PICK g \in removing : Unlink(g) /\ removing' = {}
    BY <1>1, LastUnlink
  <2>2. removing = {g} /\ phase = "unlink" BY <2>1 DEF Unlink
  <2>3. \/ disk' = disk \ {g} /\ stuck' = stuck
        \/ disk' = disk /\ stuck' = stuck \cup {g}
    BY <2>1 DEF Unlink
  <2>4. PICK s \in Time : /\ removing \subseteq Group(s) /\ s \notin protected
                          /\ \A u \in queue : s < u
    BY <1>1, <2>2 DEF IInv, Unlinking
  <2>5. stamp[t] = s BY <1>1, <2>2, <2>4 DEF RemovedAll, Group
  <2>6. f \in disk BY <1>1, <2>3
  <2>7. Earlier(t) BY <1>1, <2>4, <2>5, <2>6 DEF Earlier, IInv, Stamped
  <2>8. s \in queue \/ f \in removing \/ f \in stuck
    BY <1>1, <2>2, <2>5, <2>6, <2>7 DEF IInv, Covered, FoundSoFar
  <2>9. s \notin queue BY <2>4 DEF Time
  <2> QED BY <1>1, <2>2, <2>3, <2>8, <2>9
<1>2. IInv /\ [Next]_vars =>
          [\A t \in Turn :
              RemovedAll(stamp[t]) /\ stamp[t] < begun.now /\ stamp[t] \notin missed
                  => {f \in disk' : f.turn = t} \subseteq stuck']_vars
  BY <1>1
<1> QED BY <1>2, Invariant, PTL DEF Spec, EarlierRemovedTogether

(* A cleanup removes a file of a turn only when nothing older is left but  *)
(* what was open or just stamped when it began or could not be removed.    *)
THEOREM OldestGoFirst == Spec => OldestFirst
<1>1. ASSUME IInv, [Next]_vars, NEW t \in Turn, RemovesOf(t),
             NEW f \in disk', stamp[f.turn] < stamp[t],
             stamp[f.turn] \notin protected \cup missed
      PROVE  f \in stuck'
  <2>1. PICK g \in removing : Unlink(g) /\ g.turn = t
    BY <1>1, RemovalIsUnlink DEF IInv
  <2>2. phase = "unlink" /\ disk' \subseteq disk /\ stuck \subseteq stuck'
    BY <2>1 DEF Unlink
  <2>3. PICK s \in Time : /\ removing \subseteq Group(s) /\ ~InFuture(s)
                          /\ \A u \in queue : s < u
    BY <1>1, <2>2 DEF IInv, Unlinking
  <2>4. stamp[t] = s BY <2>1, <2>3 DEF Group
  <2>5. f \in disk /\ f.turn \in Turn BY <1>1, <2>2, FileFields DEF IInv, TypeOK
  <2>6. s \in Int /\ stamp[f.turn] \in Int /\ begun.now \in Int /\ queue \subseteq Int
    BY <1>1, <2>5 DEF IInv, TypeOK, Time
  <2>7. stamp[f.turn] < begun.now
    BY <1>1, <2>3, <2>4, <2>6 DEF InFuture, NotBefore
  <2>8. Earlier(f.turn) BY <1>1, <2>5, <2>7 DEF Earlier, IInv, Stamped
  <2>9. stamp[f.turn] \in queue \/ f \in removing \/ f \in stuck
    BY <1>1, <2>2, <2>5, <2>8 DEF IInv, Covered, FoundSoFar
  <2>10. stamp[f.turn] \notin queue BY <1>1, <2>3, <2>4, <2>6
  <2>11. f \notin removing BY <1>1, <2>3, <2>4, <2>6 DEF Group
  <2> QED BY <2>2, <2>9, <2>10, <2>11
<1>2. IInv /\ [Next]_vars =>
          [\A t \in Turn :
              RemovesOf(t) => \A f \in disk' :
                  stamp[f.turn] < stamp[t] =>
                      f \in stuck' \/ stamp[f.turn] \in protected \cup missed]_vars
  BY <1>1
<1> QED BY <1>2, Invariant, PTL DEF Spec, OldestFirst

-----------------------------------------------------------------------------
(* What a cleanup delivers needs a second invariant, on the weight of what *)
(* it has found:                                                           *)
(*   Past     every file on disk or found by the cleanup is of a write its *)
(*            request has come to, so that no write brings a file back;    *)
(*   Weighed  the count of bytes is not below the files that are left of   *)
(*            those found: in the turns still to consider, in the one      *)
(*            under removal, or on disk.                                   *)

WriteOf(f) ==
    IF f.part = "req"
    THEN IF f.root = "raw" THEN LogRequestRaw ELSE LogRequestSession
    ELSE IF f.root = "raw" THEN LogResponseRaw ELSE LogResponseSession

Past ==
    /\ \A t \in Turn : stage[t] \in {"new", "stamped"} => written[t] = LogRequestRaw
    /\ \A f \in disk \cup listing \cup seen : WriteOf(f) < written[f.turn]

LeftOf == {f \in seen : f \in disk \/ stamp[f.turn] \in queue \/ f \in removing}

Weighed == phase \in {"evict", "unlink"} => Cardinality(LeftOf) <= total

(* The write of a file is one of the four of a turn. *)
LEMMA WriteOfFile ==
    /\ \A f \in File : WriteOf(f) \in Nat
    /\ \A t \in Turn : /\ WriteOf(FileOf(t, "raw", "req")) = LogRequestRaw
                       /\ WriteOf(FileOf(t, "session", "req")) = LogRequestSession
                       /\ WriteOf(FileOf(t, "raw", "res")) = LogResponseRaw
                       /\ WriteOf(FileOf(t, "session", "res")) = LogResponseSession
BY DEF WriteOf, FileOf, LogRequestRaw, LogRequestSession, LogResponseRaw,
       LogResponseSession

(* Every file that appears is that of the write the request has come to. *)
LEMMA WritesInOrder ==
    ASSUME TypeOK, NEW t \in Turn, Request(t), NEW f \in disk', f \notin disk
    PROVE  f.turn = t /\ WriteOf(f) = written[t] /\ written'[t] = written[t] + 1
<1>1. CASE WriteRaw(t)
  BY <1>1, FileFields, WriteOfFile DEF WriteRaw, Dump, TypeOK, Root
<1>2. CASE WriteSession(t)
  BY <1>2, FileFields, WriteOfFile DEF WriteSession, Dump, TypeOK, Root
<1> QED BY <1>1, <1>2 DEF Request, Stamp, Register, DiscardSession, Finish

(* A request's writes go forward, and the first one follows its admission. *)
LEMMA WritesGoForward ==
    ASSUME TypeOK, Past, NEW t \in Turn, Request(t)
    PROVE  /\ \A u \in Turn : written[u] <= written'[u]
           /\ \A u \in Turn : stage'[u] \in {"new", "stamped"} =>
                  stage[u] \in {"new", "stamped"} /\ written'[u] = written[u]
           /\ \A u \in Turn : stage[u] # "new" => stamp'[u] = stamp[u]
<1>1. \A u \in Turn : written[u] \in Int /\ written[u] <= AllWritten
  BY DEF TypeOK, LogRequestRaw, AllWritten
<1>2. CASE Stamp(t) BY <1>1, <1>2 DEF Stamp, TypeOK
<1>7. CASE Register(t) BY <1>1, <1>7 DEF Register, TypeOK
<1>3. CASE WriteRaw(t) BY <1>1, <1>3 DEF WriteRaw, TypeOK
<1>4. CASE WriteSession(t) BY <1>1, <1>4 DEF WriteSession, TypeOK
<1>5. CASE DiscardSession(t) BY <1>1, <1>5 DEF DiscardSession, TypeOK
<1>6. CASE Finish(t) BY <1>1, <1>6 DEF Finish, TypeOK
<1> QED BY <1>2, <1>3, <1>4, <1>5, <1>6, <1>7 DEF Request

(* Files are written once, whatever the cleanup has removed meanwhile. *)
LEMMA NextPast ==
    ASSUME TypeOK, TypeOK', Past, [Next]_vars
    PROVE  Past'
<1>1. /\ disk \cup listing \cup seen \subseteq File
      /\ disk' \cup listing' \cup seen' \subseteq File
  BY DEF TypeOK
<1>2. \A u \in Turn : written[u] \in Int /\ written'[u] \in Int
  BY DEF TypeOK, LogRequestRaw, AllWritten
<1>3. ASSUME NEW t \in Turn, Request(t) PROVE Past'
  <2>1. listing' = listing /\ seen' = seen
    BY <1>3 DEF Request, Stamp, Register, WriteRaw, WriteSession, DiscardSession,
                Finish, scan
  <2>2. ASSUME NEW f \in disk' \cup listing' \cup seen'
        PROVE  WriteOf(f) < written'[f.turn]
    <3>1. f.turn \in Turn /\ WriteOf(f) \in Int BY <1>1, FileFields, WriteOfFile
    <3>2. CASE f \in disk \cup listing \cup seen
      <4>1. WriteOf(f) < written[f.turn] BY <3>2 DEF Past
      <4> QED BY <1>2, <1>3, <3>1, <4>1, WritesGoForward
    <3>3. CASE f \in disk' /\ f \notin disk
      <4>1. f.turn = t /\ WriteOf(f) = written[t] /\ written'[t] = written[t] + 1
        BY <1>3, <3>3, WritesInOrder
      <4> QED BY <1>2, <4>1
    <3> QED BY <2>1, <3>2, <3>3
  <2> QED BY <1>3, <2>2, WritesGoForward DEF Past
<1>4. ASSUME written' = written,
             \A t \in Turn : stage'[t] \in {"new", "stamped"} =>
                                 stage[t] \in {"new", "stamped"},
             disk' \cup listing' \cup seen' \subseteq disk \cup listing \cup seen
      PROVE  Past'
  BY <1>4 DEF Past
<1>5. ASSUME Sleep PROVE listing' = {} /\ seen' = {} BY <1>5 DEF Sleep
<1>6. ASSUME Cleanup PROVE Past'
  <2>1. UNCHANGED <<written, stage>> /\ disk' \subseteq disk
    BY <1>6 DEF Cleanup, BeginCleanup, ScanRaw, ScanSession, ScanFails, EndCleanup,
                PassOver, Evict, Unlink, requests
  <2>2. disk' \cup listing' \cup seen' \subseteq disk \cup listing \cup seen
    BY <1>5, <1>6 DEF Cleanup, BeginCleanup, ScanRaw, ScanSession, ScanFails,
                      EndCleanup, PassOver, Evict, Unlink, Under, Found
  <2> QED BY <1>4, <2>1, <2>2
<1>7. CASE Tick \/ UNCHANGED vars
  BY <1>4, <1>7 DEF Tick, vars, requests, scan
<1>8. CASE Crash
  <2>1. \A t \in Turn : stage'[t] \in {"new", "stamped"} =>
                            stage[t] \in {"new", "stamped"}
    BY <1>8 DEF Crash, TypeOK
  <2>2. written' = written /\ disk' \cup listing' \cup seen' = disk
    BY <1>5, <1>8 DEF Crash
  <2> QED BY <1>4, <2>1, <2>2
<1> QED BY <1>3, <1>6, <1>7, <1>8 DEF Next

(* What is left of the files found is finite, and weighs at most as much   *)
(* as any set that holds it.                                               *)
LEMMA LeftFinite ==
    ASSUME TypeOK, NEW S \in SUBSET File
    PROVE  /\ IsFiniteSet(S) /\ Cardinality(S) \in Nat
           /\ \A T \in SUBSET S : Cardinality(T) <= Cardinality(S)
BY FilesFinite, FS_Subset, FS_CardinalityType

(* The count of bytes stays above what is left. *)
LEMMA NextWeighed ==
    ASSUME TypeOK, TypeOK', Past, Unlinking, Weighed, [Next]_vars
    PROVE  Weighed'
<1> USE DEF LeftOf
<1>1. LeftOf \in SUBSET File /\ total \in Int BY DEF TypeOK
<1>2. ASSUME phase \in {"evict", "unlink"}, total' = total, LeftOf' \subseteq LeftOf
      PROVE  Weighed'
  <2>1. LeftOf' \in SUBSET LeftOf BY <1>2
  <2>2. Cardinality(LeftOf') <= Cardinality(LeftOf) BY <1>1, <2>1, LeftFinite
  <2>3. LeftOf' \in SUBSET File BY <1>1, <2>1
  <2>4. Cardinality(LeftOf) \in Nat /\ Cardinality(LeftOf') \in Nat
    BY <1>1, <2>3, LeftFinite
  <2>5. Cardinality(LeftOf') <= total'
    BY <1>1, <1>2, <2>2, <2>4 DEF Weighed
  <2> QED BY <2>5 DEF Weighed
<1>3. ASSUME NEW t \in Turn, Request(t) PROVE Weighed'
  <2>1. UNCHANGED <<phase, seen, queue, removing, total>>
    BY <1>3 DEF Request, Stamp, Register, WriteRaw, WriteSession, DiscardSession,
                Finish, scan
  <2>2. ASSUME NEW f \in seen
        PROVE  /\ f.turn \in Turn /\ stamp'[f.turn] = stamp[f.turn]
               /\ f \in disk' => f \in disk
    <3>1. f \in File /\ f.turn \in Turn /\ WriteOf(f) \in Nat
      BY <2>2, FileFields, WriteOfFile DEF TypeOK
    <3>2. WriteOf(f) < written[f.turn] BY <2>2 DEF Past
    <3>3. stage[f.turn] \notin {"new", "stamped"}
      BY <3>1, <3>2 DEF Past, LogRequestRaw
    <3>4. f \in disk' => f \in disk
      BY <1>3, <3>1, <3>2, WritesInOrder
    <3> QED BY <1>3, <3>1, <3>3, <3>4, WritesGoForward
  <2>3. LeftOf' \subseteq LeftOf BY <2>1, <2>2
  <2> QED BY <1>2, <2>1, <2>3 DEF Weighed
<1>4. CASE BeginCleanup \/ ScanRaw BY <1>4 DEF BeginCleanup, ScanRaw, Weighed
<1>5. CASE ScanSession
  <2>1. seen' \in SUBSET File /\ total' = Cardinality(seen')
    BY <1>5 DEF ScanSession, TypeOK
  <2>2. LeftOf' \in SUBSET seen' OBVIOUS
  <2>3. Cardinality(LeftOf') <= Cardinality(seen') BY <2>1, <2>2, LeftFinite
  <2> QED BY <2>1, <2>3 DEF Weighed
<1>6. CASE ScanFails \/ EndCleanup \/ Crash
  BY <1>6 DEF ScanFails, EndCleanup, Crash, Sleep, Weighed
<1>7. ASSUME NEW s \in Time, PassOver(s) PROVE Weighed'
  <2>1. phase = "evict" /\ total' = total /\ LeftOf' \subseteq LeftOf
    BY <1>7 DEF PassOver, requests
  <2> QED BY <1>2, <2>1
<1>8. ASSUME NEW s \in Time, Evict(s) PROVE Weighed'
  <2>1. /\ phase = "evict" /\ s \in queue /\ queue' \subseteq queue
        /\ removing' = Group(s) /\ UNCHANGED <<seen, stamp, disk, total>>
    BY <1>8 DEF Evict, Oldest, requests
  <2>2. LeftOf' \subseteq LeftOf BY <2>1 DEF Group
  <2> QED BY <1>2, <2>1, <2>2
<1>10. ASSUME NEW f \in removing, Unlink(f) PROVE Weighed'
  <2>1. /\ phase = "unlink" /\ removing' = removing \ {f}
        /\ UNCHANGED <<seen, stamp, queue>>
    BY <1>10 DEF Unlink, requests
  <2>2. f \in seen /\ stamp[f.turn] \notin queue
    <3>1. PICK s \in Time : removing \subseteq Group(s) /\ \A u \in queue : s < u
      BY <2>1 DEF Unlinking
    <3>2. f \in seen /\ stamp[f.turn] = s BY <3>1 DEF Group
    <3> QED BY <3>1, <3>2 DEF Time
  <2>3. CASE disk' = disk /\ total' = total
    <3>1. LeftOf' \subseteq LeftOf BY <2>1, <2>3
    <3> QED BY <1>2, <2>1, <2>3, <3>1
  <2>4. CASE disk' = disk \ {f} /\ total' = total - 1
    <3>1. LeftOf' = LeftOf \ {f} /\ f \in LeftOf BY <2>1, <2>2, <2>4
    <3>2. Cardinality(LeftOf) <= total BY <2>1 DEF Weighed
    <3> HIDE DEF LeftOf
    <3>3. IsFiniteSet(LeftOf) /\ Cardinality(LeftOf) \in Nat BY <1>1, LeftFinite
    <3>4. Cardinality(LeftOf \ {f}) = Cardinality(LeftOf) - 1
      BY <3>1, <3>3, FS_RemoveElement
    <3> QED BY <1>1, <2>4, <3>1, <3>2, <3>3, <3>4 DEF Weighed
  <2> QED BY <1>10, <2>3, <2>4 DEF Unlink
<1>9. CASE Tick \/ UNCHANGED vars
  <2>1. UNCHANGED <<phase, seen, queue, removing, total, disk, stamp>>
    BY <1>9 DEF Tick, vars, requests, scan
  <2> QED BY <2>1 DEF Weighed
<1> QED BY <1>3, <1>4, <1>5, <1>6, <1>7, <1>8, <1>9, <1>10 DEF Next, Cleanup

(* A set of time stamps that is not empty has an oldest one. *)
LessThan == {p \in Nat \X Nat : p[1] < p[2]}

LEMMA OldestExists ==
    ASSUME NEW S \in SUBSET Nat, S # {}
    PROVE  \E s \in S : \A u \in S : s <= u
<1>1. IsWellFoundedOn(LessThan, Nat)
  <2>1. LessThan = OpToRel(<, Nat) BY DEF OpToRel, LessThan
  <2> QED BY <2>1, NatLessThanWellFounded
<1>2. PICK s \in S : \A u \in S : <<u, s>> \notin LessThan
  BY <1>1, WFMin
<1>3. \A u \in S : ~(u < s) BY <1>2 DEF LessThan
<1> QED BY <1>3

(* A cleanup that comes to its end has removed what it had to: every file  *)
(* of a turn before it that is left, not stuck, not protected and not      *)
(* missed between stamp and registration is within retention, and all it   *)
(* found weighs no more than the limit unless no such file is left.        *)
THEOREM CleanupDelivered == Spec => CleanupDelivers
<1> DEFINE Left == {f \in disk : /\ f \notin stuck
                                 /\ stamp[f.turn] \notin protected \cup missed
                                 /\ stamp[f.turn] < begun.now}
           Delivered == /\ \A f \in Left : Retained(stamp[f.turn])
                        /\ Cardinality(seen \cap disk) <= MaxBytes \/ Left = {}
<1>1. ASSUME IInv, Weighed, EndCleanup, NEW f \in Left
      PROVE  Retained(stamp[f.turn]) /\ Cardinality(seen \cap disk) <= MaxBytes
  <2>1. TypeOK /\ phase = "evict" /\ queue \subseteq Nat
    BY <1>1, BoundAssumption DEF IInv, TypeOK, EndCleanup, Time
  <2>2. f \in disk /\ f.turn \in Turn /\ Earlier(f.turn)
    BY <1>1, FileFields DEF IInv, TypeOK, Stamped, Earlier
  <2>3. stamp[f.turn] \in queue
    BY <1>1, <2>1, <2>2 DEF IInv, Covered, FoundSoFar, Unlinking
  <2>4. PICK s \in queue : \A u \in queue : s <= u
    BY <2>1, <2>3, OldestExists
  <2>5. Satisfied(s) BY <1>1, <2>4 DEF EndCleanup, Oldest
  <2>6. s <= stamp[f.turn] /\ s \in Int /\ stamp[f.turn] \in Int
        /\ begun.now - Retention \in Int
    BY <2>1, <2>2, <2>3, <2>4, LimitAssumption DEF TypeOK, Time
  <2>7. Retained(stamp[f.turn])
    BY <2>5, <2>6 DEF Satisfied, Retained, NotBefore
  <2>8. LeftOf \in SUBSET File /\ seen \cap disk \in SUBSET LeftOf
    BY <2>1 DEF LeftOf, TypeOK
  <2>9. /\ Cardinality(seen \cap disk) <= Cardinality(LeftOf)
        /\ Cardinality(LeftOf) \in Nat
    BY <2>1, <2>8, LeftFinite
  <2>10. Cardinality(seen \cap disk) \in Nat
    BY <2>1, <2>8, LeftFinite
  <2>11. Cardinality(LeftOf) <= total /\ total <= MaxBytes /\ total \in Int
    BY <1>1, <2>1, <2>5 DEF Weighed, Satisfied, TypeOK
  <2> QED BY <2>7, <2>9, <2>10, <2>11, LimitAssumption
<1>2. IInv /\ Weighed /\ [Next]_vars => [EndCleanup => Delivered]_vars
  <2> HIDE DEF Left
  <2> SUFFICES ASSUME IInv, Weighed, EndCleanup PROVE Delivered OBVIOUS
  <2> QED BY <1>1
<1>3. Init => Past /\ Weighed
  BY DEF Init, Asleep, Past, Weighed
<1>4. IInv /\ IInv' /\ Past /\ Weighed /\ [Next]_vars => Past' /\ Weighed'
  BY NextPast, NextWeighed DEF IInv
<1> QED BY <1>2, <1>3, <1>4, Invariant, PTL DEF Spec, CleanupDelivers
=============================================================================
