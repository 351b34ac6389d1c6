--------------------------- MODULE LifecycleProofs ---------------------------
(***************************************************************************)
(* That retention keeps the trail of a call whole and completes what it    *)
(* began, that recovery settles what is unfit to be resumed and nothing    *)
(* else, and that user_version tells the columns: for any sessions, tasks, *)
(* calls, retention periods and releases, and wherever the process is      *)
(* stopped.                                                                *)
(***************************************************************************)
EXTENDS Lifecycle, TLAPS, FiniteSetTheorems, SequenceTheorems

CallTypes ==
  /\ now \in Time
  /\ audit \subseteq Record
  /\ artifacts \subseteq [call : Calls, createdAt : Time]
  /\ DOMAIN calls \subseteq Calls
  /\ calls \in [DOMAIN calls -> [session : SessionIds, startedAt : Time]]
  /\ userVersion \in Nat /\ columns \subseteq Nat /\ release \in Releases

FirstOf(c, s, at) == [call |-> c, session |-> s, end |-> FALSE, startedAt |-> at]

(* A call in flight is young, and its first record is there.               *)
FlightsTold ==
  \A c \in DOMAIN calls :
    /\ FirstOf(c, calls[c].session, calls[c].startedAt) \in audit
    /\ calls[c].startedAt \leq now /\ now \leq calls[c].startedAt + MaxCall

(* A last record has its first, of the same session and time, so that one  *)
(* DELETE takes both or none; and an artifact no older, while it is young. *)
EndsTold ==
  \A last \in {a \in audit : a.end} :
    /\ FirstOf(last.call, last.session, last.startedAt) \in audit
    /\ last.startedAt \geq now - MaxCall =>
         \E f \in artifacts : f.call = last.call /\ last.startedAt \leq f.createdAt

(* A retention job spares what is younger than a call can last.            *)
JobSpares ==
  job # NoJob =>
    /\ phase \in {"recovering", "up"}
    /\ DOMAIN job = {"name", "cutoff", "todo"}
    /\ job.name # "recoverSessions" => job.cutoff \in Int /\ job.cutoff \leq now - MaxCall

(* The columns are those of the migrations up to the version, whichever    *)
(* release is asked.                                                       *)
Migrated ==
  /\ \A m \in columns : m \leq userVersion
  /\ \A r \in Releases : \A m \in ToSet(r) : m \leq userVersion => m \in columns
  /\ phase \in {"recovering", "up"} => Pending = {}

IInv == CallTypes /\ FlightsTold /\ EndsTold /\ JobSpares /\ Migrated

(* No migration has been applied to new tables, and none is of version 0.  *)
LEMMA InitIsWhole == Init => IInv
<1> SUFFICES ASSUME Init PROVE IInv
  OBVIOUS
<1>1. CallTypes
  BY LifecycleAssumption DEF Init, CallTypes, Time, LifecycleAssumption
<1>2. FlightsTold /\ EndsTold /\ JobSpares
  BY DEF Init, FlightsTold, EndsTold, JobSpares
<1>3. Migrated
  <2>1. \A r \in Releases : \A m \in ToSet(r) : m \in Nat \ {0}
    BY LifecycleAssumption DEF ToSet, LifecycleAssumption
  <2> QED  BY <2>1 DEF Init, Migrated
<1> QED  BY <1>1, <1>2, <1>3 DEF IInv

(* Every non-empty set of natural numbers has a least member.              *)
LEMMA LeastExists ==
  ASSUME NEW T \in SUBSET Nat, T # {}
  PROVE  \E n \in T : \A m \in T : n \leq m
<1> DEFINE Segments == {0..n : n \in T}
<1>1. IsWellFoundedOn(StrictSubsetOrdering(Nat), FiniteSubsetsOf(Nat))
  BY FS_StrictSubsetOrderingWellFounded
<1>2. Segments \subseteq FiniteSubsetsOf(Nat)
  <2>1. \A n \in T : IsFiniteSet(0..n) /\ 0..n \subseteq Nat
    BY FS_Interval
  <2> QED  BY <2>1 DEF FiniteSubsetsOf
<1>3. Segments # {}
  OBVIOUS
<1> HIDE DEF Segments
<1>4. PICK s \in Segments : \A r \in Segments : <<r, s>> \notin StrictSubsetOrdering(Nat)
  BY <1>1, <1>2, <1>3, WFMin
<1>5. PICK n \in T : s = 0..n
  BY <1>4 DEF Segments
<1>6. ASSUME NEW m \in T, m < n
      PROVE  FALSE
  <2>1. 0..m \in Segments /\ 0..m \subseteq 0..n /\ 0..m \subseteq Nat /\ 0..n \subseteq Nat
    BY <1>6 DEF Segments
  <2>2. n \in 0..n /\ n \notin 0..m
    BY <1>6
  <2>3. <<0..m, 0..n>> \in StrictSubsetOrdering(Nat)
    BY <2>1, <2>2 DEF StrictSubsetOrdering
  <2> QED  BY <1>4, <1>5, <2>1, <2>3
<1> QED  BY <1>6

(* The next migration is the least that is pending.                        *)
LEMMA NextIsLeast ==
  ASSUME CallTypes, Pending # {}
  PROVE  /\ NextMigration \in Pending /\ NextMigration \in Nat
         /\ \A n \in Pending : NextMigration \leq n
<1>1. Pending \in SUBSET Nat
  BY LifecycleAssumption DEF Pending, CallTypes, ToSet, LifecycleAssumption
<1>2. \E m \in Pending : \A n \in Pending : m \leq n
  BY <1>1, LeastExists
<1> QED  BY <1>1, <1>2 DEF NextMigration

(* Of two releases the one has what the other has up to its last.          *)
LEMMA ReleasesAgree ==
  ASSUME NEW q \in Releases, NEW r \in Releases, NEW n \in ToSet(r), NEW m \in ToSet(q), m < n
  PROVE  m \in ToSet(r)
<1>1. /\ q \in Seq(Nat \ {0}) /\ r \in Seq(Nat \ {0})
      /\ \A i, j \in DOMAIN q : i < j => q[i] < q[j]
      /\ \A i \in DOMAIN q \cap DOMAIN r : q[i] = r[i]
  BY LifecycleAssumption DEF LifecycleAssumption
<1>2. PICK i \in DOMAIN r : r[i] = n
  BY DEF ToSet
<1>3. PICK j \in DOMAIN q : q[j] = m
  BY DEF ToSet
<1>4. /\ DOMAIN q = 1..Len(q) /\ DOMAIN r = 1..Len(r) /\ Len(q) \in Nat /\ Len(r) \in Nat
      /\ m \in Nat /\ n \in Nat
  BY <1>1, <1>2, <1>3
<1>5. j \in DOMAIN r
  <2> SUFFICES ASSUME j \notin DOMAIN r PROVE FALSE
    OBVIOUS
  <2>1. i < j /\ i \in DOMAIN q
    BY <1>2, <1>3, <1>4
  <2>2. q[i] = n /\ q[i] < q[j]
    BY <1>1, <1>2, <2>1
  <2> QED  BY <1>3, <1>4, <2>2
<1>6. r[j] = m
  BY <1>1, <1>3, <1>5
<1> QED  BY <1>5, <1>6 DEF ToSet

(* A migration adds what its version says, and all that older ones added   *)
(* is there.                                                               *)
LEMMA MigrationIsWhole ==
  ASSUME IInv, ApplyMigration
  PROVE  IInv'
<1>1. /\ phase = "migrating" /\ Pending # {} /\ phase' = phase
      /\ columns' = columns \cup {NextMigration} /\ userVersion' = NextMigration
      /\ UNCHANGED <<now, sessions, tasks, audit, artifacts, release, calls, job>>
  BY DEF ApplyMigration, tables
<1>2. PICK n \in Nat : n = NextMigration /\ n \in Pending /\ \A m \in Pending : n \leq m
  BY <1>1, NextIsLeast DEF IInv
<1>3. n \in ToSet(release) /\ n > userVersion /\ userVersion \in Nat /\ release \in Releases
  BY <1>2 DEF Pending, IInv, CallTypes
<1>4. Migrated'
  <2>1. ASSUME NEW m \in columns' PROVE m \leq userVersion'
    BY <1>1, <1>2, <1>3, <2>1 DEF IInv, CallTypes, Migrated
  <2>2. ASSUME NEW q \in Releases, NEW m \in ToSet(q), m \leq userVersion'
        PROVE  m \in columns'
    <3>1. m \in Nat
      BY LifecycleAssumption DEF ToSet, LifecycleAssumption
    <3>2. CASE m \leq userVersion
      BY <1>1, <3>2 DEF IInv, Migrated
    <3>3. CASE m = n
      BY <1>1, <1>2, <3>3
    <3>4. CASE ~(m \leq userVersion) /\ m < n
      <4>1. m \in ToSet(release)
        BY <1>3, <3>4, ReleasesAgree
      <4> QED  BY <1>2, <1>3, <3>1, <3>4, <4>1 DEF Pending
    <3> QED  BY <1>1, <1>2, <2>2, <3>1, <3>2, <3>3, <3>4
  <2> QED  BY <1>1, <2>1, <2>2 DEF Migrated
<1>5. CallTypes' /\ FlightsTold' /\ EndsTold' /\ JobSpares'
  BY <1>1, <1>2 DEF IInv, CallTypes, FlightsTold, EndsTold, JobSpares
<1> QED  BY <1>4, <1>5 DEF IInv

(* The process starts, whichever release, and stops.                       *)
LEMMA RestartIsWhole ==
  ASSUME IInv, Stop \/ \E r \in Releases : Start(r)
  PROVE  IInv'
<1>1. CASE Stop
  <2>1. /\ phase' = "down" /\ job' = NoJob /\ DOMAIN calls' = {}
        /\ calls' = [c \in {} |-> 0]
        /\ UNCHANGED <<now, sessions, tasks, audit, artifacts, userVersion, columns, release>>
    BY <1>1 DEF Stop, tables, schema
  <2> QED
    BY <2>1 DEF IInv, CallTypes, FlightsTold, EndsTold, JobSpares, Migrated
<1>2. ASSUME NEW r \in Releases, Start(r)
      PROVE  IInv'
  <2>1. /\ phase = "down" /\ phase' = "migrating" /\ release' = r
        /\ UNCHANGED <<now, sessions, tasks, audit, artifacts, userVersion, columns, calls, job>>
    BY <1>2 DEF Start, tables
  <2> QED
    BY <2>1 DEF IInv, CallTypes, FlightsTold, EndsTold, JobSpares, Migrated
<1> QED  BY <1>1, <1>2

(* Recovery begins with nothing pending, and deletes no record.            *)
LEMMA RecoveryIsWhole ==
  ASSUME IInv, BeginRecovery
  PROVE  IInv'
<1>1. /\ phase = "migrating" /\ Pending = {} /\ phase' = "recovering"
      /\ \E listed : job' = [name |-> "recoverSessions", cutoff |-> now, todo |-> listed]
      /\ UNCHANGED <<now, sessions, tasks, audit, artifacts, userVersion, columns, release, calls>>
  BY DEF BeginRecovery, tables, schema
<1>2. Pending' = Pending
  BY <1>1 DEF Pending
<1>3. DOMAIN job' = {"name", "cutoff", "todo"} /\ job'.name = "recoverSessions"
  BY <1>1
<1> QED
  BY <1>1, <1>2, <1>3 DEF IInv, CallTypes, FlightsTold, EndsTold, JobSpares, Migrated

(* What only changes sessions and tasks has nothing to do with calls.      *)
LEMMA OthersAreWhole ==
  ASSUME IInv,
         UNCHANGED <<now, audit, artifacts, userVersion, columns, release, phase, calls, job>>
  PROVE  IInv'
<1>1. Pending' = Pending
  BY DEF Pending
<1> QED
  BY <1>1 DEF IInv, CallTypes, FlightsTold, EndsTold, JobSpares, Migrated

(* A call leaves its first record as it starts.                            *)
LEMMA StartCallIsWhole ==
  ASSUME IInv, NEW c \in Calls, NEW s \in SessionIds, StartCall(c, s)
  PROVE  IInv'
<1>1. /\ calls' = [d \in DOMAIN calls \cup {c} |->
                     IF d = c THEN [session |-> s, startedAt |-> now] ELSE calls[d]]
      /\ audit' = audit \cup {FirstOf(c, s, now)}
      /\ UNCHANGED <<now, sessions, tasks, artifacts, userVersion, columns, release, phase, job>>
  BY DEF StartCall, schema, FirstOf
<1>2. CallTypes'
  <2>1. FirstOf(c, s, now) \in Record /\ [session |-> s, startedAt |-> now] \in
          [session : SessionIds, startedAt : Time]
    BY DEF IInv, CallTypes, FirstOf, Record
  <2> QED  BY <1>1, <2>1 DEF IInv, CallTypes
<1>3. FlightsTold'
  <2> SUFFICES ASSUME NEW d \in DOMAIN calls'
               PROVE  /\ FirstOf(d, calls'[d].session, calls'[d].startedAt) \in audit'
                      /\ calls'[d].startedAt \leq now' /\ now' \leq calls'[d].startedAt + MaxCall
    BY DEF FlightsTold
  <2>1. CASE d = c
    <3>1. calls'[d] = [session |-> s, startedAt |-> now]
      BY <1>1, <2>1
    <3> QED
      BY <1>1, <2>1, <3>1, LifecycleAssumption DEF IInv, CallTypes, Time, LifecycleAssumption
  <2>2. CASE d # c
    <3>1. d \in DOMAIN calls /\ calls'[d] = calls[d]
      BY <1>1, <2>2
    <3> QED  BY <1>1, <3>1 DEF IInv, FlightsTold
  <2> QED  BY <2>1, <2>2
<1>4. EndsTold'
  <2>1. \A a \in audit' : a.end => a \in audit
    BY <1>1 DEF FirstOf
  <2> QED  BY <1>1, <2>1 DEF IInv, EndsTold
<1>5. JobSpares' /\ Migrated'
  BY <1>1 DEF IInv, JobSpares, Migrated, Pending
<1> QED  BY <1>2, <1>3, <1>4, <1>5 DEF IInv

(* A call that ends has its first record in the trail.                     *)
LEMMA EndCallIsWhole ==
  ASSUME IInv, NEW c \in Calls, EndCall(c)
  PROVE  IInv'
<1> DEFINE new == [call |-> c, session |-> calls[c].session, end |-> TRUE,
                   startedAt |-> calls[c].startedAt]
<1>1. PICK r : r = new
  OBVIOUS
<1> DEFINE artifact == [call |-> c, createdAt |-> now]
<1>2. PICK f : f = artifact
  OBVIOUS
<1>3. /\ c \in DOMAIN calls
      /\ calls' = [d \in DOMAIN calls \ {c} |-> calls[d]]
      /\ audit' = audit \cup {r} /\ artifacts' = artifacts \cup {f}
      /\ UNCHANGED <<now, sessions, tasks, userVersion, columns, release, phase, job>>
  BY <1>1, <1>2 DEF EndCall, schema
<1>4. calls[c] \in [session : SessionIds, startedAt : Time]
  BY <1>3 DEF IInv, CallTypes
<1>5. /\ r \in Record /\ r.call = c /\ r.end /\ r.session = calls[c].session
      /\ r.startedAt = calls[c].startedAt /\ r.startedAt \leq now
      /\ FirstOf(r.call, r.session, r.startedAt) \in audit
  BY <1>1, <1>3, <1>4 DEF IInv, FlightsTold, Record
<1>6. f \in [call : Calls, createdAt : Time] /\ f.call = c /\ f.createdAt = now
  BY <1>2 DEF IInv, CallTypes
<1> HIDE DEF new, artifact
<1>7. CallTypes' /\ FlightsTold'
  BY <1>3, <1>5, <1>6 DEF IInv, CallTypes, FlightsTold
<1>8. EndsTold'
  <2> SUFFICES ASSUME NEW last \in audit', last.end
               PROVE  /\ FirstOf(last.call, last.session, last.startedAt) \in audit'
                      /\ last.startedAt \geq now' - MaxCall =>
                           \E g \in artifacts' : g.call = last.call /\ last.startedAt \leq g.createdAt
    BY DEF EndsTold
  <2>1. CASE last = r
    BY <1>3, <1>5, <1>6, <2>1
  <2>2. CASE last \in audit
    BY <1>3, <2>2 DEF IInv, EndsTold
  <2> QED  BY <1>3, <2>1, <2>2
<1>9. JobSpares' /\ Migrated'
  BY <1>3 DEF IInv, JobSpares, Migrated, Pending
<1> QED  BY <1>7, <1>8, <1>9 DEF IInv

(* A retention job is begun with a cutoff that no call in flight is beyond. *)
LEMMA PruningIsWhole ==
  ASSUME IInv, NEW age \in Ages, PruneSessions(age) \/ PruneAuditRecords(age)
  PROVE  IInv'
<1>1. PICK j : /\ job' = j /\ phase = "up"
               /\ DOMAIN j = {"name", "cutoff", "todo"} /\ j.cutoff = now - age
               /\ UNCHANGED <<now, sessions, tasks, audit, artifacts, userVersion, columns, release,
                              phase, calls>>
  <2>1. \E name, chosen : BeginJob(name, age, chosen)
    BY DEF PruneSessions, PruneAuditRecords
  <2> QED  BY <2>1 DEF BeginJob, Up, tables, schema
<1>2. age \in Nat /\ age \geq MaxCall /\ MaxCall \in Nat /\ now \in Nat
  BY LifecycleAssumption DEF IInv, CallTypes, Time, LifecycleAssumption
<1>3. j.cutoff \in Int /\ j.cutoff \leq now - MaxCall
  BY <1>1, <1>2
<1>4. JobSpares'
  BY <1>1, <1>3 DEF JobSpares
<1> QED
  BY <1>1, <1>4 DEF IInv, CallTypes, FlightsTold, EndsTold, Migrated, Pending

(* Artifacts that are deleted are older than any young call.               *)
LEMMA PruneArtifactsIsWhole ==
  ASSUME IInv, NEW age \in Ages, PruneArtifacts(age)
  PROVE  IInv'
<1>1. /\ artifacts' = {a \in artifacts : ~(a.createdAt < now - age)}
      /\ UNCHANGED <<now, sessions, tasks, audit, userVersion, columns, release, phase, calls, job>>
  BY DEF PruneArtifacts, schema
<1>2. age \in Nat /\ age \geq MaxCall /\ MaxCall \in Nat /\ now \in Nat
  BY LifecycleAssumption DEF IInv, CallTypes, Time, LifecycleAssumption
<1>3. EndsTold'
  <2> SUFFICES ASSUME NEW last \in audit, last.end
               PROVE  /\ FirstOf(last.call, last.session, last.startedAt) \in audit
                      /\ last.startedAt \geq now - MaxCall =>
                           \E g \in artifacts' : g.call = last.call /\ last.startedAt \leq g.createdAt
    BY <1>1 DEF EndsTold
  <2>1. FirstOf(last.call, last.session, last.startedAt) \in audit
    BY DEF IInv, EndsTold
  <2>2. ASSUME last.startedAt \geq now - MaxCall
        PROVE  \E g \in artifacts' : g.call = last.call /\ last.startedAt \leq g.createdAt
    <3>1. PICK g \in artifacts : g.call = last.call /\ last.startedAt \leq g.createdAt
      BY <2>2 DEF IInv, EndsTold
    <3>2. g.createdAt \in Nat /\ last.startedAt \in Nat
      BY DEF IInv, CallTypes, Record, Time
    <3>3. ~(g.createdAt < now - age)
      BY <1>2, <2>2, <3>1, <3>2
    <3> QED  BY <1>1, <3>1, <3>3
  <2> QED  BY <2>1, <2>2
<1>4. CallTypes' /\ FlightsTold' /\ JobSpares' /\ Migrated'
  BY <1>1 DEF IInv, CallTypes, FlightsTold, JobSpares, Migrated, Pending
<1> QED  BY <1>3, <1>4 DEF IInv

(* One statement of a job takes both records of a call or none, and none   *)
(* of a call in flight.                                                    *)
LEMMA JobStepIsWhole ==
  ASSUME IInv, JobStep
  PROVE  IInv'
<1>1. /\ job # NoJob
      /\ UNCHANGED <<now, artifacts, userVersion, columns, release, phase, calls>>
      /\ RowDone \/ UNCHANGED job
      /\ audit' = audit \/ DeleteRecords
  BY DEF JobStep, schema, SettleTask, DeleteTask, DeleteSession, DeleteRecords
<1>2. DOMAIN job = {"name", "cutoff", "todo"}
  BY <1>1 DEF IInv, JobSpares
<1>3. DOMAIN job' = {"name", "cutoff", "todo"} /\ job'.name = job.name /\ job'.cutoff = job.cutoff
  BY <1>1, <1>2 DEF RowDone
<1>4. JobSpares' /\ Migrated'
  BY <1>1, <1>3 DEF IInv, JobSpares, Migrated, Pending
<1>5. CASE audit' = audit
  <2> QED
    BY <1>1, <1>4, <1>5 DEF IInv, CallTypes, FlightsTold, EndsTold
<1>6. CASE DeleteRecords
  <2>1. PICK s : audit' = audit \ Outdated(s) /\ job.name = "pruneAuditRecords"
    BY <1>6 DEF DeleteRecords
  <2>2. job.cutoff \in Int /\ job.cutoff \leq now - MaxCall /\ MaxCall \in Nat /\ now \in Nat
    BY <1>1, <2>1, LifecycleAssumption DEF IInv, JobSpares, CallTypes, Time, LifecycleAssumption
  <2>3. CallTypes'
    BY <1>1, <2>1 DEF IInv, CallTypes
  <2>4. FlightsTold'
    <3> SUFFICES ASSUME NEW c \in DOMAIN calls
                 PROVE  FirstOf(c, calls[c].session, calls[c].startedAt) \in audit'
      BY <1>1 DEF IInv, FlightsTold
    <3>1. calls[c].startedAt \in Nat
      BY DEF IInv, CallTypes, Time
    <3>2. FirstOf(c, calls[c].session, calls[c].startedAt) \in audit
      BY DEF IInv, FlightsTold
    <3>3. now \leq calls[c].startedAt + MaxCall
      BY DEF IInv, FlightsTold
    <3>4. ~(calls[c].startedAt < job.cutoff)
      BY <2>2, <3>1, <3>3
    <3> QED  BY <2>1, <3>2, <3>4 DEF Outdated, FirstOf
  <2>5. EndsTold'
    <3> SUFFICES ASSUME NEW last \in audit', last.end
                 PROVE  /\ FirstOf(last.call, last.session, last.startedAt) \in audit'
                        /\ last.startedAt \geq now - MaxCall =>
                             \E g \in artifacts : g.call = last.call /\ last.startedAt \leq g.createdAt
      BY <1>1 DEF EndsTold
    <3>1. last \in audit /\ last \notin Outdated(s)
      BY <2>1
    <3>2. FirstOf(last.call, last.session, last.startedAt) \in audit
      BY <3>1 DEF IInv, EndsTold
    <3>3. FirstOf(last.call, last.session, last.startedAt) \notin Outdated(s)
      BY <3>1 DEF Outdated, FirstOf
    <3> QED  BY <2>1, <3>1, <3>2, <3>3 DEF IInv, EndsTold
  <2> QED  BY <1>4, <2>3, <2>4, <2>5 DEF IInv
<1> QED  BY <1>1, <1>5, <1>6

(* A job that ends leaves the process up, with nothing pending.            *)
LEMMA JobEndIsWhole ==
  ASSUME IInv, JobEnds
  PROVE  IInv'
<1>1. /\ job # NoJob /\ job' = NoJob /\ phase' = "up"
      /\ UNCHANGED <<now, sessions, tasks, audit, artifacts, userVersion, columns, release, calls>>
  BY DEF JobEnds, tables, schema
<1>2. Pending = {}
  BY <1>1 DEF IInv, JobSpares, Migrated
<1> QED
  BY <1>1, <1>2 DEF IInv, CallTypes, FlightsTold, EndsTold, JobSpares, Migrated, Pending

(* The clock leaves no call in flight behind.                              *)
LEMMA TickIsWhole ==
  ASSUME IInv, Tick
  PROVE  IInv'
<1>1. /\ now < MaxTime /\ now' = now + 1
      /\ \A c \in DOMAIN calls : now < calls[c].startedAt + MaxCall
      /\ UNCHANGED <<sessions, tasks, audit, artifacts, userVersion, columns, release, phase, calls,
                     job>>
  BY DEF Tick, tables, schema
<1>2. now \in Nat /\ MaxTime \in Nat /\ MaxCall \in Nat
  BY LifecycleAssumption DEF IInv, CallTypes, Time, LifecycleAssumption
<1>3. CallTypes'
  BY <1>1, <1>2 DEF IInv, CallTypes, Time
<1>4. FlightsTold'
  <2>1. \A c \in DOMAIN calls : calls[c].startedAt \in Nat
    BY DEF IInv, CallTypes, Time
  <2> QED  BY <1>1, <1>2, <2>1 DEF IInv, FlightsTold
<1>5. EndsTold'
  <2>1. \A a \in audit : a.startedAt \in Nat
    BY DEF IInv, CallTypes, Record, Time
  <2> QED  BY <1>1, <1>2, <2>1 DEF IInv, EndsTold
<1>6. JobSpares'
  BY <1>1, <1>2 DEF IInv, JobSpares
<1>7. Migrated'
  BY <1>1 DEF IInv, Migrated, Pending
<1> QED  BY <1>3, <1>4, <1>5, <1>6, <1>7 DEF IInv

(* Every step keeps the invariant.                                         *)
LEMMA StepIsWhole ==
  ASSUME IInv, [Next]_vars
  PROVE  IInv'
<1>1. ASSUME NEW s \in SessionIds, CreateSession(s)
      PROVE  IInv'
  BY <1>1, OthersAreWhole DEF CreateSession, schema
<1>2. ASSUME NEW t \in TaskIds, NEW s \in SessionIds, NEW d \in Deadlines \cup {NoDeadline},
             CreateTask(t, s, d)
      PROVE  IInv'
  BY <1>2, OthersAreWhole DEF CreateTask, schema
<1>3. ASSUME NEW t \in TaskIds, NEW state \in TaskState, UpdateTaskState(t, state)
      PROVE  IInv'
  BY <1>3, OthersAreWhole DEF UpdateTaskState, schema
<1>4. ASSUME NEW t \in TaskIds, SpendRetries(t)
      PROVE  IInv'
  BY <1>4, OthersAreWhole DEF SpendRetries, schema
<1>5. CASE UNCHANGED vars
  BY <1>5, OthersAreWhole DEF vars, tables, schema
<1>6. CASE Next
  BY <1>1, <1>2, <1>3, <1>4, <1>6, RestartIsWhole, MigrationIsWhole, RecoveryIsWhole,
     StartCallIsWhole, EndCallIsWhole, PruningIsWhole, PruneArtifactsIsWhole, JobStepIsWhole,
     JobEndIsWhole, TickIsWhole DEF Next
<1> QED  BY <1>5, <1>6

(* The invariant holds throughout.                                         *)
LEMMA IsWhole == Spec => []IInv
<1> QED  BY InitIsWhole, StepIsWhole, PTL DEF Spec

-----------------------------------------------------------------------------
(* The tables are finite, and tasks have the columns of Task.              *)
TablesTyped ==
  /\ IsFiniteSet(DOMAIN sessions) /\ DOMAIN sessions \subseteq SessionIds
  /\ IsFiniteSet(DOMAIN tasks) /\ DOMAIN tasks \subseteq TaskIds
  /\ tasks \in [DOMAIN tasks -> Task]

(* A recovery has each unfit task that is stuck once on its list, and      *)
(* nothing else: what it has done is no longer stuck.                      *)
RecoveryOnCourse ==
  /\ job.todo \in Seq(Verdict) /\ job.cutoff \in Nat
  /\ \A i \in DOMAIN job.todo : job.todo[i].task \in Stuck
  /\ \A i, j \in DOMAIN job.todo : job.todo[i].task = job.todo[j].task => i = j
  /\ \A t \in Stuck :
       \/ \E i \in DOMAIN job.todo : job.todo[i].task = t
       \/ tasks[t].retryCount > 0 /\ tasks[t].deadline \geq job.cutoff

(* A pruning has each closed session that is old on its list, whole or in  *)
(* parts.                                                                  *)
PruningOnCourse ==
  /\ job.todo \in Seq(SessionIds)
  /\ \A s \in DOMAIN sessions :
       sessions[s] < job.cutoff /\ Closed(s) => \E i \in DOMAIN job.todo : job.todo[i] = s

(* Recovery is the job of a process that is not up, retention of one that  *)
(* is.                                                                     *)
JobsOnCourse ==
  /\ phase \in {"down", "migrating"} => job = NoJob
  /\ phase = "recovering" => job # NoJob /\ job.name = "recoverSessions"
  /\ phase = "up" /\ job # NoJob => job.name \in {"pruneSessions", "pruneAuditRecords"}
  /\ job # NoJob /\ job.name = "recoverSessions" => RecoveryOnCourse
  /\ job # NoJob /\ job.name = "pruneSessions" => PruningOnCourse

(* A list of a finite set has each member once.                            *)
LEMMA ListsAll ==
  ASSUME NEW S, IsFiniteSet(S), NEW f \in SetToSeqs(S)
  PROVE  /\ f \in Seq(S)
         /\ \A x \in S : \E i \in DOMAIN f : f[i] = x
         /\ \A i, j \in DOMAIN f : f[i] = f[j] => i = j
<1>1. PICK n \in Nat : n = Cardinality(S)
  BY FS_CardinalityType
<1>2. f \in [1..n -> S] /\ \A i, j \in 1..n : i # j => f[i] # f[j]
  BY <1>1 DEF SetToSeqs
<1>3. f \in Injection(1..n, S)
  BY <1>2 DEF Injection, IsInjective
<1>4. IsFiniteSet(1..n) /\ Cardinality(1..n) = n
  BY FS_Interval
<1>5. f \in Surjection(1..n, S)
  BY <1>1, <1>3, <1>4, FS_Injection
<1> QED  BY <1>2, <1>5 DEF Surjection

(* What is left of a list after its first entry.                           *)
LEMMA RestOf ==
  ASSUME NEW S, NEW q \in Seq(S), q # <<>>
  PROVE  /\ 1 \in DOMAIN q /\ Head(q) = q[1] /\ Head(q) \in S /\ Tail(q) \in Seq(S)
         /\ \A i \in DOMAIN Tail(q) : i + 1 \in DOMAIN q /\ Tail(q)[i] = q[i + 1]
         /\ \A i \in DOMAIN q : i # 1 => i - 1 \in DOMAIN Tail(q) /\ Tail(q)[i - 1] = q[i]
<1>1. PICK n \in Nat : n = Len(q) /\ n > 0 /\ DOMAIN q = 1..n
  BY EmptySeq, LenProperties
<1>2. /\ Tail(q) \in Seq(S) /\ Len(Tail(q)) = n - 1 /\ DOMAIN Tail(q) = 1..n - 1
      /\ \A i \in 1..n - 1 : Tail(q)[i] = q[i + 1]
  BY <1>1
<1>3. Head(q) = q[1] /\ q[1] \in S /\ 1 \in DOMAIN q
  BY <1>1
<1> QED  BY <1>1, <1>2, <1>3

(* What leaves sessions, tasks and the job alone keeps the job on course.  *)
LEMMA OthersKeepCourse ==
  ASSUME TablesTyped, JobsOnCourse, UNCHANGED <<sessions, tasks, job>>,
         \/ phase' = phase
         \/ phase = "down" /\ phase' = "migrating"
  PROVE  TablesTyped' /\ JobsOnCourse'
<1>1. TablesTyped'
  BY DEF TablesTyped
<1>2. RecoveryOnCourse' <=> RecoveryOnCourse
  BY DEF RecoveryOnCourse, Stuck
<1>3. PruningOnCourse' <=> PruningOnCourse
  BY DEF PruningOnCourse, Closed, TasksOf
<1> QED  BY <1>1, <1>2, <1>3 DEF JobsOnCourse

(* What ends the job, or the process, changes no table.                    *)
LEMMA EndsKeepCourse ==
  ASSUME TablesTyped, JobsOnCourse, JobEnds \/ Stop
  PROVE  TablesTyped' /\ JobsOnCourse'
<1>1. /\ job' = NoJob /\ phase' \in {"up", "down"}
      /\ UNCHANGED <<sessions, tasks>>
  BY DEF JobEnds, Stop, tables
<1> QED  BY <1>1 DEF TablesTyped, JobsOnCourse

(* A task in another state is a task.                                      *)
LEMMA Retyped ==
  ASSUME TablesTyped, NEW t \in DOMAIN tasks, NEW state \in TaskState
  PROVE  /\ [tasks EXCEPT ![t].state = state] \in [DOMAIN tasks -> Task]
         /\ DOMAIN [tasks EXCEPT ![t].state = state] = DOMAIN tasks
<1>1. [tasks[t] EXCEPT !.state = state] \in Task
  BY DEF TablesTyped, Task
<1> QED  BY <1>1 DEF TablesTyped

(* The handlers run while no job does, and keep the tables typed.          *)
LEMMA HandlersKeepCourse ==
  ASSUME TablesTyped, JobsOnCourse,
         \/ \E s \in SessionIds : CreateSession(s)
         \/ \E t \in TaskIds, s \in SessionIds, d \in Deadlines \cup {NoDeadline} :
              CreateTask(t, s, d)
         \/ \E t \in TaskIds, state \in TaskState : UpdateTaskState(t, state)
         \/ \E t \in TaskIds : SpendRetries(t)
  PROVE  TablesTyped' /\ JobsOnCourse'
<1>1. job = NoJob /\ job' = NoJob /\ phase = "up" /\ phase' = "up"
  BY DEF CreateSession, CreateTask, UpdateTaskState, SpendRetries, Up
<1>2. JobsOnCourse'
  BY <1>1 DEF JobsOnCourse
<1>3. ASSUME NEW s \in SessionIds, CreateSession(s) PROVE TablesTyped'
  <2>1. DOMAIN sessions' = DOMAIN sessions \cup {s} /\ tasks' = tasks
    BY <1>3 DEF CreateSession
  <2> QED  BY <2>1, FS_AddElement DEF TablesTyped
<1>4. ASSUME NEW t \in TaskIds, NEW s \in SessionIds, NEW d \in Deadlines \cup {NoDeadline},
             CreateTask(t, s, d)
      PROVE  TablesTyped'
  <2>1. DOMAIN tasks' = DOMAIN tasks \cup {t} /\ sessions' = sessions
    BY <1>4 DEF CreateTask
  <2>2. [session |-> s, state |-> "pending", deadline |-> d, retryCount |-> 3] \in Task
    BY DEF Task, TaskState
  <2>3. tasks' \in [DOMAIN tasks' -> Task]
    BY <1>4, <2>1, <2>2 DEF CreateTask, TablesTyped
  <2> QED  BY <2>1, <2>3, FS_AddElement DEF TablesTyped
<1>5. ASSUME NEW t \in TaskIds, NEW state \in TaskState, UpdateTaskState(t, state)
      PROVE  TablesTyped'
  BY <1>5, Retyped DEF UpdateTaskState, TablesTyped
<1>6. ASSUME NEW t \in TaskIds, SpendRetries(t) PROVE TablesTyped'
  <2>1. tasks' = [tasks EXCEPT ![t].retryCount = 0] /\ t \in DOMAIN tasks /\ sessions' = sessions
    BY <1>6 DEF SpendRetries
  <2>2. [tasks[t] EXCEPT !.retryCount = 0] \in Task
    BY <2>1 DEF TablesTyped, Task
  <2> QED  BY <2>1, <2>2 DEF TablesTyped
<1> QED  BY <1>2, <1>3, <1>4, <1>5, <1>6

(* Recovery lists what it is to settle.                                    *)
LEMMA RecoveryTakesCourse ==
  ASSUME IInv, TablesTyped, JobsOnCourse, BeginRecovery
  PROVE  TablesTyped' /\ JobsOnCourse'
<1> DEFINE rows == {Settling(t) : t \in Unresumable}
<1>1. /\ phase' = "recovering" /\ UNCHANGED <<now, sessions, tasks>>
      /\ \E listed \in SetToSeqs(rows) :
           job' = [name |-> "recoverSessions", cutoff |-> now, todo |-> listed]
  BY DEF BeginRecovery, tables
<1>2. PICK listed \in SetToSeqs(rows) :
        job' = [name |-> "recoverSessions", cutoff |-> now, todo |-> listed]
  BY <1>1
<1>3. IsFiniteSet(rows)
  <2>1. PICK U : U = Unresumable
    OBVIOUS
  <2>2. IsFiniteSet(U)
    BY <2>1, FS_Subset DEF Unresumable, Stuck, TablesTyped
  <2>3. PICK f : f = [t \in U |-> Settling(t)]
    OBVIOUS
  <2>4. f \in Surjection(U, rows)
    BY <2>1, <2>3 DEF Surjection
  <2> QED  BY <2>2, <2>4, FS_Surjection
<1>4. ASSUME NEW t \in Unresumable
      PROVE  Settling(t) \in Verdict /\ Settling(t).task = t
  BY <1>4 DEF Settling, Verdict, Unresumable, Stuck, TablesTyped
<1>5. rows \subseteq Verdict /\ \A x \in rows : x.task \in Unresumable /\ x = Settling(x.task)
  BY <1>4
<1>6. /\ listed \in Seq(rows)
      /\ \A x \in rows : \E i \in DOMAIN listed : listed[i] = x
      /\ \A i, j \in DOMAIN listed : listed[i] = listed[j] => i = j
  <2> HIDE DEF rows
  <2> QED  BY <1>3, ListsAll
<1> HIDE DEF rows
<1>7. /\ listed \in Seq(Verdict)
      /\ \A i \in DOMAIN listed : listed[i] \in rows
  BY <1>5, <1>6
<1>8. \A t \in Stuck : t \notin Unresumable => tasks[t].retryCount > 0 /\ tasks[t].deadline \geq now
  <2> SUFFICES ASSUME NEW t \in Stuck, t \notin Unresumable
               PROVE  tasks[t].retryCount > 0 /\ tasks[t].deadline \geq now
    OBVIOUS
  <2>1. Classify(tasks[t], now) = "resumable"
    BY DEF Unresumable
  <2>2. tasks[t] \in Task
    BY DEF Stuck, TablesTyped
  <2>3. tasks[t].deadline \in Nat /\ now \in Nat
    BY <2>2, LifecycleAssumption
       DEF Task, LifecycleAssumption, NoDeadline, IInv, CallTypes, Time
  <2> QED  BY <2>1, <2>3 DEF Classify
<1>9. \A t \in Unresumable : \E i \in DOMAIN listed : listed[i].task = t
  BY <1>4, <1>6 DEF rows
<1>10. now \in Nat
  BY LifecycleAssumption DEF LifecycleAssumption, IInv, CallTypes, Time
<1>11. Stuck' = Stuck /\ Unresumable \subseteq Stuck
  BY <1>1 DEF Stuck, Unresumable
<1>12. RecoveryOnCourse'
  BY <1>1, <1>2, <1>5, <1>6, <1>7, <1>8, <1>9, <1>10, <1>11 DEF RecoveryOnCourse
<1>13. job' # NoJob /\ job'.name = "recoverSessions"
  BY <1>2 DEF NoJob
<1> QED  BY <1>1, <1>12, <1>13 DEF TablesTyped, JobsOnCourse

(* Retention lists what it is to delete.                                   *)
LEMMA RetentionTakesCourse ==
  ASSUME TablesTyped, JobsOnCourse, NEW age \in Ages,
         PruneSessions(age) \/ PruneAuditRecords(age)
  PROVE  TablesTyped' /\ JobsOnCourse'
<1>1. phase = "up" /\ phase' = "up" /\ UNCHANGED <<now, sessions, tasks>>
  BY DEF PruneSessions, PruneAuditRecords, BeginJob, Up, tables
<1>2. CASE PruneAuditRecords(age)
  <2>1. job' # NoJob /\ job'.name = "pruneAuditRecords"
    BY <1>2 DEF PruneAuditRecords, BeginJob, NoJob
  <2> QED  BY <1>1, <2>1 DEF TablesTyped, JobsOnCourse
<1>3. CASE PruneSessions(age)
  <2> DEFINE old == {s \in DOMAIN sessions : Old(s, now - age) /\ Closed(s)}
  <2>1. PICK listed \in SetToSeqs(old) :
          job' = [name |-> "pruneSessions", cutoff |-> now - age, todo |-> listed]
    BY <1>3 DEF PruneSessions, BeginJob
  <2>2. old \subseteq SessionIds /\ IsFiniteSet(old)
    BY FS_Subset DEF TablesTyped
  <2>3. listed \in Seq(old) /\ \A x \in old : \E i \in DOMAIN listed : listed[i] = x
    <3> HIDE DEF old
    <3> QED  BY <2>2, ListsAll
  <2>4. listed \in Seq(SessionIds)
    <3> HIDE DEF old
    <3> QED  BY <2>2, <2>3
  <2>5. \A s \in DOMAIN sessions : Closed(s)' = Closed(s)
    BY <1>1 DEF Closed, TasksOf
  <2>6. PruningOnCourse'
    BY <1>1, <2>1, <2>3, <2>4, <2>5 DEF PruningOnCourse, Old
  <2>7. job' # NoJob /\ job'.name = "pruneSessions"
    BY <2>1 DEF NoJob
  <2> QED  BY <1>1, <2>6, <2>7 DEF TablesTyped, JobsOnCourse
<1> QED  BY <1>2, <1>3

(* What a statement leaves of the job that it is of.                       *)
LEMMA RowsLeft ==
  ASSUME IInv, job # NoJob, RowDone
  PROVE  /\ job' # NoJob /\ job'.name = job.name /\ job'.cutoff = job.cutoff
         /\ job'.todo = Tail(job.todo)
<1>1. DOMAIN job = {"name", "cutoff", "todo"}
  BY DEF IInv, JobSpares
<1> QED  BY <1>1 DEF RowDone, NoJob

(* A task that is settled is stuck no longer, and was once on the list.    *)
LEMMA SettlingKeepsCourse ==
  ASSUME IInv, TablesTyped, JobsOnCourse, job # NoJob, job.todo # <<>>, SettleTask, phase' = phase
  PROVE  TablesTyped' /\ JobsOnCourse'
<1>1. /\ job.name = "recoverSessions" /\ sessions' = sessions /\ RowDone
      /\ tasks' = [tasks EXCEPT ![Head(job.todo).task].state = Head(job.todo).state]
  BY DEF SettleTask
<1>2. /\ job' # NoJob /\ job'.name = job.name /\ job'.cutoff = job.cutoff
      /\ job'.todo = Tail(job.todo)
  BY <1>1, RowsLeft
<1>3. RecoveryOnCourse
  BY <1>1 DEF JobsOnCourse
<1>4. PICK q \in Seq(Verdict) : q = job.todo
  BY <1>3 DEF RecoveryOnCourse
<1>5. /\ 1 \in DOMAIN q /\ Head(q) = q[1] /\ Head(q) \in Verdict /\ Tail(q) \in Seq(Verdict)
      /\ \A i \in DOMAIN Tail(q) : i + 1 \in DOMAIN q /\ Tail(q)[i] = q[i + 1]
      /\ \A i \in DOMAIN q : i # 1 => i - 1 \in DOMAIN Tail(q) /\ Tail(q)[i - 1] = q[i]
  BY <1>4, RestOf
<1>6. PICK row \in Verdict : row = Head(q)
  BY <1>5
<1>7. PICK u : u = row.task
  OBVIOUS
<1>8. /\ u \in Stuck /\ u \in DOMAIN tasks /\ row.state \in TaskState /\ row.state \notin Interrupted
      /\ tasks' = [tasks EXCEPT ![u].state = row.state]
  BY <1>1, <1>3, <1>4, <1>5, <1>6, <1>7
     DEF RecoveryOnCourse, Stuck, Verdict, TaskState, Interrupted
<1>9. TablesTyped'
  <2>1. /\ [tasks EXCEPT ![u].state = row.state] \in [DOMAIN tasks -> Task]
        /\ DOMAIN [tasks EXCEPT ![u].state = row.state] = DOMAIN tasks
    BY <1>8, Retyped
  <2> QED  BY <1>1, <1>8, <2>1 DEF TablesTyped
<1>10. /\ DOMAIN tasks' = DOMAIN tasks /\ tasks'[u].state = row.state
       /\ \A t \in DOMAIN tasks : t # u => tasks'[t] = tasks[t]
  BY <1>8 DEF TablesTyped, Task
<1>11. Stuck' = Stuck \ {u} /\ \A t \in Stuck' : tasks'[t] = tasks[t]
  BY <1>8, <1>10 DEF Stuck
<1>12. \A i \in DOMAIN Tail(q) : i \in Nat \ {0}
  BY <1>5
<1>13. ASSUME NEW i \in DOMAIN Tail(q)
       PROVE  Tail(q)[i].task \in Stuck'
  <2>1. i + 1 \in DOMAIN q /\ Tail(q)[i] = q[i + 1] /\ i + 1 # 1
    BY <1>5, <1>12
  <2>2. q[i + 1].task # u
    BY <1>3, <1>4, <1>5, <1>6, <1>7, <2>1 DEF RecoveryOnCourse
  <2> QED  BY <1>3, <1>4, <1>11, <2>1, <2>2 DEF RecoveryOnCourse
<1>14. ASSUME NEW i \in DOMAIN Tail(q), NEW j \in DOMAIN Tail(q), Tail(q)[i].task = Tail(q)[j].task
       PROVE  i = j
  <2>1. /\ i + 1 \in DOMAIN q /\ j + 1 \in DOMAIN q /\ q[i + 1].task = q[j + 1].task
    BY <1>5, <1>14
  <2>2. i + 1 = j + 1
    BY <1>3, <1>4, <2>1 DEF RecoveryOnCourse
  <2> QED  BY <1>12, <2>2
<1>15. ASSUME NEW t \in Stuck'
       PROVE  \/ \E i \in DOMAIN Tail(q) : Tail(q)[i].task = t
              \/ tasks'[t].retryCount > 0 /\ tasks'[t].deadline \geq job.cutoff
  <2>1. t \in Stuck /\ t # u /\ tasks'[t] = tasks[t]
    BY <1>11
  <2>2. CASE \E i \in DOMAIN q : q[i].task = t
    <3>1. PICK i \in DOMAIN q : q[i].task = t
      BY <2>2
    <3>2. i # 1
      BY <1>5, <1>6, <1>7, <2>1, <3>1
    <3> QED  BY <1>5, <3>1, <3>2
  <2> QED  BY <1>3, <1>4, <2>1, <2>2 DEF RecoveryOnCourse
<1>16. RecoveryOnCourse'
  BY <1>2, <1>3, <1>4, <1>5, <1>13, <1>14, <1>15 DEF RecoveryOnCourse
<1> QED  BY <1>1, <1>2, <1>9, <1>16 DEF JobsOnCourse

(* A session whose tasks are being deleted is still listed, and no other   *)
(* has its tasks changed.                                                  *)
LEMMA DeletingTaskKeepsCourse ==
  ASSUME IInv, TablesTyped, JobsOnCourse, job # NoJob, job.todo # <<>>,
         NEW t \in DOMAIN tasks, DeleteTask(t), phase' = phase
  PROVE  TablesTyped' /\ JobsOnCourse'
<1>1. /\ job.name = "pruneSessions" /\ sessions' = sessions /\ job' = job
      /\ tasks' = Without(tasks, t) /\ tasks[t].session = Head(job.todo)
  BY DEF DeleteTask, TasksOf
<1>2. PruningOnCourse
  BY <1>1 DEF JobsOnCourse
<1>3. PICK q \in Seq(SessionIds) : q = job.todo
  BY <1>2 DEF PruningOnCourse
<1>4. 1 \in DOMAIN q /\ Head(q) = q[1]
  BY <1>3, RestOf
<1>5. DOMAIN tasks' = DOMAIN tasks \ {t} /\ \A u \in DOMAIN tasks' : tasks'[u] = tasks[u]
  BY <1>1 DEF Without
<1>6. TablesTyped'
  <2>1. IsFiniteSet(DOMAIN tasks')
    BY <1>5, FS_RemoveElement DEF TablesTyped
  <2>2. tasks' \in [DOMAIN tasks' -> Task]
    BY <1>1, <1>5 DEF TablesTyped, Without
  <2> QED  BY <1>1, <1>5, <2>1, <2>2 DEF TablesTyped
<1>7. ASSUME NEW s \in DOMAIN sessions, sessions[s] < job.cutoff, Closed(s)'
      PROVE  \E i \in DOMAIN q : q[i] = s
  <2>1. CASE s = Head(q)
    BY <1>4, <2>1
  <2>2. CASE s # Head(q)
    <3>1. Closed(s)
      BY <1>1, <1>3, <1>5, <1>7, <2>2 DEF Closed, TasksOf
    <3> QED  BY <1>2, <1>3, <1>7, <3>1 DEF PruningOnCourse
  <2> QED  BY <2>1, <2>2
<1>8. PruningOnCourse'
  BY <1>1, <1>3, <1>7 DEF PruningOnCourse
<1> QED  BY <1>1, <1>6, <1>8 DEF JobsOnCourse

(* A session that leaves the list has left the table.                      *)
LEMMA DeletingSessionKeepsCourse ==
  ASSUME IInv, TablesTyped, JobsOnCourse, job # NoJob, job.todo # <<>>,
         DeleteSession, phase' = phase
  PROVE  TablesTyped' /\ JobsOnCourse'
<1>1. /\ job.name = "pruneSessions" /\ tasks' = tasks /\ RowDone
      /\ sessions' = Without(sessions, Head(job.todo))
  BY DEF DeleteSession
<1>2. /\ job' # NoJob /\ job'.name = job.name /\ job'.cutoff = job.cutoff
      /\ job'.todo = Tail(job.todo)
  BY <1>1, RowsLeft
<1>3. PruningOnCourse
  BY <1>1 DEF JobsOnCourse
<1>4. PICK q \in Seq(SessionIds) : q = job.todo
  BY <1>3 DEF PruningOnCourse
<1>5. /\ 1 \in DOMAIN q /\ Head(q) = q[1] /\ Head(q) \in SessionIds /\ Tail(q) \in Seq(SessionIds)
      /\ \A i \in DOMAIN q : i # 1 => i - 1 \in DOMAIN Tail(q) /\ Tail(q)[i - 1] = q[i]
  BY <1>4, RestOf
<1>6. /\ DOMAIN sessions' = DOMAIN sessions \ {Head(q)}
      /\ \A s \in DOMAIN sessions' : sessions'[s] = sessions[s]
  BY <1>1, <1>4 DEF Without
<1>7. TablesTyped'
  BY <1>1, <1>6, FS_RemoveElement DEF TablesTyped
<1>8. ASSUME NEW s \in DOMAIN sessions', sessions'[s] < job.cutoff, Closed(s)'
      PROVE  \E i \in DOMAIN Tail(q) : Tail(q)[i] = s
  <2>1. s \in DOMAIN sessions /\ sessions[s] < job.cutoff /\ s # q[1] /\ Closed(s)
    BY <1>1, <1>5, <1>6, <1>8 DEF Closed, TasksOf
  <2>2. PICK i \in DOMAIN q : q[i] = s
    BY <1>3, <1>4, <2>1 DEF PruningOnCourse
  <2> QED  BY <1>5, <2>1, <2>2
<1>9. PruningOnCourse'
  BY <1>2, <1>4, <1>5, <1>8 DEF PruningOnCourse
<1> QED  BY <1>1, <1>2, <1>7, <1>9 DEF JobsOnCourse

(* Each statement of a job keeps it on course.                             *)
LEMMA JobStepKeepsCourse ==
  ASSUME IInv, TablesTyped, JobsOnCourse, JobStep
  PROVE  TablesTyped' /\ JobsOnCourse'
<1>1. job # NoJob /\ job.todo # <<>> /\ phase' = phase
  BY DEF JobStep
<1>2. CASE DeleteRecords
  <2>1. job' # NoJob /\ job'.name = "pruneAuditRecords" /\ UNCHANGED <<sessions, tasks>>
        /\ job.name = "pruneAuditRecords"
    BY <1>1, <1>2, RowsLeft DEF DeleteRecords
  <2> QED  BY <1>1, <2>1 DEF TablesTyped, JobsOnCourse
<1> QED
  BY <1>1, <1>2, SettlingKeepsCourse, DeletingTaskKeepsCourse, DeletingSessionKeepsCourse
     DEF JobStep

(* No job runs at first.                                                   *)
LEMMA InitHasCourse == Init => TablesTyped /\ JobsOnCourse
<1> SUFFICES ASSUME Init PROVE TablesTyped /\ JobsOnCourse
  OBVIOUS
<1>1. DOMAIN sessions = {} /\ DOMAIN tasks = {} /\ job = NoJob /\ phase = "down"
  BY DEF Init
<1>2. tasks \in [DOMAIN tasks -> Task]
  BY <1>1 DEF Init
<1> QED  BY <1>1, <1>2, FS_EmptySet DEF TablesTyped, JobsOnCourse

(* Every step keeps a job on course.                                       *)
LEMMA StepKeepsCourse ==
  ASSUME IInv, TablesTyped, JobsOnCourse, [Next]_vars
  PROVE  TablesTyped' /\ JobsOnCourse'
<1> DEFINE Goal == TablesTyped' /\ JobsOnCourse'
<1>1. ASSUME NEW r \in Releases, Start(r) PROVE Goal
  BY <1>1, OthersKeepCourse DEF Start, tables
<1>2. CASE ApplyMigration
  BY <1>2, OthersKeepCourse DEF ApplyMigration, tables
<1>3. ASSUME NEW c \in Calls, NEW s \in SessionIds, StartCall(c, s) PROVE Goal
  BY <1>3, OthersKeepCourse DEF StartCall
<1>4. ASSUME NEW c \in Calls, EndCall(c) PROVE Goal
  BY <1>4, OthersKeepCourse DEF EndCall
<1>5. ASSUME NEW age \in Ages, PruneArtifacts(age) PROVE Goal
  BY <1>5, OthersKeepCourse DEF PruneArtifacts
<1>6. CASE Tick
  BY <1>6, OthersKeepCourse DEF Tick, tables
<1>7. CASE UNCHANGED vars
  BY <1>7, OthersKeepCourse DEF vars, tables
<1>8. CASE Next
  BY <1>1, <1>2, <1>3, <1>4, <1>5, <1>6, <1>8, RecoveryTakesCourse, RetentionTakesCourse,
     HandlersKeepCourse, JobStepKeepsCourse, EndsKeepCourse DEF Next
<1> QED  BY <1>7, <1>8

(* The course is kept throughout.                                          *)
LEMMA OnCourse == Spec => [](IInv /\ TablesTyped /\ JobsOnCourse)
<1> DEFINE Inv == IInv /\ TablesTyped /\ JobsOnCourse
<1>1. Init => Inv
  BY InitIsWhole, InitHasCourse
<1>2. Inv /\ [Next]_vars => Inv'
  BY StepIsWhole, StepKeepsCourse
<1> QED  BY <1>1, <1>2, PTL DEF Spec

(* Only a pruning could meet the foreign key, and it deletes the tasks of  *)
(* a session first: a job ends when its list does.                         *)
LEMMA JobsEndThemselves ==
  ASSUME JobEnds
  PROVE  job.todo = <<>>
<1> QED  BY DEF JobEnds, Violates, SessionsTurn

(* While the process is not up, only a recovery changes tasks.             *)
LEMMA StepsOfTheDown ==
  ASSUME IInv, JobsOnCourse, Next, phase # "up"
  PROVE  \/ SettleTask /\ job # NoJob /\ job.todo # <<>> /\ phase' = phase
         \/ UNCHANGED tasks /\ phase' = phase
         \/ UNCHANGED tasks /\ phase' # "up"
         \/ UNCHANGED tasks /\ JobEnds
<1>1. /\ \A s \in SessionIds : ~CreateSession(s)
      /\ \A t \in TaskIds, s \in SessionIds, d \in Deadlines \cup {NoDeadline} :
           ~CreateTask(t, s, d)
      /\ \A t \in TaskIds, state \in TaskState : ~UpdateTaskState(t, state)
      /\ \A t \in TaskIds : ~SpendRetries(t)
      /\ \A c \in Calls, s \in SessionIds : ~StartCall(c, s)
      /\ \A c \in Calls : ~EndCall(c)
      /\ \A age \in Ages : ~PruneSessions(age) /\ ~PruneAuditRecords(age) /\ ~PruneArtifacts(age)
  BY DEF CreateSession, CreateTask, UpdateTaskState, SpendRetries, StartCall, EndCall,
         PruneSessions, PruneAuditRecords, PruneArtifacts, BeginJob, Up
<1>2. ASSUME NEW r \in Releases, Start(r) PROVE UNCHANGED tasks /\ phase' # "up"
  BY <1>2 DEF Start, tables
<1>3. ASSUME ApplyMigration \/ BeginRecovery \/ Stop PROVE UNCHANGED tasks /\ phase' # "up"
  BY <1>3 DEF ApplyMigration, BeginRecovery, Stop, tables
<1>4. ASSUME JobStep
      PROVE  \/ SettleTask /\ job # NoJob /\ job.todo # <<>> /\ phase' = phase
             \/ UNCHANGED tasks /\ phase' = phase
  <2>1. job # NoJob /\ job.todo # <<>> /\ phase' = phase
    BY <1>4 DEF JobStep
  <2>2. job.name = "recoverSessions"
    BY <2>1 DEF IInv, JobSpares, JobsOnCourse
  <2>3. \A t \in DOMAIN tasks : DeleteTask(t) => job.name = "pruneSessions"
    BY DEF DeleteTask
  <2>4. DeleteSession \/ DeleteRecords => UNCHANGED tasks
    BY DEF DeleteSession, DeleteRecords
  <2> QED  BY <1>4, <2>1, <2>2, <2>3, <2>4 DEF JobStep
<1>5. JobEnds \/ Tick => UNCHANGED tasks
  BY DEF JobEnds, Tick, tables
<1>6. Tick => phase' = phase
  BY DEF Tick
<1> QED  BY <1>1, <1>2, <1>3, <1>4, <1>5, <1>6 DEF Next

(* Wherever recoveries are stopped, the process works on only with tasks   *)
(* that may be resumed, and has given up nothing else.                     *)
THEOREM RecoveryHolds == Spec => RecoverySettles
<1> DEFINE Settles ==
      /\ (phase = "recovering" /\ phase' = "up") =>
           \A t \in Stuck : tasks[t].retryCount > 0 /\ tasks[t].deadline \geq job.cutoff
      /\ phase # "up" =>
           /\ DOMAIN tasks' = DOMAIN tasks
           /\ \A t \in DOMAIN tasks : tasks'[t] # tasks[t] => t \in Stuck
<1>1. ASSUME IInv, TablesTyped, JobsOnCourse, [Next]_vars
      PROVE  [Settles]_vars
  <2> SUFFICES ASSUME Next, phase # "up" PROVE Settles
    BY <1>1
  <2>1. CASE SettleTask /\ job # NoJob /\ job.todo # <<>> /\ phase' = phase
    <3>1. RecoveryOnCourse
      BY <1>1, <2>1 DEF SettleTask, JobsOnCourse
    <3>2. PICK q \in Seq(Verdict) : q = job.todo
      BY <3>1 DEF RecoveryOnCourse
    <3>3. Head(q) = q[1] /\ 1 \in DOMAIN q
      BY <2>1, <3>2, RestOf
    <3>4. PICK u : u = Head(q).task
      OBVIOUS
    <3>5. u \in Stuck
      BY <3>1, <3>2, <3>3, <3>4 DEF RecoveryOnCourse
    <3>6. tasks' = [tasks EXCEPT ![u].state = Head(q).state]
      BY <2>1, <3>2, <3>4 DEF SettleTask
    <3> QED  BY <2>1, <3>5, <3>6
  <2>2. CASE UNCHANGED tasks /\ (phase' = phase \/ phase' # "up")
    BY <2>2
  <2>3. CASE UNCHANGED tasks /\ JobEnds
    <3>1. job # NoJob /\ job.todo = <<>>
      BY <2>3, JobsEndThemselves DEF JobEnds
    <3>2. phase = "recovering" => RecoveryOnCourse
      BY <1>1, <3>1 DEF JobsOnCourse
    <3> QED  BY <2>3, <3>1, <3>2 DEF RecoveryOnCourse
  <2> QED  BY <1>1, <2>1, <2>2, <2>3, StepsOfTheDown
<1> QED  BY <1>1, OnCourse, PTL DEF Spec, RecoverySettles

(* A pruning that ends has left no closed session that is old, whatever    *)
(* the ones before it were stopped at.                                     *)
THEOREM PruningCompletes == Spec => PruningIsComplete
<1> DEFINE Complete ==
      (job # NoJob /\ job' = NoJob /\ phase' = "up" /\ job.name = "pruneSessions") =>
        \A s \in DOMAIN sessions' : sessions'[s] < job.cutoff => ~Closed(s)
<1>1. ASSUME IInv, TablesTyped, JobsOnCourse, [Next]_vars
      PROVE  [Complete]_vars
  <2> SUFFICES ASSUME Next, job # NoJob, job' = NoJob, phase' = "up", job.name = "pruneSessions",
                      NEW s \in DOMAIN sessions', sessions'[s] < job.cutoff
               PROVE  ~Closed(s)
    BY <1>1
  <2>1. JobEnds
    <3>1. ~JobStep
      BY <1>1, RowsLeft DEF JobStep, SettleTask, DeleteTask, DeleteSession, DeleteRecords
    <3>2. \A r \in Releases : ~Start(r)
      BY DEF Start
    <3>3. ~ApplyMigration /\ ~BeginRecovery /\ ~Stop /\ ~Tick
      BY DEF ApplyMigration, BeginRecovery, Stop, Tick
    <3>4. /\ \A s1 \in SessionIds : ~CreateSession(s1)
          /\ \A t \in TaskIds, s1 \in SessionIds, d \in Deadlines \cup {NoDeadline} :
               ~CreateTask(t, s1, d)
          /\ \A t \in TaskIds, state \in TaskState : ~UpdateTaskState(t, state)
          /\ \A t \in TaskIds : ~SpendRetries(t)
          /\ \A c \in Calls, s1 \in SessionIds : ~StartCall(c, s1)
          /\ \A c \in Calls : ~EndCall(c)
          /\ \A age \in Ages : ~PruneSessions(age) /\ ~PruneAuditRecords(age) /\ ~PruneArtifacts(age)
      BY DEF CreateSession, CreateTask, UpdateTaskState, SpendRetries, StartCall, EndCall,
             PruneSessions, PruneAuditRecords, PruneArtifacts, BeginJob, Up
    <3> QED  BY <3>1, <3>2, <3>3, <3>4 DEF Next
  <2>2. job.todo = <<>> /\ sessions' = sessions
    BY <2>1, JobsEndThemselves DEF JobEnds, tables
  <2>3. PruningOnCourse
    BY <1>1 DEF JobsOnCourse
  <2> QED  BY <2>2, <2>3 DEF PruningOnCourse
<1> QED  BY <1>1, OnCourse, PTL DEF Spec, PruningIsComplete

(* However retention and stops interleave with calls, the trail has the    *)
(* first record of every call whose last it has, and the artifact of every *)
(* young one.                                                              *)
THEOREM PruningHolds == Spec => []PruningKeepsCallsWhole
<1>1. IInv => PruningKeepsCallsWhole
  <2> SUFFICES ASSUME IInv, NEW last \in audit, last.end
               PROVE  /\ \E first \in audit : first.call = last.call /\ ~first.end
                      /\ last.startedAt \geq now - MaxCall =>
                           \E f \in artifacts : f.call = last.call
    BY DEF PruningKeepsCallsWhole
  <2>1. FirstOf(last.call, last.session, last.startedAt) \in audit
    BY DEF IInv, EndsTold
  <2>2. /\ FirstOf(last.call, last.session, last.startedAt).call = last.call
        /\ ~FirstOf(last.call, last.session, last.startedAt).end
    BY DEF FirstOf
  <2>3. last.startedAt \geq now - MaxCall => \E f \in artifacts : f.call = last.call
    BY DEF IInv, EndsTold
  <2> QED  BY <2>1, <2>2, <2>3
<1> QED  BY <1>1, IsWhole, PTL

(* Wherever starting programs are stopped, and whichever releases they     *)
(* are, user_version tells the columns, and what works has all of its own. *)
THEOREM MigrationsHold == Spec => []VersionTellsSchema
<1>1. IInv => VersionTellsSchema
  <2> SUFFICES ASSUME IInv, NEW m \in ToSet(release), phase = "up"
               PROVE  m \in columns
    BY DEF IInv, Migrated, VersionTellsSchema
  <2>1. m \in Nat /\ userVersion \in Nat /\ release \in Releases
    BY LifecycleAssumption DEF IInv, CallTypes, ToSet, LifecycleAssumption
  <2>2. m \leq userVersion
    BY <2>1 DEF IInv, Migrated, Pending
  <2> QED  BY <2>1, <2>2 DEF IInv, Migrated
<1> QED  BY <1>1, IsWhole, PTL
-----------------------------------------------------------------------------
(* What TypeOK says beyond CallTypes and TablesTyped.                      *)
JobTyped == job = NoJob \/ job \in Job
RestTyped ==
  /\ sessions \in [DOMAIN sessions -> Time]
  /\ phase \in {"down", "migrating", "recovering", "up"}
  /\ JobTyped
  /\ restarts \in 0..MaxRestarts /\ patches \in 0..MaxPatches

(* A list of rows less its first is one of rows.                           *)
LEMMA RowsStayTyped ==
  ASSUME job \in Job, job.todo # <<>>, RowDone
  PROVE  job' \in Job
<1>1. Tail(job.todo) \in Seq(Verdict) \cup Seq(SessionIds)
  <2>1. CASE job.todo \in Seq(Verdict)
    BY <2>1, RestOf
  <2>2. CASE job.todo \in Seq(SessionIds)
    BY <2>2, RestOf
  <2> QED  BY <2>1, <2>2 DEF Job
<1> QED  BY <1>1 DEF RowDone, Job

(* A recovery lists verdicts.                                              *)
LEMMA RecoveryIsTyped ==
  ASSUME IInv, TablesTyped, JobsOnCourse, RestTyped, BeginRecovery
  PROVE  RestTyped'
<1>1. RecoveryOnCourse' /\ job' # NoJob
  BY RecoveryTakesCourse DEF JobsOnCourse, BeginRecovery, NoJob
<1>2. PICK listed : job' = [name |-> "recoverSessions", cutoff |-> now, todo |-> listed]
  BY DEF BeginRecovery
<1>3. listed \in Seq(Verdict) /\ now \in Int
  BY <1>1, <1>2, LifecycleAssumption
     DEF RecoveryOnCourse, IInv, CallTypes, Time, LifecycleAssumption
<1>4. job' \in Job
  BY <1>2, <1>3 DEF Job, JobName
<1> QED  BY <1>4 DEF BeginRecovery, RestTyped, JobTyped, tables

(* A retention job lists sessions.                                         *)
LEMMA RetentionIsTyped ==
  ASSUME IInv, TablesTyped, RestTyped, NEW age \in Ages,
         PruneSessions(age) \/ PruneAuditRecords(age)
  PROVE  RestTyped'
<1>1. PICK name \in JobName, chosen \in SUBSET DOMAIN sessions : BeginJob(name, age, chosen)
  <2>1. CASE PruneSessions(age)
    BY <2>1 DEF PruneSessions, JobName
  <2>2. CASE PruneAuditRecords(age)
    BY <2>2 DEF PruneAuditRecords, JobName
  <2> QED  BY <2>1, <2>2
<1>2. PICK listed \in SetToSeqs(chosen) :
        job' = [name |-> name, cutoff |-> now - age, todo |-> listed]
  BY <1>1 DEF BeginJob
<1>3. chosen \subseteq SessionIds /\ IsFiniteSet(chosen)
  BY FS_Subset DEF TablesTyped
<1>4. listed \in Seq(chosen)
  BY <1>3, ListsAll
<1>5. listed \in Seq(SessionIds)
  BY <1>3, <1>4
<1>6. now - age \in Int
  BY LifecycleAssumption DEF IInv, CallTypes, Time, LifecycleAssumption
<1>7. job' \in Job
  BY <1>2, <1>5, <1>6 DEF Job
<1> QED  BY <1>1, <1>7 DEF BeginJob, RestTyped, JobTyped, tables

(* A statement of a job leaves rows of its list, and sessions as they were *)
(* or one less.                                                            *)
LEMMA StatementIsTyped ==
  ASSUME RestTyped, JobStep
  PROVE  RestTyped'
<1>1. job \in Job /\ job.todo # <<>>
  BY DEF RestTyped, JobTyped, JobStep
<1>2. JobTyped'
  BY <1>1, RowsStayTyped DEF JobStep, SettleTask, DeleteTask, DeleteSession, DeleteRecords, JobTyped
<1>3. sessions' = sessions \/ \E s : sessions' = Without(sessions, s)
  BY DEF JobStep, SettleTask, DeleteTask, DeleteSession, DeleteRecords
<1>4. sessions' \in [DOMAIN sessions' -> Time]
  BY <1>3 DEF RestTyped, Without
<1> QED  BY <1>2, <1>4 DEF RestTyped, JobStep

(* And so does every step.                                                 *)
LEMMA StepIsTyped ==
  ASSUME IInv, TablesTyped, JobsOnCourse, RestTyped, [Next]_vars
  PROVE  RestTyped'
<1> DEFINE Goal == RestTyped'
<1>0. restarts + 1 \in Nat /\ MaxRestarts \in Nat /\ patches + 1 \in Nat /\ MaxPatches \in Nat
  BY LifecycleAssumption DEF RestTyped, LifecycleAssumption
<1>1. ASSUME NEW r \in Releases, Start(r) PROVE Goal
  BY <1>1 DEF Start, tables, RestTyped, JobTyped
<1>2. CASE ApplyMigration
  BY <1>2 DEF ApplyMigration, tables, RestTyped, JobTyped
<1>3. ASSUME NEW s \in SessionIds, CreateSession(s) PROVE Goal
  <2>1. sessions' \in [DOMAIN sessions' -> Time]
    BY <1>3 DEF CreateSession, RestTyped, IInv, CallTypes
  <2> QED  BY <1>3, <2>1 DEF CreateSession, RestTyped, JobTyped
<1>4. ASSUME patches' = patches + 1, patches < MaxPatches,
             UNCHANGED <<sessions, phase, job, restarts>>
      PROVE  Goal
  BY <1>0, <1>4 DEF RestTyped, JobTyped
<1>5. ASSUME NEW t \in TaskIds, NEW s \in SessionIds, NEW d, CreateTask(t, s, d) PROVE Goal
  BY <1>4, <1>5 DEF CreateTask
<1>6. ASSUME NEW t \in TaskIds, NEW state, UpdateTaskState(t, state) PROVE Goal
  BY <1>4, <1>6 DEF UpdateTaskState
<1>7. ASSUME NEW t \in TaskIds, SpendRetries(t) PROVE Goal
  BY <1>4, <1>7 DEF SpendRetries
<1>8. ASSUME UNCHANGED <<sessions, phase, job, restarts, patches>> PROVE Goal
  BY <1>8 DEF RestTyped, JobTyped
<1>9. ASSUME NEW c \in Calls, NEW s \in SessionIds, StartCall(c, s) PROVE Goal
  BY <1>8, <1>9 DEF StartCall
<1>10. ASSUME NEW c \in Calls, EndCall(c) PROVE Goal
  BY <1>8, <1>10 DEF EndCall
<1>11. ASSUME NEW age \in Ages, PruneArtifacts(age) PROVE Goal
  BY <1>8, <1>11 DEF PruneArtifacts
<1>12. CASE Tick
  BY <1>8, <1>12 DEF Tick, tables
<1>13. CASE JobEnds
  BY <1>13 DEF JobEnds, RestTyped, JobTyped, tables
<1>14. CASE Stop
  BY <1>0, <1>14 DEF Stop, RestTyped, JobTyped, tables
<1>15. CASE UNCHANGED vars
  BY <1>8, <1>15 DEF vars, tables
<1>16. CASE Next
  BY <1>1, <1>2, <1>3, <1>5, <1>6, <1>7, <1>9, <1>10, <1>11, <1>12, <1>13, <1>14, <1>16,
     RecoveryIsTyped, RetentionIsTyped, StatementIsTyped DEF Next
<1> QED  BY <1>15, <1>16

(* The tables, the job that runs and its list have the form TypeOK gives   *)
(* them.                                                                   *)
THEOREM TypeCorrect == Spec => []TypeOK
<1>1. Init => RestTyped
  <2>1. ASSUME Init PROVE sessions \in [DOMAIN sessions -> Time] /\ JobTyped
    BY <2>1 DEF Init, JobTyped
  <2> QED  BY <2>1, LifecycleAssumption DEF Init, RestTyped, LifecycleAssumption
<1>2. IInv /\ TablesTyped /\ JobsOnCourse /\ RestTyped /\ [Next]_vars => RestTyped'
  BY StepIsTyped
<1>3. IInv /\ TablesTyped /\ RestTyped => TypeOK
  BY DEF IInv, CallTypes, TablesTyped, RestTyped, JobTyped, TypeOK
<1> QED  BY <1>1, <1>2, <1>3, OnCourse, PTL DEF Spec
=============================================================================
