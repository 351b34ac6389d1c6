------------------------------ MODULE Lifecycle ------------------------------
(***************************************************************************)
(* What outlives a process, and src/core/lifecycle.ts over it: sessions    *)
(* and tasks (src/core/session.ts), the audit trail and the artifacts of   *)
(* tool calls, schema migrations and recovery when a process starts, and   *)
(* the retention jobs it runs.                                             *)
(*                                                                         *)
(* The stores are synchronous, so a job is not interleaved with anything;  *)
(* but each of its statements is a transaction of its own, and the process *)
(* may stop between two.  A job is the list of the rows that are left of   *)
(* what it listed when it began.  The rows come in some order: no property *)
(* depends on that of the query.                                           *)
(***************************************************************************)
EXTENDS Integers, Sequences, FiniteSets, SequencesExt

CONSTANTS
  SessionIds, TaskIds,   \* sessions and tasks that may be created
  Calls,        \* tool calls that may be made
  Deadlines,    \* times a task may have to be done by
  Ages,         \* the olderThanMs that retention jobs are run with
  MaxCall,      \* bound: how long a tool call lasts, which its timeout ensures
  Releases,     \* the lists of migrations that releases of the program have:
                \* entries are only ever added, at the end
  MaxTime,      \* bound: the clock
  MaxRestarts,  \* bound: how often the process is stopped
  MaxPatches    \* bound: how often tasks change

NoDeadline == MaxTime + 1

ASSUME LifecycleAssumption ==
  /\ MaxTime \in Nat /\ MaxCall \in Nat /\ MaxRestarts \in Nat /\ MaxPatches \in Nat
  /\ Deadlines \subseteq 0..MaxTime
  /\ Ages \subseteq Nat /\ \A age \in Ages : age \geq MaxCall
  /\ \A r \in Releases : r \in Seq(Nat \ {0}) /\ \A i, j \in DOMAIN r : i < j => r[i] < r[j]
  /\ \A q, r \in Releases : \A i \in DOMAIN q \cap DOMAIN r : q[i] = r[i]

VARIABLES
  now,        \* the clock
  sessions,   \* table sessions: when each was created
  tasks,      \* table tasks
  audit,      \* table audit_records: the records of tool calls
  artifacts,  \* table artifacts: the calls that left one, and when
  userVersion, \* PRAGMA user_version
  columns,    \* the migrations whose column the tables have
  phase,      \* what the process does
  release,    \* the migrations of the program that runs
  calls,      \* the tool calls in flight
  job,        \* what is left of the job that runs
  restarts, patches

tables == <<sessions, tasks, audit, artifacts>>
schema == <<userVersion, columns, release>>
vars == <<now, tables, schema, phase, calls, job, restarts, patches>>

TaskState == {"pending", "running", "awaiting_approval", "completed", "failed", "cancelled"}
Interrupted == {"running", "awaiting_approval"}
LiveState == Interrupted \cup {"pending"}

Time == 0..MaxTime
Task == [session : SessionIds, state : TaskState, deadline : Deadlines \cup {NoDeadline},
         retryCount : {0, 3}]
Record == [call : Calls, session : SessionIds, end : BOOLEAN, startedAt : Time]
Verdict == [task : TaskIds, state : {"failed", "cancelled"}]
JobName == {"recoverSessions", "pruneSessions", "pruneAuditRecords"}
Job == [name : JobName, cutoff : Int, todo : Seq(Verdict) \cup Seq(SessionIds)]
NoJob == <<>>

TypeOK ==
  /\ now \in Time
  /\ DOMAIN sessions \subseteq SessionIds /\ sessions \in [DOMAIN sessions -> Time]
  /\ DOMAIN tasks \subseteq TaskIds /\ tasks \in [DOMAIN tasks -> Task]
  /\ audit \subseteq Record
  /\ artifacts \subseteq [call : Calls, createdAt : Time]
  /\ userVersion \in Nat /\ columns \subseteq Nat
  /\ phase \in {"down", "migrating", "recovering", "up"}
  /\ release \in Releases
  /\ DOMAIN calls \subseteq Calls
  /\ calls \in [DOMAIN calls -> [session : SessionIds, startedAt : Time]]
  /\ job = NoJob \/ job \in Job
  /\ restarts \in 0..MaxRestarts /\ patches \in 0..MaxPatches

(* New tables: they have no column that a migration adds.                  *)
Init ==
  /\ now = 0
  /\ sessions = [s \in {} |-> 0] /\ tasks = [t \in {} |-> 0]
  /\ audit = {} /\ artifacts = {}
  /\ userVersion = 0 /\ columns = {}
  /\ phase = "down" /\ release \in Releases
  /\ calls = [c \in {} |-> 0] /\ job = NoJob
  /\ restarts = 0 /\ patches = 0

-----------------------------------------------------------------------------
(* Start-up: migrations, then recovery, then work.                         *)
Start(r) ==
  /\ phase = "down"
  /\ phase' = "migrating"
  /\ release' = r
  /\ UNCHANGED <<now, tables, userVersion, columns, calls, job, restarts, patches>>

Pending == {m \in ToSet(release) : m > userVersion}
NextMigration == CHOOSE m \in Pending : \A n \in Pending : m \leq n

(* Mutant of ApplyMigration: the column and the version are written by     *)
(* two statements, and a stop may come between them.                       *)
ApplyMigrationUntransacted ==
  /\ phase = "migrating" /\ Pending # {}
  /\ columns' = columns \cup {NextMigration}
  /\ userVersion' \in {userVersion, NextMigration}
  /\ phase' = IF userVersion' = userVersion THEN "down" ELSE phase
  /\ UNCHANGED <<now, tables, release, calls, job, restarts, patches>>

(* runMigrations(), one turn of its loop: a transaction of the column and  *)
(* the version.  A column that is there already would make it throw.       *)
ApplyMigration ==
  /\ phase = "migrating" /\ Pending # {}
  /\ columns' = columns \cup {NextMigration}
  /\ userVersion' = NextMigration
  /\ phase' = phase
  /\ UNCHANGED <<now, tables, release, calls, job, restarts, patches>>

-----------------------------------------------------------------------------
(* Mutant of Classify: what has no retries left is still resumable.        *)
ClassifyByDeadline(task, at) ==
  IF task.deadline < at THEN "failed" ELSE "resumable"

(* classifyOne().                                                          *)
Classify(task, at) ==
  IF task.deadline < at THEN "failed"
  ELSE IF task.retryCount > 0 THEN "resumable" ELSE "abandoned"

Stuck == {t \in DOMAIN tasks : tasks[t].state \in Interrupted}

Settling(t) ==
  [task |-> t,
   state |-> IF Classify(tasks[t], now) = "failed" THEN "failed" ELSE "cancelled"]

(* recoverSessions(): what is stuck is listed and classified at once, then *)
(* updated one by one; what is resumable is left as it is.                 *)
Unresumable == {t \in Stuck : Classify(tasks[t], now) # "resumable"}

BeginRecovery ==
  /\ phase = "migrating" /\ Pending = {}
  /\ phase' = "recovering"
  /\ \E listed \in SetToSeqs({Settling(t) : t \in Unresumable}) :
       job' = [name |-> "recoverSessions", cutoff |-> now, todo |-> listed]
  /\ UNCHANGED <<now, tables, schema, calls, restarts, patches>>

-----------------------------------------------------------------------------
(* Ready for the next handler or job.                                      *)
Up == phase = "up" /\ job = NoJob

(* An id that nothing remembers any more stands for a new one.             *)
CreateSession(s) ==
  /\ Up
  /\ s \notin DOMAIN sessions
  /\ \A a \in audit : a.session # s
  /\ sessions' = [q \in DOMAIN sessions \cup {s} |-> IF q = s THEN now ELSE sessions[q]]
  /\ UNCHANGED <<now, tasks, audit, artifacts, schema, phase, calls, job, restarts, patches>>

(* createTask(), which the foreign key allows for sessions there are.      *)
CreateTask(t, s, deadline) ==
  /\ Up
  /\ t \notin DOMAIN tasks /\ s \in DOMAIN sessions
  /\ patches < MaxPatches /\ patches' = patches + 1
  /\ tasks' = [q \in DOMAIN tasks \cup {t} |->
                 IF q = t THEN [session |-> s, state |-> "pending",
                                deadline |-> deadline, retryCount |-> 3]
                          ELSE tasks[q]]
  /\ UNCHANGED <<now, sessions, audit, artifacts, schema, phase, calls, job, restarts>>

(* PATCH /tasks/:id/state, from any state to any other.                    *)
UpdateTaskState(t, state) ==
  /\ Up
  /\ t \in DOMAIN tasks /\ tasks[t].state # state
  /\ patches < MaxPatches /\ patches' = patches + 1
  /\ tasks' = [tasks EXCEPT ![t].state = state]
  /\ UNCHANGED <<now, sessions, audit, artifacts, schema, phase, calls, job, restarts>>

(* An executor that counts a task's retries down, which nothing here does. *)
SpendRetries(t) ==
  /\ Up
  /\ t \in DOMAIN tasks /\ tasks[t].retryCount = 3
  /\ patches < MaxPatches /\ patches' = patches + 1
  /\ tasks' = [tasks EXCEPT ![t].retryCount = 0]
  /\ UNCHANGED <<now, sessions, audit, artifacts, schema, phase, calls, job, restarts>>

(* A tool call in a session: its first record, and with its artifact its   *)
(* last, which bears the time of the first.                                *)
StartCall(c, s) ==
  /\ Up
  /\ s \in DOMAIN sessions
  /\ c \notin DOMAIN calls
  /\ \A a \in audit \cup artifacts : a.call # c
  /\ calls' = [d \in DOMAIN calls \cup {c} |->
                 IF d = c THEN [session |-> s, startedAt |-> now] ELSE calls[d]]
  /\ audit' = audit \cup {[call |-> c, session |-> s, end |-> FALSE, startedAt |-> now]}
  /\ UNCHANGED <<now, sessions, tasks, artifacts, schema, phase, job, restarts, patches>>

(* Mutant of EndCall: the last record bears the time at which it is made.  *)
EndCallNow(c) ==
  /\ Up
  /\ c \in DOMAIN calls
  /\ calls' = [d \in DOMAIN calls \ {c} |-> calls[d]]
  /\ artifacts' = artifacts \cup {[call |-> c, createdAt |-> now]}
  /\ audit' = audit \cup {[call |-> c, session |-> calls[c].session, end |-> TRUE,
                           startedAt |-> now]}
  /\ UNCHANGED <<now, sessions, tasks, schema, phase, job, restarts, patches>>

EndCall(c) ==
  /\ Up
  /\ c \in DOMAIN calls
  /\ calls' = [d \in DOMAIN calls \ {c} |-> calls[d]]
  /\ artifacts' = artifacts \cup {[call |-> c, createdAt |-> now]}
  /\ audit' = audit \cup {[call |-> c, session |-> calls[c].session, end |-> TRUE,
                           startedAt |-> calls[c].startedAt]}
  /\ UNCHANGED <<now, sessions, tasks, schema, phase, job, restarts, patches>>

-----------------------------------------------------------------------------
TasksOf(s) == {t \in DOMAIN tasks : tasks[t].session = s}

(* No task of the session is live; one without tasks has no live ones.     *)
Closed(s) == \A t \in TasksOf(s) : tasks[t].state \notin LiveState

(* Begins a retention job over these sessions.                             *)
BeginJob(name, age, chosen) ==
  /\ Up
  /\ \E listed \in SetToSeqs(chosen) :
       job' = [name |-> name, cutoff |-> now - age, todo |-> listed]
  /\ UNCHANGED <<now, tables, schema, phase, calls, restarts, patches>>

Old(s, cutoff) == sessions[s] < cutoff

(* pruneSessions().                                                        *)
PruneSessions(age) ==
  BeginJob("pruneSessions", age, {s \in DOMAIN sessions : Old(s, now - age) /\ Closed(s)})

(* pruneAuditRecords(): one DELETE for each closed session.                *)
PruneAuditRecords(age) ==
  BeginJob("pruneAuditRecords", age, {s \in DOMAIN sessions : Closed(s)})

(* pruneArtifacts() for the class the artifacts here are of: one statement. *)
PruneArtifacts(age) ==
  /\ Up
  /\ artifacts' = {a \in artifacts : ~(a.createdAt < now - age)}
  /\ UNCHANGED <<now, sessions, tasks, audit, schema, phase, calls, job, restarts, patches>>

-----------------------------------------------------------------------------
(* Mutant of SessionsTurn: the session is deleted before its tasks.        *)
SessionsTurnFirst(s) == s \in DOMAIN sessions

(* The loop over the tasks of a session that is to be deleted is done.     *)
SessionsTurn(s) == TasksOf(s) = {}

(* The foreign key from tasks to sessions: a session with tasks stays.     *)
Violates == job.name = "pruneSessions" /\ SessionsTurn(Head(job.todo))
              /\ TasksOf(Head(job.todo)) # {}

(* deleteBySessionOlderThan(): what was started before the cutoff.         *)
Outdated(s) == {a \in audit : a.session = s /\ a.startedAt < job.cutoff}

Without(f, x) == [y \in DOMAIN f \ {x} |-> f[y]]
RowDone == job' = [job EXCEPT !.todo = Tail(@)]

(* One statement of recoverSessions().                                     *)
SettleTask ==
  /\ job.name = "recoverSessions"
  /\ LET st == Head(job.todo) IN tasks' = [tasks EXCEPT ![st.task].state = st.state]
  /\ RowDone
  /\ UNCHANGED <<sessions, audit>>

(* One statement of pruneSessions(): a task of the session, or the session. *)
DeleteTask(t) ==
  /\ job.name = "pruneSessions"
  /\ t \in TasksOf(Head(job.todo)) /\ ~SessionsTurn(Head(job.todo))
  /\ tasks' = Without(tasks, t)
  /\ UNCHANGED <<sessions, audit, job>>

DeleteSession ==
  /\ job.name = "pruneSessions"
  /\ SessionsTurn(Head(job.todo)) /\ ~Violates
  /\ sessions' = Without(sessions, Head(job.todo))
  /\ RowDone
  /\ UNCHANGED <<tasks, audit>>

(* One statement of pruneAuditRecords().                                   *)
DeleteRecords ==
  /\ job.name = "pruneAuditRecords"
  /\ audit' = audit \ Outdated(Head(job.todo))
  /\ RowDone
  /\ UNCHANGED <<sessions, tasks>>

JobStep ==
  /\ job # NoJob /\ job.todo # <<>>
  /\ SettleTask \/ (\E t \in DOMAIN tasks : DeleteTask(t)) \/ DeleteSession \/ DeleteRecords
  /\ UNCHANGED <<now, artifacts, schema, phase, calls, restarts, patches>>

(* A job ends, of itself or with an exception.                             *)
JobEnds ==
  /\ job # NoJob
  /\ IF job.todo = <<>> THEN TRUE ELSE Violates
  /\ job' = NoJob
  /\ phase' = "up"
  /\ UNCHANGED <<now, tables, schema, calls, restarts, patches>>

(* The process stops: between two statements of a job, or with calls in    *)
(* flight, which leave a first record and no last one.                     *)
Stop ==
  /\ phase # "down" /\ restarts < MaxRestarts
  /\ restarts' = restarts + 1
  /\ phase' = "down"
  /\ job' = NoJob
  /\ calls' = [c \in {} |-> 0]
  /\ UNCHANGED <<now, tables, schema, patches>>

(* The clock, which calls do not outlive by more than they may last.       *)
Tick ==
  /\ now < MaxTime
  /\ \A c \in DOMAIN calls : now < calls[c].startedAt + MaxCall
  /\ now' = now + 1
  /\ UNCHANGED <<tables, schema, phase, calls, job, restarts, patches>>

Next ==
  \/ \E r \in Releases : Start(r)
  \/ ApplyMigration \/ BeginRecovery
  \/ \E s \in SessionIds : CreateSession(s)
  \/ \E t \in TaskIds, s \in SessionIds, d \in Deadlines \cup {NoDeadline} : CreateTask(t, s, d)
  \/ \E t \in TaskIds, state \in TaskState : UpdateTaskState(t, state)
  \/ \E t \in TaskIds : SpendRetries(t)
  \/ \E c \in Calls, s \in SessionIds : StartCall(c, s)
  \/ \E c \in Calls : EndCall(c)
  \/ \E age \in Ages : PruneSessions(age) \/ PruneAuditRecords(age) \/ PruneArtifacts(age)
  \/ JobStep \/ JobEnds \/ Stop \/ Tick

Spec == Init /\ [][Next]_vars

-----------------------------------------------------------------------------
(* "No task silently disappears across a restart": when the gateway begins *)
(* to work, at whatever statement earlier recoveries were stopped, a task  *)
(* that still counts as running or waiting may be resumed: it has retries  *)
(* left and, when recovery looked, was not overdue.  Nothing else was      *)
(* given up: tasks that were pending or ended are as they were left.       *)
RecoverySettles ==
  [][/\ (phase = "recovering" /\ phase' = "up") =>
          \A t \in Stuck : tasks[t].retryCount > 0 /\ tasks[t].deadline \geq job.cutoff
     /\ phase # "up" =>
          /\ DOMAIN tasks' = DOMAIN tasks
          /\ \A t \in DOMAIN tasks : tasks'[t] # tasks[t] => t \in Stuck
    ]_vars

(* Retention never tears a call apart: as long as jobs spare what is       *)
(* younger than a call can last, the trail has the first record of a call  *)
(* whose last it has, even if the call went on while its session was       *)
(* pruned; and the artifact of a call outlives the retention period of the *)
(* record that names it.                                                   *)
PruningKeepsCallsWhole ==
  \A last \in {a \in audit : a.end} :
    /\ \E first \in audit : first.call = last.call /\ ~first.end
    /\ last.startedAt \geq now - MaxCall => \E f \in artifacts : f.call = last.call

(* A retention job that is not stopped has done all it was for: no closed  *)
(* session as old as the cutoff is left, whole or in parts, by it or by    *)
(* the ones that were stopped before it; and the sessions that are left    *)
(* have all their tasks that are live.                                     *)
PruningIsComplete ==
  [][(job # NoJob /\ job' = NoJob /\ phase' = "up" /\ job.name = "pruneSessions") =>
       \A s \in DOMAIN sessions' : sessions'[s] < job.cutoff => ~Closed(s)]_vars

(* user_version tells which columns the tables have, wherever starting     *)
(* programs were stopped, and whichever releases they were, older or newer *)
(* than the tables; so no migration is ever applied twice.                 *)
VersionTellsSchema ==
  /\ \A m \in columns : m \leq userVersion
  /\ phase = "up" => \A m \in ToSet(release) : m \in columns
=============================================================================
