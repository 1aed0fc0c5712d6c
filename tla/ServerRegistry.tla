--------------------------- MODULE ServerRegistry ---------------------------
(***************************************************************************)
(* The registry of ephemeral servers (EphemeralServers.kt): servers that the  *)
(* JVMs of a machine start, record and close, the record file of each JVM,    *)
(* JVMs that die at any moment, and reapOrphans, which other JVMs run          *)
(* concurrently.                                                           *)
(*                                                                         *)
(* A process is known by its pid and its start time.  A pid is not a number   *)
(* here: what matters is whether it still is the process that was recorded,    *)
(* is free, or was given to another process (reused).  On a platform without  *)
(* start times (startKnown) no identity can be verified.  The shutdown hook    *)
(* is a sequence of closes followed by the end of the JVM.                  *)
(***************************************************************************)
EXTENDS Naturals, FiniteSets

CONSTANTS
  Owners,   \* JVMs that start servers
  Reapers,  \* JVMs that call reapOrphans
  Servers

Jvms == Owners \cup Reapers
NoServer == "none"

ASSUME ServersAssumption == NoServer \notin Servers
ASSUME OwnersAssumption == Owners # {}

VARIABLES
  startKnown,  \* the platform reports start times
  up,          \* JVMs that run
  process,     \* per server: its process, "none", "alive" or "dead"
  reused,      \* JVMs and servers whose pid now is another process
  home,        \* per server: the JVM that started it (any before that)
  register,    \* per server: how far EphemeralServers.register is
  closing,     \* per server: how far close() is
  runtime,     \* per JVM: how far TemporalRuntime.close is
  sweep,       \* per JVM: what unregisterClosed still has to look at
  live,        \* per JVM: EphemeralServers.live
  records,     \* per JVM: the servers in EphemeralServers.records
  lock,        \* per JVM: the server whose register holds recordsLock
  files,       \* JVMs whose record file exists
  lines,       \* per JVM: the servers its record file lists
  unsaved,     \* JVMs whose last write failed
  reap,        \* per JVM: how far its reapOrphans is
  todo,        \* per JVM: the files it still has to look at
  current,     \* per JVM: the file it is at (its own: none)
  unread,      \* per JVM: the lines of that file it still has to look at
  obliged,     \* per JVM: the recorded orphans there were when it began
  missed,      \* per JVM: the files of JVMs that are gone it could not read
  killed,      \* kills requested by reapers: <<server, is it the server>>
  refused      \* servers the system would not let a reaper kill

jvmVars == <<register, closing, runtime, sweep, live, records, lock>>
fileVars == <<files, lines, unsaved>>
reapVars == <<reap, todo, current, unread, obliged, missed, killed, refused>>
vars == <<startKnown, up, process, reused, home, register, closing, runtime, sweep, live,
          records, lock, files, lines, unsaved, reap, todo, current, unread, obliged, missed,
          killed, refused>>

RegisterSteps == {"none", "started", "added", "checked", "recorded", "done"}
CloseSteps == {"no", "flagged", "freed", "unlisted", "done"}
RuntimeSteps == {"open", "closing", "freed", "sweeping", "closed"}
ReapSteps == {"idle", "scanning", "killing", "done"}

-----------------------------------------------------------------------------
(***************************************************************************)
(* Who a record refers to.                                                 *)
(***************************************************************************)

\* OwnerKey.isAlive: an unknown start time leaves only the pid.
OwnerAlive(j) == j \in up \/ (~startKnown /\ j \in reused)

\* Faulty variant: the start time is not compared.
LiveByPid(s) == process[s] = "alive" \/ s \in reused

\* ProcessRecord.liveProcess: the process is still the recorded one.
LiveProcess(s) == startKnown /\ process[s] = "alive"

\* isClosed() of a server.
IsClosed(s) == closing[s] # "no" \/ runtime[home[s]] # "open"

Running(s) == register[s] # "none" /\ home[s] \in up

\* writeOwnRecords: an atomic move of a complete file, or its removal; an
\* IOException is logged and leaves the old one.
WriteOwnRecords(j, servers) ==
  \/ /\ lines' = [lines EXCEPT ![j] = servers]
     /\ files' = IF servers = {} THEN files \ {j} ELSE files \cup {j}
     /\ unsaved' = unsaved \ {j}
  \/ /\ unsaved' = unsaved \cup {j}
     /\ UNCHANGED <<files, lines>>

-----------------------------------------------------------------------------
(***************************************************************************)
(* Starting a server.                                                      *)
(***************************************************************************)

\* KtEphemeralServer.start returned: the child runs.
StartServer(s, j) ==
  /\ register[s] = "none"
  /\ j \in up /\ runtime[j] = "open"
  /\ home' = [home EXCEPT ![s] = j]
  /\ process' = [process EXCEPT ![s] = "alive"]
  /\ register' = [register EXCEPT ![s] = "started"]
  /\ UNCHANGED <<startKnown, up, reused, closing, runtime, sweep, live, records, lock, fileVars,
                 reapVars>>

\* register: live.add.
RegisterLive(s) ==
  /\ Running(s) /\ register[s] = "started"
  /\ live' = [live EXCEPT ![home[s]] = @ \cup {s}]
  /\ register' = [register EXCEPT ![s] = "added"]
  /\ UNCHANGED <<startKnown, up, process, reused, home, closing, runtime, sweep, records, lock,
                 fileVars, reapVars>>

\* Faulty variant: a runtime that was closed meanwhile goes unnoticed.
RegisterUnchecked(s) ==
  /\ Running(s) /\ register[s] = "added" /\ lock[home[s]] = NoServer
  /\ lock' = [lock EXCEPT ![home[s]] = s]
  /\ register' = [register EXCEPT ![s] = "checked"]
  /\ UNCHANGED <<startKnown, up, process, reused, home, closing, runtime, sweep, live, records,
                 fileVars, reapVars>>

\* With recordsLock: a closed server is taken out again.
RegisterCheck(s) ==
  LET j == home[s]
  IN /\ Running(s) /\ register[s] = "added" /\ lock[j] = NoServer
     /\ \/ /\ IsClosed(s)
           /\ live' = [live EXCEPT ![j] = @ \ {s}]
           /\ register' = [register EXCEPT ![s] = "done"]
           /\ UNCHANGED lock
        \/ /\ ~IsClosed(s)
           /\ lock' = [lock EXCEPT ![j] = s]
           /\ register' = [register EXCEPT ![s] = "checked"]
           /\ UNCHANGED live
     /\ UNCHANGED <<startKnown, up, process, reused, home, closing, runtime, sweep, records,
                    fileVars, reapVars>>

\* server.pid and ProcessRecord.of: no record for a server that was closed; one
\* whose process has ended, and is not reaped yet, may still be observed.
RegisterRecord(s) ==
  LET j == home[s]
  IN /\ Running(s) /\ register[s] = "checked"
     /\ \/ /\ IsClosed(s) \/ process[s] # "alive"
           /\ lock' = [lock EXCEPT ![j] = NoServer]
           /\ register' = [register EXCEPT ![s] = "done"]
           /\ UNCHANGED records
        \/ /\ ~IsClosed(s)
           /\ records' = [records EXCEPT ![j] = @ \cup {s}]
           /\ register' = [register EXCEPT ![s] = "recorded"]
           /\ UNCHANGED lock
     /\ UNCHANGED <<startKnown, up, process, reused, home, closing, runtime, sweep, live,
                    fileVars, reapVars>>

\* writeOwnRecords, and the lock is released.
RegisterWrite(s) ==
  LET j == home[s]
  IN /\ Running(s) /\ register[s] = "recorded"
     /\ WriteOwnRecords(j, records[j])
     /\ lock' = [lock EXCEPT ![j] = NoServer]
     /\ register' = [register EXCEPT ![s] = "done"]
     /\ UNCHANGED <<startKnown, up, process, reused, home, closing, runtime, sweep, live, records,
                    reapVars>>

-----------------------------------------------------------------------------
(***************************************************************************)
(* unregister, TemporalDevServer.close and TemporalRuntime.close.           *)
(***************************************************************************)

\* unregister's critical section: the file is written if there was a record.
RemoveRecord(s) ==
  LET j == home[s]
  IN /\ lock[j] = NoServer
     /\ records' = [records EXCEPT ![j] = @ \ {s}]
     /\ \/ s \in records[j] /\ WriteOwnRecords(j, records[j] \ {s})
        \/ s \notin records[j] /\ UNCHANGED fileVars

\* close() by the caller, who has the server once it is registered, or by closeAll,
\* which finds it in live: the flag, the child's end (kt_ephemeral_free waits for
\* it), and unregister.
CloseServer(s) ==
  /\ Running(s)
  /\ \/ /\ closing[s] = "no"
        /\ register[s] = "done" \/ s \in live[home[s]]
        /\ closing' = [closing EXCEPT ![s] = "flagged"]
        /\ UNCHANGED <<process, live, records, fileVars>>
     \/ /\ closing[s] = "flagged"
        /\ closing' = [closing EXCEPT ![s] = "freed"]
        /\ process' = [process EXCEPT ![s] = "dead"]
        /\ UNCHANGED <<live, records, fileVars>>
     \/ /\ closing[s] = "freed"
        /\ closing' = [closing EXCEPT ![s] = "unlisted"]
        /\ live' = [live EXCEPT ![home[s]] = @ \ {s}]
        /\ UNCHANGED <<process, records, fileVars>>
     \/ /\ closing[s] = "unlisted"
        /\ closing' = [closing EXCEPT ![s] = "done"]
        /\ RemoveRecord(s)
        /\ UNCHANGED <<process, live>>
  /\ UNCHANGED <<startKnown, up, reused, home, register, runtime, sweep, lock, reapVars>>

\* closeAll meets a server that another thread is closing: close() returns at once,
\* and unregister runs ahead of the other's.
CloseAllUnregisters(s) ==
  /\ Running(s) /\ closing[s] \in {"flagged", "freed"}
  /\ \/ /\ s \in live[home[s]]
        /\ live' = [live EXCEPT ![home[s]] = @ \ {s}]
        /\ UNCHANGED <<records, fileVars>>
     \/ /\ s \notin live[home[s]]
        /\ RemoveRecord(s)
        /\ UNCHANGED live
  /\ UNCHANGED <<startKnown, up, process, reused, home, register, closing, runtime, sweep, lock,
                 reapVars>>

\* TemporalRuntime.close: kt.close ends every child of the runtime, then
\* unregisterClosed takes a snapshot of live.
RuntimeClose(j) ==
  /\ j \in up
  /\ \/ /\ runtime[j] = "open"
        /\ runtime' = [runtime EXCEPT ![j] = "closing"]
        /\ UNCHANGED <<process, sweep>>
     \/ /\ runtime[j] = "closing"
        /\ runtime' = [runtime EXCEPT ![j] = "freed"]
        /\ process' = [s \in Servers |->
             IF register[s] # "none" /\ home[s] = j THEN "dead" ELSE process[s]]
        /\ UNCHANGED sweep
     \/ /\ runtime[j] = "freed"
        /\ runtime' = [runtime EXCEPT ![j] = "sweeping"]
        /\ sweep' = [sweep EXCEPT ![j] = live[j]]
        /\ UNCHANGED process
     \/ /\ runtime[j] = "sweeping" /\ sweep[j] = {}
        /\ runtime' = [runtime EXCEPT ![j] = "closed"]
        /\ UNCHANGED <<process, sweep>>
  /\ UNCHANGED <<startKnown, up, reused, home, register, closing, live, records, lock, fileVars,
                 reapVars>>

\* unregister one of them: all are closed by now.  live.remove comes first.
SweepOne(j, s) ==
  /\ j \in up /\ runtime[j] = "sweeping" /\ s \in sweep[j]
  /\ \/ /\ s \in live[j]
        /\ live' = [live EXCEPT ![j] = @ \ {s}]
        /\ UNCHANGED <<records, fileVars, sweep>>
     \/ /\ s \notin live[j]
        /\ RemoveRecord(s)
        /\ sweep' = [sweep EXCEPT ![j] = @ \ {s}]
        /\ UNCHANGED live
  /\ UNCHANGED <<startKnown, up, process, reused, home, register, closing, runtime, lock, reapVars>>

-----------------------------------------------------------------------------
(***************************************************************************)
(* The machine: processes end, JVMs die with everything they have in memory,  *)
(* and pids are given to other processes.                                  *)
(***************************************************************************)
JvmDies(j) ==
  /\ j \in up
  /\ up' = up \ {j}
  /\ live' = [live EXCEPT ![j] = {}]
  /\ records' = [records EXCEPT ![j] = {}]
  /\ lock' = [lock EXCEPT ![j] = NoServer]
  /\ sweep' = [sweep EXCEPT ![j] = {}]
  /\ reap' = [reap EXCEPT ![j] = "idle"]
  /\ todo' = [todo EXCEPT ![j] = {}]
  /\ current' = [current EXCEPT ![j] = j]
  /\ unread' = [unread EXCEPT ![j] = {}]
  /\ obliged' = [obliged EXCEPT ![j] = {}]
  /\ missed' = [missed EXCEPT ![j] = {}]
  /\ UNCHANGED <<startKnown, process, reused, home, register, closing, runtime, fileVars, killed,
                 refused>>

\* Of itself, because of a kill, or in a shutdown() that leaves the server open.
ServerExits(s) ==
  /\ process[s] = "alive"
  /\ process' = [process EXCEPT ![s] = "dead"]
  /\ UNCHANGED <<startKnown, up, reused, home, jvmVars, fileVars, reapVars>>

\* A pid is free once its process was waited for: by the bridge (in shutdown(), a
\* close or the runtime's), or by the system after the JVM's end.
Reaped(s) ==
  /\ process[s] = "dead"
  /\ \/ home[s] \notin up
     \/ register[s] = "done"
     \/ closing[s] \notin {"no", "flagged"}
     \/ runtime[home[s]] \notin {"open", "closing"}

\* Only recorded pids are ever looked up, so a reaper's own is left out.
PidReused ==
  /\ \/ \E s \in Servers \ reused : Reaped(s) /\ reused' = reused \cup {s}
     \/ \E j \in Owners \ (up \cup reused) : reused' = reused \cup {j}
  /\ UNCHANGED <<startKnown, up, process, home, jvmVars, fileVars, reapVars>>

-----------------------------------------------------------------------------
(***************************************************************************)
(* reapOrphans, once per JVM.                                              *)
(***************************************************************************)

\* Servers that outlived their JVM and are in its record file.
RecordedOrphans ==
  { s \in Servers : process[s] = "alive" /\ home[s] \notin up
                      /\ home[s] \in files /\ s \in lines[home[s]] }

\* The directory is listed; the own file is skipped.
ReapBegin(k) ==
  /\ k \in up /\ reap[k] = "idle"
  /\ reap' = [reap EXCEPT ![k] = "scanning"]
  /\ todo' = [todo EXCEPT ![k] = files \ {k}]
  /\ obliged' = [obliged EXCEPT ![k] = IF startKnown THEN RecordedOrphans ELSE {}]
  /\ UNCHANGED <<startKnown, up, process, reused, home, jvmVars, fileVars, current, unread, missed,
                 killed, refused>>

\* A file is skipped if its owner is alive, if it is gone, or if reading it fails.
ReapSkip(k, j) ==
  /\ k \in up /\ reap[k] = "scanning" /\ j \in todo[k]
  /\ \/ /\ OwnerAlive(j) \/ j \notin files
        /\ UNCHANGED missed
     \/ /\ ~OwnerAlive(j) /\ j \in files
        /\ missed' = [missed EXCEPT ![k] = @ \cup {j}]
  /\ todo' = [todo EXCEPT ![k] = @ \ {j}]
  /\ UNCHANGED <<startKnown, up, process, reused, home, jvmVars, fileVars, reap, current, unread,
                 obliged, killed, refused>>

\* Faulty variant: the file is deleted before its processes are killed.
ReapReadDeletes(k, j) ==
  /\ k \in up /\ reap[k] = "scanning" /\ j \in todo[k]
  /\ ~OwnerAlive(j) /\ j \in files
  /\ reap' = [reap EXCEPT ![k] = "killing"]
  /\ current' = [current EXCEPT ![k] = j]
  /\ unread' = [unread EXCEPT ![k] = lines[j]]
  /\ files' = files \ {j}
  /\ lines' = [lines EXCEPT ![j] = {}]
  /\ UNCHANGED <<startKnown, up, process, reused, home, jvmVars, unsaved, todo, obliged, missed,
                 killed, refused>>

\* The file of a JVM that is gone is read.
ReapRead(k, j) ==
  /\ k \in up /\ reap[k] = "scanning" /\ j \in todo[k]
  /\ ~OwnerAlive(j) /\ j \in files
  /\ reap' = [reap EXCEPT ![k] = "killing"]
  /\ current' = [current EXCEPT ![k] = j]
  /\ unread' = [unread EXCEPT ![k] = lines[j]]
  /\ UNCHANGED <<startKnown, up, process, reused, home, jvmVars, fileVars, todo, obliged, missed,
                 killed, refused>>

\* One line: destroyForcibly for its process, if it still is the recorded one (a
\* ProcessHandle kills no other process).  That only requests the end, and the
\* system may refuse it; the file's other lines follow in either case.
ReapKill(k, s) ==
  /\ k \in up /\ reap[k] = "killing" /\ s \in unread[k]
  /\ unread' = [unread EXCEPT ![k] = @ \ {s}]
  /\ \/ /\ LiveProcess(s)
        /\ killed' = killed \cup {<<s, process[s] = "alive">>}
        /\ UNCHANGED refused
     \/ /\ LiveProcess(s)
        /\ refused' = refused \cup {s}
        /\ UNCHANGED killed
     \/ /\ ~LiveProcess(s)
        /\ UNCHANGED <<killed, refused>>
  /\ UNCHANGED <<startKnown, up, process, reused, home, jvmVars, fileVars, reap, todo, current,
                 obliged, missed>>

\* deleteIfExists, after the last line and whatever became of the kills; an
\* IOException leaves the file.
ReapDelete(k) ==
  /\ k \in up /\ reap[k] = "killing" /\ unread[k] = {}
  /\ reap' = [reap EXCEPT ![k] = "scanning"]
  /\ todo' = [todo EXCEPT ![k] = @ \ {current[k]}]
  /\ \/ /\ files' = files \ {current[k]}
        /\ lines' = [lines EXCEPT ![current[k]] = {}]
     \/ UNCHANGED <<files, lines>>
  /\ current' = [current EXCEPT ![k] = k]
  /\ UNCHANGED <<startKnown, up, process, reused, home, jvmVars, unsaved, unread, obliged, missed,
                 killed, refused>>

ReapEnd(k) ==
  /\ k \in up /\ reap[k] = "scanning" /\ todo[k] = {}
  /\ reap' = [reap EXCEPT ![k] = "done"]
  /\ UNCHANGED <<startKnown, up, process, reused, home, jvmVars, fileVars, todo, current, unread,
                 obliged, missed, killed, refused>>

-----------------------------------------------------------------------------
Init ==
  /\ startKnown \in BOOLEAN
  /\ up = Jvms
  /\ process = [s \in Servers |-> "none"]
  /\ reused = {}
  /\ home = [s \in Servers |-> CHOOSE j \in Owners : TRUE]
  /\ register = [s \in Servers |-> "none"]
  /\ closing = [s \in Servers |-> "no"]
  /\ runtime = [j \in Jvms |-> "open"]
  /\ sweep = [j \in Jvms |-> {}]
  /\ live = [j \in Jvms |-> {}]
  /\ records = [j \in Jvms |-> {}]
  /\ lock = [j \in Jvms |-> NoServer]
  /\ files = {}
  /\ lines = [j \in Jvms |-> {}]
  /\ unsaved = {}
  /\ reap = [j \in Jvms |-> "idle"]
  /\ todo = [j \in Jvms |-> {}]
  /\ current = [j \in Jvms |-> j]
  /\ unread = [j \in Jvms |-> {}]
  /\ obliged = [j \in Jvms |-> {}]
  /\ missed = [j \in Jvms |-> {}]
  /\ killed = {} /\ refused = {}

RegisterStep(s) == RegisterLive(s) \/ RegisterCheck(s) \/ RegisterRecord(s) \/ RegisterWrite(s)
ReapStep(k) ==
  \/ ReapBegin(k) \/ ReapDelete(k) \/ ReapEnd(k)
  \/ \E j \in Jvms : ReapSkip(k, j) \/ ReapRead(k, j)
  \/ \E s \in Servers : ReapKill(k, s)

Next ==
  \/ \E s \in Servers, j \in Owners : StartServer(s, j) \/ SweepOne(j, s)
  \/ \E s \in Servers : RegisterStep(s) \/ CloseServer(s) \/ CloseAllUnregisters(s) \/ ServerExits(s)
  \/ \E j \in Owners : RuntimeClose(j)
  \/ \E k \in Reapers : ReapStep(k)
  \/ \E j \in Jvms : JvmDies(j)
  \/ PidReused

Spec == Init /\ [][Next]_vars

-----------------------------------------------------------------------------
(***************************************************************************)
(* Properties.                                                             *)
(***************************************************************************)

\* The types of the registry's state; a record file that exists is not empty.
TypeOK ==
  /\ startKnown \in BOOLEAN
  /\ up \subseteq Jvms /\ reused \subseteq Jvms \cup Servers
  /\ process \in [Servers -> {"none", "alive", "dead"}]
  /\ home \in [Servers -> Jvms]
  /\ register \in [Servers -> RegisterSteps]
  /\ closing \in [Servers -> CloseSteps]
  /\ runtime \in [Jvms -> RuntimeSteps]
  /\ sweep \in [Jvms -> SUBSET Servers] /\ live \in [Jvms -> SUBSET Servers]
  /\ records \in [Jvms -> SUBSET Servers]
  /\ lock \in [Jvms -> Servers \cup {NoServer}]
  /\ lines \in [Jvms -> SUBSET Servers]
  /\ files = { j \in Jvms : lines[j] # {} }
  /\ unsaved \subseteq Jvms
  /\ reap \in [Jvms -> ReapSteps]
  /\ todo \in [Jvms -> SUBSET Jvms] /\ current \in [Jvms -> Jvms]
  /\ unread \in [Jvms -> SUBSET Servers] /\ obliged \in [Jvms -> SUBSET Servers]
  /\ missed \in [Jvms -> SUBSET Jvms]
  /\ killed \subseteq Servers \X BOOLEAN /\ refused \subseteq Servers

\* A reaper kills servers of JVMs that are gone and nothing else: no server of a
\* JVM that runs, and no process that was given a recorded pid later ("a reused
\* pid is never killed", EphemeralServers.kt:35-36).
OnlyOrphansKilled ==
  \A victim \in killed : victim[2] /\ home[victim[1]] \notin up

\* What a reaper can do for a server was done: it is dead, its end was requested,
\* or the system refused that.
Settled(s) == process[s] # "alive" \/ <<s, TRUE>> \in killed \/ s \in refused

\* A server that outlives its JVM after it was registered, and was not being
\* closed, stays in the record file until its end was requested, or refused, whatever
\* reapers run, die, fail to read or overlap, if its identity can be verified and the
\* last write succeeded.  And when reapOrphans returns, that was done for every recorded
\* orphan there was when it began, also for the ones in files another reaper took, but
\* for the files it could not read, which then still record the orphan for the next
\* (EphemeralServers.reapOrphans).
OrphansReaped ==
  /\ TypeOK
  /\ startKnown =>
       \A s \in Servers :
         /\ ~Settled(s) /\ home[s] \notin up
         /\ register[s] = "done" /\ ~IsClosed(s)
         /\ home[s] \notin unsaved
         => home[s] \in files /\ s \in lines[home[s]]
  /\ \A k \in Jvms : reap[k] = "done" =>
       \A s \in obliged[k] :
         Settled(s) \/ (home[s] \in missed[k] /\ s \in lines[home[s]])

\* Once the runtime or the server is closed, and neither its registration nor
\* a close of it is in progress, the registry has forgotten it ("A start may finish wrapping its result after the
\* owning runtime has closed", EphemeralServers.kt:130).
ClosedIsForgotten ==
  \A s \in Servers :
    /\ register[s] = "done" /\ closing[s] \in {"no", "done"}
    /\ runtime[home[s]] = "closed" \/ closing[s] = "done"
    => s \notin live[home[s]] /\ s \notin records[home[s]]
=============================================================================
