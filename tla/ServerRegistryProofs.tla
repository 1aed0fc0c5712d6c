------------------------ MODULE ServerRegistryProofs ------------------------
(***************************************************************************)
(* Proofs about ServerRegistry for any number of JVMs that start servers, of   *)
(* JVMs that reap and of servers: only orphans are killed, recorded orphans    *)
(* are, and the registry forgets what was closed.                           *)
(***************************************************************************)
EXTENDS ServerRegistry, TLAPS

Gone == {"sweeping", "closed"}

\* What a JVM knows or records of servers is of servers it started.
HomeInv ==
  \A s \in Servers :
    /\ register[s] = "none" => process[s] = "none"
    /\ closing[s] # "no" => register[s] \notin {"none", "started"}
    /\ \A j \in Jvms :
         /\ s \in live[j] \cup records[j] \cup lines[j] \cup sweep[j] =>
              register[s] # "none" /\ home[s] = j
         /\ s \in live[j] => register[s] # "started"
         /\ s \in records[j] => register[s] \in {"recorded", "done"}
         /\ s \in unread[j] => register[s] # "none" /\ home[s] = current[j]
         /\ s \in obliged[j] => register[s] # "none"

\* recordsLock is held by the server that is being recorded.
LockInv ==
  /\ \A j \in Jvms : lock[j] # NoServer => home[lock[j]] = j /\ register[lock[j]] \in {"checked", "recorded"}
  /\ \A s \in Servers : register[s] \in {"checked", "recorded"} /\ home[s] \in up => lock[home[s]] = s

\* A reaper is at the file of a JVM that is gone, and kills only its servers.
KilledInv ==
  /\ \A k \in Jvms : reap[k] = "killing" => current[k] \notin up
  /\ \A victim \in killed :
       victim[2] /\ register[victim[1]] # "none" /\ home[victim[1]] \notin up

\* Where a server is recorded: in memory while its JVM runs, in the file unless a
\* write failed or a reaper has settled it.
RecordInv ==
  \A s \in Servers :
    /\ register[s] = "recorded" /\ home[s] \in up => s \in records[home[s]]
    /\ process[s] = "alive" /\ register[s] = "done" /\ ~IsClosed(s) =>
         /\ home[s] \in up => s \in records[home[s]]
         /\ startKnown /\ home[s] \notin unsaved /\ ~Settled(s) => s \in lines[home[s]]

\* What a reaper has still to do: the lines of the file it has read that are not
\* settled, and the files of the orphans there were when it began; a file it could
\* not read still has them.
ReapInv ==
  \A k \in Jvms, s \in Servers :
    /\ startKnown /\ reap[k] = "killing" /\ s \in lines[current[k]] /\ ~Settled(s) =>
         s \in unread[k]
    /\ s \in obliged[k] /\ ~Settled(s) =>
         /\ startKnown /\ home[s] \notin up /\ s \in lines[home[s]]
         /\ \/ home[s] \in missed[k]
            \/ reap[k] \in {"scanning", "killing"} /\ home[s] \in todo[k]

\* How a closed server is forgotten: by its own close, by the sweep of its runtime's,
\* or by its registration, which looks once more.
ForgetInv ==
  \A s \in Servers :
    /\ closing[s] \in {"unlisted", "done"} => s \notin live[home[s]]
    /\ closing[s] = "done" => s \notin records[home[s]]
    /\ register[s] \in {"added", "checked"} /\ home[s] \in up /\ runtime[home[s]] \notin Gone =>
         s \in live[home[s]] \/ closing[s] # "no"
    /\ runtime[home[s]] \notin Gone /\ s \in records[home[s]] =>
         s \in live[home[s]] \/ closing[s] # "no"
    /\ runtime[home[s]] \in Gone =>
         /\ s \in live[home[s]] => s \in sweep[home[s]] \/ register[s] = "added"
         /\ s \in records[home[s]] => s \in sweep[home[s]] \/ closing[s] # "no"
    /\ runtime[home[s]] = "closed" => sweep[home[s]] = {}

RegistryInv ==
  TypeOK /\ HomeInv /\ LockInv /\ KilledInv /\ RecordInv /\ ReapInv /\ ForgetInv

-----------------------------------------------------------------------------
(***************************************************************************)
(* The steps, and what writing a record file does.                          *)
(***************************************************************************)
LEMMA Written ==
  ASSUME TypeOK, NEW j \in Jvms, NEW S \in SUBSET Servers, WriteOwnRecords(j, S)
  PROVE  /\ lines' \in [Jvms -> SUBSET Servers]
         /\ files' = { i \in Jvms : lines'[i] # {} }
         /\ unsaved' \subseteq Jvms
         /\ \A i \in Jvms \ {j} : lines'[i] = lines[i] /\ (i \in unsaved' <=> i \in unsaved)
         /\ lines'[j] = S \/ lines'[j] = lines[j]
         /\ j \notin unsaved' => lines'[j] = S
<1>1. /\ lines \in [Jvms -> SUBSET Servers] /\ unsaved \subseteq Jvms
      /\ files = { i \in Jvms : lines[i] # {} }
  BY DEF TypeOK
<1>2. CASE /\ lines' = [lines EXCEPT ![j] = S] /\ unsaved' = unsaved \ {j}
           /\ files' = IF S = {} THEN files \ {j} ELSE files \cup {j}
  <2>1. lines' \in [Jvms -> SUBSET Servers] /\ lines'[j] = S /\ \A i \in Jvms \ {j} : lines'[i] = lines[i]
    BY <1>1, <1>2
  <2>2. files' = { i \in Jvms : lines'[i] # {} }
    BY <1>1, <1>2, <2>1
  <2> QED BY <1>1, <1>2, <2>1, <2>2
<1>3. CASE unsaved' = unsaved \cup {j} /\ UNCHANGED <<files, lines>>
  BY <1>1, <1>3
<1> QED BY <1>2, <1>3 DEF WriteOwnRecords

\* A removal writes the records of the server's JVM without it, or nothing.
LEMMA Removed ==
  ASSUME TypeOK, NEW s \in Servers, RemoveRecord(s)
  PROVE  /\ lines' \in [Jvms -> SUBSET Servers]
         /\ files' = { i \in Jvms : lines'[i] # {} }
         /\ unsaved' \subseteq Jvms
         /\ records' = [records EXCEPT ![home[s]] = @ \ {s}]
         /\ lock[home[s]] = NoServer
         /\ \A i \in Jvms \ {home[s]} :
              lines'[i] = lines[i] /\ (i \in unsaved' <=> i \in unsaved)
         /\ lines'[home[s]] \subseteq records[home[s]] \/ lines'[home[s]] = lines[home[s]]
         /\ home[s] \notin unsaved' =>
              \/ home[s] \notin unsaved /\ lines'[home[s]] = lines[home[s]]
              \/ lines'[home[s]] = records[home[s]] \ {s}
<1>1. home[s] \in Jvms /\ records[home[s]] \ {s} \in SUBSET Servers
  BY DEF TypeOK
<1>2. CASE s \in records[home[s]] /\ WriteOwnRecords(home[s], records[home[s]] \ {s})
  BY <1>1, <1>2, Written DEF RemoveRecord
<1>3. CASE s \notin records[home[s]] /\ UNCHANGED fileVars
  BY <1>1, <1>3 DEF RemoveRecord, fileVars, TypeOK
<1> QED BY <1>2, <1>3 DEF RemoveRecord

\* Every step is one of the operations.
LEMMA Steps ==
  ASSUME [Next]_vars
  PROVE  \/ \E s \in Servers, j \in Owners : StartServer(s, j)
         \/ \E s \in Servers, j \in Owners : SweepOne(j, s)
         \/ \E s \in Servers : RegisterLive(s)
         \/ \E s \in Servers : RegisterCheck(s)
         \/ \E s \in Servers : RegisterRecord(s)
         \/ \E s \in Servers : RegisterWrite(s)
         \/ \E s \in Servers : CloseServer(s)
         \/ \E s \in Servers : CloseAllUnregisters(s)
         \/ \E s \in Servers : ServerExits(s)
         \/ \E j \in Owners : RuntimeClose(j)
         \/ \E k \in Reapers : ReapBegin(k)
         \/ \E k \in Reapers, j \in Jvms : ReapSkip(k, j)
         \/ \E k \in Reapers, j \in Jvms : ReapRead(k, j)
         \/ \E k \in Reapers, s \in Servers : ReapKill(k, s)
         \/ \E k \in Reapers : ReapDelete(k)
         \/ \E k \in Reapers : ReapEnd(k)
         \/ \E j \in Jvms : JvmDies(j)
         \/ PidReused
         \/ UNCHANGED vars
BY Zenon DEF Next, RegisterStep, ReapStep

LEMMA Members == Owners \subseteq Jvms /\ Reapers \subseteq Jvms /\ \A s \in Servers : s # NoServer
BY ServersAssumption DEF Jvms

-----------------------------------------------------------------------------
(***************************************************************************)
(* Types.                                                                  *)
(***************************************************************************)
FileTypes ==
  /\ lines \in [Jvms -> SUBSET Servers]
  /\ files = { j \in Jvms : lines[j] # {} }
  /\ unsaved \subseteq Jvms

ReapTypes ==
  /\ reap \in [Jvms -> ReapSteps]
  /\ todo \in [Jvms -> SUBSET Jvms] /\ current \in [Jvms -> Jvms]
  /\ unread \in [Jvms -> SUBSET Servers] /\ obliged \in [Jvms -> SUBSET Servers]
  /\ missed \in [Jvms -> SUBSET Jvms]
  /\ killed \subseteq Servers \X BOOLEAN /\ refused \subseteq Servers

JvmTypes ==
  /\ register \in [Servers -> RegisterSteps]
  /\ closing \in [Servers -> CloseSteps]
  /\ runtime \in [Jvms -> RuntimeSteps]
  /\ sweep \in [Jvms -> SUBSET Servers] /\ live \in [Jvms -> SUBSET Servers]
  /\ records \in [Jvms -> SUBSET Servers]
  /\ lock \in [Jvms -> Servers \cup {NoServer}]

MachineTypes ==
  /\ up \subseteq Jvms /\ reused \subseteq Jvms \cup Servers
  /\ process \in [Servers -> {"none", "alive", "dead"}]
  /\ home \in [Servers -> Jvms]

LEMMA TypeParts ==
  TypeOK <=> startKnown \in BOOLEAN /\ MachineTypes /\ JvmTypes /\ FileTypes /\ ReapTypes
BY Zenon DEF TypeOK, MachineTypes, JvmTypes, FileTypes, ReapTypes

LEMMA TypeStep ==
  ASSUME TypeOK, [Next]_vars
  PROVE  TypeOK'
<1> USE Members
<1>1. MachineTypes /\ JvmTypes /\ FileTypes /\ ReapTypes
  BY TypeParts
<1>m. ASSUME UNCHANGED <<up, reused, process, home>> PROVE MachineTypes'
  BY <1>1, <1>m DEF MachineTypes
<1>j. ASSUME UNCHANGED jvmVars PROVE JvmTypes'
  BY <1>1, <1>j DEF JvmTypes, jvmVars
<1>f. ASSUME UNCHANGED fileVars PROVE FileTypes'
  BY <1>1, <1>f DEF FileTypes, fileVars
<1>r. ASSUME UNCHANGED reapVars PROVE ReapTypes'
  BY <1>1, <1>r DEF ReapTypes, reapVars
<1>2. ASSUME startKnown' = startKnown, MachineTypes', JvmTypes', FileTypes', ReapTypes'
      PROVE  TypeOK'
  <2>1. startKnown' \in BOOLEAN
    BY <1>2, Zenon DEF TypeOK
  <2> QED BY <2>1, <1>2, Zenon DEF TypeOK, MachineTypes, JvmTypes, FileTypes, ReapTypes
<1>3. ASSUME NEW s \in Servers, NEW j \in Owners, StartServer(s, j) PROVE TypeOK'
  <2>1. MachineTypes'
    BY <1>1, <1>3 DEF StartServer, MachineTypes
  <2>2. JvmTypes'
    BY <1>1, <1>3 DEF StartServer, JvmTypes, RegisterSteps
  <2> QED BY <2>1, <2>2, <1>2, <1>f, <1>r, <1>3 DEF StartServer
<1>4. ASSUME NEW s \in Servers, NEW j \in Owners, SweepOne(j, s) PROVE TypeOK'
  <2>1. JvmTypes'
    BY <1>1, <1>4 DEF SweepOne, JvmTypes, RemoveRecord, MachineTypes
  <2>2. FileTypes'
    <3>1. CASE RemoveRecord(s)
      BY <3>1, Removed DEF FileTypes
    <3>2. CASE UNCHANGED fileVars
      BY <3>2, <1>f
    <3> QED BY <3>1, <3>2, <1>4 DEF SweepOne
  <2> QED BY <2>1, <2>2, <1>2, <1>m, <1>r, <1>4 DEF SweepOne
<1>5. ASSUME NEW s \in Servers, RegisterLive(s) PROVE TypeOK'
  <2>1. JvmTypes'
    BY <1>1, <1>5 DEF RegisterLive, JvmTypes, MachineTypes, RegisterSteps
  <2> QED BY <2>1, <1>2, <1>m, <1>f, <1>r, <1>5 DEF RegisterLive
<1>6. ASSUME NEW s \in Servers, RegisterCheck(s) PROVE TypeOK'
  <2>1. JvmTypes'
    BY <1>1, <1>6 DEF RegisterCheck, JvmTypes, MachineTypes, RegisterSteps
  <2> QED BY <2>1, <1>2, <1>m, <1>f, <1>r, <1>6 DEF RegisterCheck
<1>7. ASSUME NEW s \in Servers, RegisterRecord(s) PROVE TypeOK'
  <2>1. JvmTypes'
    BY <1>1, <1>7 DEF RegisterRecord, JvmTypes, MachineTypes, RegisterSteps
  <2> QED BY <2>1, <1>2, <1>m, <1>f, <1>r, <1>7 DEF RegisterRecord
<1>8. ASSUME NEW s \in Servers, RegisterWrite(s) PROVE TypeOK'
  <2>1. JvmTypes'
    BY <1>1, <1>8 DEF RegisterWrite, JvmTypes, MachineTypes, RegisterSteps
  <2>2. home[s] \in Jvms /\ records[home[s]] \in SUBSET Servers
    BY <1>1 DEF JvmTypes, MachineTypes
  <2>3. WriteOwnRecords(home[s], records[home[s]])
    BY <1>8 DEF RegisterWrite
  <2>4. FileTypes'
    BY <2>2, <2>3, Written DEF FileTypes
  <2> QED BY <2>1, <2>4, <1>2, <1>m, <1>r, <1>8 DEF RegisterWrite
<1>9. ASSUME NEW s \in Servers, CloseServer(s) PROVE TypeOK'
  <2>1. JvmTypes'
    BY <1>1, <1>9 DEF CloseServer, JvmTypes, RemoveRecord, MachineTypes, CloseSteps
  <2>2. FileTypes'
    <3>1. CASE RemoveRecord(s)
      BY <3>1, Removed DEF FileTypes
    <3>2. CASE UNCHANGED fileVars
      BY <3>2, <1>f
    <3> QED BY <3>1, <3>2, <1>9 DEF CloseServer
  <2>3. MachineTypes'
    BY <1>1, <1>9 DEF CloseServer, MachineTypes
  <2> QED BY <2>1, <2>2, <2>3, <1>2, <1>r, <1>9 DEF CloseServer
<1>9a. ASSUME NEW s \in Servers, CloseAllUnregisters(s) PROVE TypeOK'
  <2>1. JvmTypes'
    BY <1>1, <1>9a DEF CloseAllUnregisters, JvmTypes, RemoveRecord, MachineTypes
  <2>2. FileTypes'
    <3>1. CASE RemoveRecord(s)
      BY <3>1, Removed DEF FileTypes
    <3>2. CASE UNCHANGED fileVars
      BY <3>2, <1>f
    <3> QED BY <3>1, <3>2, <1>9a DEF CloseAllUnregisters
  <2> QED BY <2>1, <2>2, <1>2, <1>m, <1>r, <1>9a DEF CloseAllUnregisters
<1>10. ASSUME NEW s \in Servers, ServerExits(s) PROVE TypeOK'
  <2>1. MachineTypes'
    BY <1>1, <1>10 DEF ServerExits, MachineTypes
  <2> QED BY <2>1, <1>2, <1>j, <1>f, <1>r, <1>10 DEF ServerExits
<1>11. ASSUME NEW j \in Owners, RuntimeClose(j) PROVE TypeOK'
  <2>1. JvmTypes'
    BY <1>1, <1>11 DEF RuntimeClose, JvmTypes, RuntimeSteps
  <2>2. MachineTypes'
    BY <1>1, <1>11 DEF RuntimeClose, MachineTypes
  <2> QED BY <2>1, <2>2, <1>2, <1>f, <1>r, <1>11 DEF RuntimeClose
<1>12. ASSUME NEW k \in Reapers, ReapBegin(k) PROVE TypeOK'
  <2>1. ReapTypes'
    BY <1>1, <1>12 DEF ReapBegin, ReapTypes, ReapSteps, FileTypes, RecordedOrphans
  <2> QED BY <2>1, <1>2, <1>m, <1>j, <1>f, <1>12 DEF ReapBegin
<1>13. ASSUME NEW k \in Reapers, NEW j \in Jvms, ReapSkip(k, j) PROVE TypeOK'
  <2>1. ReapTypes'
    BY <1>1, <1>13 DEF ReapSkip, ReapTypes
  <2> QED BY <2>1, <1>2, <1>m, <1>j, <1>f, <1>13 DEF ReapSkip
<1>14. ASSUME NEW k \in Reapers, NEW j \in Jvms, ReapRead(k, j) PROVE TypeOK'
  <2>1. ReapTypes'
    BY <1>1, <1>14 DEF ReapRead, ReapTypes, ReapSteps, FileTypes
  <2> QED BY <2>1, <1>2, <1>m, <1>j, <1>f, <1>14 DEF ReapRead
<1>15. ASSUME NEW k \in Reapers, NEW s \in Servers, ReapKill(k, s) PROVE TypeOK'
  <2>1. MachineTypes'
    BY <1>1, <1>15 DEF ReapKill, MachineTypes
  <2>2. killed' \subseteq Servers \X BOOLEAN
    <3>1. (process[s] = "alive") \in BOOLEAN
      BY Zenon
    <3>2. PICK b \in BOOLEAN : b = (process[s] = "alive")
      BY <3>1, Zenon
    <3>3. killed' = killed \/ killed' = killed \cup {<<s, b>>}
      BY <1>15, <3>2, Zenon DEF ReapKill
    <3> QED BY <1>1, <3>3 DEF ReapTypes
  <2>3. ReapTypes'
    BY <1>1, <1>15, <2>2 DEF ReapKill, ReapTypes
  <2> QED BY <2>1, <2>3, <1>2, <1>j, <1>f, <1>15 DEF ReapKill
<1>16. ASSUME NEW k \in Reapers, ReapDelete(k) PROVE TypeOK'
  <2>1. ReapTypes'
    BY <1>1, <1>16 DEF ReapDelete, ReapTypes, ReapSteps
  <2>2. FileTypes'
    BY <1>1, <1>16 DEF ReapDelete, FileTypes, ReapTypes
  <2> QED BY <2>1, <2>2, <1>2, <1>m, <1>j, <1>16 DEF ReapDelete
<1>17. ASSUME NEW k \in Reapers, ReapEnd(k) PROVE TypeOK'
  <2>1. ReapTypes'
    BY <1>1, <1>17 DEF ReapEnd, ReapTypes, ReapSteps
  <2> QED BY <2>1, <1>2, <1>m, <1>j, <1>f, <1>17 DEF ReapEnd
<1>18. ASSUME NEW j \in Jvms, JvmDies(j) PROVE TypeOK'
  <2>1. ReapTypes'
    BY <1>1, <1>18 DEF JvmDies, ReapTypes, ReapSteps
  <2>2. JvmTypes'
    BY <1>1, <1>18 DEF JvmDies, JvmTypes
  <2>3. MachineTypes'
    BY <1>1, <1>18 DEF JvmDies, MachineTypes
  <2> QED BY <2>1, <2>2, <2>3, <1>2, <1>f, <1>18 DEF JvmDies
<1>19. ASSUME PidReused PROVE TypeOK'
  <2>1. MachineTypes'
    BY <1>1, <1>19 DEF PidReused, MachineTypes
  <2> QED BY <2>1, <1>2, <1>j, <1>f, <1>r, <1>19 DEF PidReused
<1>20. ASSUME UNCHANGED vars PROVE TypeOK'
  BY <1>20, <1>2, <1>m, <1>j, <1>f, <1>r DEF vars, jvmVars, fileVars, reapVars
<1> QED
  BY Steps, <1>3, <1>4, <1>5, <1>6, <1>7, <1>8, <1>9, <1>9a, <1>10, <1>11, <1>12, <1>13, <1>14,
     <1>15, <1>16, <1>17, <1>18, <1>19, <1>20

-----------------------------------------------------------------------------
(***************************************************************************)
(* Whose servers a JVM knows, and who holds recordsLock.                     *)
(***************************************************************************)
LEMMA HomeStep ==
  ASSUME TypeOK, HomeInv, [Next]_vars
  PROVE  HomeInv'
<1> USE Members
<1>0. ASSUME UNCHANGED <<home, register, process, closing, live, records, lines, sweep, unread,
                         current, obliged>>
      PROVE  HomeInv'
  BY <1>0 DEF HomeInv
<1>3. ASSUME NEW s \in Servers, NEW j \in Owners, StartServer(s, j) PROVE HomeInv'
  BY <1>3 DEF StartServer, HomeInv, TypeOK, fileVars, reapVars
<1>4. ASSUME NEW s \in Servers, NEW j \in Owners, SweepOne(j, s) PROVE HomeInv'
  <2>1. CASE s \in live[j] /\ UNCHANGED <<records, fileVars, sweep>>
    <3>1. UNCHANGED <<home, register, process, closing, records, lines, sweep, unread, current, obliged>>
      BY <1>4, <2>1 DEF SweepOne, fileVars, reapVars
    <3>2. \A i \in Jvms : live'[i] \subseteq live[i]
      BY <1>4 DEF SweepOne, TypeOK
    <3> QED BY <3>1, <3>2 DEF HomeInv
  <2>2. CASE RemoveRecord(s) /\ UNCHANGED live
    <3>1. \A i \in Jvms : lines'[i] \subseteq lines[i] \cup records[i]
      BY <2>2, Removed DEF TypeOK
    <3>2. records' = [records EXCEPT ![home[s]] = @ \ {s}]
          /\ (sweep' = sweep \/ sweep' = [sweep EXCEPT ![j] = @ \ {s}])
      BY <1>4, <2>2 DEF SweepOne, RemoveRecord
    <3>3. \A i \in Jvms : records'[i] \subseteq records[i] /\ sweep'[i] \subseteq sweep[i]
      <4>1. records \in [Jvms -> SUBSET Servers] /\ sweep \in [Jvms -> SUBSET Servers]
        BY DEF TypeOK
      <4> QED BY <3>2, <4>1
    <3> QED BY <1>4, <2>2, <3>1, <3>3 DEF SweepOne, HomeInv, reapVars
  <2> QED BY <2>1, <2>2, <1>4 DEF SweepOne
<1>5. ASSUME NEW s \in Servers, RegisterLive(s) PROVE HomeInv'
  BY <1>5 DEF RegisterLive, Running, HomeInv, TypeOK, fileVars, reapVars
<1>6. ASSUME NEW s \in Servers, RegisterCheck(s) PROVE HomeInv'
  BY <1>6 DEF RegisterCheck, Running, HomeInv, TypeOK, fileVars, reapVars
<1>7. ASSUME NEW s \in Servers, RegisterRecord(s) PROVE HomeInv'
  BY <1>7 DEF RegisterRecord, Running, HomeInv, TypeOK, fileVars, reapVars
<1>8. ASSUME NEW s \in Servers, RegisterWrite(s) PROVE HomeInv'
  <2>1. WriteOwnRecords(home[s], records[home[s]])
    BY <1>8 DEF RegisterWrite
  <2>2. \A i \in Jvms : lines'[i] \subseteq lines[i] \cup records[i]
    <3>1. home[s] \in Jvms /\ records[home[s]] \in SUBSET Servers
      BY DEF TypeOK
    <3> QED BY <2>1, <3>1, Written
  <2> QED BY <1>8, <2>2 DEF RegisterWrite, Running, HomeInv, TypeOK, reapVars
<1>9. ASSUME NEW s \in Servers, CloseServer(s) PROVE HomeInv'
  <2>1. CASE UNCHANGED <<records, fileVars>>
    <3>1. UNCHANGED <<home, register, records, lines, sweep, unread, current, obliged>>
      BY <1>9, <2>1 DEF CloseServer, fileVars, reapVars
    <3>2. /\ \A i \in Jvms : live'[i] \subseteq live[i]
          /\ \A t \in Servers : process'[t] = process[t] \/ t = s
          /\ \A t \in Servers : closing'[t] = closing[t] \/ t = s
      BY <1>9 DEF CloseServer, TypeOK
    <3>3. register[s] \notin {"none", "started"}
      BY <1>9 DEF CloseServer, Running, HomeInv, TypeOK
    <3> QED BY <3>1, <3>2, <3>3 DEF HomeInv
  <2>2. CASE RemoveRecord(s) /\ UNCHANGED <<process, live>> /\ closing' = [closing EXCEPT ![s] = "done"]
    <3>1. \A i \in Jvms : lines'[i] \subseteq lines[i] \cup records[i]
      BY <2>2, Removed DEF TypeOK
    <3>2. \A i \in Jvms : records'[i] \subseteq records[i]
      BY <2>2 DEF TypeOK, RemoveRecord
    <3> QED BY <1>9, <2>2, <3>1, <3>2 DEF CloseServer, HomeInv, TypeOK, reapVars
  <2> QED BY <2>1, <2>2, <1>9 DEF CloseServer
<1>9a. ASSUME NEW s \in Servers, CloseAllUnregisters(s) PROVE HomeInv'
  <2>1. CASE UNCHANGED <<records, fileVars>>
    <3>1. UNCHANGED <<home, register, process, closing, records, lines, sweep, unread, current, obliged>>
      BY <1>9a, <2>1 DEF CloseAllUnregisters, fileVars, reapVars
    <3>2. \A i \in Jvms : live'[i] \subseteq live[i]
      BY <1>9a DEF CloseAllUnregisters, TypeOK
    <3> QED BY <3>1, <3>2 DEF HomeInv
  <2>2. CASE RemoveRecord(s) /\ UNCHANGED live
    <3>1. \A i \in Jvms : lines'[i] \subseteq lines[i] \cup records[i]
      BY <2>2, Removed DEF TypeOK
    <3>2. \A i \in Jvms : records'[i] \subseteq records[i]
      BY <2>2 DEF TypeOK, RemoveRecord
    <3>3. UNCHANGED <<home, register, process, closing, live, sweep, unread, current, obliged>>
      BY <1>9a, <2>2 DEF CloseAllUnregisters, reapVars
    <3> QED BY <3>1, <3>2, <3>3 DEF HomeInv
  <2> QED BY <2>1, <2>2, <1>9a DEF CloseAllUnregisters
<1>10. ASSUME NEW s \in Servers, ServerExits(s) PROVE HomeInv'
  BY <1>10 DEF ServerExits, HomeInv, TypeOK, jvmVars, fileVars, reapVars
<1>11. ASSUME NEW j \in Owners, RuntimeClose(j) PROVE HomeInv'
  BY <1>11 DEF RuntimeClose, HomeInv, TypeOK, fileVars, reapVars
<1>12. ASSUME NEW k \in Reapers, ReapBegin(k) PROVE HomeInv'
  BY <1>12 DEF ReapBegin, HomeInv, TypeOK, RecordedOrphans, jvmVars, fileVars
<1>14. ASSUME NEW k \in Reapers, NEW j \in Jvms, ReapRead(k, j) PROVE HomeInv'
  BY <1>14 DEF ReapRead, HomeInv, TypeOK, jvmVars, fileVars
<1>15. ASSUME NEW k \in Reapers, NEW s \in Servers, ReapKill(k, s) PROVE HomeInv'
  BY <1>15 DEF ReapKill, HomeInv, TypeOK, jvmVars, fileVars
<1>16. ASSUME NEW k \in Reapers, ReapDelete(k) PROVE HomeInv'
  <2>1. UNCHANGED <<home, register, process, closing, live, records, sweep, unread, obliged>>
    BY <1>16 DEF ReapDelete, jvmVars
  <2>2. \A i \in Jvms : lines'[i] \subseteq lines[i] /\ (current'[i] = current[i] \/ unread[i] = {})
    BY <1>16 DEF ReapDelete, TypeOK
  <2> QED BY <2>1, <2>2 DEF HomeInv
<1>18. ASSUME NEW j \in Jvms, JvmDies(j) PROVE HomeInv'
  BY <1>18 DEF JvmDies, HomeInv, TypeOK, fileVars
<1>19. CASE \/ \E k \in Reapers, j \in Jvms : ReapSkip(k, j)
            \/ \E k \in Reapers : ReapEnd(k)
            \/ PidReused
            \/ UNCHANGED vars
  BY <1>19, <1>0 DEF ReapSkip, ReapEnd, PidReused, vars, jvmVars, fileVars, reapVars
<1> QED
  BY Steps, <1>3, <1>4, <1>5, <1>6, <1>7, <1>8, <1>9, <1>9a, <1>10, <1>11, <1>12, <1>14, <1>15,
     <1>16, <1>18, <1>19

LEMMA LockStep ==
  ASSUME TypeOK, HomeInv, LockInv, [Next]_vars
  PROVE  LockInv'
<1> USE Members
<1>0. ASSUME UNCHANGED <<lock, home, register, up>>
      PROVE  LockInv'
  BY <1>0 DEF LockInv
<1>3. ASSUME NEW s \in Servers, NEW j \in Owners, StartServer(s, j) PROVE LockInv'
  BY <1>3 DEF StartServer, LockInv, TypeOK
<1>5. ASSUME NEW s \in Servers, RegisterLive(s) PROVE LockInv'
  BY <1>5 DEF RegisterLive, Running, LockInv, TypeOK
<1>6. ASSUME NEW s \in Servers, RegisterCheck(s) PROVE LockInv'
  <2>1. /\ UNCHANGED <<home, up>> /\ register[s] = "added"
        /\ home[s] \in Jvms /\ lock[home[s]] = NoServer
    BY <1>6 DEF RegisterCheck, TypeOK
  <2>2. CASE register' = [register EXCEPT ![s] = "done"] /\ UNCHANGED lock
    BY <2>1, <2>2 DEF LockInv, TypeOK
  <2>3. CASE /\ lock' = [lock EXCEPT ![home[s]] = s]
             /\ register' = [register EXCEPT ![s] = "checked"]
    BY <2>1, <2>3 DEF LockInv, TypeOK
  <2> QED BY <2>2, <2>3, <1>6 DEF RegisterCheck
<1>7. ASSUME NEW s \in Servers, RegisterRecord(s) PROVE LockInv'
  <2>1. /\ UNCHANGED <<home, up>> /\ register[s] = "checked"
        /\ home[s] \in Jvms /\ lock[home[s]] = s
    BY <1>7 DEF RegisterRecord, Running, TypeOK, LockInv
  <2>2. CASE /\ lock' = [lock EXCEPT ![home[s]] = NoServer]
             /\ register' = [register EXCEPT ![s] = "done"]
    BY <2>1, <2>2 DEF LockInv, TypeOK
  <2>3. CASE register' = [register EXCEPT ![s] = "recorded"] /\ UNCHANGED lock
    BY <2>1, <2>3 DEF LockInv, TypeOK
  <2> QED BY <2>2, <2>3, <1>7 DEF RegisterRecord
<1>8. ASSUME NEW s \in Servers, RegisterWrite(s) PROVE LockInv'
  BY <1>8 DEF RegisterWrite, Running, LockInv, TypeOK
<1>18. ASSUME NEW j \in Jvms, JvmDies(j) PROVE LockInv'
  BY <1>18 DEF JvmDies, LockInv, TypeOK
<1>19. CASE \/ \E s \in Servers, j \in Owners : SweepOne(j, s)
            \/ \E s \in Servers : CloseServer(s)
            \/ \E s \in Servers : CloseAllUnregisters(s)
            \/ \E s \in Servers : ServerExits(s)
            \/ \E j \in Owners : RuntimeClose(j)
            \/ PidReused
            \/ UNCHANGED vars
  BY <1>19, <1>0 DEF SweepOne, CloseServer, CloseAllUnregisters, ServerExits, RuntimeClose,
                     PidReused, vars, jvmVars
<1>20. CASE \/ \E k \in Reapers : ReapBegin(k)
            \/ \E k \in Reapers, j \in Jvms : ReapSkip(k, j)
            \/ \E k \in Reapers, j \in Jvms : ReapRead(k, j)
            \/ \E k \in Reapers, s \in Servers : ReapKill(k, s)
            \/ \E k \in Reapers : ReapDelete(k)
            \/ \E k \in Reapers : ReapEnd(k)
  BY <1>20, <1>0 DEF ReapBegin, ReapSkip, ReapRead, ReapKill, ReapDelete, ReapEnd, jvmVars
<1> QED
  BY Steps, <1>3, <1>5, <1>6, <1>7, <1>8, <1>18, <1>19, <1>20

-----------------------------------------------------------------------------
(***************************************************************************)
(* What reapers kill.                                                      *)
(***************************************************************************)
LEMMA KilledStep ==
  ASSUME TypeOK, HomeInv, KilledInv, [Next]_vars
  PROVE  KilledInv'
<1> USE Members
<1>0. ASSUME UNCHANGED <<up, home, register, reap, current, killed>>
      PROVE  KilledInv'
  BY <1>0 DEF KilledInv
<1>1. ASSUME UNCHANGED <<up, home, killed, reap, current>>,
             \A t \in Servers : register[t] # "none" => register'[t] # "none"
      PROVE  KilledInv'
  BY <1>1 DEF KilledInv, TypeOK
<1>3. ASSUME NEW s \in Servers, NEW j \in Owners, StartServer(s, j) PROVE KilledInv'
  <2>1. \A victim \in killed : victim[1] \in Servers
    BY DEF TypeOK
  <2> QED BY <1>3, <2>1 DEF StartServer, KilledInv, TypeOK, reapVars
<1>5. CASE \/ \E s \in Servers : RegisterLive(s)
           \/ \E s \in Servers : RegisterCheck(s)
           \/ \E s \in Servers : RegisterRecord(s)
           \/ \E s \in Servers : RegisterWrite(s)
  <2>1. UNCHANGED <<up, home, killed, reap, current>>
    BY <1>5 DEF RegisterLive, RegisterCheck, RegisterRecord, RegisterWrite, reapVars
  <2>2. \A t \in Servers : register[t] # "none" => register'[t] # "none"
    BY <1>5 DEF RegisterLive, RegisterCheck, RegisterRecord, RegisterWrite, TypeOK
  <2> QED BY <1>1, <2>1, <2>2
<1>14. ASSUME NEW k \in Reapers, NEW j \in Jvms, ReapRead(k, j) PROVE KilledInv'
  BY <1>14 DEF ReapRead, OwnerAlive, KilledInv, TypeOK, jvmVars
<1>15. ASSUME NEW k \in Reapers, NEW s \in Servers, ReapKill(k, s) PROVE KilledInv'
  <2>1. register[s] # "none" /\ home[s] \notin up
    BY <1>15 DEF ReapKill, HomeInv, KilledInv, TypeOK
  <2>2. UNCHANGED <<up, home, register, reap, current>>
    BY <1>15 DEF ReapKill, jvmVars
  <2>3. CASE killed' = killed
    BY <2>2, <2>3, <1>0
  <2>4. CASE LiveProcess(s) /\ killed' = killed \cup {<<s, process[s] = "alive">>}
    <3>1. (process[s] = "alive") = TRUE
      BY <2>4 DEF LiveProcess
    <3>2. killed' = killed \cup {<<s, TRUE>>}
      BY <2>4, <3>1, Zenon
    <3>3. \A victim \in killed' : victim[2] /\ register[victim[1]] # "none" /\ home[victim[1]] \notin up
      <4>1. ASSUME NEW victim \in killed' PROVE victim \in killed \/ victim = <<s, TRUE>>
        BY <3>2, <4>1
      <4>2. <<s, TRUE>>[1] = s /\ <<s, TRUE>>[2]
        OBVIOUS
      <4> QED BY <2>1, <4>1, <4>2, Zenon DEF KilledInv
    <3> QED BY <2>2, <3>3 DEF KilledInv
  <2> QED BY <2>3, <2>4, <1>15 DEF ReapKill
<1>16. ASSUME NEW k \in Reapers, ReapDelete(k) PROVE KilledInv'
  BY <1>16 DEF ReapDelete, KilledInv, TypeOK, jvmVars
<1>17. ASSUME NEW k \in Reapers, ReapBegin(k) \/ ReapEnd(k) PROVE KilledInv'
  BY <1>17 DEF ReapBegin, ReapEnd, KilledInv, TypeOK, jvmVars
<1>18. ASSUME NEW j \in Jvms, JvmDies(j) PROVE KilledInv'
  BY <1>18 DEF JvmDies, KilledInv, TypeOK
<1>19. CASE \/ \E s \in Servers, j \in Owners : SweepOne(j, s)
            \/ \E s \in Servers : CloseServer(s)
            \/ \E s \in Servers : CloseAllUnregisters(s)
            \/ \E s \in Servers : ServerExits(s)
            \/ \E j \in Owners : RuntimeClose(j)
            \/ \E k \in Reapers, j \in Jvms : ReapSkip(k, j)
            \/ PidReused
            \/ UNCHANGED vars
  BY <1>19, <1>0 DEF SweepOne, CloseServer, CloseAllUnregisters, ServerExits, RuntimeClose,
                     ReapSkip, PidReused, vars, jvmVars, reapVars
<1> QED
  BY Steps, <1>3, <1>5, <1>14, <1>15, <1>16, <1>17, <1>18, <1>19

-----------------------------------------------------------------------------
(***************************************************************************)
(* Where servers are recorded.                                             *)
(***************************************************************************)

\* A deletion takes no line of a server that can be recognised and is not settled.
LEMMA DeletesSettled ==
  ASSUME TypeOK, ReapInv, NEW k \in Jvms, ReapDelete(k), startKnown
  PROVE  \A i \in Jvms, s \in Servers : ~Settled(s) /\ s \in lines[i] => s \in lines'[i]
<1>1. reap[k] = "killing" /\ unread[k] = {}
  BY DEF ReapDelete
<1>2. \A s \in Servers : s \in lines[current[k]] => Settled(s)
  BY <1>1 DEF ReapInv
<1>3. \A i \in Jvms : lines'[i] = lines[i] \/ i = current[k]
  BY DEF ReapDelete, TypeOK
<1> QED BY <1>2, <1>3

\* A server whose process is left alone stays settled.
LEMMA StaysSettled ==
  ASSUME NEW s \in Servers, process'[s] = "alive" => process[s] = "alive",
         killed \subseteq killed', refused \subseteq refused'
  PROVE  Settled(s) => Settled(s)'
BY DEF Settled

\* An operation on the registry of a JVM that keeps the records of servers that are
\* open, and writes them or leaves the file as it is.
LEMMA RecordsKept ==
  ASSUME TypeOK, RecordInv, NEW j \in Jvms, NEW t \in Servers, j \in up, home[t] = j,
         UNCHANGED <<startKnown, up, home, process, reapVars>>,
         TypeOK',
         \A i \in Jvms : records[i] \ {t} \subseteq records'[i],
         \A i \in Jvms \ {j} : lines'[i] = lines[i] /\ (i \in unsaved' <=> i \in unsaved),
         j \notin unsaved' => \/ j \notin unsaved /\ lines'[j] = lines[j]
                              \/ lines'[j] = records'[j],
         \A s \in Servers \ {t} : register'[s] = register[s] /\ (IsClosed(s)' <=> IsClosed(s)),
         register'[t] = "recorded" => t \in records'[j],
         process[t] = "alive" /\ register'[t] = "done" /\ ~IsClosed(t)' =>
           t \in records'[j] /\ (startKnown /\ j \notin unsaved' /\ ~Settled(t) => t \in lines'[j])
  PROVE  RecordInv'
<1>0. \A s \in Servers : Settled(s)' <=> Settled(s)
  BY DEF Settled, reapVars
<1> SUFFICES ASSUME NEW s \in Servers
             PROVE  /\ register'[s] = "recorded" /\ home[s] \in up => s \in records'[home[s]]
                    /\ process[s] = "alive" /\ register'[s] = "done" /\ ~IsClosed(s)' =>
                         /\ home[s] \in up => s \in records'[home[s]]
                         /\ startKnown /\ home[s] \notin unsaved' /\ ~Settled(s) => s \in lines'[home[s]]
  BY <1>0 DEF RecordInv
<1>1. CASE s = t
  BY <1>1
<1>2. CASE s # t /\ home[s] = j
  <2>1. s \in records[j] => s \in records'[j]
    BY <1>2
  <2> QED BY <1>2, <2>1 DEF RecordInv
<1>3. CASE s # t /\ home[s] # j
  <2>1. home[s] \in Jvms
    BY DEF TypeOK
  <2> QED BY <1>3, <2>1 DEF RecordInv
<1> QED BY <1>1, <1>2, <1>3

LEMMA RecordStep ==
  ASSUME TypeOK, TypeOK', HomeInv, LockInv, RecordInv, ReapInv, [Next]_vars
  PROVE  RecordInv'
<1> USE Members
<1>1. ASSUME UNCHANGED <<startKnown, up, home, register, closing, runtime, records, lines, unsaved>>,
             \A s \in Servers : process'[s] = "alive" => process[s] = "alive",
             killed \subseteq killed', refused \subseteq refused'
      PROVE  RecordInv'
  BY <1>1, StaysSettled DEF RecordInv, IsClosed
<1>0. ASSUME UNCHANGED <<startKnown, up, home, process, register, closing, runtime, records, lines,
                         unsaved, killed, refused>>
      PROVE  RecordInv'
  BY <1>0, <1>1
<1>3. ASSUME NEW s \in Servers, NEW j \in Owners, StartServer(s, j) PROVE RecordInv'
  <2>1. \A t \in Servers \ {s} : Settled(t)' <=> Settled(t)
    BY <1>3 DEF StartServer, Settled, TypeOK, reapVars
  <2> QED BY <1>3, <2>1 DEF StartServer, RecordInv, IsClosed, TypeOK, fileVars
<1>4. ASSUME NEW s \in Servers, NEW j \in Owners, SweepOne(j, s) PROVE RecordInv'
  <2>1. CASE UNCHANGED <<records, fileVars, sweep>>
    BY <1>4, <2>1, <1>0 DEF SweepOne, fileVars, reapVars
  <2>2. CASE RemoveRecord(s)
    <3>1. j \in Jvms /\ j \in up /\ home[s] = j /\ runtime[j] = "sweeping" /\ lock[j] = NoServer
      BY <1>4, <2>2 DEF SweepOne, HomeInv, RemoveRecord
    <3>2. UNCHANGED <<startKnown, up, home, process, register, closing, runtime, reapVars>>
      BY <1>4 DEF SweepOne
    <3>3. register[s] # "recorded"
      BY <3>1 DEF LockInv
    <3>4. records' = [records EXCEPT ![j] = @ \ {s}]
      BY <2>2, <3>1 DEF RemoveRecord
    <3>5. /\ \A i \in Jvms \ {j} : lines'[i] = lines[i] /\ (i \in unsaved' <=> i \in unsaved)
          /\ j \notin unsaved' => \/ j \notin unsaved /\ lines'[j] = lines[j]
                                  \/ lines'[j] = records[j] \ {s}
      BY <2>2, <3>1, Removed
    <3>6. /\ \A i \in Jvms : records[i] \ {s} \subseteq records'[i]
          /\ records'[j] = records[j] \ {s}
      BY <3>1, <3>4 DEF TypeOK
    <3>7. IsClosed(s)' /\ \A t \in Servers : IsClosed(t)' <=> IsClosed(t)
      BY <3>1, <3>2 DEF IsClosed
    <3> QED BY <3>1, <3>2, <3>3, <3>5, <3>6, <3>7, RecordsKept
  <2> QED BY <2>1, <2>2, <1>4 DEF SweepOne
<1>5. ASSUME NEW s \in Servers, RegisterLive(s) PROVE RecordInv'
  <2>1. \A t \in Servers : (Settled(t)' <=> Settled(t)) /\ (IsClosed(t)' <=> IsClosed(t))
    BY <1>5 DEF RegisterLive, Settled, IsClosed, reapVars
  <2>2. \A t \in Servers : register'[t] \in {"recorded", "done"} => register'[t] = register[t]
    BY <1>5 DEF RegisterLive, TypeOK
  <2> QED BY <1>5, <2>1, <2>2 DEF RegisterLive, RecordInv, fileVars
<1>6. ASSUME NEW s \in Servers, RegisterCheck(s) PROVE RecordInv'
  <2>1. \A t \in Servers : (Settled(t)' <=> Settled(t)) /\ (IsClosed(t)' <=> IsClosed(t))
    BY <1>6 DEF RegisterCheck, Settled, IsClosed, reapVars
  <2>2. \A t \in Servers : register'[t] \in {"recorded", "done"} =>
          \/ register'[t] = register[t]
          \/ register'[t] = "done" /\ IsClosed(t)
    BY <1>6 DEF RegisterCheck, TypeOK
  <2> QED BY <1>6, <2>1, <2>2 DEF RegisterCheck, RecordInv, fileVars
<1>7. ASSUME NEW s \in Servers, RegisterRecord(s) PROVE RecordInv'
  <2>1. /\ \A t \in Servers : (Settled(t)' <=> Settled(t)) /\ (IsClosed(t)' <=> IsClosed(t))
        /\ UNCHANGED <<startKnown, up, home, process, lines, unsaved>>
    BY <1>7 DEF RegisterRecord, Settled, IsClosed, fileVars, reapVars
  <2>2. \A t \in Servers : register'[t] \in {"recorded", "done"} =>
          \/ register'[t] = register[t]
          \/ register'[t] = "done" /\ (IsClosed(t) \/ process[t] # "alive")
          \/ register'[t] = "recorded" /\ t \in records'[home[t]]
    BY <1>7 DEF RegisterRecord, TypeOK
  <2>4. \A t \in Servers : home[t] \in Jvms
    BY DEF TypeOK
  <2>3. \A i \in Jvms : records[i] \subseteq records'[i]
    <3>1. records' = records \/ records' = [records EXCEPT ![home[s]] = @ \cup {s}]
      BY <1>7 DEF RegisterRecord
    <3>2. records \in [Jvms -> SUBSET Servers]
      BY DEF TypeOK
    <3> QED BY <2>4, <3>1, <3>2
  <2> QED BY <2>1, <2>2, <2>3, <2>4 DEF RecordInv
<1>8. ASSUME NEW s \in Servers, RegisterWrite(s) PROVE RecordInv'
  <2>1. PICK j \in Jvms : j = home[s]
    BY DEF TypeOK
  <2>2. /\ j \in up /\ s \in records[j] /\ WriteOwnRecords(j, records[j])
        /\ records[j] \in SUBSET Servers
    BY <1>8, <2>1 DEF RegisterWrite, Running, RecordInv, TypeOK
  <2>3. /\ UNCHANGED <<startKnown, up, home, process, closing, runtime, records, reapVars>>
        /\ register' = [register EXCEPT ![s] = "done"]
    BY <1>8 DEF RegisterWrite
  <2>4. /\ \A i \in Jvms \ {j} : lines'[i] = lines[i] /\ (i \in unsaved' <=> i \in unsaved)
        /\ j \notin unsaved' => lines'[j] = records[j]
    BY <2>2, Written
  <2>5. /\ \A t \in Servers \ {s} : register'[t] = register[t]
        /\ register'[s] = "done"
    BY <2>3 DEF TypeOK
  <2>6. \A t \in Servers : IsClosed(t)' <=> IsClosed(t)
    BY <2>3 DEF IsClosed
  <2> QED BY <2>1, <2>2, <2>3, <2>4, <2>5, <2>6, RecordsKept
<1>9. ASSUME NEW s \in Servers, CloseServer(s) PROVE RecordInv'
  <2>1. CASE UNCHANGED <<records, fileVars>>
    <3>1. /\ UNCHANGED <<startKnown, up, home, register, runtime, records, lines, unsaved>>
          /\ \A t \in Servers \ {s} : process'[t] = process[t] /\ closing'[t] = closing[t]
          /\ closing'[s] # "no"
      BY <1>9, <2>1 DEF CloseServer, TypeOK, fileVars
    <3>2. /\ IsClosed(s)'
          /\ \A t \in Servers \ {s} : (Settled(t)' <=> Settled(t)) /\ (IsClosed(t)' <=> IsClosed(t))
      BY <1>9, <3>1 DEF CloseServer, Settled, IsClosed, reapVars
    <3> QED BY <3>1, <3>2 DEF RecordInv
  <2>2. CASE /\ RemoveRecord(s) /\ UNCHANGED <<process, live>>
             /\ closing' = [closing EXCEPT ![s] = "done"]
    <3>1. PICK j \in Jvms : j = home[s]
      BY DEF TypeOK
    <3>2. j \in up /\ register[s] # "recorded"
      BY <1>9, <2>2, <3>1 DEF CloseServer, Running, RemoveRecord, LockInv
    <3>3. UNCHANGED <<startKnown, up, home, process, register, runtime, reapVars>>
      BY <1>9, <2>2 DEF CloseServer
    <3>4. records' = [records EXCEPT ![j] = @ \ {s}]
      BY <2>2, <3>1 DEF RemoveRecord
    <3>5. /\ \A i \in Jvms \ {j} : lines'[i] = lines[i] /\ (i \in unsaved' <=> i \in unsaved)
          /\ j \notin unsaved' => \/ j \notin unsaved /\ lines'[j] = lines[j]
                                  \/ lines'[j] = records[j] \ {s}
      BY <2>2, <3>1, Removed
    <3>6. /\ \A i \in Jvms : records[i] \ {s} \subseteq records'[i]
          /\ records'[j] = records[j] \ {s}
      BY <3>1, <3>4 DEF TypeOK
    <3>7. IsClosed(s)' /\ \A t \in Servers \ {s} : IsClosed(t)' <=> IsClosed(t)
      BY <2>2, <3>3 DEF IsClosed, TypeOK
    <3>8. /\ \A t \in Servers \ {s} : register'[t] = register[t] /\ (IsClosed(t)' <=> IsClosed(t))
          /\ register'[s] # "recorded"
      BY <3>2, <3>3, <3>7
    <3>9. j \notin unsaved' => \/ j \notin unsaved /\ lines'[j] = lines[j]
                               \/ lines'[j] = records'[j]
      BY <3>5, <3>6
    <3> QED BY <3>1, <3>2, <3>3, <3>5, <3>6, <3>7, <3>8, <3>9, RecordsKept
  <2> QED BY <2>1, <2>2, <1>9 DEF CloseServer
<1>9a. ASSUME NEW s \in Servers, CloseAllUnregisters(s) PROVE RecordInv'
  <2>1. CASE UNCHANGED <<records, fileVars>>
    BY <1>9a, <2>1, <1>0 DEF CloseAllUnregisters, fileVars, reapVars
  <2>2. CASE RemoveRecord(s)
    <3>1. PICK j \in Jvms : j = home[s]
      BY DEF TypeOK
    <3>2. j \in up /\ register[s] # "recorded"
      BY <1>9a, <2>2, <3>1 DEF CloseAllUnregisters, Running, RemoveRecord, LockInv
    <3>3. UNCHANGED <<startKnown, up, home, process, register, closing, runtime, reapVars>>
      BY <1>9a DEF CloseAllUnregisters
    <3>4. records' = [records EXCEPT ![j] = @ \ {s}]
      BY <2>2, <3>1 DEF RemoveRecord
    <3>5. /\ \A i \in Jvms \ {j} : lines'[i] = lines[i] /\ (i \in unsaved' <=> i \in unsaved)
          /\ j \notin unsaved' => \/ j \notin unsaved /\ lines'[j] = lines[j]
                                  \/ lines'[j] = records[j] \ {s}
      BY <2>2, <3>1, Removed
    <3>6. /\ \A i \in Jvms : records[i] \ {s} \subseteq records'[i]
          /\ records'[j] = records[j] \ {s}
      BY <3>1, <3>4 DEF TypeOK
    <3>7. IsClosed(s)' /\ \A t \in Servers : IsClosed(t)' <=> IsClosed(t)
      BY <1>9a, <3>3 DEF CloseAllUnregisters, IsClosed
    <3> QED BY <3>1, <3>2, <3>3, <3>5, <3>6, <3>7, RecordsKept
  <2> QED BY <2>1, <2>2, <1>9a DEF CloseAllUnregisters
<1>10. ASSUME NEW s \in Servers, ServerExits(s) PROVE RecordInv'
  <2>1. \A t \in Servers : process'[t] = "alive" => process[t] = "alive"
    BY <1>10 DEF ServerExits, TypeOK
  <2> QED BY <2>1, <1>1, <1>10 DEF ServerExits, jvmVars, fileVars, reapVars
<1>11. ASSUME NEW j \in Owners, RuntimeClose(j) PROVE RecordInv'
  <2>1. \A t \in Servers : (process'[t] = "alive" => process[t] = "alive") /\ (Settled(t) => Settled(t)')
    BY <1>11 DEF RuntimeClose, Settled, TypeOK, reapVars
  <2>2. \A t \in Servers : ~IsClosed(t)' => ~IsClosed(t)
    BY <1>11 DEF RuntimeClose, IsClosed, TypeOK
  <2> QED BY <1>11, <2>1, <2>2 DEF RuntimeClose, RecordInv, fileVars
<1>15. ASSUME NEW k \in Reapers, NEW s \in Servers, ReapKill(k, s) PROVE RecordInv'
  BY <1>15, <1>1 DEF ReapKill, jvmVars, fileVars
<1>16. ASSUME NEW k \in Reapers, ReapDelete(k) PROVE RecordInv'
  <2>1. /\ UNCHANGED <<startKnown, up, home, process, register, closing, runtime, records, unsaved>>
        /\ \A s \in Servers : Settled(s)' <=> Settled(s)
        /\ startKnown => \A i \in Jvms, s \in Servers :
                           ~Settled(s) /\ s \in lines[i] => s \in lines'[i]
    BY <1>16, DeletesSettled DEF ReapDelete, Settled, jvmVars
  <2> QED BY <2>1 DEF RecordInv, IsClosed, TypeOK
<1>18. ASSUME NEW j \in Jvms, JvmDies(j) PROVE RecordInv'
  <2>1. /\ UNCHANGED <<startKnown, home, process, register, closing, runtime, lines, unsaved>>
        /\ \A s \in Servers : Settled(s)' <=> Settled(s)
        /\ \A i \in up' : i \in up /\ records'[i] = records[i]
    BY <1>18 DEF JvmDies, Settled, fileVars, TypeOK
  <2> QED BY <2>1 DEF RecordInv, IsClosed
<1>19. CASE \/ \E k \in Reapers, j \in Jvms : ReapSkip(k, j)
            \/ \E k \in Reapers, j \in Jvms : ReapRead(k, j)
            \/ \E k \in Reapers : ReapBegin(k)
            \/ \E k \in Reapers : ReapEnd(k)
            \/ PidReused
            \/ UNCHANGED vars
  BY <1>19, <1>0 DEF ReapSkip, ReapRead, ReapBegin, ReapEnd, PidReused, vars, jvmVars, fileVars,
                     reapVars
<1> QED
  BY Steps, <1>3, <1>4, <1>5, <1>6, <1>7, <1>8, <1>9, <1>9a, <1>10, <1>11, <1>15, <1>16, <1>18,
     <1>19

-----------------------------------------------------------------------------
(***************************************************************************)
(* What reapers still have to do.                                          *)
(***************************************************************************)

\* A step that touches no reaper, revives nobody and keeps the files of JVMs that
\* are gone.
LEMMA ReapersKept ==
  ASSUME TypeOK, KilledInv, ReapInv, UNCHANGED <<startKnown, home, up, reapVars>>,
         \A s \in Servers : process'[s] = "alive" => process[s] = "alive",
         \A i \in Jvms \ up : lines'[i] = lines[i]
  PROVE  ReapInv'
<1> SUFFICES ASSUME NEW k \in Jvms, NEW s \in Servers
             PROVE  /\ startKnown /\ reap[k] = "killing" /\ s \in lines'[current[k]]
                         /\ ~Settled(s) => s \in unread[k]
                    /\ s \in obliged[k] /\ ~Settled(s) =>
                         /\ startKnown /\ home[s] \notin up /\ s \in lines'[home[s]]
                         /\ \/ home[s] \in missed[k]
                            \/ reap[k] \in {"scanning", "killing"} /\ home[s] \in todo[k]
  BY StaysSettled DEF ReapInv, reapVars
<1>1. home[s] \in Jvms /\ current[k] \in Jvms
  BY DEF TypeOK
<1>2. reap[k] = "killing" => lines'[current[k]] = lines[current[k]]
  BY <1>1 DEF KilledInv
<1> QED BY <1>1, <1>2 DEF ReapInv

LEMMA ReapStepKept ==
  ASSUME TypeOK, HomeInv, KilledInv, ReapInv, [Next]_vars
  PROVE  ReapInv'
<1> USE Members
<1>3. ASSUME NEW s \in Servers, NEW j \in Owners, StartServer(s, j) PROVE ReapInv'
  <2>1. \A i \in Jvms : s \notin lines[i] /\ s \notin obliged[i]
    BY <1>3 DEF StartServer, HomeInv
  <2>2. \A t \in Servers \ {s} : home'[t] = home[t] /\ (Settled(t)' <=> Settled(t))
    BY <1>3 DEF StartServer, Settled, TypeOK, reapVars
  <2> QED BY <1>3, <2>1, <2>2 DEF StartServer, ReapInv, TypeOK, fileVars, reapVars
<1>4. ASSUME NEW s \in Servers, NEW j \in Owners, SweepOne(j, s) PROVE ReapInv'
  <2>1. home[s] = j /\ j \in up
    BY <1>4 DEF SweepOne, HomeInv
  <2>2. \A i \in Jvms \ up : lines'[i] = lines[i]
    <3>1. CASE RemoveRecord(s)
      BY <3>1, <2>1, Removed
    <3>2. CASE UNCHANGED fileVars
      BY <3>2 DEF fileVars
    <3> QED BY <3>1, <3>2, <1>4 DEF SweepOne
  <2>3. UNCHANGED <<startKnown, home, up, process, reapVars>>
    BY <1>4 DEF SweepOne
  <2> QED BY <2>2, <2>3, ReapersKept DEF reapVars
<1>8. ASSUME NEW s \in Servers, RegisterWrite(s) PROVE ReapInv'
  <2>1. PICK j \in Jvms : j = home[s]
    BY DEF TypeOK
  <2>2. /\ j \in up /\ WriteOwnRecords(j, records[j]) /\ records[j] \in SUBSET Servers
    BY <1>8, <2>1 DEF RegisterWrite, Running, TypeOK
  <2>3. \A i \in Jvms \ up : lines'[i] = lines[i]
    BY <2>2, Written
  <2>4. UNCHANGED <<startKnown, home, up, process, reapVars>>
    BY <1>8 DEF RegisterWrite
  <2> QED BY <2>3, <2>4, ReapersKept DEF reapVars
<1>9. ASSUME NEW s \in Servers, CloseServer(s) PROVE ReapInv'
  <2>1. home[s] \in up
    BY <1>9 DEF CloseServer, Running
  <2>2. \A i \in Jvms \ up : lines'[i] = lines[i]
    <3>1. CASE RemoveRecord(s)
      BY <3>1, <2>1, Removed
    <3>2. CASE UNCHANGED fileVars
      BY <3>2 DEF fileVars
    <3> QED BY <3>1, <3>2, <1>9 DEF CloseServer
  <2>3. /\ UNCHANGED <<startKnown, home, up, reapVars>>
        /\ \A t \in Servers : process'[t] = "alive" => process[t] = "alive"
    BY <1>9 DEF CloseServer, TypeOK
  <2> QED BY <2>2, <2>3, ReapersKept DEF reapVars
<1>9a. ASSUME NEW s \in Servers, CloseAllUnregisters(s) PROVE ReapInv'
  <2>1. home[s] \in up
    BY <1>9a DEF CloseAllUnregisters, Running
  <2>2. \A i \in Jvms \ up : lines'[i] = lines[i]
    <3>1. CASE RemoveRecord(s)
      BY <3>1, <2>1, Removed
    <3>2. CASE UNCHANGED fileVars
      BY <3>2 DEF fileVars
    <3> QED BY <3>1, <3>2, <1>9a DEF CloseAllUnregisters
  <2>3. UNCHANGED <<startKnown, home, up, process, reapVars>>
    BY <1>9a DEF CloseAllUnregisters
  <2> QED BY <2>2, <2>3, ReapersKept
<1>10. CASE \/ \E s \in Servers : RegisterLive(s)
            \/ \E s \in Servers : RegisterCheck(s)
            \/ \E s \in Servers : RegisterRecord(s)
            \/ \E s \in Servers : ServerExits(s)
            \/ \E j \in Owners : RuntimeClose(j)
            \/ PidReused
            \/ UNCHANGED vars
  <2>1. UNCHANGED <<startKnown, home, up, fileVars, reapVars>>
    BY <1>10 DEF RegisterLive, RegisterCheck, RegisterRecord, ServerExits, RuntimeClose, PidReused,
                 vars, fileVars, reapVars
  <2>2. \A t \in Servers : process'[t] = "alive" => process[t] = "alive"
    BY <1>10 DEF RegisterLive, RegisterCheck, RegisterRecord, ServerExits, RuntimeClose, PidReused,
                 vars, TypeOK
  <2> QED BY <2>1, <2>2, ReapersKept DEF fileVars, reapVars
<1>12. ASSUME NEW k \in Reapers, ReapBegin(k) PROVE ReapInv'
  <2>1. \A s \in Servers : s \in obliged'[k] =>
          /\ startKnown /\ home[s] \notin up /\ s \in lines[home[s]] /\ home[s] \in todo'[k]
          /\ reap'[k] = "scanning"
    BY <1>12 DEF ReapBegin, RecordedOrphans, TypeOK
  <2>2. /\ reap'[k] = "scanning"
        /\ \A i \in Jvms \ {k} : /\ reap'[i] = reap[i] /\ todo'[i] = todo[i]
                                 /\ obliged'[i] = obliged[i]
        /\ UNCHANGED <<startKnown, up, home, lines, current, unread, missed>>
        /\ \A s \in Servers : Settled(s)' <=> Settled(s)
    BY <1>12 DEF ReapBegin, TypeOK, Settled, fileVars
  <2> QED BY <2>1, <2>2 DEF ReapInv
<1>13. ASSUME NEW k \in Reapers, NEW j \in Jvms, ReapSkip(k, j) PROVE ReapInv'
  <2>1. \A s \in Servers : s \in obliged[k] /\ ~Settled(s) /\ home[s] = j => j \in missed'[k]
    BY <1>13 DEF ReapSkip, OwnerAlive, ReapInv, TypeOK
  <2>2. /\ todo'[k] = todo[k] \ {j}
        /\ \A i \in Jvms \ {k} : todo'[i] = todo[i]
        /\ \A i \in Jvms : missed[i] \subseteq missed'[i]
    BY <1>13 DEF ReapSkip, TypeOK
  <2>3. /\ UNCHANGED <<startKnown, up, home, lines, reap, current, unread, obliged>>
        /\ \A s \in Servers : Settled(s)' <=> Settled(s)
    BY <1>13 DEF ReapSkip, Settled, fileVars
  <2> QED BY <2>1, <2>2, <2>3 DEF ReapInv
<1>14. ASSUME NEW k \in Reapers, NEW j \in Jvms, ReapRead(k, j) PROVE ReapInv'
  <2>1. /\ reap[k] = "scanning" /\ reap'[k] = "killing" /\ current'[k] = j /\ unread'[k] = lines[j]
        /\ \A i \in Jvms \ {k} : /\ reap'[i] = reap[i] /\ current'[i] = current[i]
                                 /\ unread'[i] = unread[i]
        /\ UNCHANGED <<startKnown, up, home, lines, todo, obliged, missed>>
        /\ \A s \in Servers : Settled(s)' <=> Settled(s)
    BY <1>14 DEF ReapRead, TypeOK, Settled, fileVars
  <2> QED BY <2>1 DEF ReapInv
<1>15. ASSUME NEW k \in Reapers, NEW s \in Servers, ReapKill(k, s) PROVE ReapInv'
  <2>1. /\ unread'[k] = unread[k] \ {s} /\ \A i \in Jvms \ {k} : unread'[i] = unread[i]
        /\ UNCHANGED <<startKnown, up, home, process, lines, reap, todo, current, obliged, missed>>
        /\ killed \subseteq killed' /\ refused \subseteq refused'
    BY <1>15 DEF ReapKill, TypeOK, fileVars
  <2>2. \A t \in Servers : Settled(t) => Settled(t)'
    BY <2>1, StaysSettled
  <2>3. startKnown => Settled(s)'
    <3>1. CASE LiveProcess(s) /\ killed' = killed \cup {<<s, process[s] = "alive">>}
      <4>1. (process[s] = "alive") = TRUE
        BY <3>1 DEF LiveProcess
      <4>2. <<s, TRUE>> \in killed'
        BY <3>1, <4>1, Zenon
      <4> QED BY <4>2 DEF Settled
    <3>2. CASE refused' = refused \cup {s}
      BY <3>2 DEF Settled
    <3>3. CASE ~LiveProcess(s)
      BY <3>3, <2>1 DEF LiveProcess, Settled
    <3> QED BY <3>1, <3>2, <3>3, <1>15 DEF ReapKill
  <2> QED BY <2>1, <2>2, <2>3 DEF ReapInv
<1>16. ASSUME NEW k \in Reapers, ReapDelete(k) PROVE ReapInv'
  <2>1. /\ reap[k] = "killing" /\ reap'[k] = "scanning"
        /\ todo'[k] = todo[k] \ {current[k]}
        /\ \A i \in Jvms \ {k} : /\ reap'[i] = reap[i] /\ todo'[i] = todo[i]
                                 /\ current'[i] = current[i]
        /\ UNCHANGED <<startKnown, up, home, unread, obliged, missed>>
        /\ \A i \in Jvms : lines'[i] \subseteq lines[i]
        /\ \A s \in Servers : Settled(s)' <=> Settled(s)
    BY <1>16 DEF ReapDelete, TypeOK, Settled
  <2>2. \A s \in Servers : s \in obliged[k] /\ ~Settled(s) => home[s] # current[k]
    BY <1>16 DEF ReapDelete, ReapInv
  <2>3. startKnown => \A i \in Jvms, s \in Servers :
                        ~Settled(s) /\ s \in lines[i] => s \in lines'[i]
    BY <1>16, DeletesSettled
  <2>4. \A i \in Jvms, s \in Servers : home[s] \in Jvms /\ current[i] \in Jvms
    BY DEF TypeOK
  <2> QED BY <2>1, <2>2, <2>3, <2>4 DEF ReapInv
<1>17. ASSUME NEW k \in Reapers, ReapEnd(k) PROVE ReapInv'
  <2>1. \A s \in Servers : Settled(s)' <=> Settled(s)
    BY <1>17 DEF ReapEnd, Settled
  <2> QED BY <1>17, <2>1 DEF ReapEnd, ReapInv, TypeOK, fileVars
<1>18. ASSUME NEW j \in Jvms, JvmDies(j) PROVE ReapInv'
  <2>1. /\ obliged'[j] = {} /\ reap'[j] = "idle" /\ up' \subseteq up
        /\ \A i \in Jvms \ {j} : /\ reap'[i] = reap[i] /\ todo'[i] = todo[i]
                                 /\ current'[i] = current[i] /\ unread'[i] = unread[i]
                                 /\ obliged'[i] = obliged[i] /\ missed'[i] = missed[i]
        /\ UNCHANGED <<startKnown, home, lines>>
        /\ \A s \in Servers : Settled(s)' <=> Settled(s)
    BY <1>18 DEF JvmDies, TypeOK, Settled, fileVars
  <2> QED BY <2>1 DEF ReapInv
<1> QED
  BY Steps, <1>3, <1>4, <1>8, <1>9, <1>9a, <1>10, <1>12, <1>13, <1>14, <1>15, <1>16, <1>17, <1>18

-----------------------------------------------------------------------------
(***************************************************************************)
(* How closed servers are forgotten.                                        *)
(***************************************************************************)
LEMMA ForgetStep ==
  ASSUME TypeOK, HomeInv, LockInv, ForgetInv, [Next]_vars
  PROVE  ForgetInv'
<1> USE Members DEF Gone
<1>0. ASSUME UNCHANGED <<up, home, register, closing, runtime, sweep, live, records>>
      PROVE  ForgetInv'
  BY <1>0 DEF ForgetInv
<1>3. ASSUME NEW s \in Servers, NEW j \in Owners, StartServer(s, j) PROVE ForgetInv'
  <2>1. \A i \in Jvms : s \notin live[i] /\ s \notin records[i]
    BY <1>3 DEF StartServer, HomeInv
  <2> QED BY <1>3, <2>1 DEF StartServer, ForgetInv, TypeOK
<1>4. ASSUME NEW s \in Servers, NEW j \in Owners, SweepOne(j, s) PROVE ForgetInv'
  <2>1. home[s] = j /\ j \in up /\ runtime[j] = "sweeping"
    BY <1>4 DEF SweepOne, HomeInv
  <2>2. CASE s \in live[j] /\ live' = [live EXCEPT ![j] = @ \ {s}] /\ UNCHANGED <<records, sweep>>
    BY <1>4, <2>1, <2>2 DEF SweepOne, ForgetInv, TypeOK
  <2>3. CASE /\ s \notin live[j] /\ RemoveRecord(s) /\ sweep' = [sweep EXCEPT ![j] = @ \ {s}]
             /\ UNCHANGED live
    <3>1. records' = [records EXCEPT ![j] = @ \ {s}]
      BY <2>1, <2>3 DEF RemoveRecord
    <3> QED BY <1>4, <2>1, <2>3, <3>1 DEF SweepOne, ForgetInv, TypeOK
  <2> QED BY <2>2, <2>3, <1>4 DEF SweepOne
<1>5. ASSUME NEW s \in Servers, RegisterLive(s) PROVE ForgetInv'
  <2>1. closing[s] = "no" /\ register[s] = "started"
    BY <1>5 DEF RegisterLive, HomeInv
  <2> QED BY <1>5, <2>1 DEF RegisterLive, Running, ForgetInv, TypeOK
<1>6. ASSUME NEW s \in Servers, RegisterCheck(s) PROVE ForgetInv'
  <2>1. register[s] = "added" /\ s \notin records[home[s]] /\ home[s] \in up /\ home[s] \in Jvms
    BY <1>6 DEF RegisterCheck, Running, HomeInv, TypeOK
  <2>2. UNCHANGED <<up, home, closing, runtime, sweep, records>>
    BY <1>6 DEF RegisterCheck
  <2>3. CASE /\ live' = [live EXCEPT ![home[s]] = @ \ {s}]
             /\ register' = [register EXCEPT ![s] = "done"]
    BY <2>1, <2>2, <2>3 DEF ForgetInv, TypeOK
  <2>4. CASE ~IsClosed(s) /\ register' = [register EXCEPT ![s] = "checked"] /\ UNCHANGED live
    BY <2>1, <2>2, <2>4 DEF ForgetInv, TypeOK, IsClosed
  <2> QED BY <2>3, <2>4, <1>6 DEF RegisterCheck
<1>7. ASSUME NEW s \in Servers, RegisterRecord(s) PROVE ForgetInv'
  <2>1. register[s] = "checked" /\ home[s] \in up /\ home[s] \in Jvms
    BY <1>7 DEF RegisterRecord, Running, TypeOK
  <2>2. UNCHANGED <<up, home, closing, runtime, sweep, live>>
    BY <1>7 DEF RegisterRecord
  <2>3. CASE register' = [register EXCEPT ![s] = "done"] /\ UNCHANGED records
    BY <2>1, <2>2, <2>3 DEF ForgetInv, TypeOK
  <2>4. CASE /\ ~IsClosed(s) /\ register' = [register EXCEPT ![s] = "recorded"]
             /\ records' = [records EXCEPT ![home[s]] = @ \cup {s}]
    BY <2>1, <2>2, <2>4 DEF ForgetInv, TypeOK, IsClosed
  <2> QED BY <2>3, <2>4, <1>7 DEF RegisterRecord
<1>8. ASSUME NEW s \in Servers, RegisterWrite(s) PROVE ForgetInv'
  BY <1>8 DEF RegisterWrite, ForgetInv, TypeOK
<1>9. ASSUME NEW s \in Servers, CloseServer(s) PROVE ForgetInv'
  <2>1. home[s] \in up /\ home[s] \in Jvms
    BY <1>9 DEF CloseServer, Running, TypeOK
  <2>2. UNCHANGED <<up, home, register, runtime, sweep>>
    BY <1>9 DEF CloseServer
  <2>3. CASE /\ closing[s] \in {"no", "flagged"}
             /\ \E c \in {"flagged", "freed"} : closing' = [closing EXCEPT ![s] = c]
             /\ UNCHANGED <<live, records>>
    BY <2>1, <2>2, <2>3 DEF ForgetInv, TypeOK
  <2>4. CASE /\ closing[s] = "freed" /\ closing' = [closing EXCEPT ![s] = "unlisted"]
             /\ live' = [live EXCEPT ![home[s]] = @ \ {s}] /\ UNCHANGED records
    BY <2>1, <2>2, <2>4 DEF ForgetInv, TypeOK
  <2>5. CASE /\ closing[s] = "unlisted" /\ closing' = [closing EXCEPT ![s] = "done"]
             /\ RemoveRecord(s) /\ UNCHANGED live
    <3>1. records' = [records EXCEPT ![home[s]] = @ \ {s}]
      BY <2>5 DEF RemoveRecord
    <3> QED BY <2>1, <2>2, <2>5, <3>1 DEF ForgetInv, TypeOK
  <2> QED BY <2>3, <2>4, <2>5, <1>9 DEF CloseServer
<1>9a. ASSUME NEW s \in Servers, CloseAllUnregisters(s) PROVE ForgetInv'
  <2>1. home[s] \in Jvms /\ closing[s] # "no"
    BY <1>9a DEF CloseAllUnregisters, TypeOK
  <2>2. UNCHANGED <<up, home, register, closing, runtime, sweep>>
    BY <1>9a DEF CloseAllUnregisters
  <2>3. CASE live' = [live EXCEPT ![home[s]] = @ \ {s}] /\ UNCHANGED records
    BY <2>1, <2>2, <2>3 DEF ForgetInv, TypeOK
  <2>4. CASE RemoveRecord(s) /\ UNCHANGED live
    <3>1. records' = [records EXCEPT ![home[s]] = @ \ {s}]
      BY <2>4 DEF RemoveRecord
    <3> QED BY <2>1, <2>2, <2>4, <3>1 DEF ForgetInv, TypeOK
  <2> QED BY <2>3, <2>4, <1>9a DEF CloseAllUnregisters
<1>11. ASSUME NEW j \in Owners, RuntimeClose(j) PROVE ForgetInv'
  <2>1. UNCHANGED <<up, home, register, closing, live, records>>
    BY <1>11 DEF RuntimeClose
  <2>2. CASE /\ runtime[j] \notin Gone /\ UNCHANGED sweep
             /\ \E r \in RuntimeSteps \ Gone : runtime' = [runtime EXCEPT ![j] = r]
    BY <2>1, <2>2 DEF ForgetInv, TypeOK, RuntimeSteps
  <2>3. CASE /\ runtime[j] = "freed" /\ runtime' = [runtime EXCEPT ![j] = "sweeping"]
             /\ sweep' = [sweep EXCEPT ![j] = live[j]]
    BY <2>1, <2>3 DEF ForgetInv, TypeOK
  <2>4. CASE /\ runtime[j] = "sweeping" /\ sweep[j] = {} /\ UNCHANGED sweep
             /\ runtime' = [runtime EXCEPT ![j] = "closed"]
    BY <2>1, <2>4 DEF ForgetInv, TypeOK
  <2> QED BY <2>2, <2>3, <2>4, <1>11 DEF RuntimeClose, RuntimeSteps
<1>18. ASSUME NEW j \in Jvms, JvmDies(j) PROVE ForgetInv'
  BY <1>18 DEF JvmDies, ForgetInv, TypeOK
<1>19. CASE \/ \E s \in Servers : ServerExits(s)
            \/ PidReused
            \/ UNCHANGED vars
  BY <1>19, <1>0 DEF ServerExits, PidReused, vars, jvmVars
<1>20. CASE \/ \E k \in Reapers : ReapBegin(k)
            \/ \E k \in Reapers, j \in Jvms : ReapSkip(k, j)
            \/ \E k \in Reapers, j \in Jvms : ReapRead(k, j)
            \/ \E k \in Reapers, s \in Servers : ReapKill(k, s)
            \/ \E k \in Reapers : ReapDelete(k)
            \/ \E k \in Reapers : ReapEnd(k)
  BY <1>20, <1>0 DEF ReapBegin, ReapSkip, ReapRead, ReapKill, ReapDelete, ReapEnd, jvmVars
<1> QED
  BY Steps, <1>3, <1>4, <1>5, <1>6, <1>7, <1>8, <1>9, <1>9a, <1>11, <1>18, <1>19, <1>20

-----------------------------------------------------------------------------
(***************************************************************************)
(* The invariant and what follows from it.                                   *)
(***************************************************************************)
LEMMA InitRegistry == Init => RegistryInv
<1> SUFFICES ASSUME Init PROVE RegistryInv
  OBVIOUS
<1> USE Members
<1>1. TypeOK
  <2>1. (CHOOSE j \in Owners : TRUE) \in Owners
    BY OwnersAssumption
  <2>2. MachineTypes /\ home \in [Servers -> Jvms]
    BY <2>1 DEF Init, MachineTypes
  <2>3. JvmTypes
    BY DEF Init, JvmTypes, RegisterSteps, CloseSteps, RuntimeSteps
  <2>4. FileTypes /\ ReapTypes
    BY DEF Init, FileTypes, ReapTypes, ReapSteps
  <2>5. startKnown \in BOOLEAN
    BY Zenon DEF Init
  <2> QED BY <2>2, <2>3, <2>4, <2>5, TypeParts, Zenon
<1>2. HomeInv /\ LockInv /\ KilledInv
  BY <1>1 DEF Init, HomeInv, LockInv, KilledInv, TypeOK
<1>3. RecordInv /\ ReapInv /\ ForgetInv
  BY <1>1 DEF Init, RecordInv, ReapInv, ForgetInv, TypeOK, Gone
<1> QED BY <1>1, <1>2, <1>3 DEF RegistryInv

LEMMA RegistryInvariant == Spec => []RegistryInv
<1>1. RegistryInv /\ [Next]_vars => RegistryInv'
  <2> SUFFICES ASSUME RegistryInv, [Next]_vars PROVE RegistryInv'
    OBVIOUS
  <2>1. TypeOK /\ HomeInv /\ LockInv /\ KilledInv /\ RecordInv /\ ReapInv /\ ForgetInv
    BY DEF RegistryInv
  <2>2. TypeOK'
    BY <2>1, TypeStep
  <2>3. HomeInv' /\ LockInv' /\ KilledInv'
    BY <2>1, HomeStep, LockStep, KilledStep
  <2>4. RecordInv' /\ ReapInv' /\ ForgetInv'
    BY <2>1, <2>2, RecordStep, ReapStepKept, ForgetStep
  <2> QED BY <2>2, <2>3, <2>4 DEF RegistryInv
<1> QED BY <1>1, InitRegistry, PTL DEF Spec

\* Whatever JVMs die and whatever pids are reused, reapOrphans kills servers of JVMs
\* that are gone and nothing else (EphemeralServers.reapOrphans).
THEOREM OnlyOrphansAreKilled == Spec => []OnlyOrphansKilled
<1>1. RegistryInv => OnlyOrphansKilled
  BY DEF RegistryInv, KilledInv, OnlyOrphansKilled
<1> QED BY <1>1, RegistryInvariant, PTL

\* A registered server that outlives its JVM stays in the record file until its end
\* was requested or refused, and a reapOrphans that returns has seen to that for each of
\* the recorded orphans it began with, or has left its record where it could not read it,
\* however many reapers overlap and die (EphemeralServers.reapOrphans).
THEOREM RecordedOrphansAreReaped == Spec => []OrphansReaped
<1>1. RegistryInv => OrphansReaped
  <2> SUFFICES ASSUME RegistryInv PROVE OrphansReaped
    OBVIOUS
  <2>1. TypeOK /\ RecordInv /\ ReapInv
    BY DEF RegistryInv
  <2>2. ASSUME NEW k \in Jvms, reap[k] = "done", NEW s \in obliged[k]
        PROVE  Settled(s) \/ (home[s] \in missed[k] /\ s \in lines[home[s]])
    <3>1. s \in Servers
      BY <2>1 DEF TypeOK
    <3> QED BY <2>1, <2>2, <3>1 DEF ReapInv
  <2>3. ASSUME startKnown, NEW s \in Servers, ~Settled(s), register[s] = "done",
               ~IsClosed(s), home[s] \notin unsaved
        PROVE  home[s] \in files /\ s \in lines[home[s]]
    <3>1. s \in lines[home[s]]
      BY <2>1, <2>3 DEF RecordInv, Settled
    <3> QED BY <2>1, <3>1 DEF TypeOK
  <2> QED BY <2>1, <2>2, <2>3 DEF OrphansReaped
<1> QED BY <1>1, RegistryInvariant, PTL

\* The registry forgets a server that was closed, or whose runtime was, once neither
\* its registration nor its close is in progress, in whatever order a start, a close
\* of the server and a close of the runtime took their steps.
THEOREM ClosedServersAreForgotten == Spec => []ClosedIsForgotten
<1>1. RegistryInv => ClosedIsForgotten
  BY DEF RegistryInv, ForgetInv, ClosedIsForgotten, Gone
<1> QED BY <1>1, RegistryInvariant, PTL
=============================================================================
