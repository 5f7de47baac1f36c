------------------------- MODULE AppOperationsProofs --------------------------
(***************************************************************************)
(* Proofs about the handlers of /app and /validate together with the       *)
(* provisioning they rely on, for any number of handlers, devices, apps    *)
(* and requests, apps whose files have the same name, and any faults.      *)
(***************************************************************************)
EXTENDS AppOperations, ProvisionProofs

-----------------------------------------------------------------------------
(* The inductive invariant.                                                *)

\* Handlers are at work only while the process runs, after main has prepared.
ServerInv ==
    /\ job["watch"].at # "none" => job["main"].at = "done"
    /\ \A h \in Handler : task[h].at # "idle" => proc = "up" /\ job["watch"].at # "none"

\* No two apps of a device have processes of the same number at the same time.
PidInv == \A d \in Device, a, b \in App : pid[d][a] = pid[d][b] /\ pid[d][a] # 0 => a = b

\* Whether a handler is between creating its app's file and installing from it.
Installing(h) == task[h].at \in {"copy", "execute"} /\ task[h].req.action = "install"

\* While only its own app was written to the file, that has nothing else in it; while
\* nobody else has written there and nothing has failed, it has what was copied so far.
InstallOk(h) ==
    /\ task[h].at \in {"get", "copy"} => task[h].req.action = "install"
    /\ task[h].at = "get" => task[h].n = 1
    /\ Installing(h) =>
          /\ task[h].body \in {Asked(h), "page"} /\ (~hurt[h] => task[h].body = Asked(h))
          /\ task[h].at = "copy" => task[h].n <= BodySize(task[h].body)
          /\ task[h].at = "execute" => task[h].n = BodySize(task[h].body) + 1
          /\ crossed[h] \subseteq {Asked(h)} =>
                \A i \in Chunk : apps[File(h)][i] \in {None, Asked(h), "page"}
          /\ crossed[h] = {} /\ ~hurt[h] =>
                \A i \in Chunk : apps[File(h)][i] = IF i < task[h].n THEN Asked(h) ELSE None

\* Nothing has happened to the request that would excuse its failure.
Unhindered(h) == Dev(h) \in online /\ ToolRuns(Dev(h)) /\ ~hurt[h]

\* The app ran when the request came, and its process has not ended since.
SameProcess(h) == task[h].was # 0 /\ Asked(h) \notin stirred[h]

\* A number looked up is that of the app's process until this ends; whoever has it
\* then has got it since.
NumberOk(h) == task[h].port # 0 =>
    /\ pid[Dev(h)][Asked(h)] = task[h].port \/ Asked(h) \in stirred[h]
    /\ \A b \in App \ {Asked(h)} :
          pid[Dev(h)][b] = task[h].port => {Asked(h), b} \subseteq stirred[h]

ValidateOk(h) ==
    /\ Validating(h) => task[h].req.action = "validate"
    /\ task[h].at = "execute" => task[h].req.action # "validate"
    /\ Validating(h) /\ Asked(h) \notin stirred[h] => pid[Dev(h)][Asked(h)] = task[h].was
    /\ Validating(h) => task[h].ip \in {None, Dev(h)}
    /\ task[h].at \in {"ip", "pid"} => task[h].port = 0
    /\ task[h].at \in {"pid", "forward"} /\ Unhindered(h) => task[h].ip = Dev(h)
    /\ task[h].at = "forward" =>
          /\ NumberOk(h)
          /\ Unhindered(h) /\ SameProcess(h) => task[h].port = task[h].was

\* The three properties, of one handler.
AnswerOk(h) ==
    /\ Answered(h, "install") /\ task[h].reply.status = "success" =>
          task[h].reply.apps = {Asked(h)} \/ crossed[h] \ {Asked(h)} # {}
    /\ Answered(h, "install") /\ task[h].reply.status = "failed" =>
          hurt[h] \/ crossed[h] # {} \/ ~ToolRuns(Dev(h))
    /\ Answered(h, "validate") =>
          /\ \A b \in task[h].reply.apps \ {Asked(h)} : {Asked(h), b} \subseteq stirred[h]
          /\ Unhindered(h) /\ SameProcess(h) => task[h].reply = Reply("served", {Asked(h)})

HandlerOk(h) ==
    task[h].at # "idle" => InstallOk(h) /\ ValidateOk(h) /\ AnswerOk(h)

HandlersInv == \A h \in Handler : HandlerOk(h)

AppIInv == IInv /\ OwnTypeOK /\ ServerInv /\ PidInv /\ HandlersInv

-----------------------------------------------------------------------------
(* Provisioning, among the steps of handlers.                              *)

\* A handler's step takes nothing of provisioning but, maybe, a fault.
LEMMA FaultsOnly ==
    ASSUME IInv, UNCHANGED provisionRest, faults' = faults \/ Fault
    PROVE  IInv'
<1>1. UNCHANGED <<proc, file, appium, job, body, broken, failed, cut>>
  BY DEF provisionRest, diskVars, jobVars, history
<1>2. faults' \in 0..MaxFaults
  BY FaultType DEF IInv
<1>3. TypeOK' /\ FetchInv'
  BY <1>1, <1>2 DEF IInv, TypeOK, FetchInv, FetchOk, Wanted
<1>4. MainInv'
  BY <1>1 DEF IInv, MainInv, Passed, Ran, Wanted, Target, Broken
<1>5. BrokenOnlyByExtraction'
  BY <1>1 DEF IInv, BrokenOnlyByExtraction, Wanted
<1>6. QED
  BY <1>3, <1>4, <1>5 DEF IInv

LEMMA ToolType == \A d : ToolOf(d) \in Tool
  BY AppAssumption DEF AppAssumption, ToolOf

\* A fetch writes at no path but its own.
LEMMA FetchElsewhere ==
    ASSUME TypeOK, NEW c \in Worker, Fetches(c)
    PROVE  Elsewhere(c)
<1>1. <<Wanted(c), "">>[1] = Wanted(c) /\ Target(c)[1] = Wanted(c)
  BY DEF Target
<1>2. \A p \in Path : p # <<Wanted(c), "">> /\ p # Target(c) => file'[p] = file[p]
  <2>1. CASE file' = file
    BY <2>1
  <2>2. CASE \E v : file' = [file EXCEPT ![Target(c)] = v]
    BY <2>2 DEF TypeOK
  <2>3. CASE \E v : file' = [file EXCEPT ![<<Wanted(c), "">>] = v]
    BY <2>3 DEF TypeOK
  <2>4. CASE \E u, v : file' = [file EXCEPT ![<<Wanted(c), "">>] = u, ![Target(c)] = v]
    BY <2>4 DEF TypeOK
  <2>5. QED
    BY <2>1, <2>2, <2>3, <2>4
       DEF Fetches, Got, GetFails, Copied, CopyFails, Unzip, Extracted, ExtractFails, diskVars
<1>3. QED
  BY <1>1, <1>2 DEF Elsewhere

\* Once the watcher runs, no step of the process touches a tool.
LEMMA ToolsKept ==
    ASSUME IInv, ServerInv, job["watch"].at # "none", proc = "up",
           Prepare \/ SyncImages
    PROVE  /\ \A d : ToolRuns(d)' = ToolRuns(d)
           /\ SyncImages /\ job'["main"] = job["main"] /\ job'["watch"].at # "none"
<1>1. SyncImages /\ job["main"].at = "done"
  BY DEF Prepare, EnsureFileExists, Fetches, Got, GetFails, Copied, CopyFails, Unzip,
     Extracted, ExtractFails, RunCommand, CommandFails, StartServices, ServerInv
<1>2. job["watch"].at \in Walks \cup {"auto"} /\ "watch" \in Worker
  BY JobType DEF IInv, JobOf, WatchJob, Worker
<1>3. Elsewhere("watch")
  <2>1. CASE Fetches("watch")
    BY <1>2, <2>1, FetchElsewhere DEF IInv
  <2>2. CASE SyncDiskImages \/ ImageAuto
    BY <2>2 DEF SyncDiskImages, ImageAuto, diskVars, Elsewhere
  <2>3. QED
    BY <1>1, <2>1, <2>2 DEF SyncImages
<1>4. \A t \in Tool : t # Wanted("watch") /\ <<t, "">> \in Path /\ <<t, "">>[1] = t
  <2>1. Wanted("watch") \in Version
    BY <1>2, WantedType DEF IInv
  <2>2. \A t \in Tool : t # Wanted("watch")
    BY <2>1, ProvisionAssumption DEF ProvisionAssumption
  <2>3. QED
    BY <2>2, PathType
<1>5. \A t \in Tool : file'[<<t, "">>] = file[<<t, "">>]
  BY <1>3, <1>4 DEF Elsewhere
<1>6. \A d : ToolRuns(d)' = ToolRuns(d)
  BY <1>5, ToolType DEF ToolRuns, ToolOf
<1>7. PICK j : Moves("watch", j) /\ j.at # "none"
  <2>1. \A n : AfterPhone(n).at = "stat" /\ Job("auto", n).at = "auto" /\ Job("get", n).at = "get"
               /\ Job("copy", n).at = "copy" /\ Job("extract", n).at = "extract"
    BY DEF AfterPhone, Job
  <2>2. AfterFetch("watch").at = "auto" /\ AfterDownload("watch").at \in {"unzip", "auto"}
    BY DEF AfterFetch, AfterDownload, Job
  <2>3. CASE Fetches("watch")
    BY <2>1, <2>2, <2>3 DEF Fetches, Got, GetFails, Copied, CopyFails, Unzip, Extracted,
       ExtractFails
  <2>4. CASE SyncDiskImages \/ ImageAuto
    BY <2>1, <2>4 DEF SyncDiskImages, ImageAuto
  <2>5. QED
    BY <1>1, <2>3, <2>4 DEF SyncImages
<1>8. job'["main"] = job["main"] /\ job'["watch"] = j
  BY <1>7 DEF IInv, TypeOK, Moves, Worker
<1>9. QED
  BY <1>1, <1>6, <1>7, <1>8

-----------------------------------------------------------------------------
(* What a step of one handler, or of a device, is to the other handlers.   *)

\* A route that is lost does not come back, and the tools stay as they are.
World ==
    /\ online' \subseteq online
    /\ \A d \in Device : ToolRuns(d)' = ToolRuns(d)

\* A process that begins or ends under a validation is recorded.
StirStep(g) ==
    /\ stirred[g] \subseteq stirred'[g]
    /\ Validating(g) => \A a \in App : \/ pid'[Dev(g)][a] = pid[Dev(g)][a]
                                       \/ a \in stirred'[g]

Stirring == stirred' \in [Handler -> SUBSET App] /\ \A g \in Handler : StirStep(g)

\* What a handler's file may undergo: nothing, or a write that is recorded.
FileStep(g) ==
    \/ \A i \in Chunk : apps'[File(g)][i] = apps[File(g)][i]
    \/ /\ crossed'[g] # {}
       /\ crossed'[g] \subseteq {Asked(g)} =>
             \A i \in Chunk : apps'[File(g)][i] \in {apps[File(g)][i], None, Asked(g), "page"}

\* The types of what a task holds, without the records.
LEMMA TaskFields ==
    ASSUME OwnTypeOK, NEW h \in Handler
    PROVE  /\ task[h] \in Task /\ task[h].n \in 1..(MaxSize + 1)
           /\ task[h].port \in Pid \cup {0} /\ task[h].was \in Pid \cup {0}
           /\ task[h].reply \in ReplyType /\ task[h].req \in Requests \cup {NoRequest}
           /\ task[h].body \in App \cup {None, "page"} /\ task[h].ip \in Android \cup {None}
           /\ task[h].at # "idle" => /\ Dev(h) \in Device /\ Asked(h) \in App
                                     /\ File(h) \in Name /\ task[h].req \in Requests
           /\ hurt[h] \in BOOLEAN /\ crossed[h] \subseteq App
<1>1. task[h] \in Task /\ hurt[h] \in BOOLEAN /\ crossed[h] \subseteq App
  BY DEF OwnTypeOK
<1>2. \A r \in Requests : r.device \in Device /\ r.app \in App
  BY AppAssumption DEF AppAssumption
<1>3. task[h].at # "idle" => task[h].req \in Requests
  BY DEF OwnTypeOK
<1>4. /\ task[h].n \in 1..(MaxSize + 1) /\ task[h].reply \in ReplyType
      /\ task[h].port \in Pid \cup {0} /\ task[h].was \in Pid \cup {0}
      /\ task[h].req \in Requests \cup {NoRequest}
      /\ task[h].body \in App \cup {None, "page"} /\ task[h].ip \in Android \cup {None}
  BY <1>1, Zenon DEF Task
<1>5. task[h].at # "idle" => /\ Dev(h) \in Device /\ Asked(h) \in App /\ File(h) \in Name
  BY <1>2, <1>3 DEF Dev, Asked, File, Name
<1>6. QED
  BY <1>1, <1>3, <1>4, <1>5

LEMMA InstallFrame ==
    ASSUME OwnTypeOK, NEW g \in Handler, InstallOk(g), task'[g] = task[g],
           hurt[g] => hurt'[g], crossed[g] \subseteq crossed'[g],
           Installing(g) => FileStep(g)
    PROVE  InstallOk(g)'
<1>1. File(g)' = File(g) /\ Asked(g)' = Asked(g) /\ Installing(g)' = Installing(g)
      /\ (BodySize(task[g].body))' = BodySize(task[g].body)
  BY DEF File, Asked, Installing, BodySize
<1>2. SUFFICES ASSUME Installing(g)
               PROVE  /\ crossed'[g] \subseteq {Asked(g)} =>
                            \A i \in Chunk : apps'[File(g)][i] \in {None, Asked(g), "page"}
                      /\ crossed'[g] = {} /\ ~hurt'[g] =>
                            \A i \in Chunk : apps'[File(g)][i] =
                                IF i < task[g].n THEN Asked(g) ELSE None
  BY <1>1 DEF InstallOk
<1>3. CASE \A i \in Chunk : apps'[File(g)][i] = apps[File(g)][i]
  BY <1>2, <1>3 DEF InstallOk
<1>4. CASE /\ crossed'[g] # {}
           /\ crossed'[g] \subseteq {Asked(g)} =>
                 \A i \in Chunk : apps'[File(g)][i] \in {apps[File(g)][i], None, Asked(g), "page"}
  BY <1>2, <1>4 DEF InstallOk
<1>5. QED
  BY <1>2, <1>3, <1>4 DEF FileStep

\* The number of a validation, under a step that may move processes.
LEMMA NumberStep ==
    ASSUME OwnTypeOK, NEW g \in Handler, Validating(g), PidInv', NumberOk(g), StirStep(g),
           task'[g] = task[g]
    PROVE  NumberOk(g)'
<1>1. /\ Dev(g)' = Dev(g) /\ Asked(g)' = Asked(g)
      /\ Dev(g) \in Device /\ Asked(g) \in App
  BY TaskFields DEF Dev, Asked, Validating
<1>2. SUFFICES ASSUME task[g].port # 0
               PROVE  /\ pid'[Dev(g)][Asked(g)] = task[g].port \/ Asked(g) \in stirred'[g]
                      /\ \A b \in App \ {Asked(g)} : pid'[Dev(g)][b] = task[g].port =>
                            {Asked(g), b} \subseteq stirred'[g]
  BY <1>1 DEF NumberOk
<1>3. pid'[Dev(g)][Asked(g)] = task[g].port \/ Asked(g) \in stirred'[g]
  BY <1>1, <1>2 DEF NumberOk, StirStep
<1>4. ASSUME NEW b \in App \ {Asked(g)}, pid'[Dev(g)][b] = task[g].port
      PROVE  {Asked(g), b} \subseteq stirred'[g]
  <2>1. Asked(g) \in stirred'[g]
    BY <1>1, <1>2, <1>3, <1>4 DEF PidInv
  <2>2. b \in stirred'[g]
    BY <1>2, <1>4 DEF NumberOk, StirStep
  <2>3. QED
    BY <2>1, <2>2
<1>5. QED
  BY <1>3, <1>4

LEMMA ValidateFrame ==
    ASSUME OwnTypeOK, NEW g \in Handler, ValidateOk(g), World, task[g].at # "idle",
           task'[g] = task[g], hurt[g] => hurt'[g], StirStep(g), PidInv'
    PROVE  /\ ValidateOk(g)'
           /\ Unhindered(g)' => Unhindered(g)
           /\ SameProcess(g)' => SameProcess(g)
<1>1. /\ Dev(g)' = Dev(g) /\ Asked(g)' = Asked(g)
      /\ Dev(g) \in Device /\ Asked(g) \in App /\ Validating(g)' = Validating(g)
  BY TaskFields DEF Dev, Asked, Validating
<1>2. Unhindered(g)' => Unhindered(g)
  <2>1. ToolRuns(Dev(g))' = ToolRuns(Dev(g))
    BY <1>1 DEF World, ToolRuns, ToolOf
  <2>2. QED
    BY <1>1, <2>1 DEF Unhindered, World
<1>3. SameProcess(g)' => SameProcess(g)
  BY <1>1 DEF SameProcess, StirStep
<1>4. Validating(g) /\ Asked(g) \notin stirred'[g] => pid'[Dev(g)][Asked(g)] = task[g].was
  BY <1>1 DEF ValidateOk, StirStep
<1>5. task[g].at = "forward" => NumberOk(g)'
  BY NumberStep DEF ValidateOk, Validating
<1>6. QED
  BY <1>1, <1>2, <1>3, <1>4, <1>5 DEF ValidateOk

LEMMA AnswerFrame ==
    ASSUME OwnTypeOK, NEW g \in Handler, AnswerOk(g), World, task[g].at # "idle",
           task'[g] = task[g], hurt[g] => hurt'[g], crossed[g] \subseteq crossed'[g],
           stirred[g] \subseteq stirred'[g], Unhindered(g)' => Unhindered(g),
           SameProcess(g)' => SameProcess(g)
    PROVE  AnswerOk(g)'
<1>1. Dev(g)' = Dev(g) /\ Asked(g)' = Asked(g) /\ Dev(g) \in Device
  BY TaskFields DEF Dev, Asked
<1>2. ToolRuns(Dev(g))' = ToolRuns(Dev(g))
  BY <1>1 DEF World, ToolRuns, ToolOf
<1>3. \A l : Answered(g, l)' = Answered(g, l)
  BY DEF Answered
<1>4. QED
  BY <1>1, <1>2, <1>3 DEF AnswerOk, Reply

LEMMA OtherHandler ==
    ASSUME AppIInv, NEW g \in Handler, World, PidInv', StirStep(g),
           task'[g] = task[g], hurt[g] => hurt'[g], crossed[g] \subseteq crossed'[g],
           Installing(g) => FileStep(g)
    PROVE  HandlerOk(g)'
<1>1. SUFFICES ASSUME task[g].at # "idle"
               PROVE  (InstallOk(g) /\ ValidateOk(g) /\ AnswerOk(g))'
  BY DEF HandlerOk
<1>2. InstallOk(g) /\ ValidateOk(g) /\ AnswerOk(g) /\ OwnTypeOK
  BY <1>1 DEF AppIInv, HandlersInv, HandlerOk
<1>3. stirred[g] \subseteq stirred'[g]
  BY DEF StirStep
<1>4. QED
  BY <1>1, <1>2, <1>3, InstallFrame, ValidateFrame, AnswerFrame

-----------------------------------------------------------------------------
(* The steps of a handler.                                                 *)

\* A step that leaves devices and tools alone.
LEMMA CalmWorld ==
    ASSUME OwnTypeOK, PidInv, UNCHANGED <<pid, stirred, online, file>>
    PROVE  World /\ PidInv' /\ pid' \in [Device -> [App -> Pid \cup {0}]]
           /\ Stirring /\ online' \subseteq Android
<1>1. \A d : ToolRuns(d)' = ToolRuns(d)
  BY DEF ToolRuns, ToolOf
<1>2. QED
  BY <1>1 DEF World, PidInv, OwnTypeOK, Stirring, StirStep

\* What has to be shown of a handler's step: of the others, that it is a step they
\* are used to, and of itself, its own part.
LEMMA HandlerStep ==
    ASSUME AppIInv, NEW h \in Handler, NEW t \in Task, task' = [task EXCEPT ![h] = t],
           t.at # "idle" => /\ t.req \in Requests
                            /\ proc = "up" /\ job["watch"].at # "none",
           t.at = "copy" => t.n \in Chunk,
           UNCHANGED provisionRest, faults' = faults \/ Fault,
           apps' \in [Name -> [Chunk -> App \cup {None, "page"}]],
           installed' \in [Device -> SUBSET App], served' \in 0..MaxRequests,
           crossed' \in [Handler -> SUBSET App], hurt' \in [Handler -> BOOLEAN],
           World, PidInv', pid' \in [Device -> [App -> Pid \cup {0}]],
           stirred' \in [Handler -> SUBSET App], online' \subseteq Android,
           \A g \in Handler \ {h} : /\ hurt[g] => hurt'[g]
                                    /\ StirStep(g)
                                    /\ crossed[g] \subseteq crossed'[g]
                                    /\ Installing(g) => FileStep(g),
           HandlerOk(h)'
    PROVE  AppIInv'
<1>1. IInv'
  BY FaultsOnly DEF AppIInv
<1>2. UNCHANGED <<proc, job>>
  BY DEF provisionRest, jobVars
<1>3. task' \in [Handler -> Task] /\ task'[h] = t
      /\ \A g \in Handler \ {h} : task'[g] = task[g]
  BY DEF AppIInv, OwnTypeOK
<1>4. OwnTypeOK'
  <2>1. ASSUME NEW g \in Handler
        PROVE  /\ task'[g].at # "idle" => task'[g].req \in Requests
               /\ task'[g].at = "copy" => task'[g].n \in Chunk
    BY <1>3 DEF AppIInv, OwnTypeOK
  <2>2. QED
    BY <1>3, <2>1 DEF OwnTypeOK
<1>5. ServerInv'
  BY <1>2, <1>3 DEF AppIInv, ServerInv
<1>6. HandlersInv'
  BY <1>3, OtherHandler DEF HandlersInv
<1>7. QED
  BY <1>1, <1>4, <1>5, <1>6 DEF AppIInv

\* The others' files when h writes to none.
LEMMA NoFileStep ==
    ASSUME apps' = apps, NEW g \in Handler
    PROVE  FileStep(g)
  BY DEF FileStep

\* The task of a handler that has answered.
LEMMA AnswersTask ==
    ASSUME OwnTypeOK, NEW h \in Handler, NEW r \in ReplyType, Answers(h, r)
    PROVE  \E t \in Task : /\ task' = [task EXCEPT ![h] = t] /\ task'[h] = t
                           /\ t.at = "answered" /\ t.req = task[h].req
                           /\ t.was = task[h].was /\ t.reply = r
<1> DEFINE t == [Idle EXCEPT !.at = "answered", !.req = task[h].req, !.was = task[h].was,
                             !.reply = r]
<1>1. task[h].req \in Requests \cup {NoRequest} /\ task[h].was \in Pid \cup {0}
  BY TaskFields
<1>2. 1 \in 1..(MaxSize + 1)
  BY AppAssumption DEF AppAssumption
<1>3. t \in Task /\ t.at = "answered" /\ t.req = task[h].req /\ t.was = task[h].was
      /\ t.reply = r
  BY <1>1, <1>2 DEF Idle, Task
<1>4. task' = [task EXCEPT ![h] = t] /\ task'[h] = t
  BY DEF Answers, OwnTypeOK
<1> HIDE DEF t
<1>5. QED
  BY <1>3, <1>4

LEMMA ReplyIn ==
    ASSUME NEW s \in {"success", "failed", "aborted", "invalid action", "served",
                      "from this host", "unreachable", "another server"},
           NEW A, A \subseteq App
    PROVE  Reply(s, A) \in ReplyType /\ Reply(s, A).status = s /\ Reply(s, A).apps = A
  BY DEF Reply, ReplyType

\* A handler that answers: of itself, only the answer has to be shown.
LEMMA AnswerStep ==
    ASSUME AppIInv, NEW h \in Handler, task[h].at # "idle",
           NEW r \in ReplyType, Answers(h, r),
           UNCHANGED provisionRest, faults' = faults \/ Fault,
           apps' = apps, installed' \in [Device -> SUBSET App], served' = served,
           crossed' = crossed, hurt' = hurt \/ HitBy(h),
           World, PidInv', pid' \in [Device -> [App -> Pid \cup {0}]],
           Stirring, online' \subseteq Android,
           AnswerOk(h)'
    PROVE  AppIInv'
<1>1. PICK t \in Task : /\ task' = [task EXCEPT ![h] = t] /\ task'[h] = t
                        /\ t.at = "answered" /\ t.req = task[h].req
                        /\ t.was = task[h].was /\ t.reply = r
  BY AnswersTask DEF AppIInv
<1>2. /\ Dev(h)' = Dev(h) /\ Dev(h) \in Device
      /\ task[h].req \in Requests
  BY <1>1, TaskFields DEF Dev, AppIInv
<1>3. ~Validating(h)'
  BY <1>1 DEF Validating
<1>4. InstallOk(h)' /\ ValidateOk(h)'
  BY <1>1, <1>2, <1>3 DEF InstallOk, Installing, ValidateOk
<1>5. HandlerOk(h)'
  BY <1>4 DEF HandlerOk
<1>6. proc = "up" /\ job["watch"].at # "none"
  BY DEF AppIInv, ServerInv
<1>7. hurt' \in [Handler -> BOOLEAN] /\ \A g \in Handler \ {h} : hurt'[g] = hurt[g]
  BY DEF HitBy, AppIInv, OwnTypeOK
<1>8. \A g \in Handler \ {h} : /\ hurt[g] => hurt'[g]
                               /\ StirStep(g)
                               /\ crossed[g] \subseteq crossed'[g]
                               /\ Installing(g) => FileStep(g)
  BY <1>7, NoFileStep DEF Stirring
<1>9. /\ apps' \in [Name -> [Chunk -> App \cup {None, "page"}]]
      /\ served' \in 0..MaxRequests /\ crossed' \in [Handler -> SUBSET App]
      /\ stirred' \in [Handler -> SUBSET App]
  BY DEF AppIInv, OwnTypeOK, Stirring
<1>10. QED
  BY <1>1, <1>2, <1>5, <1>6, <1>7, <1>8, <1>9, HandlerStep

\* The answer to a request that is neither an install nor a validation, and that of a
\* failed install that something has hit.
LEMMA OtherAnswer ==
    ASSUME NEW h \in Handler, task'[h].req = task[h].req,
           \/ task[h].req.action \notin {"install", "validate"}
           \/ /\ task[h].req.action = "install" /\ task'[h].reply.status = "failed"
              /\ hurt'[h] \/ crossed'[h] # {} \/ ~ToolRuns(Dev(h))'
    PROVE  AnswerOk(h)'
  BY DEF AnswerOk, Answered, Dev

LEMMA Hit ==
    ASSUME OwnTypeOK, NEW h \in Handler, HitBy(h)
    PROVE  hurt'[h]
  BY DEF HitBy, OwnTypeOK

\* No file, no device: the download fails.
LEMMA GetAppFailsIInv ==
    ASSUME AppIInv, NEW h \in Handler, GetAppFails(h) \/ CopyAppFails(h)
    PROVE  AppIInv'
<1>1. /\ task[h].at \in {"get", "copy"} /\ task[h].req.action = "install"
      /\ Fault /\ HitBy(h) /\ Answers(h, Reply("failed", {}))
      /\ UNCHANGED <<provisionRest, apps, deviceVars, served, crossed>>
  BY DEF GetAppFails, CopyAppFails, Busy, AppIInv, HandlersInv, HandlerOk, InstallOk
<1>2. UNCHANGED <<installed, pid, stirred, online, file>>
  BY <1>1 DEF deviceVars, provisionRest, diskVars
<1>3. /\ World /\ PidInv' /\ pid' \in [Device -> [App -> Pid \cup {0}]]
      /\ Stirring /\ online' \subseteq Android
  BY <1>2, CalmWorld DEF AppIInv
<1>4. Reply("failed", {}) \in ReplyType /\ Reply("failed", {}).status = "failed"
  BY ReplyIn
<1>5. task'[h].req = task[h].req /\ task'[h].reply = Reply("failed", {})
  BY <1>1, <1>4, AnswersTask DEF AppIInv
<1>6. AnswerOk(h)'
  BY <1>1, <1>4, <1>5, Hit, OtherAnswer DEF AppIInv
<1>7. QED
  BY <1>1, <1>2, <1>3, <1>4, <1>6, AnswerStep DEF AppIInv, OwnTypeOK

-----------------------------------------------------------------------------
(* Moves of a handler that leave files and devices alone.                  *)

LEMMA MoveStep ==
    ASSUME AppIInv, NEW h \in Handler, task[h].at # "idle",
           NEW t \in Task, t.at \notin {"idle", "copy"}, t.req = task[h].req,
           task' = [task EXCEPT ![h] = t], faults' = faults \/ Fault,
           UNCHANGED <<provisionRest, apps, deviceVars, served, crossed>>,
           hurt' = hurt \/ HitBy(h), HandlerOk(h)'
    PROVE  AppIInv'
<1>1. UNCHANGED <<installed, pid, stirred, online, file>>
  BY DEF deviceVars, provisionRest, diskVars
<1>2. /\ World /\ PidInv' /\ pid' \in [Device -> [App -> Pid \cup {0}]]
      /\ Stirring /\ online' \subseteq Android
  BY <1>1, CalmWorld DEF AppIInv
<1>3. proc = "up" /\ job["watch"].at # "none" /\ task[h].req \in Requests
  BY DEF AppIInv, ServerInv, OwnTypeOK
<1>4. hurt' \in [Handler -> BOOLEAN] /\ \A g \in Handler \ {h} : hurt'[g] = hurt[g]
  BY DEF HitBy, AppIInv, OwnTypeOK
<1>5. \A g \in Handler \ {h} : /\ hurt[g] => hurt'[g]
                               /\ StirStep(g)
                               /\ crossed[g] \subseteq crossed'[g]
                               /\ Installing(g) => FileStep(g)
  BY <1>2, <1>4, NoFileStep DEF Stirring
<1>6. /\ apps' \in [Name -> [Chunk -> App \cup {None, "page"}]]
      /\ served' \in 0..MaxRequests /\ crossed' \in [Handler -> SUBSET App]
      /\ installed' \in [Device -> SUBSET App] /\ stirred' \in [Handler -> SUBSET App]
  BY <1>1 DEF AppIInv, OwnTypeOK
<1>7. QED
  BY <1>2, <1>3, <1>4, <1>5, <1>6, HandlerStep

\* A failed call of Execute excuses the handler.
LEMMA ExecuteFailsHinders ==
    ASSUME OwnTypeOK, NEW h \in Handler, ExecuteFails(h), task'[h].req = task[h].req,
           file' = file
    PROVE  /\ ~Unhindered(h)'
           /\ hurt'[h] \/ ~ToolRuns(Dev(h))'
           /\ faults' = faults \/ Fault
           /\ hurt' = hurt \/ HitBy(h)
<1>1. hurt'[h] \/ ~ToolRuns(Dev(h))
  BY Hit DEF ExecuteFails
<1>2. ToolRuns(Dev(h))' = ToolRuns(Dev(h)) /\ Dev(h)' = Dev(h)
  BY DEF ToolRuns, ToolOf, Dev
<1>3. QED
  BY <1>1, <1>2 DEF Unhindered, ExecuteFails

\* What a handler that looks for the device or the process must show of itself.
LEMMA LookupOk ==
    ASSUME AppIInv, NEW h \in Handler, task[h].at # "idle", task'[h].at \in {"pid", "forward"},
           task'[h].req = task[h].req, task'[h].was = task[h].was,
           Validating(h), UNCHANGED <<pid, stirred>>,
           task'[h].ip \in {None, Dev(h)}, task'[h].at = "pid" => task'[h].port = 0,
           Unhindered(h)' => task'[h].ip = Dev(h),
           task'[h].port \in {0, pid[Dev(h)][Asked(h)]},
           Unhindered(h)' /\ task'[h].at = "forward" =>
               task'[h].port = pid[Dev(h)][Asked(h)]
    PROVE  HandlerOk(h)'
<1>1. Dev(h)' = Dev(h) /\ Asked(h)' = Asked(h) /\ Dev(h) \in Device /\ Asked(h) \in App
  BY TaskFields DEF Dev, Asked, AppIInv
<1>2. InstallOk(h)'
  BY DEF InstallOk, Installing
<1>3. AnswerOk(h)'
  BY DEF AnswerOk, Answered
<1>4. /\ task[h].req.action = "validate"
      /\ Asked(h) \notin stirred[h] => pid[Dev(h)][Asked(h)] = task[h].was
  BY DEF AppIInv, HandlersInv, HandlerOk, ValidateOk
<1>5. NumberOk(h)'
  BY <1>1 DEF AppIInv, PidInv, NumberOk
<1>6. SameProcess(h)' /\ Unhindered(h)' /\ task'[h].at = "forward" => task'[h].port = task[h].was
  BY <1>1, <1>4 DEF SameProcess
<1>7. ValidateOk(h)'
  BY <1>1, <1>4, <1>5, <1>6 DEF ValidateOk, Validating
<1>8. QED
  BY <1>2, <1>3, <1>7 DEF HandlerOk

LEMMA MovedTask ==
    ASSUME NEW t \in Task, NEW l \in {"copy", "execute", "ip", "pid", "forward"}
    PROVE  /\ [t EXCEPT !.at = l] \in Task
           /\ \A b \in App \cup {"page"} : [t EXCEPT !.at = l, !.body = b] \in Task
           /\ \A d \in Android : [t EXCEPT !.at = l, !.ip = d] \in Task
           /\ \A p \in Pid \cup {0} : [t EXCEPT !.at = l, !.port = p] \in Task
           /\ \A n \in 1..(MaxSize + 1) : [t EXCEPT !.n = n, !.at = l] \in Task
<1>1. /\ [t EXCEPT !.at = l] \in Task
      /\ \A n \in 1..(MaxSize + 1) : [t EXCEPT !.n = n, !.at = l] \in Task
  BY DEF Task
<1>2. \A b \in App \cup {"page"} : [t EXCEPT !.at = l, !.body = b] \in Task
  BY DEF Task
<1>3. \A d \in Android : [t EXCEPT !.at = l, !.ip = d] \in Task
  BY DEF Task
<1>4. \A p \in Pid \cup {0} : [t EXCEPT !.at = l, !.port = p] \in Task
  BY DEF Task
<1>5. QED
  BY <1>1, <1>2, <1>3, <1>4

LEMMA FindDeviceIPIInv ==
    ASSUME AppIInv, NEW h \in Handler, FindDeviceIP(h)
    PROVE  AppIInv'
<1>1. /\ task[h].at = "ip" /\ UNCHANGED <<provisionRest, apps, deviceVars, served, crossed>>
      /\ Validating(h) /\ task[h].port = 0 /\ task[h] \in Task
      /\ task[h].ip \in {None, Dev(h)} /\ Dev(h) \in Device /\ task[h].req \in Requests
      /\ task[h].req.action = "validate"
  BY TaskFields DEF FindDeviceIP, Validating, Busy, AppIInv, HandlersInv, HandlerOk, ValidateOk
<1>2. UNCHANGED <<installed, pid, stirred, online, file>> /\ online \subseteq Android
  BY <1>1 DEF deviceVars, provisionRest, diskVars, AppIInv, OwnTypeOK
<1>3. ASSUME Becomes(h, "pid"), faults' = faults \/ Fault, hurt' = hurt \/ HitBy(h),
             Unhindered(h)' => FALSE
      PROVE  AppIInv'
  <2> DEFINE t == [task[h] EXCEPT !.at = "pid"]
  <2>1. t \in Task
    BY <1>1, MovedTask
  <2>2. task' = [task EXCEPT ![h] = t] /\ task'[h] = t
    BY <1>3 DEF Becomes, AppIInv, OwnTypeOK
  <2>3. t.at = "pid" /\ t.req = task[h].req /\ t.was = task[h].was /\ t.ip = task[h].ip
        /\ t.port = task[h].port
    BY <1>1 DEF Task
  <2> HIDE DEF t
  <2>4. HandlerOk(h)'
    BY <1>1, <1>2, <1>3, <2>2, <2>3, LookupOk
  <2>5. QED
    BY <1>1, <1>3, <2>1, <2>2, <2>3, <2>4, MoveStep
<1>4. CASE /\ Dev(h) \in Iphone /\ Becomes(h, "pid") /\ UNCHANGED <<faults, hurt>>
  <2>1. task'[h].req = task[h].req
    BY <1>1, <1>4 DEF Becomes, AppIInv, OwnTypeOK, Task
  <2>2. ~Unhindered(h)'
    BY <1>2, <1>4, <2>1, AppAssumption DEF Unhindered, Dev, AppAssumption
  <2>3. QED
    BY <1>3, <1>4, <2>2
<1>5. CASE /\ Dev(h) \in Android /\ ExecuteFails(h) /\ Becomes(h, "pid")
  <2>1. task'[h].req = task[h].req
    BY <1>1, <1>5 DEF Becomes, AppIInv, OwnTypeOK, Task
  <2>2. QED
    BY <1>2, <1>3, <1>5, <2>1, ExecuteFailsHinders DEF AppIInv
<1>6. CASE /\ Dev(h) \in Android /\ Dev(h) \in online /\ UNCHANGED <<faults, hurt>>
           /\ task' = [task EXCEPT ![h].at = "pid", ![h].ip = Dev(h)]
  <2> DEFINE t == [task[h] EXCEPT !.at = "pid", !.ip = Dev(h)]
  <2>1. t \in Task
    BY <1>1, <1>6, MovedTask
  <2>2. task' = [task EXCEPT ![h] = t] /\ task'[h] = t
    BY <1>6 DEF AppIInv, OwnTypeOK
  <2>3. t.at = "pid" /\ t.req = task[h].req /\ t.was = task[h].was /\ t.ip = Dev(h)
        /\ t.port = task[h].port
    BY <1>1 DEF Task
  <2> HIDE DEF t
  <2>4. HandlerOk(h)'
    BY <1>1, <1>2, <2>2, <2>3, LookupOk
  <2>5. QED
    BY <1>1, <1>6, <2>1, <2>2, <2>3, <2>4, MoveStep
<1>7. CASE /\ Dev(h) \in Android /\ Dev(h) \notin online /\ UNCHANGED <<faults, hurt>>
           /\ Answers(h, Reply("aborted", {}))
  <2>1. Reply("aborted", {}) \in ReplyType /\ Reply("aborted", {}).apps = {}
    BY ReplyIn
  <2>2. task'[h].req = task[h].req /\ task'[h].reply = Reply("aborted", {})
    BY <1>7, <2>1, AnswersTask DEF AppIInv
  <2>3. ~Unhindered(h)'
    BY <1>2, <1>7, <2>2 DEF Unhindered, Dev
  <2>4. AnswerOk(h)'
    BY <1>1, <2>1, <2>2, <2>3 DEF AnswerOk, Answered
  <2>5. /\ World /\ PidInv' /\ pid' \in [Device -> [App -> Pid \cup {0}]]
        /\ Stirring /\ online' \subseteq Android
    BY <1>2, CalmWorld DEF AppIInv
  <2>6. QED
    BY <1>1, <1>2, <1>7, <2>1, <2>4, <2>5, AnswerStep DEF AppIInv, OwnTypeOK
<1>8. QED
  BY <1>4, <1>5, <1>6, <1>7 DEF FindDeviceIP

LEMMA GetForegroundAppIInv ==
    ASSUME AppIInv, NEW h \in Handler, GetForegroundApp(h)
    PROVE  AppIInv'
<1>1. /\ task[h].at = "pid" /\ UNCHANGED <<provisionRest, apps, deviceVars, served, crossed>>
      /\ Validating(h) /\ task[h].port = 0 /\ task[h] \in Task
      /\ task[h].ip \in {None, Dev(h)} /\ Dev(h) \in Device /\ Asked(h) \in App
      /\ Unhindered(h) => task[h].ip = Dev(h)
  BY TaskFields DEF GetForegroundApp, Validating, Busy, AppIInv, HandlersInv, HandlerOk, ValidateOk
<1>2. UNCHANGED <<installed, pid, stirred, online, file>>
  BY <1>1 DEF deviceVars, provisionRest, diskVars
<1>3. CASE /\ UNCHANGED <<faults, hurt>>
           /\ task' = [task EXCEPT ![h].at = "forward", ![h].port = pid[Dev(h)][Asked(h)]]
  <2> DEFINE t == [task[h] EXCEPT !.at = "forward", !.port = pid[Dev(h)][Asked(h)]]
  <2>1. t \in Task
    <3>1. pid[Dev(h)][Asked(h)] \in Pid \cup {0}
      BY <1>1 DEF AppIInv, OwnTypeOK
    <3>2. QED
      BY <1>1, <3>1, MovedTask
  <2>2. task' = [task EXCEPT ![h] = t] /\ task'[h] = t
    BY <1>3 DEF AppIInv, OwnTypeOK
  <2>3. t.at = "forward" /\ t.req = task[h].req /\ t.was = task[h].was /\ t.ip = task[h].ip
        /\ t.port = pid[Dev(h)][Asked(h)]
    BY <1>1 DEF Task
  <2> HIDE DEF t
  <2>4. Unhindered(h)' => Unhindered(h)
    BY <1>2, <1>3, <2>2, <2>3 DEF Unhindered, Dev, ToolRuns, ToolOf
  <2>5. HandlerOk(h)'
    BY <1>1, <1>2, <2>2, <2>3, <2>4, LookupOk
  <2>6. QED
    BY <1>1, <1>3, <2>1, <2>2, <2>3, <2>5, MoveStep
<1>4. CASE ExecuteFails(h) /\ Becomes(h, "forward")
  <2> DEFINE t == [task[h] EXCEPT !.at = "forward"]
  <2>1. t \in Task
    BY <1>1, MovedTask
  <2>2. task' = [task EXCEPT ![h] = t] /\ task'[h] = t
    BY <1>4 DEF Becomes, AppIInv, OwnTypeOK
  <2>3. t.at = "forward" /\ t.req = task[h].req /\ t.was = task[h].was /\ t.ip = task[h].ip
        /\ t.port = task[h].port
    BY <1>1 DEF Task
  <2> HIDE DEF t
  <2>4. ~Unhindered(h)' /\ (faults' = faults \/ Fault) /\ (hurt' = hurt \/ HitBy(h))
    BY <1>2, <1>4, <2>2, <2>3, ExecuteFailsHinders DEF AppIInv
  <2>5. HandlerOk(h)'
    BY <1>1, <1>2, <2>2, <2>3, <2>4, LookupOk
  <2>6. QED
    BY <1>1, <2>1, <2>2, <2>3, <2>4, <2>5, MoveStep
<1>5. QED
  BY <1>3, <1>4 DEF GetForegroundApp

LEMMA ForwardIInv ==
    ASSUME AppIInv, NEW h \in Handler, Forward(h)
    PROVE  AppIInv'
<1> DEFINE there == {a \in App : task[h].port # 0 /\ pid[Dev(h)][a] = task[h].port}
<1>1. PICK r \in Proxied(h) : Answers(h, r)
  BY DEF Forward
<1>2. /\ task[h].at = "forward"
      /\ UNCHANGED <<provisionVars, apps, deviceVars, served, appHistory>>
      /\ task[h].req.action = "validate" /\ Dev(h) \in Device /\ Asked(h) \in App
      /\ Unhindered(h) => task[h].ip = Dev(h)
      /\ NumberOk(h)
      /\ Asked(h) \notin stirred[h] => pid[Dev(h)][Asked(h)] = task[h].was
      /\ Unhindered(h) /\ SameProcess(h) => task[h].port = task[h].was
  BY TaskFields DEF Forward, Busy, Validating, AppIInv, HandlersInv, HandlerOk, ValidateOk
<1>3. UNCHANGED <<installed, pid, stirred, online, file, faults, hurt, crossed>>
      /\ UNCHANGED provisionRest
  BY <1>2 DEF deviceVars, provisionVars, provisionRest, diskVars, appHistory
<1>4. r \in {Reply("from this host", {}), Reply("unreachable", {}), Reply("another server", {}),
             Reply("served", there)}
  BY DEF Proxied
<1>5. \A b \in there \ {Asked(h)} : {Asked(h), b} \subseteq stirred[h]
  BY <1>2 DEF NumberOk
<1>6. there \subseteq App
  OBVIOUS
<1>7. Unhindered(h) /\ SameProcess(h) => r = Reply("served", {Asked(h)})
  <2>1. SUFFICES ASSUME Unhindered(h), SameProcess(h)
                 PROVE  r = Reply("served", {Asked(h)})
    OBVIOUS
  <2>2. task[h].ip \in online /\ task[h].ip # None
    BY <1>2, <2>1, AppAssumption DEF Unhindered, AppAssumption
  <2>3. Asked(h) \in there
    BY <1>2, <2>1 DEF SameProcess
  <2>4. there = {Asked(h)}
    BY <1>5, <2>1, <2>3 DEF SameProcess
  <2>5. Proxied(h) = {Reply("served", there)}
    BY <2>2, <2>3 DEF Proxied
  <2>6. QED
    BY <2>4, <2>5
<1> HIDE DEF there
<1>8. r \in ReplyType /\ \A b \in r.apps \ {Asked(h)} : {Asked(h), b} \subseteq stirred[h]
  <2>1. Reply("served", there) \in ReplyType /\ Reply("served", there).apps = there
    BY <1>6, ReplyIn
  <2>2. \A s \in {"from this host", "unreachable", "another server"} :
           Reply(s, {}) \in ReplyType /\ Reply(s, {}).apps = {}
    BY DEF Reply, ReplyType
  <2>3. QED
    BY <1>4, <1>5, <2>1, <2>2
<1>9. task'[h].req = task[h].req /\ task'[h].was = task[h].was /\ task'[h].reply = r
  BY <1>1, <1>8, AnswersTask DEF AppIInv
<1>10. Dev(h)' = Dev(h) /\ Asked(h)' = Asked(h)
  BY <1>9 DEF Dev, Asked
<1>11. ToolRuns(Dev(h))' = ToolRuns(Dev(h))
  BY <1>3, <1>10 DEF ToolRuns, ToolOf
<1>12. AnswerOk(h)'
  BY <1>2, <1>3, <1>7, <1>8, <1>9, <1>10, <1>11
     DEF AnswerOk, Answered, Unhindered, SameProcess, Reply
<1>13. /\ World /\ PidInv' /\ pid' \in [Device -> [App -> Pid \cup {0}]]
       /\ Stirring /\ online' \subseteq Android
  BY <1>3, CalmWorld DEF AppIInv
<1>14. UNCHANGED <<apps, served>>
  BY <1>2
<1>15. QED
  BY <1>1, <1>2, <1>3, <1>8, <1>12, <1>13, <1>14, AnswerStep DEF AppIInv, OwnTypeOK

-----------------------------------------------------------------------------
(* The commands.                                                           *)

LEMMA StirsStirring ==
    ASSUME OwnTypeOK, Stirs
    PROVE  Stirring
<1>1. \A h \in Handler : stirred'[h] = stirred[h] \cup
         {a \in App : Validating(h) /\ pid'[Dev(h)][a] # pid[Dev(h)][a]}
  BY DEF Stirs
<1>2. stirred' \in [Handler -> SUBSET App]
  BY DEF Stirs, OwnTypeOK
<1>3. QED
  BY <1>1, <1>2 DEF Stirring, StirStep

\* A process ends.
LEMMA PidEnds ==
    ASSUME OwnTypeOK, PidInv, NEW d \in Device, NEW a \in App,
           pid' = [pid EXCEPT ![d][a] = 0], Stirs, UNCHANGED <<online, file>>
    PROVE  World /\ PidInv' /\ pid' \in [Device -> [App -> Pid \cup {0}]]
           /\ Stirring /\ online' \subseteq Android
<1>1. pid' \in [Device -> [App -> Pid \cup {0}]]
      /\ \A e \in Device, b \in App : pid'[e][b] \in {0, pid[e][b]}
  BY DEF OwnTypeOK
<1>2. \A e : ToolRuns(e)' = ToolRuns(e)
  BY DEF ToolRuns, ToolOf
<1>3. World
  BY <1>2 DEF World
<1>4. PidInv'
  BY <1>1 DEF PidInv
<1>5. QED
  BY <1>1, <1>3, <1>4, StirsStirring DEF OwnTypeOK

\* A process begins.
LEMMA PidBegins ==
    ASSUME OwnTypeOK, PidInv, NEW d \in Device, NEW a \in App, NEW p \in Pid,
           \A b \in App : pid[d][b] # p,
           pid' = [pid EXCEPT ![d][a] = p], Stirs, UNCHANGED <<online, file>>
    PROVE  World /\ PidInv' /\ pid' \in [Device -> [App -> Pid \cup {0}]]
           /\ Stirring /\ online' \subseteq Android
<1>1. /\ pid' \in [Device -> [App -> Pid \cup {0}]]
      /\ pid'[d][a] = p
      /\ \A e \in Device, b \in App : e # d \/ b # a => pid'[e][b] = pid[e][b]
  BY DEF OwnTypeOK
<1>2. \A e : ToolRuns(e)' = ToolRuns(e)
  BY DEF ToolRuns, ToolOf
<1>3. World
  BY <1>2 DEF World
<1>4. ASSUME NEW e \in Device, NEW b \in App, NEW c \in App,
             pid'[e][b] = pid'[e][c], pid'[e][b] # 0
      PROVE  b = c
  <2>1. CASE e = d /\ b = a /\ c # a
    BY <1>1, <1>4, <2>1
  <2>2. CASE e = d /\ c = a /\ b # a
    BY <1>1, <1>4, <2>2
  <2>3. CASE e # d \/ (b # a /\ c # a)
    BY <1>1, <1>4, <2>3 DEF PidInv
  <2>4. QED
    BY <2>1, <2>2, <2>3
<1>5. QED
  BY <1>1, <1>3, <1>4, StirsStirring DEF PidInv, OwnTypeOK

\* What the commands have in common.
LEMMA CommandStep ==
    ASSUME AppIInv, NEW h \in Handler, task[h].at = "execute", NEW r \in ReplyType,
           Answers(h, r), UNCHANGED <<provisionRest, apps, served, crossed>>,
           faults' = faults \/ Fault, hurt' = hurt \/ HitBy(h),
           installed' \in [Device -> SUBSET App],
           World, PidInv', pid' \in [Device -> [App -> Pid \cup {0}]],
           Stirring, online' \subseteq Android,
           \/ task[h].req.action \notin {"install", "validate"}
           \/ /\ task[h].req.action = "install" /\ r.status = "failed"
              /\ hurt'[h] \/ crossed'[h] # {} \/ ~ToolRuns(Dev(h))
           \/ /\ task[h].req.action = "install" /\ r.status = "success"
              /\ r.apps = {Asked(h)} \/ crossed'[h] \ {Asked(h)} # {}
    PROVE  AppIInv'
<1>1. task'[h].req = task[h].req /\ task'[h].reply = r
  BY AnswersTask DEF AppIInv
<1>2. Dev(h)' = Dev(h) /\ Asked(h)' = Asked(h) /\ Dev(h) \in Device
  BY <1>1, TaskFields DEF Dev, Asked, AppIInv
<1>3. ToolRuns(Dev(h))' = ToolRuns(Dev(h))
  BY <1>2 DEF World, ToolRuns, ToolOf
<1>4. AnswerOk(h)'
  BY <1>1, <1>2, <1>3 DEF AnswerOk, Answered
<1>5. QED
  BY <1>4, AnswerStep

\* What an installed app's file says of what the handler that copied it was asked.
LEMMA HeldIsAsked ==
    ASSUME AppIInv, NEW h \in Handler, task[h].at = "execute", task[h].req.action = "install"
    PROVE  /\ \A a \in Held(File(h)) : a = Asked(h) \/ crossed[h] \ {Asked(h)} # {}
           /\ Held(File(h)) = {} => hurt[h] \/ crossed[h] # {}
<1>1. /\ InstallOk(h) /\ Installing(h)
      /\ Asked(h) \in App /\ File(h) \in Name
  BY TaskFields DEF AppIInv, HandlersInv, HandlerOk, Installing
<1>2. \A a \in App : a # None /\ a # "page" /\ Size[a] \in Chunk /\ BodySize(a) = Size[a]
  BY AppAssumption DEF AppAssumption, BodySize
<1>3. ASSUME NEW a \in Held(File(h)), crossed[h] \subseteq {Asked(h)}
      PROVE  a = Asked(h)
  <2>1. 1 \in Chunk /\ 1 <= Size[a] /\ a \in App
    BY <1>2, AppAssumption DEF Held, Chunk, AppAssumption
  <2>2. apps[File(h)][1] = a
    BY <2>1 DEF Held
  <2>3. apps[File(h)][1] \in {None, Asked(h), "page"}
    BY <1>1, <1>3, <2>1 DEF InstallOk
  <2>4. QED
    BY <1>2, <2>1, <2>2, <2>3
<1>4. ASSUME ~hurt[h], crossed[h] = {}
      PROVE  Asked(h) \in Held(File(h))
  <2>1. task[h].n = Size[Asked(h)] + 1
    BY <1>1, <1>2, <1>4 DEF InstallOk
  <2>2. \A i \in Chunk : apps[File(h)][i] = IF i < task[h].n THEN Asked(h) ELSE None
    BY <1>1, <1>4 DEF InstallOk
  <2>3. \A i \in Chunk : i < Size[Asked(h)] + 1 <=> i <= Size[Asked(h)]
    BY <1>1, <1>2 DEF Chunk
  <2>4. QED
    BY <1>1, <2>1, <2>2, <2>3 DEF Held
<1>5. QED
  BY <1>3, <1>4

LEMMA InstallIInv ==
    ASSUME AppIInv, NEW h \in Handler, Install(h)
    PROVE  AppIInv'
<1>1. /\ task[h].at = "execute" /\ task[h].req.action \in {"install", "installFile"}
      /\ UNCHANGED <<provisionVars, apps, online, served, appHistory>>
      /\ Dev(h) \in Device
  BY TaskFields DEF Install, Busy, AppIInv
<1>2. UNCHANGED <<provisionRest, apps, served, crossed, faults, hurt, online, file>>
  BY <1>1 DEF provisionVars, provisionRest, diskVars, appHistory
<1>3. CASE /\ Held(File(h)) = {}
           /\ Answers(h, Reply("failed", {})) /\ UNCHANGED <<installed, pid, stirred>>
  <2>1. Reply("failed", {}) \in ReplyType /\ Reply("failed", {}).status = "failed"
    BY ReplyIn
  <2>2. /\ World /\ PidInv' /\ pid' \in [Device -> [App -> Pid \cup {0}]]
        /\ Stirring /\ online' \subseteq Android
    BY <1>2, <1>3, CalmWorld DEF AppIInv
  <2>3. installed' \in [Device -> SUBSET App]
    BY <1>3 DEF AppIInv, OwnTypeOK
  <2>4. task[h].req.action = "install" => hurt'[h] \/ crossed'[h] # {}
    BY <1>1, <1>2, <1>3, HeldIsAsked
  <2>5. QED
    BY <1>1, <1>2, <1>3, <2>1, <2>2, <2>3, <2>4, CommandStep
<1>4. ASSUME NEW a \in Held(File(h)), installed' = [installed EXCEPT ![Dev(h)] = @ \cup {a}],
             pid' = [pid EXCEPT ![Dev(h)][a] = 0], Stirs, Answers(h, Reply("success", {a}))
      PROVE  AppIInv'
  <2>1. a \in App /\ {a} \subseteq App
    BY DEF Held
  <2>2. /\ Reply("success", {a}) \in ReplyType /\ Reply("success", {a}).status = "success"
        /\ Reply("success", {a}).apps = {a}
    BY <2>1, ReplyIn
  <2>3. /\ World /\ PidInv' /\ pid' \in [Device -> [App -> Pid \cup {0}]]
        /\ Stirring /\ online' \subseteq Android
    BY <1>1, <1>2, <1>4, <2>1, PidEnds DEF AppIInv
  <2>4. installed' \in [Device -> SUBSET App]
    BY <1>1, <1>4, <2>1 DEF AppIInv, OwnTypeOK
  <2>5. task[h].req.action = "install" => a = Asked(h) \/ crossed'[h] \ {Asked(h)} # {}
    BY <1>1, <1>2, HeldIsAsked
  <2>6. QED
    BY <1>1, <1>2, <1>4, <2>2, <2>3, <2>4, <2>5, CommandStep
<1>5. QED
  BY <1>3, <1>4 DEF Install

LEMMA UninstallIInv ==
    ASSUME AppIInv, NEW h \in Handler, Uninstall(h) \/ Kill(h)
    PROVE  AppIInv'
<1>1. /\ task[h].at = "execute" /\ task[h].req.action \in {"uninstall", "kill"}
      /\ Dev(h) \in Device /\ Asked(h) \in App
      /\ pid' = [pid EXCEPT ![Dev(h)][Asked(h)] = 0] /\ Stirs
      /\ UNCHANGED <<provisionVars, apps, online, served, appHistory>>
      /\ \E s \in {"success", "failed"} : Answers(h, Reply(s, {}))
  BY TaskFields DEF Uninstall, Kill, Busy, AppIInv
<1>2. UNCHANGED <<provisionRest, apps, served, crossed, faults, hurt, online, file>>
  BY <1>1 DEF provisionVars, provisionRest, diskVars, appHistory
<1>3. PICK s \in {"success", "failed"} : Answers(h, Reply(s, {}))
  BY <1>1
<1>4. Reply(s, {}) \in ReplyType
  BY ReplyIn
<1>5. installed' \in [Device -> SUBSET App]
  BY DEF Uninstall, Kill, AppIInv, OwnTypeOK
<1>6. /\ World /\ PidInv' /\ pid' \in [Device -> [App -> Pid \cup {0}]]
      /\ Stirring /\ online' \subseteq Android
  BY <1>1, <1>2, PidEnds DEF AppIInv
<1>7. QED
  BY <1>1, <1>2, <1>3, <1>4, <1>5, <1>6, CommandStep

LEMMA LaunchIInv ==
    ASSUME AppIInv, NEW h \in Handler, Launch(h)
    PROVE  AppIInv'
<1>1. /\ task[h].at = "execute" /\ task[h].req.action = "launch"
      /\ Dev(h) \in Device /\ Asked(h) \in App
      /\ UNCHANGED <<provisionVars, apps, installed, online, served, appHistory>>
      /\ \E s \in {"success", "failed"} : Answers(h, Reply(s, {}))
  BY TaskFields DEF Launch, Busy, AppIInv
<1>2. UNCHANGED <<provisionRest, apps, served, crossed, faults, hurt, installed, online, file>>
  BY <1>1 DEF provisionVars, provisionRest, diskVars, appHistory
<1>3. PICK s \in {"success", "failed"} : Answers(h, Reply(s, {}))
  BY <1>1
<1>4. Reply(s, {}) \in ReplyType
  BY ReplyIn
<1>5. installed' \in [Device -> SUBSET App]
  BY <1>2 DEF AppIInv, OwnTypeOK
<1>6. /\ World /\ PidInv' /\ pid' \in [Device -> [App -> Pid \cup {0}]]
      /\ Stirring /\ online' \subseteq Android
  <2>1. CASE UNCHANGED <<pid, stirred>>
    BY <1>2, <2>1, CalmWorld DEF AppIInv
  <2>2. CASE \E p \in Pid : /\ \A a \in App : pid[Dev(h)][a] # p
                            /\ pid' = [pid EXCEPT ![Dev(h)][Asked(h)] = p]
                            /\ Stirs
    <3>1. PICK p \in Pid : /\ \A a \in App : pid[Dev(h)][a] # p
                           /\ pid' = [pid EXCEPT ![Dev(h)][Asked(h)] = p]
      BY <2>2
    <3>2. Stirs /\ online' = online /\ file' = file
      BY <1>2, <2>2
    <3>3. OwnTypeOK /\ PidInv
      BY DEF AppIInv
    <3>4. Dev(h) \in Device /\ Asked(h) \in App
      BY <1>1
    <3> DEFINE d == Dev(h)
               b == Asked(h)
    <3> HIDE DEF d, b
    <3>5. d \in Device /\ b \in App /\ (\A a \in App : pid[d][a] # p)
          /\ pid' = [pid EXCEPT ![d][b] = p]
      BY <3>1, <3>4 DEF d, b
    <3>6. QED
      BY <3>2, <3>3, <3>5, PidBegins
  <2>3. QED
    BY <2>1, <2>2 DEF Launch
<1>7. QED
  BY <1>1, <1>2, <1>3, <1>4, <1>5, <1>6, CommandStep

LEMMA ListAppsIInv ==
    ASSUME AppIInv, NEW h \in Handler, ListApps(h)
    PROVE  AppIInv'
<1>1. /\ task[h].at = "execute" /\ task[h].req.action = "apps" /\ Dev(h) \in Device
      /\ UNCHANGED <<provisionVars, apps, deviceVars, served, appHistory>>
  BY TaskFields DEF ListApps, Busy, AppIInv
<1>2. UNCHANGED <<provisionRest, apps, served, crossed, faults, hurt, installed, pid, stirred,
                  online, file>>
  BY <1>1 DEF provisionVars, provisionRest, diskVars, appHistory, deviceVars
<1>3. PICK r \in ReplyType : Answers(h, r)
  <2>1. installed[Dev(h)] \in SUBSET App
    BY <1>1 DEF AppIInv, OwnTypeOK
  <2>2. Reply("aborted", {}) \in ReplyType /\ Reply("success", installed[Dev(h)]) \in ReplyType
    BY <2>1, ReplyIn
  <2>3. QED
    BY <2>2 DEF ListApps
<1>4. installed' \in [Device -> SUBSET App]
  BY <1>2 DEF AppIInv, OwnTypeOK
<1>5. /\ World /\ PidInv' /\ pid' \in [Device -> [App -> Pid \cup {0}]]
      /\ Stirring /\ online' \subseteq Android
  BY <1>2, CalmWorld DEF AppIInv
<1>6. QED
  BY <1>1, <1>2, <1>3, <1>4, <1>5, CommandStep

LEMMA CommandFailedIInv ==
    ASSUME AppIInv, NEW h \in Handler, CommandFailed(h)
    PROVE  AppIInv'
<1>1. /\ task[h].at = "execute" /\ ExecuteFails(h) /\ Dev(h) \in Device
      /\ UNCHANGED <<provisionRest, apps, deviceVars, served, crossed>>
      /\ task[h].req.action # "validate"
  BY TaskFields DEF CommandFailed, Busy, AppIInv, HandlersInv, HandlerOk, ValidateOk
<1>2. UNCHANGED <<installed, pid, stirred, online, file>>
  BY <1>1 DEF deviceVars, provisionRest, diskVars
<1> DEFINE s == IF task[h].req.action = "apps" THEN "success" ELSE "failed"
<1>0. s \in {"success", "failed"} /\ (task[h].req.action = "install" => s = "failed")
      /\ Answers(h, Reply(s, {}))
  BY DEF CommandFailed
<1> HIDE DEF s
<1>3. /\ Answers(h, Reply(s, {})) /\ Reply(s, {}) \in ReplyType
      /\ task[h].req.action = "install" => Reply(s, {}).status = "failed"
  <2>1. CASE s = "success"
    BY <1>0, <2>1, ReplyIn
  <2>2. CASE s = "failed"
    <3>1. Reply("failed", {}) \in ReplyType /\ Reply("failed", {}).status = "failed"
      BY ReplyIn
    <3>2. QED
      BY <1>0, <2>2, <3>1
  <2>3. QED
    BY <1>0, <2>1, <2>2
<1>4. task'[h].req = task[h].req
  BY <1>3, AnswersTask DEF AppIInv
<1>5. /\ hurt'[h] \/ ~ToolRuns(Dev(h))'
      /\ (faults' = faults \/ Fault) /\ (hurt' = hurt \/ HitBy(h))
  BY <1>1, <1>2, <1>4, ExecuteFailsHinders DEF AppIInv
<1>6. ToolRuns(Dev(h))' = ToolRuns(Dev(h))
  BY <1>2, <1>4 DEF ToolRuns, ToolOf, Dev
<1>7. installed' \in [Device -> SUBSET App]
  BY <1>2 DEF AppIInv, OwnTypeOK
<1>8. /\ World /\ PidInv' /\ pid' \in [Device -> [App -> Pid \cup {0}]]
      /\ Stirring /\ online' \subseteq Android
  BY <1>2, CalmWorld DEF AppIInv
<1>9. QED
  <2>1. UNCHANGED <<provisionRest, apps, served, crossed>> /\ (faults' = faults \/ Fault)
        /\ (hurt' = hurt \/ HitBy(h))
    BY <1>1, <1>5 DEF ExecuteFails
  <2>2. \/ task[h].req.action \notin {"install", "validate"}
        \/ /\ task[h].req.action = "install" /\ Reply(s, {}).status = "failed"
           /\ hurt'[h] \/ crossed'[h] # {} \/ ~ToolRuns(Dev(h))
    BY <1>1, <1>3, <1>5, <1>6
  <2>3. QED
    BY <1>1, <1>3, <1>7, <1>8, <2>1, <2>2, CommandStep

-----------------------------------------------------------------------------
(* A request arrives.                                                      *)

LEMMA ArriveIInv ==
    ASSUME AppIInv, NEW h \in Handler, Arrive(h)
    PROVE  AppIInv'
<1>1. PICK r \in Requests :
          task' = [task EXCEPT ![h] =
              [Idle EXCEPT !.at = FirstStep(r.action), !.req = r,
                           !.was = pid[r.device][r.app],
                           !.reply = IF r.action = "other"
                                     THEN Reply("invalid action", {}) ELSE NoReply]]
  BY DEF Arrive
<1>2. r.device \in Device /\ r.app \in App /\ r.action \in Action
  BY AppAssumption DEF AppAssumption
<1> DEFINE reply == IF r.action = "other" THEN Reply("invalid action", {}) ELSE NoReply
           was == pid[r.device][r.app]
           t == [Idle EXCEPT !.at = FirstStep(r.action), !.req = r, !.was = was,
                             !.reply = reply]
<1>3. reply \in ReplyType
  <2>1. Reply("invalid action", {}) \in ReplyType
    BY ReplyIn
  <2>2. NoReply \in ReplyType
    BY DEF NoReply, Reply, ReplyType
  <2>3. QED
    BY <2>1, <2>2
<1>4. was \in Pid \cup {0}
  BY <1>2 DEF AppIInv, OwnTypeOK
<1>5. /\ FirstStep(r.action) \in {"get", "ip", "answered", "execute"}
      /\ FirstStep(r.action) = "get" => r.action = "install"
      /\ FirstStep(r.action) = "ip" => r.action = "validate"
      /\ FirstStep(r.action) = "execute" => r.action \notin {"install", "validate"}
      /\ FirstStep(r.action) = "answered" => r.action = "other"
  BY DEF FirstStep
<1>6. 1 \in 1..(MaxSize + 1)
  BY AppAssumption DEF AppAssumption
<1> HIDE DEF reply, was
<1>7. t \in Task
  BY <1>3, <1>4, <1>5, <1>6 DEF Idle, Task
<1>8. t.at = FirstStep(r.action) /\ t.req = r /\ t.was = was /\ t.n = 1 /\ t.ip = None
      /\ t.port = 0
  BY DEF Idle
<1>9. task' = [task EXCEPT ![h] = t] /\ task'[h] = t
  BY <1>1 DEF reply, was, AppIInv, OwnTypeOK
<1> HIDE DEF t
<1>10. /\ UNCHANGED <<provisionVars, apps, installed, pid, online>>
       /\ served' \in 0..MaxRequests /\ stirred' = [stirred EXCEPT ![h] = {}]
       /\ proc = "up" /\ job["watch"].at # "none"
       /\ crossed' = [crossed EXCEPT ![h] = {}] /\ hurt' = [hurt EXCEPT ![h] = FALSE]
  BY AppAssumption DEF Arrive, AppIInv, OwnTypeOK, AppAssumption
<1>11. UNCHANGED <<provisionRest, faults, apps, installed, pid, online, file>>
  BY <1>10 DEF provisionVars, provisionRest, diskVars
<1>12. /\ World /\ PidInv' /\ pid' \in [Device -> [App -> Pid \cup {0}]]
       /\ online' \subseteq Android /\ stirred' \in [Handler -> SUBSET App]
       /\ stirred'[h] = {} /\ \A g \in Handler \ {h} : StirStep(g)
  <2>1. \A d : ToolRuns(d)' = ToolRuns(d)
    BY <1>11 DEF ToolRuns, ToolOf
  <2>2. QED
    BY <1>10, <1>11, <2>1 DEF World, PidInv, StirStep, AppIInv, OwnTypeOK
<1>13. HandlerOk(h)'
  <2>1. Dev(h)' = r.device /\ Asked(h)' = r.app /\ task'[h].was = was
    BY <1>8, <1>9 DEF Dev, Asked
  <2>2. InstallOk(h)'
    BY <1>5, <1>8, <1>9 DEF InstallOk, Installing
  <2>3. pid'[Dev(h)'][Asked(h)'] = task'[h].was
    BY <1>11, <2>1 DEF was
  <2>4. ValidateOk(h)'
    BY <1>5, <1>8, <1>9, <2>3 DEF ValidateOk, Validating
  <2>5. AnswerOk(h)'
    BY <1>5, <1>8, <1>9 DEF AnswerOk, Answered
  <2>6. QED
    BY <2>2, <2>4, <2>5 DEF HandlerOk
<1>14. /\ apps' \in [Name -> [Chunk -> App \cup {None, "page"}]]
       /\ installed' \in [Device -> SUBSET App]
       /\ crossed' \in [Handler -> SUBSET App] /\ hurt' \in [Handler -> BOOLEAN]
  BY <1>10, <1>11 DEF AppIInv, OwnTypeOK
<1>15. \A g \in Handler \ {h} : /\ hurt[g] => hurt'[g]
                                /\ crossed[g] \subseteq crossed'[g]
                                /\ Installing(g) => FileStep(g)
  BY <1>10, <1>11, <1>12, NoFileStep DEF AppIInv, OwnTypeOK
<1>16. t.at # "copy" /\ (t.at # "idle" => t.req \in Requests)
  BY <1>5, <1>8
<1>17. QED
  BY <1>7, <1>9, <1>10, <1>11, <1>12, <1>13, <1>14, <1>15, <1>16, HandlerStep

-----------------------------------------------------------------------------
(* The shared file.                                                        *)

\* A write to h's file, for the others: those who use it have it recorded.
LEMMA SharedWrite ==
    ASSUME AppIInv, NEW h \in Handler, task[h].at \in {"get", "copy"}, Crosses(h),
           \A f \in Name \ {File(h)} : apps'[f] = apps[f],
           \A i \in Chunk : apps'[File(h)][i] \in {apps[File(h)][i], None, Asked(h), "page"}
    PROVE  /\ crossed' \in [Handler -> SUBSET App] /\ crossed'[h] = crossed[h]
           /\ \A g \in Handler \ {h} : /\ crossed[g] \subseteq crossed'[g]
                                       /\ Installing(g) => FileStep(g)
<1>1. Asked(h) \in App /\ File(h) \in Name
  BY TaskFields DEF AppIInv
<1>2. /\ crossed' \in [Handler -> SUBSET App] /\ crossed'[h] = crossed[h]
      /\ \A g \in Handler : crossed[g] \subseteq crossed'[g]
      /\ \A g \in Sharing(h) : Asked(h) \in crossed'[g]
  BY <1>1 DEF Crosses, AppIInv, OwnTypeOK, Sharing
<1>3. ASSUME NEW g \in Handler \ {h}, Installing(g)
      PROVE  FileStep(g)
  <2>1. CASE File(g) = File(h)
    <3>1. g \in Sharing(h)
      BY <1>3, <2>1 DEF Sharing, Installing
    <3>2. Asked(h) \in crossed'[g]
      BY <1>2, <3>1
    <3>3. crossed'[g] \subseteq {Asked(g)} => Asked(h) = Asked(g)
      BY <3>2
    <3>4. QED
      BY <2>1, <3>2, <3>3 DEF FileStep
  <2>2. CASE File(g) # File(h)
    <3>1. File(g) \in Name
      BY <1>3, TaskFields DEF Installing, AppIInv
    <3>2. QED
      BY <2>2, <3>1 DEF FileStep
  <2>3. QED
    BY <2>1, <2>2
<1>4. QED
  BY <1>2, <1>3

\* The rest of what HandlerStep asks for, of a write.
LEMMA WriteStep ==
    ASSUME AppIInv, NEW h \in Handler, task[h].at \in {"get", "copy"}, Crosses(h),
           NEW t \in Task, task' = [task EXCEPT ![h] = t], t.req = task[h].req,
           t.was = task[h].was,
           t.at \in {"copy", "execute"}, t.at = "copy" => t.n \in Chunk,
           UNCHANGED <<provisionRest, deviceVars, served>>, faults' = faults \/ Fault,
           hurt' = hurt \/ HitBy(h),
           apps' \in [Name -> [Chunk -> App \cup {None, "page"}]],
           \A f \in Name \ {File(h)} : apps'[f] = apps[f],
           \A i \in Chunk : apps'[File(h)][i] \in {apps[File(h)][i], None, Asked(h), "page"},
           InstallOk(h)'
    PROVE  AppIInv'
<1>1. UNCHANGED <<installed, pid, stirred, online, file>>
  BY DEF deviceVars, provisionRest, diskVars
<1>2. /\ World /\ PidInv' /\ pid' \in [Device -> [App -> Pid \cup {0}]]
      /\ Stirring /\ online' \subseteq Android
  BY <1>1, CalmWorld DEF AppIInv
<1>3. proc = "up" /\ job["watch"].at # "none" /\ task[h].req \in Requests
  BY DEF AppIInv, ServerInv, OwnTypeOK
<1>4. hurt' \in [Handler -> BOOLEAN] /\ \A g \in Handler \ {h} : hurt'[g] = hurt[g]
  BY DEF HitBy, AppIInv, OwnTypeOK
<1>5. /\ crossed' \in [Handler -> SUBSET App] /\ stirred' \in [Handler -> SUBSET App]
      /\ \A g \in Handler \ {h} : /\ crossed[g] \subseteq crossed'[g] /\ StirStep(g)
                                  /\ Installing(g) => FileStep(g)
  BY <1>2, SharedWrite DEF Stirring
<1>6. HandlerOk(h)'
  <2>1. task'[h] = t /\ InstallOk(h) /\ ValidateOk(h)
    BY DEF AppIInv, OwnTypeOK, HandlersInv, HandlerOk
  <2>2. task[h].req.action = "install" /\ Dev(h)' = Dev(h)
    BY <2>1 DEF InstallOk, Dev
  <2>3. ValidateOk(h)' /\ AnswerOk(h)'
    BY <1>1, <2>1, <2>2 DEF ValidateOk, Validating, AnswerOk, Answered
  <2>4. QED
    BY <2>3 DEF HandlerOk
<1>7. installed' \in [Device -> SUBSET App] /\ served' \in 0..MaxRequests
  BY <1>1 DEF AppIInv, OwnTypeOK
<1>8. QED
  BY <1>2, <1>3, <1>4, <1>5, <1>6, <1>7, HandlerStep

LEMMA GetAppIInv ==
    ASSUME AppIInv, NEW h \in Handler, GetApp(h)
    PROVE  AppIInv'
<1>1. /\ task[h].at = "get" /\ task[h].req.action = "install" /\ task[h].n = 1
      /\ task[h] \in Task /\ Asked(h) \in App /\ File(h) \in Name
  BY TaskFields DEF GetApp, Busy, AppIInv, HandlersInv, HandlerOk, InstallOk
<1>2. /\ apps' = [apps EXCEPT ![File(h)] = [i \in Chunk |-> None]]
      /\ Crosses(h) /\ UNCHANGED <<provisionRest, deviceVars, served>>
  BY DEF GetApp
<1>3. PICK b \in {Asked(h), "page"} :
         /\ task' = [task EXCEPT ![h].at = "copy", ![h].body = b]
         /\ faults' = faults \/ Fault
         /\ \/ hurt' = hurt /\ b = Asked(h)
            \/ HitBy(h)
  BY DEF GetApp
<1> DEFINE t == [task[h] EXCEPT !.at = "copy", !.body = b]
<1>4. t \in Task
  BY <1>1, MovedTask
<1>5. task' = [task EXCEPT ![h] = t] /\ task'[h] = t
  BY <1>3 DEF AppIInv, OwnTypeOK
<1>6. t.at = "copy" /\ t.req = task[h].req /\ t.was = task[h].was /\ t.n = 1 /\ t.body = b
  BY <1>1 DEF Task
<1> HIDE DEF t
<1>7. /\ apps' \in [Name -> [Chunk -> App \cup {None, "page"}]]
      /\ \A f \in Name \ {File(h)} : apps'[f] = apps[f]
      /\ \A i \in Chunk : apps'[File(h)][i] = None
  BY <1>1, <1>2 DEF AppIInv, OwnTypeOK
<1>8. 1 \in Chunk /\ 1 <= BodySize(b) /\ \A i \in Chunk : ~(i < 1)
  BY <1>1, AppAssumption DEF BodySize, AppAssumption, Chunk
<1>9. Asked(h)' = Asked(h) /\ File(h)' = File(h) /\ BodySize(task'[h].body) = BodySize(b)
      /\ (BodySize(task[h].body))' = BodySize(b)
  BY <1>5, <1>6 DEF Asked, File, BodySize
<1>10. hurt'[h] \/ b = Asked(h)
  BY <1>3, Hit DEF AppIInv
<1>11. InstallOk(h)'
  BY <1>1, <1>5, <1>6, <1>7, <1>8, <1>9, <1>10 DEF InstallOk, Installing
<1>12. hurt' = hurt \/ HitBy(h)
  BY <1>3
<1>13. QED
  BY <1>1, <1>2, <1>3, <1>4, <1>5, <1>6, <1>7, <1>8, <1>11, <1>12, WriteStep

LEMMA CopyChunkIInv ==
    ASSUME AppIInv, NEW h \in Handler, CopyChunk(h)
    PROVE  AppIInv'
<1> DEFINE n == task[h].n
           b == task[h].body
           l == IF n = BodySize(b) THEN "execute" ELSE "copy"
           t == [task[h] EXCEPT !.n = n + 1, !.at = l]
<1>1. /\ task[h].at = "copy" /\ task[h].req.action = "install" /\ n \in Chunk
      /\ task[h] \in Task /\ Asked(h) \in App /\ File(h) \in Name /\ Installing(h)
      /\ b \in {Asked(h), "page"} /\ (~hurt[h] => b = Asked(h)) /\ n <= BodySize(b)
  BY TaskFields DEF CopyChunk, Busy, AppIInv, OwnTypeOK, HandlersInv, HandlerOk, InstallOk,
     Installing
<1>2. /\ crossed[h] \subseteq {Asked(h)} =>
            \A i \in Chunk : apps[File(h)][i] \in {None, Asked(h), "page"}
      /\ crossed[h] = {} /\ ~hurt[h] =>
            \A i \in Chunk : apps[File(h)][i] = IF i < n THEN Asked(h) ELSE None
  BY <1>1 DEF AppIInv, HandlersInv, HandlerOk, InstallOk
<1>3. /\ apps' = [apps EXCEPT ![File(h)][n] = b]
      /\ Crosses(h) /\ UNCHANGED <<provisionVars, deviceVars, served, hurt>>
      /\ task' = [task EXCEPT ![h].n = @ + 1, ![h].at = l]
  BY DEF CopyChunk
<1>4. UNCHANGED <<provisionRest, faults>>
  BY <1>3 DEF provisionVars, provisionRest
<1>5. BodySize(b) \in 1..MaxSize /\ MaxSize \in Nat
  BY <1>1, AppAssumption DEF BodySize, AppAssumption, Chunk
<1>6. /\ n \in Nat /\ n + 1 \in 1..(MaxSize + 1)
      /\ n = BodySize(b) \/ (n + 1 \in Chunk /\ n + 1 <= BodySize(b))
  BY <1>1, <1>5 DEF Chunk
<1>7. t \in Task
  BY <1>1, <1>6, MovedTask
<1>8. task' = [task EXCEPT ![h] = t] /\ task'[h] = t
  BY <1>1, <1>3 DEF AppIInv, OwnTypeOK
<1>9. t.at = l /\ t.req = task[h].req /\ t.was = task[h].was /\ t.n = n + 1 /\ t.body = b
  BY <1>1 DEF Task
<1> HIDE DEF t
<1>10. /\ apps' \in [Name -> [Chunk -> App \cup {None, "page"}]]
       /\ \A f \in Name \ {File(h)} : apps'[f] = apps[f]
       /\ \A i \in Chunk : apps'[File(h)][i] = IF i = n THEN b ELSE apps[File(h)][i]
  BY <1>1, <1>3 DEF AppIInv, OwnTypeOK
<1>11. Asked(h)' = Asked(h) /\ File(h)' = File(h) /\ (BodySize(task[h].body))' = BodySize(b)
  BY <1>8, <1>9 DEF Asked, File, BodySize
<1>12. crossed'[h] = crossed[h]
  BY DEF CopyChunk, Crosses, Sharing, AppIInv, OwnTypeOK
<1>13. \A i \in Chunk : i < n + 1 <=> i < n \/ i = n
  BY <1>6 DEF Chunk
<1> HIDE DEF n, b
<1>14. InstallOk(h)'
  <2>1. /\ crossed'[h] \subseteq {Asked(h)} =>
              \A i \in Chunk : apps'[File(h)][i] \in {None, Asked(h), "page"}
        /\ crossed'[h] = {} /\ ~hurt'[h] =>
              \A i \in Chunk : apps'[File(h)][i] = IF i < n + 1 THEN Asked(h) ELSE None
    BY <1>1, <1>2, <1>3, <1>10, <1>12, <1>13
  <2>2. /\ task'[h].at = "copy" => task'[h].n <= BodySize(b)
        /\ task'[h].at = "execute" => task'[h].n = BodySize(b) + 1
        /\ task'[h].at \in {"copy", "execute"}
    BY <1>6, <1>8, <1>9
  <2>3. /\ task'[h].req.action = "install" /\ task'[h].n = n + 1
        /\ task'[h].body \in {Asked(h), "page"} /\ (~hurt'[h] => task'[h].body = Asked(h))
    BY <1>1, <1>3, <1>8, <1>9
  <2> HIDE DEF l
  <2>4. /\ (BodySize(task[h].body))' = BodySize(b)
        /\ task'[h].at = "execute" => task'[h].n = (BodySize(task[h].body))' + 1
        /\ task'[h].at = "copy" => task'[h].n <= (BodySize(task[h].body))'
    BY <1>11, <2>2
  <2>5. QED
    BY <1>11, <2>1, <2>2, <2>3, <2>4 DEF InstallOk, Installing
<1>15. \A i \in Chunk : apps'[File(h)][i] \in {apps[File(h)][i], None, Asked(h), "page"}
  BY <1>1, <1>10
<1>16. t.at \in {"copy", "execute"} /\ (t.at = "copy" => t.n \in Chunk)
  BY <1>6, <1>9
<1>17. QED
  BY <1>1, <1>3, <1>4, <1>7, <1>8, <1>9, <1>10, <1>14, <1>15, <1>16, WriteStep

-----------------------------------------------------------------------------
(* The devices and the process.                                            *)

LEMMA DeviceStep ==
    ASSUME AppIInv, UNCHANGED <<provisionRest, apps, task, crossed>>,
           faults' = faults \/ Fault, installed' \in [Device -> SUBSET App],
           served' \in 0..MaxRequests, hurt' \in [Handler -> BOOLEAN],
           \A h \in Handler : hurt[h] => hurt'[h],
           World, PidInv', pid' \in [Device -> [App -> Pid \cup {0}]],
           Stirring, online' \subseteq Android
    PROVE  AppIInv'
<1>1. IInv'
  BY FaultsOnly DEF AppIInv
<1>2. OwnTypeOK'
  BY DEF AppIInv, OwnTypeOK, Stirring
<1>3. UNCHANGED <<proc, job>>
  BY DEF provisionRest, jobVars
<1>4. ServerInv'
  BY <1>3 DEF AppIInv, ServerInv
<1>5. HandlersInv'
  BY OtherHandler, NoFileStep DEF HandlersInv, Stirring
<1>6. QED
  BY <1>1, <1>2, <1>4, <1>5 DEF AppIInv

LEMMA AppDiesIInv == ASSUME AppIInv, AppDies PROVE AppIInv'
<1>1. PICK d \in Device, a \in App : pid' = [pid EXCEPT ![d][a] = 0]
  BY DEF AppDies
<1>2. /\ UNCHANGED <<provisionRest, apps, installed, online, served, task, crossed,
                     hurt, file>>
      /\ Fault /\ Stirs
  BY DEF AppDies, appHistory, provisionRest, diskVars
<1>3. /\ World /\ PidInv' /\ pid' \in [Device -> [App -> Pid \cup {0}]]
      /\ Stirring /\ online' \subseteq Android
  BY <1>1, <1>2, PidEnds DEF AppIInv
<1>4. QED
  BY <1>2, <1>3, DeviceStep DEF AppIInv, OwnTypeOK

LEMMA LosesRouteIInv == ASSUME AppIInv, LosesRoute PROVE AppIInv'
<1>1. /\ UNCHANGED <<provisionRest, apps, installed, pid, stirred, served, task, crossed,
                     file>>
      /\ Fault /\ online' \subseteq online
      /\ \E d \in online : hurt' = [h \in Handler |-> hurt[h] \/ Dev(h) = d]
  BY DEF LosesRoute, provisionRest, diskVars
<1>2. hurt' \in [Handler -> BOOLEAN] /\ \A h \in Handler : hurt[h] => hurt'[h]
  BY <1>1 DEF AppIInv, OwnTypeOK
<1>3. \A d : ToolRuns(d)' = ToolRuns(d)
  BY <1>1 DEF ToolRuns, ToolOf
<1>4. /\ World /\ PidInv' /\ pid' \in [Device -> [App -> Pid \cup {0}]]
      /\ Stirring /\ online' \subseteq Android
  BY <1>1, <1>3 DEF World, PidInv, AppIInv, OwnTypeOK, Stirring, StirStep
<1>5. QED
  BY <1>1, <1>2, <1>4, DeviceStep DEF AppIInv, OwnTypeOK

\* With all handlers idle, only types and provisioning remain.
LEMMA AllIdle ==
    ASSUME IInv', OwnTypeOK', PidInv', \A h \in Handler : task'[h].at = "idle",
           job'["watch"].at # "none" => job'["main"].at = "done"
    PROVE  AppIInv'
  BY DEF AppIInv, ServerInv, HandlersInv, HandlerOk

LEMMA IdleType == Idle \in Task /\ Idle.at = "idle"
<1>1. 1 \in 1..(MaxSize + 1)
  BY AppAssumption DEF AppAssumption
<1>2. NoReply \in ReplyType
  BY DEF NoReply, Reply, ReplyType
<1>3. QED
  BY <1>1, <1>2 DEF Idle, Task

LEMMA AppCrashIInv == ASSUME AppIInv, AppCrash PROVE AppIInv'
<1>1. /\ UNCHANGED <<job, apps, installed, pid, online, served>>
      /\ task' = [h \in Handler |-> Idle]
      /\ crossed' = [h \in Handler |-> {}] /\ hurt' = [h \in Handler |-> FALSE]
      /\ stirred' = [h \in Handler |-> {}]
  BY DEF AppCrash, Crash, jobVars
<1>2. IInv'
  BY CrashIInv DEF AppIInv, AppCrash
<1>3. OwnTypeOK'
  BY <1>1, IdleType DEF AppIInv, OwnTypeOK
<1>4. PidInv'
  BY <1>1 DEF AppIInv, PidInv
<1>5. QED
  BY <1>1, <1>2, <1>3, <1>4, IdleType, AllIdle DEF AppIInv, ServerInv

LEMMA ProvisionStep ==
    ASSUME AppIInv, UNCHANGED appVars, Restart \/ (proc = "up" /\ (Prepare \/ SyncImages))
    PROVE  AppIInv'
<1>1. UNCHANGED <<apps, installed, pid, stirred, online, served, task, crossed, hurt>>
  BY DEF appVars, deviceVars, appHistory
<1>2. IInv'
  BY NextIInv DEF AppIInv, Next
<1>3. OwnTypeOK'
  BY <1>1 DEF AppIInv, OwnTypeOK
<1>4. PidInv'
  BY <1>1 DEF AppIInv, PidInv
<1>5. CASE Restart
  <2>1. proc = "down" /\ job'["watch"].at = "none"
    BY <1>5 DEF Restart, Job, Worker
  <2>2. QED
    BY <1>1, <1>2, <1>3, <1>4, <2>1, AllIdle DEF AppIInv, ServerInv
<1>6. CASE proc = "up" /\ (Prepare \/ SyncImages) /\ job["watch"].at = "none"
  <2>1. \A h \in Handler : task'[h].at = "idle"
    BY <1>1, <1>6 DEF AppIInv, ServerInv
  <2>2. Prepare
    BY <1>6 DEF SyncImages, SyncDiskImages, ImageAuto, Fetches, Got, GetFails, Copied,
       CopyFails, Unzip, Extracted, ExtractFails
  <2>3. job'["watch"].at # "none" => job'["main"].at = "done"
    <3>1. CASE StartServices
      BY <3>1 DEF StartServices, Moves, Worker, AppIInv, IInv, TypeOK
    <3>2. CASE \E j : Moves("main", j)
      BY <1>6, <3>2 DEF Moves, Worker, AppIInv, IInv, TypeOK
    <3>3. QED
      BY <2>2, <3>1, <3>2 DEF Prepare, EnsureFileExists, RunCommand, CommandFails, Fetches,
         Got, GetFails, Copied, CopyFails, Unzip, Extracted, ExtractFails
  <2>4. QED
    BY <1>2, <1>3, <1>4, <2>1, <2>3, AllIdle
<1>7. CASE proc = "up" /\ (Prepare \/ SyncImages) /\ job["watch"].at # "none"
  <2>1. /\ \A d : ToolRuns(d)' = ToolRuns(d)
        /\ SyncImages /\ job'["main"] = job["main"] /\ job'["watch"].at # "none"
    BY <1>7, ToolsKept DEF AppIInv
  <2>2. World
    BY <1>1, <2>1 DEF World, AppIInv, OwnTypeOK
  <2>3. proc' = proc
    BY <2>1 DEF SyncImages, SyncDiskImages, ImageAuto, Fetches, Got, GetFails, Copied,
       CopyFails, Unzip, Extracted, ExtractFails
  <2>4. ServerInv'
    BY <1>1, <1>7, <2>1, <2>3 DEF AppIInv, ServerInv
  <2>5. Stirring
    BY <1>1 DEF AppIInv, OwnTypeOK, Stirring, StirStep
  <2>6. HandlersInv'
    BY <1>1, <1>4, <2>2, <2>5, OtherHandler, NoFileStep DEF HandlersInv, Stirring
  <2>7. QED
    BY <1>2, <1>3, <1>4, <2>4, <2>6 DEF AppIInv
<1>8. QED
  BY <1>5, <1>6, <1>7

-----------------------------------------------------------------------------
(* The theorems.                                                           *)

LEMMA AppInitIInv == AppInit => AppIInv
<1> SUFFICES ASSUME AppInit PROVE AppIInv
  OBVIOUS
<1>1. IInv /\ job["watch"].at = "none"
  BY InitIInv DEF AppInit, Init, Job, Worker
<1>2. OwnTypeOK
  <2>1. 0 \in 0..MaxRequests /\ Preinstalled \subseteq App
    BY AppAssumption DEF AppAssumption
  <2>2. pid \in [Device -> [App -> Pid \cup {0}]] /\ stirred \in [Handler -> SUBSET App]
    BY AppAssumption DEF AppInit, AppAssumption
  <2>3. /\ apps \in [Name -> [Chunk -> App \cup {None, "page"}]]
        /\ installed \in [Device -> SUBSET App]
        /\ online \subseteq Android /\ served \in 0..MaxRequests
        /\ crossed \in [Handler -> SUBSET App] /\ hurt \in [Handler -> BOOLEAN]
    BY <2>1 DEF AppInit
  <2>4. task \in [Handler -> Task] /\ \A h \in Handler : task[h].at = "idle"
    BY IdleType DEF AppInit
  <2>5. QED
    BY <2>2, <2>3, <2>4 DEF OwnTypeOK
<1>3. PidInv
  BY AppAssumption DEF AppInit, PidInv, AppAssumption
<1>4. ServerInv /\ HandlersInv
  BY <1>1, IdleType DEF AppInit, ServerInv, HandlersInv, HandlerOk
<1>5. QED
  BY <1>1, <1>2, <1>3, <1>4 DEF AppIInv

LEMMA AppNextIInv == AppIInv /\ [AppNext]_vars => AppIInv'
<1> SUFFICES ASSUME AppIInv, [AppNext]_vars PROVE AppIInv'
  OBVIOUS
<1>1. CASE UNCHANGED vars
  <2>1. UNCHANGED <<provisionRest, faults, apps, installed, pid, stirred, online, served, task,
                    crossed, hurt, file>>
    BY <1>1 DEF vars, provisionVars, provisionRest, diskVars, appVars, deviceVars, appHistory
  <2>2. /\ World /\ PidInv' /\ pid' \in [Device -> [App -> Pid \cup {0}]]
        /\ Stirring /\ online' \subseteq Android
    BY <2>1, CalmWorld DEF AppIInv
  <2>3. QED
    BY <2>1, <2>2, DeviceStep DEF AppIInv, OwnTypeOK
<1>2. ASSUME NEW h \in Handler, Handle(h)
      PROVE  AppIInv'
  BY <1>2, ArriveIInv, GetAppIInv, GetAppFailsIInv, CopyChunkIInv, InstallIInv, UninstallIInv,
     LaunchIInv, ListAppsIInv, CommandFailedIInv, FindDeviceIPIInv, GetForegroundAppIInv,
     ForwardIInv DEF Handle
<1>3. QED
  BY <1>1, <1>2, ProvisionStep, AppCrashIInv, AppDiesIInv, LosesRouteIInv DEF AppNext

LEMMA AppSpecIInv == AppSpec => []AppIInv
  BY AppInitIInv, AppNextIInv, PTL DEF AppSpec

LEMMA AppIInvImplies ==
    AppIInv => InstallsWhatWasAsked /\ InstallFailsForAReason /\ ValidationReachesApp
<1> SUFFICES ASSUME AppIInv, NEW h \in Handler, task[h].at = "answered"
             PROVE  AnswerOk(h)
  BY DEF InstallsWhatWasAsked, InstallFailsForAReason, ValidationReachesApp, AnswerOk,
     Answered, Unhindered, SameProcess
<1>1. QED
  BY DEF AppIInv, HandlersInv, HandlerOk

\* Every variable of the handlers, and of provisioning among them, keeps its type.
THEOREM AppTypeCorrect == AppSpec => []AppTypeOK
  BY AppSpecIInv, PTL DEF AppIInv, IInv, AppTypeOK

\* What Provision promises holds as well while handlers run and consume faults.
THEOREM ProvisionedForApps ==
    AppSpec => [](StartRepairs /\ BrokenOnlyByExtraction)
  BY AppSpecIInv, Repairs, PTL DEF AppIInv, IInv

\* A successful install has installed the app of its URL, unless another app was
\* downloaded to the same name in between.
THEOREM InstallsCorrect == AppSpec => []InstallsWhatWasAsked
  BY AppSpecIInv, AppIInvImplies, PTL

\* An install fails only by a failed call, a tool that is not whole or a download to
\* the same name, never by what is left over in the file.
THEOREM InstallFailsCorrect == AppSpec => []InstallFailsForAReason
  BY AppSpecIInv, AppIInvImplies, PTL

\* A validation is answered by the app it names if that kept running and no call
\* failed; another app answers only when the number it was looked up by has ended
\* and become the other's in the meantime.
THEOREM ValidationCorrect == AppSpec => []ValidationReachesApp
  BY AppSpecIInv, AppIInvImplies, PTL
=============================================================================
