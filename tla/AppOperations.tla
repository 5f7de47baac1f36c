---------------------------- MODULE AppOperations -----------------------------
(***************************************************************************)
(* The handlers of /app (services/appops.go) and /validate                 *)
(* (services/validation.go), over the tools Provision has fetched.  An app *)
(* is downloaded to a file named after the last part of its URL, which all *)
(* handlers share, and installed from there; a validation looks for the    *)
(* device's address and the app's process and forwards the request to the  *)
(* port of that number.  The handlers run concurrently, without a lock.    *)
(***************************************************************************)
EXTENDS Provision

CONSTANTS
    Handler,      \* goroutines of the HTTP server
    Android,      \* Android devices; the iPhones are Provision's
    App,          \* apps, each at a URL of its own
    NameOf,       \* the base name of an app's URL
    Size,         \* the length of an app's file, in chunks
    Preinstalled, \* apps the Android devices come with
    Pid,          \* the numbers that the processes of apps may get on a device
    Running,      \* per app: its process on an Android device at first, 0 = none
    Requests,     \* the requests clients may send
    MaxSize,      \* bound: chunks of a file
    MaxRequests   \* bound: requests served

Device == Android \cup Iphone
Name   == {NameOf[a] : a \in App}
Chunk  == 1..MaxSize

None == "none"

\* A request names an app by its URL ("install"), by the path of a file under
\* applications/ ("installFile"), or by its package (all others).
Action == {"install", "installFile", "uninstall", "launch", "kill", "apps",
           "validate", "other"}

ASSUME AppAssumption ==
    /\ {"adb", "go-ios"} \subseteq Tool
    /\ Android \cap Iphone = {}
    /\ Size \in [App -> Chunk] /\ None \notin App \cup Device /\ "page" \notin App
    /\ Requests \subseteq [action : Action, device : Device, app : App]
    /\ Preinstalled \subseteq App /\ Pid \subseteq Nat \ {0}
    /\ Running \in [App -> Pid \cup {0}]
    /\ \A a, b \in App : Running[a] = Running[b] /\ Running[a] # 0 => a = b
    /\ MaxSize \in Nat \ {0} /\ MaxRequests \in Nat

VARIABLES
    apps,        \* the files under applications/, chunk by chunk
    installed,   \* per device: the apps it has
    pid,         \* per device and app: its process, 0 = not running
    stirred,     \* history, per handler: the apps of its request's device that have
                 \* begun or ended a process while it was validating
    online,      \* the Android devices that have a route
    served,      \* requests that have arrived
    task,        \* per handler: where it is, and what it holds
    crossed,     \* history, per handler: apps others wrote to the file it is using
    hurt         \* history, per handler: a failure hit its request

deviceVars == <<installed, pid, stirred, online>>
appHistory == <<crossed, hurt>>
appVars == <<apps, deviceVars, served, task, appHistory>>
vars == <<provisionVars, appVars>>

Reply(status, as) == [status |-> status, apps |-> as]

NoReply == Reply(None, {})

NoRequest == [action |-> None, device |-> None, app |-> None]

\* A handler that has nothing to do.  port is what GetForegroundApp returned,
\* 0 = "", and ip the device FindDeviceIP found, "none" = ""; was is, as history,
\* the app's process when the request arrived.
Idle == [at |-> "idle", req |-> NoRequest, n |-> 1, body |-> None, ip |-> None, port |-> 0,
         was |-> 0, reply |-> NoReply]

Dev(h)   == task[h].req.device
Asked(h) == task[h].req.app
File(h)  == NameOf[Asked(h)]

ToolOf(d) == IF d \in Android THEN "adb" ELSE "go-ios"

\* setToolPaths: the command lines name the files prepare has fetched.
ToolRuns(d) == file[<<ToolOf(d), "">>] = "whole"

Busy(h, l) == proc = "up" /\ task[h].at = l

Becomes(h, l) == task' = [task EXCEPT ![h].at = l]

Answers(h, r) ==
    task' = [task EXCEPT ![h] = [Idle EXCEPT !.at = "answered", !.req = task[h].req,
                                             !.was = task[h].was, !.reply = r]]

HitBy(h) == hurt' = [hurt EXCEPT ![h] = TRUE]

Validating(h) == task[h].at \in {"ip", "pid", "forward"}

Stirs == stirred' = [h \in Handler |-> stirred[h] \cup
            {a \in App : Validating(h) /\ pid'[Dev(h)][a] # pid[Dev(h)][a]}]

\* A call of Execute in a handler fails: a tool that is not whole, or a fault.
ExecuteFails(h) ==
    IF ToolRuns(Dev(h)) THEN Fault /\ HitBy(h) ELSE UNCHANGED <<faults, hurt>>

AppInit ==
    /\ Init
    /\ apps = [f \in Name |-> [i \in Chunk |-> None]]
    /\ installed = [d \in Device |-> IF d \in Android THEN Preinstalled ELSE {}]
    /\ pid = [d \in Device |-> IF d \in Android THEN Running ELSE [a \in App |-> 0]]
    /\ stirred = [h \in Handler |-> {}]
    /\ online = Android /\ served = 0
    /\ task = [h \in Handler |-> Idle]
    /\ crossed = [h \in Handler |-> {}] /\ hurt = [h \in Handler |-> FALSE]

provisionRest == <<proc, diskVars, jobVars, history>>

-----------------------------------------------------------------------------
(* A request arrives, once main has started the server.                    *)

FirstStep(action) ==
    CASE action = "install"  -> "get"
      [] action = "validate" -> "ip"
      [] action = "other"    -> "answered"
      [] OTHER               -> "execute"

Arrive(h) ==
    /\ proc = "up" /\ job["watch"].at # "none"
    /\ task[h].at \in {"idle", "answered"}
    /\ served < MaxRequests /\ served' = served + 1
    /\ \E r \in Requests :
          task' = [task EXCEPT ![h] =
              [Idle EXCEPT !.at = FirstStep(r.action), !.req = r,
                           !.was = pid[r.device][r.app],
                           !.reply = IF r.action = "other"
                                     THEN Reply("invalid action", {}) ELSE NoReply]]
    /\ crossed' = [crossed EXCEPT ![h] = {}] /\ hurt' = [hurt EXCEPT ![h] = FALSE]
    /\ stirred' = [stirred EXCEPT ![h] = {}]
    /\ UNCHANGED <<provisionVars, apps, installed, pid, online>>

-----------------------------------------------------------------------------
(* install: DownloadAppIfRequired, then the command.                       *)

\* Those who use the file h writes, between creating it and installing from it.
Sharing(h) ==
    {g \in Handler \ {h} : /\ task[g].at \in {"copy", "execute"}
                           /\ task[g].req.action = "install" /\ File(g) = File(h)}

Crosses(h) ==
    crossed' = [g \in Handler |-> crossed[g] \cup
                                     (IF g \in Sharing(h) THEN {Asked(h)} ELSE {})]

\* Mutant of GetApp: a file of that name is taken to be the app.
GetAppIfMissing(h) ==
    /\ Busy(h, "get")
    /\ \/ /\ apps[File(h)] # [i \in Chunk |-> None]
          /\ Becomes(h, "execute")
          /\ UNCHANGED <<faults, hurt, apps, crossed>>
       \/ /\ apps[File(h)] = [i \in Chunk |-> None]
          /\ task' = [task EXCEPT ![h].at = "copy", ![h].body = Asked(h)]
          /\ Crosses(h)
          /\ UNCHANGED <<faults, hurt, apps>>
    /\ UNCHANGED <<provisionRest, deviceVars, served>>

\* Mutant of GetApp: the file is opened without being emptied.
GetAppKeepingFile(h) ==
    /\ Busy(h, "get")
    /\ task' = [task EXCEPT ![h].at = "copy", ![h].body = Asked(h)]
    /\ Crosses(h)
    /\ UNCHANGED <<provisionVars, apps, deviceVars, served, hurt>>

\* http.Get and os.Create, which empties the file, under whoever is using it.
GetApp(h) ==
    /\ Busy(h, "get")
    /\ \/ /\ task' = [task EXCEPT ![h].at = "copy", ![h].body = Asked(h)]
          /\ UNCHANGED <<faults, hurt>>
       \/ /\ Fault
          /\ task' = [task EXCEPT ![h].at = "copy", ![h].body = "page"]
          /\ HitBy(h)
    /\ apps' = [apps EXCEPT ![File(h)] = [i \in Chunk |-> None]]
    /\ Crosses(h)
    /\ UNCHANGED <<provisionRest, deviceVars, served>>

GetAppFails(h) ==
    /\ Busy(h, "get")
    /\ Fault /\ HitBy(h)
    /\ Answers(h, Reply("failed", {}))
    /\ UNCHANGED <<provisionRest, apps, deviceVars, served, crossed>>

BodySize(b) == IF b = "page" THEN 1 ELSE Size[b]

\* Mutant of CopyChunk: the end is noticed one chunk too late.
CopyChunkBeyond(h) ==
    /\ Busy(h, "copy")
    /\ apps' = [apps EXCEPT ![File(h)][task[h].n] = task[h].body]
    /\ task' = [task EXCEPT ![h].n = @ + 1,
                            ![h].at = IF task[h].n > BodySize(task[h].body)
                                      THEN "execute" ELSE "copy"]
    /\ Crosses(h)
    /\ UNCHANGED <<provisionVars, deviceVars, served, hurt>>

\* io.Copy writes the next chunk at the offset it has reached.
CopyChunk(h) ==
    /\ Busy(h, "copy")
    /\ apps' = [apps EXCEPT ![File(h)][task[h].n] = task[h].body]
    /\ task' = [task EXCEPT ![h].n = @ + 1,
                            ![h].at = IF task[h].n = BodySize(task[h].body)
                                      THEN "execute" ELSE "copy"]
    /\ Crosses(h)
    /\ UNCHANGED <<provisionVars, deviceVars, served, hurt>>

CopyAppFails(h) ==
    /\ Busy(h, "copy")
    /\ Fault /\ HitBy(h)
    /\ Answers(h, Reply("failed", {}))
    /\ UNCHANGED <<provisionRest, apps, deviceVars, served, crossed>>

\* The apps a file is: one, when it holds that one's chunks and nothing else.
Held(f) ==
    {a \in App : \A i \in Chunk : apps[f][i] = IF i <= Size[a] THEN a ELSE None}

\* The command installs what the file holds now, and ends the app if it runs.
Install(h) ==
    /\ Busy(h, "execute") /\ task[h].req.action \in {"install", "installFile"}
    /\ ToolRuns(Dev(h))
    /\ IF Held(File(h)) = {}
       THEN Answers(h, Reply("failed", {})) /\ UNCHANGED <<installed, pid, stirred>>
       ELSE \E a \in Held(File(h)) :
               /\ installed' = [installed EXCEPT ![Dev(h)] = @ \cup {a}]
               /\ pid' = [pid EXCEPT ![Dev(h)][a] = 0] /\ Stirs
               /\ Answers(h, Reply("success", {a}))
    /\ UNCHANGED <<provisionVars, apps, online, served, appHistory>>

-----------------------------------------------------------------------------
(* The other actions, one command each.                                    *)

Uninstall(h) ==
    /\ Busy(h, "execute") /\ task[h].req.action = "uninstall" /\ ToolRuns(Dev(h))
    /\ installed' = [installed EXCEPT ![Dev(h)] = @ \ {Asked(h)}]
    /\ pid' = [pid EXCEPT ![Dev(h)][Asked(h)] = 0] /\ Stirs
    /\ Answers(h, Reply(IF Asked(h) \in installed[Dev(h)] THEN "success" ELSE "failed", {}))
    /\ UNCHANGED <<provisionVars, apps, online, served, appHistory>>

\* An app that runs already keeps its process; another gets a number that is free,
\* which one that has ended may have had.
Launch(h) ==
    /\ Busy(h, "execute") /\ task[h].req.action = "launch" /\ ToolRuns(Dev(h))
    /\ IF Asked(h) \in installed[Dev(h)] /\ pid[Dev(h)][Asked(h)] = 0
       THEN /\ \E p \in Pid : /\ \A a \in App : pid[Dev(h)][a] # p
                            /\ pid' = [pid EXCEPT ![Dev(h)][Asked(h)] = p]
            /\ Stirs
       ELSE UNCHANGED <<pid, stirred>>
    /\ Answers(h, Reply(IF Asked(h) \in installed[Dev(h)] THEN "success" ELSE "failed", {}))
    /\ UNCHANGED <<provisionVars, apps, installed, online, served, appHistory>>

\* am force-stop succeeds in every case, go-ios kill when there is a process.
Kill(h) ==
    /\ Busy(h, "execute") /\ task[h].req.action = "kill" /\ ToolRuns(Dev(h))
    /\ pid' = [pid EXCEPT ![Dev(h)][Asked(h)] = 0] /\ Stirs
    /\ Answers(h, Reply(IF Dev(h) \in Android \/ pid[Dev(h)][Asked(h)] # 0
                        THEN "success" ELSE "failed", {}))
    /\ UNCHANGED <<provisionVars, apps, installed, online, served, appHistory>>

\* Without an app the output has no second word, and indexing panics: net/http
\* recovers and closes the connection.
ListApps(h) ==
    /\ Busy(h, "execute") /\ task[h].req.action = "apps" /\ ToolRuns(Dev(h))
    /\ Answers(h, IF installed[Dev(h)] = {} THEN Reply("aborted", {})
                  ELSE Reply("success", installed[Dev(h)]))
    /\ UNCHANGED <<provisionVars, apps, deviceVars, served, appHistory>>

\* executeAppAction; a listing that fails is answered as an empty one.
CommandFailed(h) ==
    /\ Busy(h, "execute")
    /\ ExecuteFails(h)
    /\ Answers(h, Reply(IF task[h].req.action = "apps" THEN "success" ELSE "failed", {}))
    /\ UNCHANGED <<provisionRest, apps, deviceVars, served, crossed>>

-----------------------------------------------------------------------------
(* validate.                                                               *)

\* The last word of `ip route`; a device without a route has none to index.  An
\* iPhone's address is never found.
FindDeviceIP(h) ==
    /\ Busy(h, "ip")
    /\ \/ /\ Dev(h) \in Iphone
          /\ Becomes(h, "pid")
          /\ UNCHANGED <<faults, hurt>>
       \/ /\ Dev(h) \in Android /\ ToolRuns(Dev(h))
          /\ IF Dev(h) \in online
             THEN task' = [task EXCEPT ![h].at = "pid", ![h].ip = Dev(h)]
             ELSE Answers(h, Reply("aborted", {}))
          /\ UNCHANGED <<faults, hurt>>
       \/ /\ Dev(h) \in Android
          /\ ExecuteFails(h)
          /\ Becomes(h, "pid")
    /\ UNCHANGED <<provisionRest, apps, deviceVars, served, crossed>>

\* Mutant of GetForegroundApp: the process is looked up on Android only when it is
\* not asked for.
GetForegroundAppSwapped(h) ==
    /\ Busy(h, "pid")
    /\ task' = [task EXCEPT ![h].at = "forward",
                            ![h].port = IF Dev(h) \in Iphone THEN pid[Dev(h)][Asked(h)]
                                        ELSE 0]
    /\ UNCHANGED <<provisionVars, apps, deviceVars, served, appHistory>>

\* pidof, or the list of processes of pymobiledevice3; an error and a process that
\* is not there both yield "".
GetForegroundApp(h) ==
    /\ Busy(h, "pid")
    /\ \/ /\ Dev(h) \in Iphone \/ ToolRuns(Dev(h))
          /\ task' = [task EXCEPT ![h].at = "forward",
                                  ![h].port = pid[Dev(h)][Asked(h)]]
          /\ UNCHANGED <<faults, hurt>>
       \/ ExecuteFails(h) /\ Becomes(h, "forward")
    /\ UNCHANGED <<provisionRest, apps, deviceVars, served, crossed>>

\* What the proxy may be answered at ip:port.  Without an address that is this host.
\* An app under test listens on the port of its process's number, the number that was
\* looked up; an empty one makes the URL http://ip:, port 80 of the device, where, as
\* on a port that no app has any more, another server may listen or none.
Proxied(h) ==
    LET there == {a \in App : task[h].port # 0 /\ pid[Dev(h)][a] = task[h].port}
    IN CASE task[h].ip = None -> {Reply("from this host", {})}
         [] task[h].ip # None /\ task[h].ip \notin online -> {Reply("unreachable", {})}
         [] task[h].ip \in online /\ there # {} -> {Reply("served", there)}
         [] OTHER -> {Reply("unreachable", {}), Reply("another server", {})}

Forward(h) ==
    /\ Busy(h, "forward")
    /\ \E r \in Proxied(h) : Answers(h, r)
    /\ UNCHANGED <<provisionVars, apps, deviceVars, served, appHistory>>

Handle(h) ==
    \/ Arrive(h) \/ GetApp(h) \/ GetAppFails(h) \/ CopyChunk(h) \/ CopyAppFails(h)
    \/ Install(h) \/ Uninstall(h) \/ Launch(h) \/ Kill(h) \/ ListApps(h)
    \/ CommandFailed(h) \/ FindDeviceIP(h) \/ GetForegroundApp(h) \/ Forward(h)

-----------------------------------------------------------------------------
(* The devices and the process.                                            *)

AppDies ==
    /\ Fault
    /\ \E d \in Device, a \in App :
          pid[d][a] # 0 /\ pid' = [pid EXCEPT ![d][a] = 0]
    /\ Stirs
    /\ UNCHANGED <<provisionRest, apps, installed, online, served, task, appHistory>>

LosesRoute ==
    /\ Fault
    /\ \E d \in online :
          /\ online' = online \ {d}
          /\ hurt' = [h \in Handler |->
                         hurt[h] \/ Dev(h) = d]
    /\ UNCHANGED <<provisionRest, apps, installed, pid, stirred, served, task, crossed>>

\* Handlers end with the process; files and devices stay as they are.
AppCrash ==
    /\ Crash
    /\ task' = [h \in Handler |-> Idle]
    /\ crossed' = [h \in Handler |-> {}] /\ hurt' = [h \in Handler |-> FALSE]
    /\ stirred' = [h \in Handler |-> {}]
    /\ UNCHANGED <<apps, installed, pid, online, served>>

AppNext ==
    \/ proc = "up" /\ (Prepare \/ SyncImages) /\ UNCHANGED appVars
    \/ Restart /\ UNCHANGED appVars
    \/ AppCrash
    \/ \E h \in Handler : Handle(h)
    \/ AppDies \/ LosesRoute

AppSpec == AppInit /\ [][AppNext]_vars

AppFairSpec ==
    /\ AppSpec
    /\ WF_vars(proc = "up" /\ Prepare /\ UNCHANGED appVars)
    /\ WF_vars(proc = "up" /\ SyncImages /\ UNCHANGED appVars)

-----------------------------------------------------------------------------
(* Properties.                                                             *)

ReplyType == [status : {None, "success", "failed", "aborted", "invalid action", "served",
                        "from this host", "unreachable", "another server"},
              apps : SUBSET App]

Task == [at : {"idle", "get", "copy", "execute", "ip", "pid", "forward", "answered"},
         req : Requests \cup {NoRequest}, n : 1..(MaxSize + 1),
         body : App \cup {None, "page"}, ip : Android \cup {None},
         port : Pid \cup {0}, was : Pid \cup {0}, reply : ReplyType]

\* Every variable ranges over the values the code can give it.
OwnTypeOK ==
    /\ apps \in [Name -> [Chunk -> App \cup {None, "page"}]]
    /\ installed \in [Device -> SUBSET App]
    /\ pid \in [Device -> [App -> Pid \cup {0}]] /\ stirred \in [Handler -> SUBSET App]
    /\ online \subseteq Android /\ served \in 0..MaxRequests
    /\ task \in [Handler -> Task]
    /\ \A h \in Handler : /\ task[h].at # "idle" => task[h].req \in Requests
                          /\ task[h].at = "copy" => task[h].n \in Chunk
    /\ crossed \in [Handler -> SUBSET App] /\ hurt \in [Handler -> BOOLEAN]

AppTypeOK == TypeOK /\ OwnTypeOK

Answered(h, action) == task[h].at = "answered" /\ task[h].req.action = action

\* A successful install has installed the app of the URL that was given, whatever
\* file of that name an earlier request or an earlier run has left, unless a
\* download of another app to the same name has run at the same time.
InstallsWhatWasAsked ==
    \A h \in Handler :
        Answered(h, "install") /\ task[h].reply.status = "success" =>
            task[h].reply.apps = {Asked(h)} \/ crossed[h] \ {Asked(h)} # {}

\* An install fails only for a failed call of its own, for a tool that is not whole,
\* or for a download to the same name at the same time: never for what earlier
\* requests or runs have left in the file, however long that is.
InstallFailsForAReason ==
    \A h \in Handler :
        Answered(h, "install") /\ task[h].reply.status = "failed" =>
            hurt[h] \/ crossed[h] # {} \/ ~ToolRuns(Dev(h))

\* A validation of an Android app that has run, in one process, since the request
\* came is answered by that app when no call has failed.  Another app answers only
\* when both have stirred while the request was validated: the process that was
\* looked up has ended and the other's begun since, under the same number.  That the
\* code allows, and a request for an app that does not run may end at any server.
ValidationReachesApp ==
    \A h \in Handler : Answered(h, "validate") =>
        /\ (/\ Dev(h) \in online /\ ToolRuns(Dev(h)) /\ ~hurt[h]
            /\ task[h].was # 0 /\ Asked(h) \notin stirred[h]) =>
               task[h].reply = Reply("served", {Asked(h)})
        /\ \A b \in task[h].reply.apps \ {Asked(h)} : {Asked(h), b} \subseteq stirred[h]
=============================================================================
