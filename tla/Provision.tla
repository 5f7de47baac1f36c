------------------------------ MODULE Provision -------------------------------
(***************************************************************************)
(* What the binary fetches from the artefact server: the tools under       *)
(* assets/, at each start, one after the other (services/prepare.go), and  *)
(* the disk image of every connected iPhone's version, in each round of    *)
(* the watcher (syncDiskImages).  Both ask only whether the path exists    *)
(* and otherwise use Download and Unzip of common.go, whose errors they    *)
(* drop; the files outlive the process, which may end between any two      *)
(* steps.                                                                  *)
(***************************************************************************)
EXTENDS Integers, Sequences, FiniteSets

CONSTANTS
    Items,        \* the tools prepare goes through, a sequence of names
    Compressed,   \* those that are served as archives
    Iphones,      \* the iPhones of one round of watchDevices, a sequence
    VersionOf,    \* the iOS version of each
    MaxFaults     \* bound: failed or wrongly answered calls, and crashes

Tool    == {Items[n] : n \in DOMAIN Items}
Iphone  == {Iphones[n] : n \in DOMAIN Iphones}
Version == {VersionOf[d] : d \in Iphone}

ASSUME ProvisionAssumption ==
    /\ Items \in Seq(Tool) /\ Iphones \in Seq(Iphone)
    /\ Len(Items) > 0 /\ Len(Iphones) > 0
    /\ Compressed \subseteq Tool /\ Version \cap Tool = {}
    /\ MaxFaults \in Nat

\* What appiumSetup runs, in this order.
Command == <<"npm install appium", "driver install xcuitest",
             "driver install uiautomator2">>

Installable == {Command[n] : n \in DOMAIN Command}

VARIABLES
    proc,      \* whether the process runs
    faults,    \* how much of MaxFaults is used
    file,      \* what is at a path: <<x, "">> for x itself, <<x, ".zip">> for its archive
    appium,    \* what npm and appium have installed
    job,       \* per goroutine: where it is, and at which item, phone or command
    body,      \* per goroutine: the body of the download under way
    broken,    \* history: tools that were there but broken when this start began
    failed,    \* history: something failed in this start, before the server ran
    cut        \* history: what was being extracted when that failed or was cut short

diskVars == <<file, appium>>
jobVars  == <<job, body>>
history  == <<broken, failed, cut>>
provisionVars == <<proc, faults, diskVars, jobVars, history>>

Worker == {"main", "watch"}

Path == ((Tool \cup Version) \X {""}) \cup ((Compressed \cup Version) \X {".zip"})

\* A file may be missing, cut short, another document (the server's error page,
\* the status of an answer being nowhere looked at), or what it should be.
Content == {"absent", "partial", "page", "whole"}

Fault == faults < MaxFaults /\ faults' = faults + 1

\* What a worker is fetching, and the path Download is given for it.
Wanted(c) == IF c = "main" THEN Items[job[c].n] ELSE VersionOf[Iphones[job[c].n]]

Ext(x) == IF x \in Compressed \cup Version THEN ".zip" ELSE ""

Target(c) == <<Wanted(c), Ext(Wanted(c))>>

Broken(f) == {t \in Tool : f[<<t, "">>] \in {"partial", "page"}}

Job(at, n) == [at |-> at, n |-> n]

\* Mutant of AfterItem: the last index is passed by one.
AfterItemBeyond(n) == IF n <= Len(Items) THEN Job("stat", n + 1) ELSE Job("command", 1)

\* The step after an item is dealt with.
AfterItem(n) == IF n < Len(Items) THEN Job("stat", n + 1) ELSE Job("command", 1)

AfterCommand(n) == IF n < Len(Command) THEN Job("command", n + 1) ELSE Job("done", 1)

\* The next phone, of this round or of the next one.
AfterPhone(n) == Job("stat", IF n < Len(Iphones) THEN n + 1 ELSE 1)

AfterFetch(c) == IF c = "main" THEN AfterItem(job[c].n) ELSE Job("auto", job[c].n)

AfterDownload(c) ==
    IF Ext(Wanted(c)) = ".zip" THEN Job("unzip", job[c].n) ELSE AfterFetch(c)

Moves(c, j) == job' = [job EXCEPT ![c] = j]

\* A failure counts for the start only while main is preparing.
Hurts(c) == failed' = (failed \/ c = "main")

Init ==
    /\ proc = "up" /\ faults = 0
    /\ file = [p \in Path |-> "absent"] /\ appium = {}
    /\ job = [c \in Worker |-> IF c = "main" THEN Job("stat", 1) ELSE Job("none", 1)]
    /\ body = [c \in Worker |-> "absent"]
    /\ broken = {} /\ failed = FALSE /\ cut = {}

-----------------------------------------------------------------------------
(* Download and Unzip, for the worker that called them.                    *)

\* Mutant of Got: the archive is downloaded to the name of what it holds.
GotInPlace(c) ==
    /\ job[c].at = "get"
    /\ \/ body' = [body EXCEPT ![c] = "whole"] /\ UNCHANGED <<faults, failed>>
       \/ Fault /\ body' = [body EXCEPT ![c] = "page"] /\ Hurts(c)
    /\ file' = [file EXCEPT ![<<Wanted(c), "">>] = "partial"]
    /\ Moves(c, Job("copy", job[c].n))
    /\ UNCHANGED <<proc, appium, broken, cut>>

\* The server answers, and os.Create empties what is at the target.
Got(c) ==
    /\ job[c].at = "get"
    /\ \/ body' = [body EXCEPT ![c] = "whole"] /\ UNCHANGED <<faults, failed>>
       \/ Fault /\ body' = [body EXCEPT ![c] = "page"] /\ Hurts(c)
    /\ file' = [file EXCEPT ![Target(c)] = "partial"]
    /\ Moves(c, Job("copy", job[c].n))
    /\ UNCHANGED <<proc, appium, broken, cut>>

\* http.Get or os.Create fails: nothing at the target has changed.
GetFails(c) ==
    /\ job[c].at = "get"
    /\ Fault
    /\ Moves(c, AfterDownload(c))
    /\ Hurts(c)
    /\ UNCHANGED <<proc, diskVars, body, broken, cut>>

Copied(c) ==
    /\ job[c].at = "copy"
    /\ file' = [file EXCEPT ![Target(c)] = body[c]]
    /\ body' = [body EXCEPT ![c] = "absent"]
    /\ Moves(c, AfterDownload(c))
    /\ UNCHANGED <<proc, faults, appium, history>>

\* The connection or the disk fails on the way: what was written stays.
CopyFails(c) ==
    /\ job[c].at = "copy"
    /\ Fault
    /\ body' = [body EXCEPT ![c] = "absent"]
    /\ Moves(c, AfterDownload(c))
    /\ Hurts(c)
    /\ UNCHANGED <<proc, diskVars, broken, cut>>

\* Unarchive reads the directory at the end of the archive first: only a whole
\* archive has its files extracted.  The archive is removed in every case.
Unzip(c) ==
    /\ job[c].at = "unzip"
    /\ IF file[Target(c)] = "whole"
       THEN /\ file' = [file EXCEPT ![<<Wanted(c), "">>] = "partial"]
            /\ Moves(c, Job("extract", job[c].n))
       ELSE /\ file' = [file EXCEPT ![Target(c)] = "absent"]
            /\ Moves(c, AfterFetch(c))
    /\ UNCHANGED <<proc, faults, appium, body, history>>

Extracted(c) ==
    /\ job[c].at = "extract"
    /\ file' = [file EXCEPT ![<<Wanted(c), "">>] = "whole", ![Target(c)] = "absent"]
    /\ Moves(c, AfterFetch(c))
    /\ UNCHANGED <<proc, faults, appium, body, history>>

ExtractFails(c) ==
    /\ job[c].at = "extract"
    /\ Fault
    /\ file' = [file EXCEPT ![Target(c)] = "absent"]
    /\ Moves(c, AfterFetch(c))
    /\ cut' = cut \cup {Wanted(c)}
    /\ Hurts(c)
    /\ UNCHANGED <<proc, appium, body, broken>>

Fetches(c) ==
    \/ Got(c) \/ GetFails(c) \/ Copied(c) \/ CopyFails(c)
    \/ Unzip(c) \/ Extracted(c) \/ ExtractFails(c)

-----------------------------------------------------------------------------
(* prepare.                                                                *)

\* Mutant of EnsureFileExists: the loop stops at the first tool that is there.
EnsureFirstFile ==
    /\ job["main"].at = "stat"
    /\ Moves("main", IF file[<<Wanted("main"), "">>] # "absent" THEN Job("command", 1)
                     ELSE Job("get", job["main"].n))
    /\ UNCHANGED <<proc, faults, diskVars, body, history>>

\* ensureFileExists: whatever is there will do.
EnsureFileExists ==
    /\ job["main"].at = "stat"
    /\ Moves("main", IF file[<<Wanted("main"), "">>] # "absent"
                     THEN AfterItem(job["main"].n) ELSE Job("get", job["main"].n))
    /\ UNCHANGED <<proc, faults, diskVars, body, history>>

\* appiumSetup: a driver can be installed by an installed appium only, and a second
\* installation of it fails without effect.
RunCommand ==
    /\ job["main"].at = "command"
    /\ appium' = appium \cup
          (IF job["main"].n = 1 \/ Command[1] \in appium THEN {Command[job["main"].n]}
           ELSE {})
    /\ Moves("main", AfterCommand(job["main"].n))
    /\ UNCHANGED <<proc, faults, file, body, history>>

CommandFails ==
    /\ job["main"].at = "command"
    /\ Fault
    /\ Moves("main", AfterCommand(job["main"].n))
    /\ Hurts("main")
    /\ UNCHANGED <<proc, diskVars, body, broken, cut>>

\* main starts the watcher and the server.
StartServices ==
    /\ job["main"].at = "done" /\ job["watch"].at = "none"
    /\ Moves("watch", Job("stat", 1))
    /\ UNCHANGED <<proc, faults, diskVars, body, history>>

Prepare ==
    EnsureFileExists \/ Fetches("main") \/ RunCommand \/ CommandFails \/ StartServices

-----------------------------------------------------------------------------
(* syncDiskImages, called for each iPhone of a round.                      *)

\* The directory of the version, once there, stands for a mounted image.
SyncDiskImages ==
    /\ job["watch"].at = "stat"
    /\ Moves("watch", IF file[<<Wanted("watch"), "">>] # "absent"
                      THEN AfterPhone(job["watch"].n) ELSE Job("get", job["watch"].n))
    /\ UNCHANGED <<proc, faults, diskVars, body, history>>

\* Mutant of ImageAuto: the command is repeated until the version's directory is there.
ImageAutoUntilThere ==
    /\ job["watch"].at = "auto"
    /\ Moves("watch", IF file[<<Wanted("watch"), "">>] # "absent"
                      THEN AfterPhone(job["watch"].n) ELSE job["watch"])
    /\ UNCHANGED <<proc, faults, diskVars, body, history>>

\* go-ios mounts an image (it finds one itself when the directory has none), or
\* fails.  The binary remembers neither: the error decides about a status that
\* watcher.go assigns after it has stored the phone (see DeviceWatcher.Stored).
ImageAuto ==
    /\ job["watch"].at = "auto"
    /\ Moves("watch", AfterPhone(job["watch"].n))
    /\ UNCHANGED <<proc, faults, diskVars, body, history>>

SyncImages == SyncDiskImages \/ Fetches("watch") \/ ImageAuto

-----------------------------------------------------------------------------
\* The process ends, in whatever step it is: a write or an extraction under way
\* leaves what it has done.
Crash ==
    /\ proc = "up"
    /\ Fault
    /\ proc' = "down"
    /\ cut' = cut \cup {Wanted(c) : c \in {w \in Worker : job[w].at = "extract"}}
    /\ UNCHANGED <<diskVars, jobVars, broken, failed>>

Restart ==
    /\ proc = "down"
    /\ proc' = "up"
    /\ job' = [c \in Worker |-> IF c = "main" THEN Job("stat", 1) ELSE Job("none", 1)]
    /\ body' = [c \in Worker |-> "absent"]
    /\ broken' = Broken(file) /\ failed' = FALSE
    /\ UNCHANGED <<faults, diskVars, cut>>

Next == (proc = "up" /\ (Prepare \/ SyncImages)) \/ Crash \/ Restart

Spec == Init /\ [][Next]_provisionVars

\* The two goroutines run; calls end, by an answer or by an error.
Fairness ==
    /\ WF_provisionVars(proc = "up" /\ Prepare)
    /\ WF_provisionVars(proc = "up" /\ SyncImages)

FairSpec == Spec /\ Fairness

-----------------------------------------------------------------------------
(* Properties.                                                             *)

\* Every variable ranges over the values the code can give it.
TypeOK ==
    /\ proc \in {"up", "down"} /\ faults \in 0..MaxFaults
    /\ file \in [Path -> Content] /\ appium \subseteq Installable
    /\ job["main"] \in [at : {"stat", "get", "copy", "unzip", "extract"},
                        n : DOMAIN Items]
                       \cup [at : {"command"}, n : DOMAIN Command]
                       \cup {Job("done", 1)}
    /\ job["watch"] \in [at : {"none", "stat", "get", "copy", "unzip", "extract", "auto"},
                         n : DOMAIN Iphones]
    /\ DOMAIN job = Worker /\ body \in [Worker -> Content]
    /\ broken \subseteq Tool /\ failed \in BOOLEAN
    /\ cut \subseteq Tool \cup Version

\* When the server starts and nothing has failed since this start of the process,
\* every tool is whole but those that an earlier start had left behind broken, and
\* appium and both drivers are installed, whatever earlier starts left undone.
StartRepairs ==
    (job["main"].at = "done" /\ ~failed) =>
        /\ \A t \in Tool : file[<<t, "">>] = "whole" \/ t \in broken
        /\ appium = Installable

\* A tool or an image that comes in an archive is incomplete only when its
\* extraction was cut short: a download that fails, is cut or brings an error page
\* never leaves one behind, nor does a crash before the extraction.
BrokenOnlyByExtraction ==
    \A x \in Compressed \cup Version :
        file[<<x, "">>] \notin {"absent", "whole"} =>
            \/ x \in cut
            \/ \E c \in Worker : job[c].at = "extract" /\ Wanted(c) = x

\* A disk image that could not be fetched is tried again in the rounds that follow,
\* until it is there, unless the process has ended for good.
ImagesArrive ==
    \A v \in Version : <>[](proc = "down") \/ <>(file[<<v, "">>] # "absent")
=============================================================================
