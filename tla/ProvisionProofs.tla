---------------------------- MODULE ProvisionProofs ----------------------------
(***************************************************************************)
(* Proofs about the provisioning of tools and disk images, for any lists   *)
(* of tools and of iPhones, any of the tools being served as archives, and *)
(* any number of failures and crashes.                                     *)
(***************************************************************************)
EXTENDS Provision, TLAPS

-----------------------------------------------------------------------------
(* The inductive invariant.                                                *)

Walks == {"stat", "get", "copy", "unzip", "extract"}

MainJob == [at : Walks, n : DOMAIN Items] \cup [at : {"command"}, n : DOMAIN Command]
           \cup {Job("done", 1)}
WatchJob == [at : Walks \cup {"none", "auto"}, n : DOMAIN Iphones]

JobOf(c) == IF c = "main" THEN MainJob ELSE WatchJob

\* A body under way is what the server sent, and only archives are extracted; what a
\* process that has ended was extracting is known to be cut short.
FetchOk(c) ==
    /\ job[c].at = "copy" => body[c] \in {"whole", "page"}
    /\ job[c].at \in {"unzip", "extract"} => Ext(Wanted(c)) = ".zip"
    /\ proc = "down" /\ job[c].at = "extract" => Wanted(c) \in cut

FetchInv == \A c \in Worker : FetchOk(c)

\* The tools that main has dealt with in this start.
Passed == IF job["main"].at \in Walks THEN {m \in DOMAIN Items : m < job["main"].n}
          ELSE DOMAIN Items

\* The commands that it has run.
Ran == {n \in DOMAIN Command : /\ job["main"].at \notin Walks
                               /\ job["main"].at = "command" => n < job["main"].n}

\* While nothing has failed in this start: a tool it has passed is there, one that is
\* incomplete was so at the start or is being written, what it fetches is whole, and
\* the commands so far have installed their parts.
MainInv == ~failed =>
    /\ \A m \in Passed : file[<<Items[m], "">>] # "absent"
    /\ \A t \in Broken(file) : t \in broken \/
          /\ t = Wanted("main")
          /\ job["main"].at = "extract" \/ (job["main"].at = "copy" /\ Ext(t) = "")
    /\ job["main"].at = "copy" => body["main"] = "whole"
    /\ job["main"].at = "unzip" => file[Target("main")] = "whole"
    /\ \A n \in Ran : Command[n] \in appium

IInv == /\ TypeOK /\ FetchInv /\ MainInv
        /\ BrokenOnlyByExtraction

-----------------------------------------------------------------------------
(* Lemmas about names, paths and the places of a job.                      *)

LEMMA JobType == TypeOK => \A c \in Worker : job[c] \in JobOf(c)
  BY DEF TypeOK, JobOf, MainJob, WatchJob, Walks, Worker

\* What a worker wants while it walks its list: main tools, the watcher versions.
LEMMA WantedType ==
    ASSUME TypeOK, NEW c \in Worker, job[c].at \in Walks \cup {"auto"}
    PROVE  /\ c = "main" => Wanted(c) \in Tool /\ job[c].n \in DOMAIN Items
                            /\ job[c].at \in Walks
           /\ c # "main" => Wanted(c) \in Version /\ job[c].n \in DOMAIN Iphones
<1>1. CASE c = "main"
  <2>1. job[c].n \in DOMAIN Items /\ job[c].at \in Walks
    BY <1>1, JobType DEF JobOf, MainJob, Walks, Job
  <2>2. QED
    BY <1>1, <2>1 DEF Wanted, Tool
<1>2. CASE c = "watch"
  <2>1. job[c].n \in DOMAIN Iphones
    BY <1>2, JobType DEF JobOf, WatchJob, Walks
  <2>2. Iphones[job[c].n] \in Iphone
    BY <2>1 DEF Iphone
  <2>3. QED
    BY <1>2, <2>1, <2>2 DEF Wanted, Version
<1>3. QED
  BY <1>1, <1>2 DEF Worker

\* The paths a worker writes at are paths of the model.
LEMMA PathType ==
    /\ \A x \in Tool \cup Version : <<x, "">> \in Path /\ <<x, Ext(x)>> \in Path
    /\ \A x \in Compressed \cup Version : x \in Tool \cup Version /\ Ext(x) = ".zip"
    /\ \A x : Ext(x) \in {"", ".zip"} /\ (Ext(x) = "" => x \notin Compressed \cup Version)
  BY ProvisionAssumption DEF ProvisionAssumption, Path, Ext

LEMMA JobSet == \A at, n : Job(at, n).at = at /\ Job(at, n).n = n
  BY DEF Job

\* The next jobs are jobs of the same worker.
LEMMA NextJobType ==
    ASSUME TypeOK, NEW c \in Worker, job[c].at \in Walks \cup {"auto"}
    PROVE  /\ job[c].at \in Walks => AfterFetch(c) \in JobOf(c) /\ AfterDownload(c) \in JobOf(c)
           /\ \A l \in Walks : Job(l, job[c].n) \in JobOf(c)
           /\ c = "watch" => AfterPhone(job[c].n) \in JobOf(c)
           /\ c = "main" => AfterItem(job[c].n) \in JobOf(c)
<1>1. \A l \in Walks : Job(l, job[c].n) \in JobOf(c)
  BY WantedType DEF JobOf, MainJob, WatchJob, Job
<1>2. c = "main" => AfterItem(job[c].n) \in JobOf(c)
  <2>1. 1 \in DOMAIN Command
    BY DEF Command
  <2>2. Items \in Seq(Tool)
    BY ProvisionAssumption DEF ProvisionAssumption
  <2>3. c = "main" /\ job[c].n < Len(Items) => job[c].n + 1 \in DOMAIN Items
    BY <2>2, WantedType
  <2>4. QED
    BY <2>1, <2>3 DEF AfterItem, JobOf, MainJob, Job, Walks
<1>3. c = "watch" => AfterPhone(job[c].n) \in JobOf(c) /\ Job("auto", job[c].n) \in JobOf(c)
  <2>1. Iphones \in Seq(Iphone) /\ Len(Iphones) > 0
    BY ProvisionAssumption DEF ProvisionAssumption
  <2>2. c = "watch" => /\ 1 \in DOMAIN Iphones /\ job[c].n \in DOMAIN Iphones
                       /\ job[c].n < Len(Iphones) => job[c].n + 1 \in DOMAIN Iphones
    BY <2>1, WantedType
  <2>3. QED
    BY <2>2 DEF AfterPhone, JobOf, WatchJob, Job, Walks
<1>4. job[c].at \in Walks => AfterFetch(c) \in JobOf(c)
  BY <1>2, <1>3 DEF AfterFetch, Worker
<1>5. job[c].at \in Walks => AfterDownload(c) \in JobOf(c)
  BY <1>1, <1>4 DEF AfterDownload, Walks
<1>6. QED
  BY <1>1, <1>2, <1>3, <1>4, <1>5

\* Where a worker may be after a fetch: at no step that FetchOk speaks of.
LEMMA NextJobAt ==
    ASSUME NEW c \in Worker
    PROVE  /\ AfterFetch(c).at \in {"stat", "command", "auto"}
           /\ AfterDownload(c).at \in {"stat", "command", "auto", "unzip"}
           /\ AfterDownload(c).at = "unzip" =>
                 AfterDownload(c).n = job[c].n /\ Ext(Wanted(c)) = ".zip"
           /\ AfterDownload(c).at # "unzip" =>
                 AfterDownload(c) = AfterFetch(c) /\ Ext(Wanted(c)) # ".zip"
<1>1. AfterFetch(c).at \in {"stat", "command", "auto"}
  BY DEF AfterFetch, AfterItem, Job
<1>2. QED
  BY <1>1 DEF AfterDownload, Job

\* A job that is moved is a job of its worker, and the other worker's stays.
LEMMA Moved ==
    ASSUME TypeOK, NEW c \in Worker, NEW j \in JobOf(c), Moves(c, j)
    PROVE  /\ job'[c] = j /\ DOMAIN job' = Worker
           /\ \A w \in Worker : job'[w] \in JobOf(w)
           /\ \A w \in Worker \ {c} : job'[w] = job[w]
  BY JobType DEF TypeOK, Moves

LEMMA JobTypeOK ==
    ASSUME DOMAIN job' = Worker, \A w \in Worker : job'[w] \in JobOf(w)
    PROVE  /\ job'["main"] \in [at : {"stat", "get", "copy", "unzip", "extract"},
                               n : DOMAIN Items]
                              \cup [at : {"command"}, n : DOMAIN Command]
                              \cup {Job("done", 1)}
           /\ job'["watch"] \in [at : {"none", "stat", "get", "copy", "unzip", "extract",
                                      "auto"}, n : DOMAIN Iphones]
           /\ DOMAIN job' = Worker
  BY DEF Worker, JobOf, MainJob, WatchJob, Walks

-----------------------------------------------------------------------------
(* What the steps have in common.                                          *)

\* Only paths of what the worker wants are written.
Elsewhere(c) == \A p \in Path : p[1] # Wanted(c) => file'[p] = file[p]

\* The watcher's steps leave main's part of the invariant alone.
LEMMA WatchKeepsMain ==
    ASSUME TypeOK, MainInv, job["watch"].at \in Walks \cup {"auto"}, Elsewhere("watch"),
           job'["main"] = job["main"], body'["main"] = body["main"],
           UNCHANGED <<failed, broken, appium>>
    PROVE  MainInv'
<1>1. \A t \in Tool : t # Wanted("watch")
  BY WantedType, ProvisionAssumption DEF Worker, ProvisionAssumption
<1>2. \A t \in Tool : file'[<<t, "">>] = file[<<t, "">>]
  BY <1>1, PathType DEF Elsewhere
<1>3. job["main"].at = "unzip" =>
         Target("main")' = Target("main") /\ file'[Target("main")] = file[Target("main")]
  <2>1. job["main"].at = "unzip" => Wanted("main") \in Tool
    BY WantedType DEF Worker, Walks
  <2>2. Wanted("main")' = Wanted("main")
    BY DEF Wanted
  <2>3. QED
    BY <1>1, <2>1, <2>2, PathType DEF Elsewhere, Target
<1>4. /\ Broken(file)' = Broken(file) /\ Wanted("main")' = Wanted("main")
      /\ Passed' = Passed /\ Ran' = Ran
  BY <1>2 DEF Broken, Passed, Ran, Wanted
<1>5. \A m \in Passed : Items[m] \in Tool
  BY DEF Passed, Tool
<1>6. QED
  BY <1>2, <1>3, <1>4, <1>5 DEF MainInv

\* A step of worker c can leave broken only what c wants.
LEMMA BrokenStep ==
    ASSUME BrokenOnlyByExtraction, NEW c \in Worker, Elsewhere(c), cut \subseteq cut',
           \A w \in Worker \ {c} : job'[w] = job[w],
           LET x == Wanted(c)
           IN  x \in Compressed \cup Version =>
                  \/ file'[<<x, "">>] \in {"absent", "whole"}
                  \/ x \in cut'
                  \/ job'[c].at = "extract" /\ Wanted(c)' = x
                  \/ /\ file'[<<x, "">>] = file[<<x, "">>]
                     /\ job[c].at # "extract"
    PROVE  BrokenOnlyByExtraction'
<1> DEFINE y == Wanted(c)
<1>1. \A w \in Worker \ {c} : Wanted(w)' = Wanted(w)
  BY DEF Wanted
<1>2. ASSUME NEW x \in Compressed \cup Version, x # y,
             file'[<<x, "">>] \notin {"absent", "whole"}
      PROVE  x \in cut' \/ \E w \in Worker : job'[w].at = "extract" /\ Wanted(w)' = x
  <2>1. <<x, "">> \in Path /\ <<x, "">>[1] = x
    BY PathType
  <2>2. file[<<x, "">>] = file'[<<x, "">>]
    BY <1>2, <2>1 DEF Elsewhere
  <2>3. x \in cut \/ \E w \in Worker \ {c} : job[w].at = "extract" /\ Wanted(w) = x
    BY <1>2, <2>2 DEF BrokenOnlyByExtraction
  <2>4. QED
    BY <1>1, <2>3
<1>3. ASSUME y \in Compressed \cup Version, file'[<<y, "">>] \notin {"absent", "whole"}
      PROVE  y \in cut' \/ \E w \in Worker : job'[w].at = "extract" /\ Wanted(w)' = y
  <2>1. CASE file'[<<y, "">>] = file[<<y, "">>] /\ job[c].at # "extract"
    <3>1. y \in cut \/ \E w \in Worker \ {c} : job[w].at = "extract" /\ Wanted(w) = y
      BY <1>3, <2>1 DEF BrokenOnlyByExtraction
    <3>2. QED
      BY <1>1, <3>1
  <2>2. QED
    BY <1>3, <2>1
<1>4. QED
  BY <1>2, <1>3 DEF BrokenOnlyByExtraction

\* FetchOk needs to be shown only of the worker that moves.
LEMMA FetchStep ==
    ASSUME FetchInv, NEW c \in Worker, proc = "up", proc' = "up",
           \A w \in Worker \ {c} : job'[w] = job[w] /\ body'[w] = body[w],
           FetchOk(c)'
    PROVE  FetchInv'
<1>1. ASSUME NEW w \in Worker \ {c}
      PROVE  FetchOk(w)'
  <2>1. Wanted(w)' = Wanted(w) /\ FetchOk(w)
    BY <1>1 DEF Wanted, FetchInv
  <2>2. QED
    BY <1>1, <2>1 DEF FetchOk
<1>2. QED
  BY <1>1 DEF FetchInv

LEMMA CommandType ==
    /\ DOMAIN Command = 1..3
    /\ \A n \in DOMAIN Command : AfterCommand(n) \in MainJob
    /\ \A n \in DOMAIN Command : IF n < 3 THEN AfterCommand(n) = Job("command", n + 1)
                                  ELSE AfterCommand(n) = Job("done", 1)
    /\ \A n \in DOMAIN Command : ~(n < 1)
    /\ Installable = {Command[1], Command[2], Command[3]}
<1>1. DOMAIN Command = 1..3 /\ Len(Command) = 3
  BY DEF Command
<1>2. 1..3 = {1, 2, 3}
  OBVIOUS
<1>3. \A n \in DOMAIN Command : n < 3 => n + 1 \in DOMAIN Command
  BY <1>1
<1>4. \A n \in DOMAIN Command : ~(n < 1)
  BY <1>1
<1>5. QED
  BY <1>1, <1>2, <1>3, <1>4 DEF AfterCommand, MainJob, Job, Installable

\* Past an item, main has passed that one besides those before it.
LEMMA NextPassed ==
    ASSUME TypeOK, job["main"].at \in Walks, job'["main"] = AfterItem(job["main"].n)
    PROVE  /\ job'["main"].at \in {"stat", "command"}
           /\ \A m \in Passed' : m \in Passed \/ Items[m] = Wanted("main")
           /\ Ran' = {}
<1> DEFINE n == job["main"].n
<1>1. n \in DOMAIN Items /\ Wanted("main") = Items[n]
  BY WantedType DEF Wanted, Worker
<1>2. DOMAIN Items = 1..Len(Items) /\ Len(Items) \in Nat
  <2>1. Items \in Seq(Tool)
    BY ProvisionAssumption DEF ProvisionAssumption
  <2>2. QED
    BY <2>1
<1>3. \/ job'["main"].at = "stat" /\ job'["main"].n = n + 1
      \/ job'["main"] = Job("command", 1) /\ job'["main"].at = "command" /\ n = Len(Items)
  BY <1>1, <1>2 DEF AfterItem, Job
<1>4. \A m \in Passed' : m \in DOMAIN Items /\ m <= n
  BY <1>1, <1>2, <1>3 DEF Passed, Walks
<1>5. \A m \in DOMAIN Items : m <= n => m \in Passed \/ m = n
  BY <1>1, <1>2 DEF Passed
<1>6. Ran' = {}
  BY <1>3, CommandType DEF Ran, Walks, Job
<1>7. QED
  BY <1>1, <1>3, <1>4, <1>5, <1>6

\* A name stays there while main is busy with another.
LEMMA PassedThere ==
    ASSUME TypeOK, MainInv, ~failed, job["main"].at \in Walks, Elsewhere("main"),
           file[<<Wanted("main"), "">>] # "absent" =>
              file'[<<Wanted("main"), "">>] # "absent"
    PROVE  /\ \A m \in Passed : file'[<<Items[m], "">>] # "absent"
           /\ \A t \in Broken(file') : t # Wanted("main") => t \in broken
<1>1. \A t \in Tool : t # Wanted("main") => file'[<<t, "">>] = file[<<t, "">>]
  BY PathType DEF Elsewhere
<1>2. \A m \in Passed : Items[m] \in Tool /\ file[<<Items[m], "">>] # "absent"
  BY DEF Passed, Tool, MainInv
<1>3. \A m \in Passed : file'[<<Items[m], "">>] # "absent"
  BY <1>1, <1>2
<1>4. \A t \in Broken(file') : t # Wanted("main") => t \in Broken(file)
  BY <1>1 DEF Broken
<1>5. QED
  BY <1>3, <1>4 DEF MainInv

\* After a fetch main goes on to the next tool or to the commands: nothing is known
\* of the next one yet, and what it fetched has become one of those passed.
LEMMA MainPasses ==
    ASSUME TypeOK, MainInv, job["main"].at \in Walks, job'["main"] = AfterItem(job["main"].n),
           broken' = broken, ~failed, Elsewhere("main"),
           file'[<<Wanted("main"), "">>] # "absent",
           Wanted("main") \in Broken(file') => Wanted("main") \in broken
    PROVE  MainInv'
<1>1. job'["main"].at \in {"stat", "command"}
  BY NextPassed
<1>2. \A m \in Passed' : file'[<<Items[m], "">>] # "absent"
  BY NextPassed, PassedThere
<1>3. Ran' = {}
  BY NextPassed
<1>4. \A t \in Broken(file') : t \in broken
  BY PassedThere
<1>5. QED
  BY <1>1, <1>2, <1>3, <1>4 DEF MainInv

\* While main is busy with an item, it has passed the same ones.
LEMMA SamePassed ==
    ASSUME job["main"].at \in Walks, NEW l \in Walks, job'["main"] = Job(l, job["main"].n)
    PROVE  Passed' = Passed /\ Ran' = {} /\ Wanted("main")' = Wanted("main")
           /\ job'["main"].at = l
  BY DEF Passed, Ran, Wanted, Job

LEMMA MainStays ==
    ASSUME TypeOK, MainInv, job["main"].at \in Walks, NEW l \in Walks,
           job'["main"] = Job(l, job["main"].n),
           broken' = broken, ~failed, Elsewhere("main"),
           file[<<Wanted("main"), "">>] # "absent" =>
              file'[<<Wanted("main"), "">>] # "absent",
           Wanted("main") \in Broken(file') =>
              \/ Wanted("main") \in broken
              \/ l = "extract"
              \/ l = "copy" /\ Ext(Wanted("main")) = "",
           l = "copy" => body'["main"] = "whole",
           l = "unzip" => file'[Target("main")] = "whole"
    PROVE  MainInv'
<1>1. /\ Passed' = Passed /\ Ran' = {} /\ Wanted("main")' = Wanted("main")
      /\ job'["main"].at = l /\ Target("main")' = Target("main")
  BY SamePassed DEF Target
<1>2. /\ \A m \in Passed : file'[<<Items[m], "">>] # "absent"
      /\ \A t \in Broken(file') : t # Wanted("main") => t \in broken
  BY PassedThere
<1>3. ASSUME NEW t \in Broken(file')
      PROVE  \/ t \in broken
             \/ /\ t = Wanted("main")'
                /\ job'["main"].at = "extract" \/ (job'["main"].at = "copy" /\ Ext(t) = "")
  BY <1>1, <1>2, <1>3
<1>4. QED
  BY <1>1, <1>2, <1>3 DEF MainInv

\* What writing at the target, or at a name, does to the files.
LEMMA WriteTarget ==
    ASSUME TypeOK, NEW c \in Worker, job[c].at \in Walks, NEW v \in Content,
           file' = [file EXCEPT ![Target(c)] = v]
    PROVE  /\ file' \in [Path -> Content] /\ Elsewhere(c) /\ file'[Target(c)] = v
           /\ Ext(Wanted(c)) = ".zip" => file'[<<Wanted(c), "">>] = file[<<Wanted(c), "">>]
           /\ Ext(Wanted(c)) # ".zip" => file'[<<Wanted(c), "">>] = v
<1> DEFINE x == Wanted(c)
<1>1. <<x, "">> \in Path /\ <<x, Ext(x)>> \in Path /\ Ext(x) \in {"", ".zip"}
  BY WantedType, PathType
<1>2. file' = [file EXCEPT ![<<x, Ext(x)>>] = v]
  BY DEF Target
<1>3. file' \in [Path -> Content]
  BY <1>2 DEF TypeOK
<1>4. <<x, Ext(x)>>[1] = x /\ (Ext(x) = ".zip" => <<x, Ext(x)>> # <<x, "">>)
  OBVIOUS
<1>5. /\ \A p \in Path : p # <<x, Ext(x)>> => file'[p] = file[p]
      /\ file'[<<x, Ext(x)>>] = v
  BY <1>1, <1>2 DEF TypeOK
<1>6. QED
  BY <1>1, <1>3, <1>4, <1>5 DEF Elsewhere, Target

LEMMA WriteName ==
    ASSUME TypeOK, NEW c \in Worker, job[c].at \in Walks, NEW v \in Content,
           file' = [file EXCEPT ![<<Wanted(c), "">>] = v]
    PROVE  /\ file' \in [Path -> Content] /\ Elsewhere(c) /\ file'[<<Wanted(c), "">>] = v
<1>1. <<Wanted(c), "">> \in Path
  BY WantedType, PathType
<1>2. file' \in [Path -> Content]
  BY DEF TypeOK
<1>3. <<Wanted(c), "">>[1] = Wanted(c)
  OBVIOUS
<1>4. /\ \A p \in Path : p # <<Wanted(c), "">> => file'[p] = file[p]
      /\ file'[<<Wanted(c), "">>] = v
  BY <1>1 DEF TypeOK
<1>5. QED
  BY <1>2, <1>3, <1>4 DEF Elsewhere

\* The bound of the faults, and main's record of them.
LEMMA FaultType ==
    ASSUME TypeOK, faults' = faults \/ Fault
    PROVE  faults' \in 0..MaxFaults
  BY ProvisionAssumption DEF ProvisionAssumption, TypeOK, Fault

LEMMA HurtsType ==
    ASSUME TypeOK, NEW c \in Worker, failed' = failed \/ Hurts(c)
    PROVE  /\ failed' \in BOOLEAN
           /\ c = "watch" => failed' = failed
           /\ ~failed' => ~failed
           /\ Hurts(c) /\ c = "main" => failed'
<1>1. failed \in BOOLEAN
  BY DEF TypeOK
<1>2. CASE failed' = failed
  BY <1>1, <1>2 DEF Hurts
<1>3. CASE Hurts(c)
  BY <1>1, <1>3 DEF Hurts
<1>4. QED
  BY <1>2, <1>3

\* After a download a worker unzips an archive, or is at no step FetchOk speaks of.
LEMMA AfterDownloadOk ==
    ASSUME NEW c \in Worker, job'[c] = AfterDownload(c)
    PROVE  /\ job'[c].at \notin {"copy", "extract"}
           /\ job'[c].at = "unzip" => Ext(Wanted(c)') = ".zip"
<1>1. job'[c].at = "unzip" => job'[c].n = job[c].n /\ Ext(Wanted(c)) = ".zip"
  BY NextJobAt
<1>2. job'[c].at = "unzip" => Wanted(c)' = Wanted(c)
  BY <1>1 DEF Wanted
<1>3. QED
  BY <1>1, <1>2, NextJobAt

-----------------------------------------------------------------------------
(* The steps of a fetch.                                                   *)

LEMMA GotIInv ==
    ASSUME IInv, NEW c \in Worker, proc = "up", Got(c)
    PROVE  IInv'
<1> USE DEF IInv
<1> DEFINE x == Wanted(c)
<1>1. job[c].at = "get" /\ job[c].at \in Walks /\ x \in Tool \cup Version
  BY WantedType DEF Got, Walks
<1>2. /\ job'[c] = Job("copy", job[c].n) /\ DOMAIN job' = Worker
      /\ \A w \in Worker : job'[w] \in JobOf(w)
      /\ \A w \in Worker \ {c} : job'[w] = job[w] /\ body'[w] = body[w]
  <2>1. Job("copy", job[c].n) \in JobOf(c)
    BY <1>1, NextJobType DEF Walks
  <2>2. QED
    BY <2>1, Moved DEF Got, TypeOK, diskVars
<1>3. /\ file' \in [Path -> Content] /\ Elsewhere(c) /\ file'[Target(c)] = "partial"
      /\ Ext(x) = ".zip" => file'[<<x, "">>] = file[<<x, "">>]
      /\ Ext(x) # ".zip" => file'[<<x, "">>] = "partial"
  BY <1>1, WriteTarget DEF Got, Content
<1>b. body' \in [Worker -> Content] /\ body'[c] \in {"whole", "page"}
  BY DEF Got, TypeOK, Content
<1>h. /\ failed' \in BOOLEAN /\ (c = "watch" => failed' = failed)
      /\ ~failed' => ~failed
      /\ Hurts(c) /\ c = "main" => failed'
  BY HurtsType DEF Got, history
<1>f. faults' \in 0..MaxFaults
  BY FaultType DEF Got
<1>4. TypeOK'
  BY <1>2, <1>3, <1>b, <1>h, <1>f, JobTypeOK DEF TypeOK, Got, diskVars, history
<1>5. FetchInv'
  <2>1. FetchOk(c)'
    BY <1>2, <1>b DEF FetchOk, Job, Got
  <2>2. QED
    BY <1>2, <2>1, FetchStep DEF Got
<1>6. MainInv'
  <2>1. CASE c = "watch"
    BY <1>1, <1>2, <1>3, <1>h, <2>1, WatchKeepsMain DEF Got, diskVars, history, Worker
  <2>2. CASE c = "main" /\ ~failed'
    <3>1. ~failed /\ body'[c] = "whole"
      BY <1>h, <2>2 DEF Got, TypeOK
    <3>2. file[<<x, "">>] # "absent" => file'[<<x, "">>] # "absent"
      BY <1>3
    <3>3. x \in Broken(file') => x \in broken \/ Ext(x) = ""
      BY <1>1, <1>3, <2>2, <3>1, PathType DEF Broken, MainInv
    <3>4. QED
      BY <1>1, <1>2, <1>3, <2>2, <3>1, <3>2, <3>3, MainStays DEF Got, Walks
  <2>3. QED
    BY <2>1, <2>2 DEF Worker, MainInv
<1>7. BrokenOnlyByExtraction'
  BY <1>1, <1>2, <1>3, PathType, BrokenStep DEF Got, history, diskVars
<1>8. QED
  BY <1>4, <1>5, <1>6, <1>7

LEMMA GetFailsIInv ==
    ASSUME IInv, NEW c \in Worker, proc = "up", GetFails(c)
    PROVE  IInv'
<1> USE DEF IInv
<1> DEFINE x == Wanted(c)
<1>1. job[c].at = "get" /\ job[c].at \in Walks /\ x \in Tool \cup Version
  BY WantedType DEF GetFails, Walks
<1>2. /\ job'[c] = AfterDownload(c) /\ DOMAIN job' = Worker
      /\ \A w \in Worker : job'[w] \in JobOf(w)
      /\ \A w \in Worker \ {c} : job'[w] = job[w] /\ body'[w] = body[w]
  <2>1. AfterDownload(c) \in JobOf(c)
    BY <1>1, NextJobType DEF Walks
  <2>2. QED
    BY <2>1, Moved DEF GetFails, TypeOK, diskVars
<1>3. file' = file /\ Elsewhere(c)
  BY DEF GetFails, diskVars, Elsewhere
<1>h. /\ failed' \in BOOLEAN /\ (c = "watch" => failed' = failed)
      /\ ~failed' => ~failed
      /\ Hurts(c) /\ c = "main" => failed'
  BY HurtsType DEF GetFails, history
<1>f. faults' \in 0..MaxFaults
  BY FaultType DEF GetFails
<1>4. TypeOK'
  BY <1>2, <1>3, <1>h, <1>f, JobTypeOK DEF TypeOK, GetFails, diskVars, history
<1>5. FetchInv'
  <2>1. FetchOk(c)'
    BY <1>2, NextJobAt, AfterDownloadOk DEF FetchOk, GetFails
  <2>2. QED
    BY <1>2, <2>1, FetchStep DEF GetFails
<1>6. MainInv'
  <2>1. CASE c = "watch"
    BY <1>1, <1>2, <1>3, <1>h, <2>1, WatchKeepsMain DEF GetFails, diskVars, history, Worker
  <2>2. CASE c = "main" /\ ~failed'
    BY <1>h, <2>2 DEF GetFails
  <2>3. QED
    BY <2>1, <2>2 DEF Worker, MainInv
<1>7. BrokenOnlyByExtraction'
  BY <1>1, <1>2, <1>3, PathType, BrokenStep DEF GetFails, history, diskVars
<1>8. QED
  BY <1>4, <1>5, <1>6, <1>7

LEMMA CopiedIInv ==
    ASSUME IInv, NEW c \in Worker, proc = "up", Copied(c)
    PROVE  IInv'
<1> USE DEF IInv
<1> DEFINE x == Wanted(c)
<1>1. job[c].at = "copy" /\ job[c].at \in Walks /\ x \in Tool \cup Version
  BY WantedType DEF Copied, Walks
<1>2. /\ job'[c] = AfterDownload(c) /\ DOMAIN job' = Worker
      /\ \A w \in Worker : job'[w] \in JobOf(w)
      /\ \A w \in Worker \ {c} : job'[w] = job[w] /\ body'[w] = body[w]
  <2>1. AfterDownload(c) \in JobOf(c)
    BY <1>1, NextJobType DEF Walks
  <2>2. QED
    BY <2>1, Moved DEF Copied, TypeOK, diskVars
<1>b. body[c] \in {"whole", "page"} /\ body' \in [Worker -> Content]
  BY <1>1 DEF Copied, TypeOK, Content, FetchInv, FetchOk
<1>3. /\ file' \in [Path -> Content] /\ Elsewhere(c) /\ file'[Target(c)] = body[c]
      /\ Ext(x) = ".zip" => file'[<<x, "">>] = file[<<x, "">>]
      /\ Ext(x) # ".zip" => file'[<<x, "">>] = body[c]
  BY <1>1, <1>b, WriteTarget DEF Copied, Content
<1>h. /\ failed' \in BOOLEAN /\ (c = "watch" => failed' = failed)
      /\ ~failed' => ~failed
      /\ Hurts(c) /\ c = "main" => failed'
  BY HurtsType DEF Copied, history
<1>f. faults' \in 0..MaxFaults
  BY FaultType DEF Copied
<1>4. TypeOK'
  BY <1>2, <1>3, <1>b, <1>h, <1>f, JobTypeOK DEF TypeOK, Copied, diskVars, history
<1>5. FetchInv'
  <2>1. FetchOk(c)'
    BY <1>2, NextJobAt, AfterDownloadOk DEF FetchOk, Copied
  <2>2. QED
    BY <1>2, <2>1, FetchStep DEF Copied
<1>6. MainInv'
  <2>1. CASE c = "watch"
    BY <1>1, <1>2, <1>3, <1>h, <2>1, WatchKeepsMain DEF Copied, diskVars, history, Worker
  <2>2. CASE c = "main" /\ ~failed'
    <3>1. ~failed /\ body[c] = "whole" /\ broken' = broken
      BY <1>1, <1>h, <2>2 DEF MainInv, Copied, history
    <3>2. CASE Ext(x) = ".zip"
      <4>1. job'[c] = Job("unzip", job[c].n)
        BY <1>2, <3>2 DEF AfterDownload
      <4>2. x \in Broken(file') => x \in broken
        BY <1>1, <1>3, <2>2, <3>1, <3>2 DEF Broken, MainInv
      <4>3. QED
        BY <1>1, <1>3, <2>2, <3>1, <3>2, <4>1, <4>2, MainStays DEF Walks
    <3>3. CASE Ext(x) # ".zip"
      <4>1. job'[c] = AfterItem(job[c].n)
        BY <1>2, <2>2, <3>3 DEF AfterDownload, AfterFetch
      <4>2. x \notin Broken(file')
        BY <1>3, <3>1, <3>3 DEF Broken
      <4>3. QED
        BY <1>1, <1>3, <2>2, <3>1, <3>3, <4>1, <4>2, MainPasses
    <3>4. QED
      BY <3>2, <3>3
  <2>3. QED
    BY <2>1, <2>2 DEF Worker, MainInv
<1>7. BrokenOnlyByExtraction'
  BY <1>1, <1>2, <1>3, PathType, BrokenStep DEF Copied, history, diskVars
<1>8. QED
  BY <1>4, <1>5, <1>6, <1>7

LEMMA CopyFailsIInv ==
    ASSUME IInv, NEW c \in Worker, proc = "up", CopyFails(c)
    PROVE  IInv'
<1> USE DEF IInv
<1> DEFINE x == Wanted(c)
<1>1. job[c].at = "copy" /\ job[c].at \in Walks /\ x \in Tool \cup Version
  BY WantedType DEF CopyFails, Walks
<1>2. /\ job'[c] = AfterDownload(c) /\ DOMAIN job' = Worker
      /\ \A w \in Worker : job'[w] \in JobOf(w)
      /\ \A w \in Worker \ {c} : job'[w] = job[w] /\ body'[w] = body[w]
  <2>1. AfterDownload(c) \in JobOf(c)
    BY <1>1, NextJobType DEF Walks
  <2>2. QED
    BY <2>1, Moved DEF CopyFails, TypeOK, diskVars
<1>b. body' \in [Worker -> Content]
  BY DEF CopyFails, TypeOK, Content, diskVars
<1>3. file' = file /\ Elsewhere(c)
  BY DEF CopyFails, diskVars, Elsewhere
<1>h. /\ failed' \in BOOLEAN /\ (c = "watch" => failed' = failed)
      /\ ~failed' => ~failed
      /\ Hurts(c) /\ c = "main" => failed'
  BY HurtsType DEF CopyFails, history
<1>f. faults' \in 0..MaxFaults
  BY FaultType DEF CopyFails
<1>4. TypeOK'
  BY <1>2, <1>3, <1>b, <1>h, <1>f, JobTypeOK DEF TypeOK, CopyFails, diskVars, history
<1>5. FetchInv'
  <2>1. FetchOk(c)'
    BY <1>2, NextJobAt, AfterDownloadOk DEF FetchOk, CopyFails
  <2>2. QED
    BY <1>2, <2>1, FetchStep DEF CopyFails
<1>6. MainInv'
  <2>1. CASE c = "watch"
    BY <1>1, <1>2, <1>3, <1>h, <2>1, WatchKeepsMain DEF CopyFails, diskVars, history, Worker
  <2>2. CASE c = "main" /\ ~failed'
    BY <1>h, <2>2 DEF CopyFails
  <2>3. QED
    BY <2>1, <2>2 DEF Worker, MainInv
<1>7. BrokenOnlyByExtraction'
  BY <1>1, <1>2, <1>3, PathType, BrokenStep DEF CopyFails, history, diskVars
<1>8. QED
  BY <1>4, <1>5, <1>6, <1>7

LEMMA UnzipIInv ==
    ASSUME IInv, NEW c \in Worker, proc = "up", Unzip(c)
    PROVE  IInv'
<1> USE DEF IInv
<1> DEFINE x == Wanted(c)
<1>1. job[c].at = "unzip" /\ job[c].at \in Walks /\ x \in Tool \cup Version
  BY WantedType DEF Unzip, Walks
<1>z. Ext(x) = ".zip" /\ Target(c) # <<x, "">>
  BY <1>1 DEF FetchInv, FetchOk, Target
<1>3. /\ file' \in [Path -> Content] /\ Elsewhere(c)
      /\ \/ /\ file'[<<x, "">>] = "partial" /\ file[Target(c)] = "whole"
            /\ job' = [job EXCEPT ![c] = Job("extract", job[c].n)]
         \/ /\ file'[<<x, "">>] = file[<<x, "">>] /\ file[Target(c)] # "whole"
            /\ job' = [job EXCEPT ![c] = AfterFetch(c)]
  BY <1>1, <1>z, WriteTarget, WriteName DEF Unzip, Moves, Content
<1>2. /\ DOMAIN job' = Worker
      /\ \A w \in Worker : job'[w] \in JobOf(w)
      /\ \A w \in Worker \ {c} : job'[w] = job[w] /\ body'[w] = body[w]
      /\ \/ job'[c] = Job("extract", job[c].n) /\ file[Target(c)] = "whole"
         \/ job'[c] = AfterFetch(c) /\ file[Target(c)] # "whole"
  <2>1. Job("extract", job[c].n) \in JobOf(c) /\ AfterFetch(c) \in JobOf(c)
    BY <1>1, NextJobType DEF Walks
  <2>2. QED
    BY <1>3, <2>1, Moved DEF Unzip, TypeOK, Moves
<1>h. /\ failed' \in BOOLEAN /\ (c = "watch" => failed' = failed)
      /\ ~failed' => ~failed
      /\ Hurts(c) /\ c = "main" => failed'
  BY HurtsType DEF Unzip, history
<1>f. faults' \in 0..MaxFaults
  BY FaultType DEF Unzip
<1>4. TypeOK'
  BY <1>2, <1>3, <1>h, <1>f, JobTypeOK DEF TypeOK, Unzip, diskVars, history
<1>5. FetchInv'
  <2>1. FetchOk(c)'
    <3>1. CASE job'[c] = Job("extract", job[c].n)
      <4>1. Wanted(c)' = x
        BY <3>1 DEF Wanted, Job
      <4>2. job'[c].at = "extract" /\ proc' = "up"
        BY <3>1, JobSet DEF Unzip
      <4>3. QED
        BY <1>z, <4>1, <4>2 DEF FetchOk
    <3>2. CASE job'[c] = AfterFetch(c)
      BY <3>2, NextJobAt DEF FetchOk
    <3>3. QED
      BY <1>2, <3>1, <3>2
  <2>2. QED
    BY <1>2, <2>1, FetchStep DEF Unzip
<1>6. MainInv'
  <2>1. CASE c = "watch"
    BY <1>1, <1>2, <1>3, <1>h, <2>1, WatchKeepsMain DEF Unzip, diskVars, history, Worker
  <2>2. CASE c = "main" /\ ~failed'
    <3>1. ~failed /\ file[Target(c)] = "whole" /\ broken' = broken
      BY <1>1, <1>h, <2>2 DEF MainInv, Unzip, history
    <3>2. job'[c] = Job("extract", job[c].n) /\ file'[<<x, "">>] = "partial"
      BY <1>2, <1>3, <3>1
    <3>3. QED
      BY <1>1, <1>3, <2>2, <3>1, <3>2, MainStays DEF Walks
  <2>3. QED
    BY <2>1, <2>2 DEF Worker, MainInv
<1>7. BrokenOnlyByExtraction'
  <2>1. job'[c] = Job("extract", job[c].n) => job'[c].at = "extract" /\ Wanted(c)' = x
    BY DEF Job, Wanted
  <2>2. file'[<<x, "">>] = file[<<x, "">>] \/ job'[c] = Job("extract", job[c].n)
    BY <1>2, <1>3
  <2>3. QED
    BY <1>1, <1>2, <1>3, <2>1, <2>2, BrokenStep DEF Unzip, history
<1>8. QED
  BY <1>4, <1>5, <1>6, <1>7

LEMMA ExtractedIInv ==
    ASSUME IInv, NEW c \in Worker, proc = "up", Extracted(c)
    PROVE  IInv'
<1> USE DEF IInv
<1> DEFINE x == Wanted(c)
<1>1. job[c].at = "extract" /\ job[c].at \in Walks /\ x \in Tool \cup Version
  BY WantedType DEF Extracted, Walks
<1>z. Ext(x) = ".zip" /\ Target(c) # <<x, "">>
  BY <1>1 DEF FetchInv, FetchOk, Target
<1>2. /\ job'[c] = AfterFetch(c) /\ DOMAIN job' = Worker
      /\ \A w \in Worker : job'[w] \in JobOf(w)
      /\ \A w \in Worker \ {c} : job'[w] = job[w] /\ body'[w] = body[w]
  <2>1. AfterFetch(c) \in JobOf(c)
    BY <1>1, NextJobType DEF Walks
  <2>2. QED
    BY <2>1, Moved DEF Extracted, TypeOK, diskVars
<1>3. /\ file' \in [Path -> Content] /\ Elsewhere(c) /\ file'[<<x, "">>] = "whole"
  <2>1. Target(c) = <<x, ".zip">> /\ Target(c)[1] = x /\ <<x, "">>[1] = x
    BY <1>z DEF Target
  <2>2. <<x, "">> \in Path
    BY <1>1, PathType
  <2>3. file' \in [Path -> Content]
    BY DEF Extracted, TypeOK, Content
  <2>4. \A p \in Path : p # <<x, "">> /\ p # Target(c) => file'[p] = file[p]
    BY DEF Extracted, TypeOK
  <2>5. file'[<<x, "">>] = "whole"
    BY <1>z, <2>2 DEF Extracted, TypeOK
  <2>6. QED
    BY <2>1, <2>3, <2>4, <2>5 DEF Elsewhere
<1>h. /\ failed' \in BOOLEAN /\ (c = "watch" => failed' = failed)
      /\ ~failed' => ~failed
      /\ Hurts(c) /\ c = "main" => failed'
  BY HurtsType DEF Extracted, history
<1>f. faults' \in 0..MaxFaults
  BY FaultType DEF Extracted
<1>4. TypeOK'
  BY <1>2, <1>3, <1>h, <1>f, JobTypeOK DEF TypeOK, Extracted, diskVars, history
<1>5. FetchInv'
  <2>1. FetchOk(c)'
    BY <1>2, NextJobAt DEF FetchOk
  <2>2. QED
    BY <1>2, <2>1, FetchStep DEF Extracted
<1>6. MainInv'
  <2>1. CASE c = "watch"
    BY <1>1, <1>2, <1>3, <1>h, <2>1, WatchKeepsMain DEF Extracted, diskVars, history, Worker
  <2>2. CASE c = "main" /\ ~failed'
    <3>1. ~failed /\ broken' = broken /\ x \notin Broken(file')
      BY <1>3, <1>h, <2>2 DEF Extracted, history, Broken
    <3>2. job'[c] = AfterItem(job[c].n)
      BY <1>2, <2>2 DEF AfterFetch
    <3>3. QED
      BY <1>1, <1>3, <2>2, <3>1, <3>2, MainPasses
  <2>3. QED
    BY <2>1, <2>2 DEF Worker, MainInv
<1>7. BrokenOnlyByExtraction'
  BY <1>1, <1>2, <1>3, BrokenStep DEF Extracted, history
<1>8. QED
  BY <1>4, <1>5, <1>6, <1>7

LEMMA ExtractFailsIInv ==
    ASSUME IInv, NEW c \in Worker, proc = "up", ExtractFails(c)
    PROVE  IInv'
<1> USE DEF IInv
<1> DEFINE x == Wanted(c)
<1>1. job[c].at = "extract" /\ job[c].at \in Walks /\ x \in Tool \cup Version
  BY WantedType DEF ExtractFails, Walks
<1>z. Ext(x) = ".zip" /\ Target(c) # <<x, "">>
  BY <1>1 DEF FetchInv, FetchOk, Target
<1>2. /\ job'[c] = AfterFetch(c) /\ DOMAIN job' = Worker
      /\ \A w \in Worker : job'[w] \in JobOf(w)
      /\ \A w \in Worker \ {c} : job'[w] = job[w] /\ body'[w] = body[w]
  <2>1. AfterFetch(c) \in JobOf(c)
    BY <1>1, NextJobType DEF Walks
  <2>2. QED
    BY <2>1, Moved DEF ExtractFails, TypeOK, diskVars
<1>3. /\ file' \in [Path -> Content] /\ Elsewhere(c)
      /\ file'[<<x, "">>] = file[<<x, "">>]
  BY <1>1, <1>z, WriteTarget DEF ExtractFails, Content
<1>b. cut' \subseteq Tool \cup Version /\ x \in cut' /\ cut \subseteq cut'
  BY <1>1 DEF ExtractFails, TypeOK
<1>h. /\ failed' \in BOOLEAN /\ (c = "watch" => failed' = failed)
      /\ ~failed' => ~failed
      /\ Hurts(c) /\ c = "main" => failed'
  BY HurtsType DEF ExtractFails, history
<1>f. faults' \in 0..MaxFaults
  BY FaultType DEF ExtractFails
<1>4. TypeOK'
  BY <1>2, <1>3, <1>b, <1>h, <1>f, JobTypeOK DEF TypeOK, ExtractFails, diskVars, history
<1>5. FetchInv'
  <2>1. FetchOk(c)'
    BY <1>2, NextJobAt DEF FetchOk
  <2>2. QED
    BY <1>2, <2>1, FetchStep DEF ExtractFails
<1>6. MainInv'
  <2>1. CASE c = "watch"
    BY <1>1, <1>2, <1>3, <1>h, <2>1, WatchKeepsMain DEF ExtractFails, diskVars, history, Worker
  <2>2. CASE c = "main" /\ ~failed'
    BY <1>h, <2>2 DEF ExtractFails
  <2>3. QED
    BY <2>1, <2>2 DEF Worker, MainInv
<1>7. BrokenOnlyByExtraction'
  BY <1>1, <1>2, <1>3, <1>b, BrokenStep DEF ExtractFails
<1>8. QED
  BY <1>4, <1>5, <1>6, <1>7

-----------------------------------------------------------------------------
(* The other steps of main and of the watcher.                             *)

\* What a step on main's own, past or between fetches, may assume.
LEMMA CommandJob ==
    ASSUME TypeOK, job["main"].at = "command"
    PROVE  job["main"].n \in DOMAIN Command
  BY JobType, CommandType DEF JobOf, MainJob, Job, Walks, Worker

LEMMA EnsureFileExistsIInv ==
    ASSUME IInv, proc = "up", EnsureFileExists
    PROVE  IInv'
<1> USE DEF IInv
<1> DEFINE x == Wanted("main")
<1>1. job["main"].at = "stat" /\ job["main"].at \in Walks /\ "main" \in Worker
  BY DEF EnsureFileExists, Walks, Worker
<1>2. /\ \/ job'["main"] = AfterItem(job["main"].n) /\ file[<<x, "">>] # "absent"
         \/ job'["main"] = Job("get", job["main"].n)
      /\ DOMAIN job' = Worker /\ \A w \in Worker : job'[w] \in JobOf(w)
      /\ \A w \in Worker \ {"main"} : job'[w] = job[w] /\ body'[w] = body[w]
  <2>1. AfterItem(job["main"].n) \in JobOf("main") /\ Job("get", job["main"].n) \in JobOf("main")
    BY <1>1, NextJobType DEF Walks
  <2>2. QED
    BY <1>1, <2>1, Moved DEF EnsureFileExists
<1>3. file' = file /\ Elsewhere("main") /\ UNCHANGED <<cut, failed, broken, proc>>
  BY DEF EnsureFileExists, diskVars, Elsewhere, history
<1>4. TypeOK'
  BY <1>2, JobTypeOK DEF TypeOK, EnsureFileExists, diskVars, history
<1>5. job'["main"].at \in {"stat", "get", "command"}
  <2>1. AfterItem(job["main"].n).at \in {"stat", "command"}
    BY DEF AfterItem, Job
  <2>2. Job("get", job["main"].n).at = "get"
    BY DEF Job
  <2>3. job'["main"] \in {AfterItem(job["main"].n), Job("get", job["main"].n)}
    BY <1>2
  <2>4. QED
    BY <2>1, <2>2, <2>3
<1>6. FetchInv'
  <2>1. FetchOk("main")'
    BY <1>5 DEF FetchOk
  <2>2. QED
    BY <1>1, <1>2, <1>3, <2>1, FetchStep
<1>7. MainInv'
  <2>1. SUFFICES ASSUME ~failed
                 PROVE  MainInv'
    BY <1>3 DEF MainInv
  <2>2. x \in Broken(file') => x \in broken
    BY <1>1, <1>3, <2>1 DEF MainInv
  <2>3. CASE job'["main"] = AfterItem(job["main"].n) /\ file[<<x, "">>] # "absent"
    BY <1>1, <1>3, <2>1, <2>2, <2>3, MainPasses
  <2>4. CASE job'["main"] = Job("get", job["main"].n)
    BY <1>1, <1>3, <2>1, <2>2, <2>4, MainStays DEF Walks
  <2>5. QED
    BY <1>2, <2>3, <2>4
<1>8. BrokenOnlyByExtraction'
  BY <1>1, <1>2, <1>3, BrokenStep
<1>9. QED
  BY <1>4, <1>6, <1>7, <1>8

\* The commands come last, and each one needs appium itself, the first.
LEMMA CommandIInv ==
    ASSUME IInv, proc = "up", RunCommand \/ CommandFails
    PROVE  IInv'
<1> USE DEF IInv
<1> DEFINE n == job["main"].n
<1>1. job["main"].at = "command" /\ "main" \in Worker /\ n \in DOMAIN Command
  BY CommandJob DEF RunCommand, CommandFails, Worker
<1>2. /\ job'["main"] = AfterCommand(n)
      /\ DOMAIN job' = Worker /\ \A w \in Worker : job'[w] \in JobOf(w)
      /\ \A w \in Worker \ {"main"} : job'[w] = job[w] /\ body'[w] = body[w]
  <2>1. AfterCommand(n) \in JobOf("main")
    BY <1>1, CommandType DEF JobOf
  <2>2. QED
    BY <1>1, <2>1, Moved DEF RunCommand, CommandFails
<1>3. file' = file /\ Elsewhere("main") /\ UNCHANGED <<cut, broken, proc>>
  BY DEF RunCommand, CommandFails, diskVars, Elsewhere, history
<1>h. failed' \in BOOLEAN /\ (~failed' => ~failed /\ RunCommand)
  BY <1>1, HurtsType DEF RunCommand, CommandFails, history
<1>4. TypeOK'
  <2>1. appium' \subseteq Installable
    BY <1>1 DEF TypeOK, RunCommand, CommandFails, diskVars, Installable
  <2>2. faults' \in 0..MaxFaults
    BY FaultType DEF RunCommand, CommandFails
  <2>3. QED
    BY <1>2, <1>3, <1>h, <2>1, <2>2, JobTypeOK DEF TypeOK, RunCommand, CommandFails, diskVars,
       history
<1>5. job'["main"].at \in {"command", "done"}
  BY <1>2 DEF AfterCommand, Job
<1>6. FetchInv'
  <2>1. FetchOk("main")'
    BY <1>5 DEF FetchOk
  <2>2. QED
    BY <1>1, <1>2, <1>3, <2>1, FetchStep
<1>7. MainInv'
  <2>1. SUFFICES ASSUME ~failed, RunCommand
                 PROVE  MainInv'
    BY <1>h DEF MainInv
  <2>2. \A k \in Ran' : k \in Ran \/ k = n
    BY <1>1, <1>2, CommandType DEF Ran, Walks, Job
  <2>3. n = 1 \/ 1 \in Ran
    BY <1>1, CommandType DEF Ran, Walks
  <2>4. Command[n] \in appium'
    BY <2>1, <2>3 DEF MainInv, RunCommand
  <2>5. \A k \in Ran' : Command[k] \in appium'
    BY <2>1, <2>2, <2>4 DEF MainInv, RunCommand
  <2>6. Passed' = Passed
    BY <1>1, <1>5 DEF Passed, Walks
  <2>7. Broken(file)' = Broken(file) /\ \A t \in Broken(file) : t \in broken
    BY <1>1, <1>3, <2>1 DEF MainInv, Broken
  <2>8. QED
    BY <1>3, <1>5, <2>1, <2>5, <2>6, <2>7 DEF MainInv
<1>8. BrokenOnlyByExtraction'
  BY <1>1, <1>2, <1>3, BrokenStep
<1>9. QED
  BY <1>4, <1>6, <1>7, <1>8

LEMMA StartServicesIInv ==
    ASSUME IInv, proc = "up", StartServices
    PROVE  IInv'
<1> USE DEF IInv
<1>1. /\ "watch" \in Worker /\ job["watch"].at = "none"
      /\ job'["watch"] = Job("stat", 1) /\ job'["main"] = job["main"]
      /\ DOMAIN job' = Worker /\ \A w \in Worker : job'[w] \in JobOf(w)
      /\ \A w \in Worker \ {"watch"} : job'[w] = job[w] /\ body'[w] = body[w]
  <2>1. Iphones \in Seq(Iphone) /\ Len(Iphones) > 0
    BY ProvisionAssumption DEF ProvisionAssumption
  <2>2. Job("stat", 1) \in JobOf("watch")
    BY <2>1 DEF JobOf, WatchJob, Job, Walks
  <2>3. QED
    BY <2>2, Moved DEF StartServices, Worker
<1>2. UNCHANGED <<proc, faults, diskVars, body, history>>
  BY DEF StartServices
<1>3. file' = file /\ UNCHANGED <<cut, failed, broken, appium>>
      /\ Elsewhere("watch")
  BY <1>2 DEF diskVars, history, Elsewhere
<1>4. TypeOK'
  BY <1>1, <1>2, JobTypeOK DEF TypeOK, diskVars, history
<1>5. FetchInv'
  <2>1. FetchOk("watch")'
    BY <1>1 DEF FetchOk, Job
  <2>2. QED
    BY <1>1, <1>2, <2>1, FetchStep
<1>6. MainInv'
  BY <1>1, <1>2, <1>3 DEF MainInv, Passed, Ran, Wanted, Target, Broken
<1>7. BrokenOnlyByExtraction'
  BY <1>1, <1>3, BrokenStep
<1>8. QED
  BY <1>4, <1>5, <1>6, <1>7

\* The watcher moves to another phone, or on with this one.
LEMMA PhoneStep ==
    ASSUME IInv, proc = "up", job["watch"].at \in {"stat", "auto"},
           NEW j \in JobOf("watch"), j.at \in {"stat", "get"}, Moves("watch", j),
           UNCHANGED <<proc, faults, diskVars, body, history>>
    PROVE  IInv'
<1> USE DEF IInv
<1>1. /\ "watch" \in Worker
      /\ job["watch"].at \in Walks \cup {"auto"} /\ job["watch"].at # "extract"
  BY DEF Worker, Walks
<1>2. /\ job'["watch"] = j /\ job'["main"] = job["main"]
      /\ DOMAIN job' = Worker /\ \A w \in Worker : job'[w] \in JobOf(w)
      /\ \A w \in Worker \ {"watch"} : job'[w] = job[w] /\ body'[w] = body[w]
  BY <1>1, Moved DEF Worker
<1>3. UNCHANGED <<file, appium, cut, failed, broken>> /\ Elsewhere("watch")
  BY DEF diskVars, history, Elsewhere
<1>4. TypeOK'
  BY <1>1, <1>2, <1>3, JobTypeOK DEF TypeOK
<1>5. FetchInv'
  <2>1. FetchOk("watch")'
    BY <1>2 DEF FetchOk
  <2>2. QED
    BY <1>1, <1>2, <2>1, FetchStep
<1>6. MainInv'
  BY <1>1, <1>2, <1>3, WatchKeepsMain
<1>7. BrokenOnlyByExtraction'
  BY <1>1, <1>2, <1>3, BrokenStep
<1>8. QED
  BY <1>4, <1>5, <1>6, <1>7

LEMMA PhoneJob ==
    ASSUME TypeOK, job["watch"].at \in {"stat", "auto"}
    PROVE  /\ AfterPhone(job["watch"].n) \in JobOf("watch")
           /\ AfterPhone(job["watch"].n).at = "stat"
           /\ Job("get", job["watch"].n) \in JobOf("watch")
           /\ Job("get", job["watch"].n).at = "get"
<1>1. AfterPhone(job["watch"].n).at = "stat" /\ Job("get", job["watch"].n).at = "get"
  BY DEF AfterPhone, Job
<1>2. QED
  BY <1>1, NextJobType DEF Worker, Walks

LEMMA SyncDiskImagesIInv ==
    ASSUME IInv, proc = "up", SyncDiskImages
    PROVE  IInv'
<1> USE DEF IInv
<1>1. job["watch"].at = "stat" /\ UNCHANGED <<proc, faults, diskVars, body, history>>
  BY DEF SyncDiskImages
<1>2. PICK j \in {AfterPhone(job["watch"].n), Job("get", job["watch"].n)} : Moves("watch", j)
  BY DEF SyncDiskImages
<1>3. QED
  BY <1>1, <1>2, PhoneJob, PhoneStep

LEMMA ImageAutoIInv ==
    ASSUME IInv, proc = "up", ImageAuto
    PROVE  IInv'
<1> USE DEF IInv
<1>1. /\ job["watch"].at = "auto" /\ UNCHANGED <<proc, faults, diskVars, body, history>>
      /\ Moves("watch", AfterPhone(job["watch"].n))
  BY DEF ImageAuto
<1>2. QED
  BY <1>1, PhoneJob, PhoneStep

-----------------------------------------------------------------------------
(* The process ends and starts.                                            *)

LEMMA CrashIInv == ASSUME IInv, Crash PROVE IInv'
<1> USE DEF IInv
<1>1. UNCHANGED <<file, appium, job, body, broken, failed>>
      /\ proc' = "down" /\ cut \subseteq cut'
  BY DEF Crash, diskVars, jobVars
<1>2. \A w \in Worker : Wanted(w)' = Wanted(w)
  BY <1>1 DEF Wanted
<1>3. TypeOK'
  <2>1. faults' \in 0..MaxFaults
    BY FaultType DEF Crash
  <2>2. \A w \in Worker : job[w].at = "extract" => Wanted(w) \in Tool \cup Version
    BY WantedType DEF Walks
  <2>3. cut' \subseteq Tool \cup Version
    BY <2>2 DEF Crash, TypeOK
  <2>4. QED
    BY <1>1, <2>1, <2>3 DEF TypeOK
<1>4. FetchInv'
  BY <1>1, <1>2 DEF FetchInv, FetchOk, Crash
<1>5. MainInv'
  BY <1>1 DEF MainInv, Passed, Ran, Wanted, Target, Broken
<1>6. BrokenOnlyByExtraction'
  BY <1>1, <1>2 DEF BrokenOnlyByExtraction
<1>7. QED
  BY <1>3, <1>4, <1>5, <1>6

\* A fresh job of each worker.
LEMMA FreshJobs ==
    LET fresh == [c \in Worker |-> IF c = "main" THEN Job("stat", 1) ELSE Job("none", 1)]
    IN  /\ DOMAIN fresh = Worker /\ \A w \in Worker : fresh[w] \in JobOf(w)
        /\ \A w \in Worker : fresh[w].at \in {"stat", "none"}
        /\ fresh["main"].at = "stat" /\ fresh["main"].n = 1
<1>1. /\ Items \in Seq(Tool) /\ Len(Items) > 0
      /\ Iphones \in Seq(Iphone) /\ Len(Iphones) > 0
  BY ProvisionAssumption DEF ProvisionAssumption
<1>2. 1 \in DOMAIN Items /\ 1 \in DOMAIN Iphones
  BY <1>1
<1>3. QED
  BY <1>2 DEF JobOf, MainJob, WatchJob, Job, Walks, Worker

LEMMA NothingPassed ==
    ASSUME job'["main"].at = "stat", job'["main"].n = 1
    PROVE  Passed' = {} /\ Ran' = {}
<1>1. Items \in Seq(Tool)
  BY ProvisionAssumption DEF ProvisionAssumption
<1>2. \A m \in DOMAIN Items : ~(m < 1)
  BY <1>1
<1>3. QED
  BY <1>2 DEF Passed, Ran, Walks

LEMMA RestartIInv == ASSUME IInv, Restart PROVE IInv'
<1> USE DEF IInv
<1>1. /\ DOMAIN job' = Worker /\ \A w \in Worker : job'[w] \in JobOf(w)
      /\ \A w \in Worker : job'[w].at \in {"stat", "none"}
      /\ job'["main"].at = "stat" /\ job'["main"].n = 1
  BY FreshJobs DEF Restart
<1>2. /\ UNCHANGED <<file, appium, faults, cut>>
      /\ proc = "down" /\ proc' = "up" /\ broken' = Broken(file)
      /\ failed' = FALSE /\ body' = [c \in Worker |-> "absent"]
  BY DEF Restart, diskVars
<1>3. TypeOK'
  BY <1>1, <1>2, JobTypeOK DEF TypeOK, Broken, Content
<1>4. FetchInv'
  BY <1>1 DEF FetchInv, FetchOk
<1>5. MainInv'
  <2>1. Broken(file)' = Broken(file)
    BY <1>2 DEF Broken
  <2>2. Passed' = {} /\ Ran' = {}
    BY <1>1, NothingPassed
  <2>3. QED
    BY <1>1, <1>2, <2>1, <2>2 DEF MainInv
<1>6. BrokenOnlyByExtraction'
  BY <1>2 DEF BrokenOnlyByExtraction, FetchInv, FetchOk
<1>7. QED
  BY <1>3, <1>4, <1>5, <1>6

LEMMA InitIInv == Init => IInv
<1> SUFFICES ASSUME Init
             PROVE  IInv
  OBVIOUS
<1>1. /\ DOMAIN job = Worker /\ \A w \in Worker : job[w] \in JobOf(w)
      /\ \A w \in Worker : job[w].at \in {"stat", "none"}
      /\ job["main"].at = "stat" /\ job["main"].n = 1
  BY FreshJobs DEF Init
<1>2. TypeOK
  <2>1. job["main"] \in MainJob /\ job["watch"] \in WatchJob
    BY <1>1 DEF JobOf, Worker
  <2>2. 0 \in 0..MaxFaults
    BY ProvisionAssumption DEF ProvisionAssumption
  <2>3. QED
    BY <1>1, <2>1, <2>2 DEF TypeOK, Init, MainJob, WatchJob, Walks, Content
<1>3. \A p \in Path : file[p] = "absent"
  BY DEF Init
<1>4. \A x \in Tool \cup Version : file[<<x, "">>] = "absent"
  BY <1>3, PathType
<1>5. Passed = {} /\ Ran = {}
  <2>1. Items \in Seq(Tool)
    BY ProvisionAssumption DEF ProvisionAssumption
  <2>2. \A m \in DOMAIN Items : ~(m < 1)
    BY <2>1
  <2>3. QED
    BY <1>1, <2>2 DEF Passed, Ran, Walks
<1>6. FetchInv /\ MainInv
  <2>1. Broken(file) = {}
    BY <1>4 DEF Broken
  <2>2. QED
    BY <1>1, <1>5, <2>1 DEF FetchInv, FetchOk, MainInv
<1>7. BrokenOnlyByExtraction
  BY <1>4, PathType DEF BrokenOnlyByExtraction, Init
<1>8. QED
  BY <1>2, <1>6, <1>7 DEF IInv

-----------------------------------------------------------------------------
(* What the specification has by its inductive invariant.                  *)

LEMMA NextIInv == IInv /\ [Next]_provisionVars => IInv'
<1> SUFFICES ASSUME IInv, [Next]_provisionVars
             PROVE  IInv'
  OBVIOUS
<1>1. CASE UNCHANGED provisionVars
  <2>1. UNCHANGED <<proc, faults, file, appium, job, body, broken, failed,
                    cut>>
    BY <1>1 DEF provisionVars, diskVars, jobVars, history
  <2>2. TypeOK' /\ FetchInv'
    BY <2>1 DEF IInv, TypeOK, FetchInv, FetchOk, Wanted
  <2>3. MainInv'
    BY <2>1 DEF IInv, MainInv, Passed, Ran, Wanted, Target, Broken
  <2>4. BrokenOnlyByExtraction'
    BY <2>1 DEF IInv, BrokenOnlyByExtraction, Wanted
  <2>5. QED
    BY <2>2, <2>3, <2>4 DEF IInv
<1>2. ASSUME NEW c \in Worker, proc = "up", Fetches(c)
      PROVE  IInv'
  BY <1>2, GotIInv, GetFailsIInv, CopiedIInv, CopyFailsIInv, UnzipIInv, ExtractedIInv,
     ExtractFailsIInv DEF Fetches
<1>3. CASE proc = "up" /\ Prepare
  BY <1>2, <1>3, EnsureFileExistsIInv, CommandIInv, StartServicesIInv DEF Prepare, Worker
<1>4. CASE proc = "up" /\ SyncImages
  BY <1>2, <1>4, SyncDiskImagesIInv, ImageAutoIInv DEF SyncImages, Worker
<1>5. QED
  BY <1>1, <1>3, <1>4, CrashIInv, RestartIInv DEF Next

LEMMA SpecIInv == Spec => []IInv
  BY InitIInv, NextIInv, PTL DEF Spec

\* Every variable keeps to the values the code can give it.
THEOREM TypeCorrect == Spec => []TypeOK
  BY SpecIInv, PTL DEF IInv

\* A start in which nothing fails repairs what earlier starts left undone: it passes
\* every tool, so none is missing, and the incomplete ones were so at its begin.
LEMMA Repairs == IInv => StartRepairs
<1> SUFFICES ASSUME IInv, job["main"].at = "done", ~failed
             PROVE  /\ \A t \in Tool : file[<<t, "">>] = "whole" \/ t \in broken
                    /\ appium = Installable
  BY DEF StartRepairs
<1> USE DEF IInv
<1>1. Passed = DOMAIN Items /\ Ran = DOMAIN Command
  BY DEF Passed, Ran, Walks
<1>2. \A t \in Tool : file[<<t, "">>] # "absent"
  BY <1>1 DEF MainInv, Tool
<1>3. \A t \in Tool : t \in Broken(file) => t \in broken
  BY DEF MainInv
<1>4. \A t \in Tool : file[<<t, "">>] \in Content
  BY PathType DEF TypeOK
<1>5. \A t \in Tool : file[<<t, "">>] = "whole" \/ t \in broken
  BY <1>2, <1>3, <1>4 DEF Content, Broken
<1>6. appium = Installable
  BY <1>1 DEF MainInv, TypeOK, Installable
<1>7. QED
  BY <1>5, <1>6

THEOREM StartRepairsCorrect == Spec => []StartRepairs
  BY SpecIInv, Repairs, PTL

\* What comes in an archive is incomplete only by an extraction that was cut short.
THEOREM BrokenCorrect == Spec => []BrokenOnlyByExtraction
  BY SpecIInv, PTL DEF IInv
=============================================================================
