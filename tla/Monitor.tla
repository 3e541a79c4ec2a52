-------------------------------- MODULE Monitor --------------------------------
(***************************************************************************)
(* How the dictionary of LiveDictionary comes to be and is kept up to date:*)
(* Initial (src/dic/dictionary.go), called by everyone who builds an       *)
(* analyzer or a tokenizer (elasticsearch and opensearch), and the monitors*)
(* of the remote lists (src/dic/monitor.go), polled in turn by one worker. *)
(*                                                                         *)
(* The servers are external: they put up new versions of their lists at    *)
(* any time and answer conditional requests; requests may fail.  The body  *)
(* of an answer ends: no timeout of the code covers one that does not.     *)
(***************************************************************************)
EXTENDS LiveDictionary, JavaText

CONSTANTS
    Callers,          \* goroutines that build analyzers
    Requests,         \* what they ask for: [settings, env], see Initial below
    MainFiles, CriticalFiles, StopFiles,     \* local files, in order
    RemoteMain, RemoteStop,                  \* remote lists, in order
    RemoteWords,      \* the lines of each version of each remote list
    Tags,             \* its headers: [lastModified, eTag], or Absent
    MaxVersion,       \* bound: versions of each list
    MaxFailures       \* bound: requests that fail

Remote    == RemoteMain \o RemoteStop
Critical  == {CriticalFiles[i] : i \in 1..Len(CriticalFiles)}
Locations == {Remote[i] : i \in 1..Len(Remote)}
Versions  == 1..MaxVersion
Missing   == 0         \* instead of a version: the download failed
NoConfiguration == [enableRemoteDict |-> FALSE, env |-> [file \in {} |-> <<>>]]
Absent    == ""        \* instead of a header
NoTags    == [lastModified |-> Absent, eTag |-> Absent]

VARIABLES
    version,          \* the version each server has up
    failures,         \* the requests that failed
    state,            \* how far each caller of Initial is
    configuration,    \* the configuration it brings
    singletonMu,      \* the caller that holds the lock, or None
    owner,            \* the caller whose dictionary was stored, or None
    toSchedule,       \* the locations Initial still has to schedule
    tasks,            \* the monitors: [location, lastModified, eTag]
    queue,            \* those the worker has still to poll in this round
    phase,            \* of the poll: "poll", "reload" or "record"
    answer,           \* the headers that made it reload
    sources,          \* files and lists still to be read by the load
    got,              \* history: the versions the load has read
    inUse             \* history: those the load in force has read

servers  == <<version, failures>>
initial  == <<state, configuration, singletonMu, owner, toSchedule>>
polling  == <<tasks, queue, phase, answer>>
progress == <<sources, got, inUse>>
mvars    == <<dvars, servers, initial, polling, progress>>

MonitorInit ==
    /\ DictInit
    /\ version = [l \in Locations |-> 1] /\ failures = 0
    /\ state = [c \in Callers |-> "outside"]
    /\ configuration = [c \in Callers |-> NoConfiguration]
    /\ singletonMu = None /\ owner = None /\ toSchedule = <<>>
    /\ tasks = <<>> /\ queue = <<>> /\ phase = "poll" /\ answer = NoTags
    /\ sources = <<>>
    /\ got = [l \in Locations |-> Missing] /\ inUse = got

ServerChanges(l) ==
    /\ version[l] < MaxVersion
    /\ version' = [version EXCEPT ![l] = @ + 1]
    /\ UNCHANGED <<dvars, failures, initial, polling, progress>>

-----------------------------------------------------------------------------
(* Reading the files and lists of a load.  What is remote is put in small  *)
(* letters, what is local is not.                                          *)
KindOfSource(source) ==
    IF \E i \in 1..Len(StopFiles \o RemoteStop) : (StopFiles \o RemoteStop)[i] = source
    THEN "stop" ELSE "main"

Normal(source, word) ==
    IF source \in Locations THEN ToLower(Trim(word)) ELSE Trim(word)

Lines(source, words) ==
    [i \in 1..Len(words) |-> [kind |-> KindOfSource(source),
                              word |-> Normal(source, words[i])]]

(* Every file and list has a name of its own, and the lines that can be    *)
(* read from them are lines that LiveDictionary may load.                  *)
Names == MainFiles \o CriticalFiles \o StopFiles \o Remote
FilesListed == {Names[i] : i \in 1..Len(Names)} \ Locations

ASSUME MonitorAssumption ==
    /\ None \notin Callers /\ MaxVersion \in Nat \ {0} /\ MaxFailures \in Nat
    /\ {MainFiles, CriticalFiles, StopFiles, RemoteMain, RemoteStop} \subseteq Seq(STRING)
    /\ \A i, j \in 1..Len(Names) : Names[i] = Names[j] => i = j
    /\ <<>> \in Loads
    /\ \A request \in Requests :
          /\ DOMAIN request.env \subseteq FilesListed
          /\ \A file \in DOMAIN request.env : /\ request.env[file] \in Seq(Seq(Char))
                                            /\ Lines(file, request.env[file]) \in Loads
    /\ \A l \in Locations, v \in Versions : /\ RemoteWords[l][v] \in Seq(Seq(Char))
                                          /\ Lines(l, RemoteWords[l][v]) \in Loads

(* The configuration of the load: that of the caller which loads, or of    *)
(* the one that did.                                                       *)
Files == configuration[IF owner = None THEN singletonMu ELSE owner].env

(* A file that is missing is left out, unless it is critical.              *)
ReadFile ==
    /\ sources # <<>> /\ Head(sources) \notin Locations
    /\ Head(sources) \in Critical => Head(sources) \in DOMAIN Files
    /\ ReadLines(IF Head(sources) \in DOMAIN Files /\ Head(sources) \notin Critical
                 THEN Lines(Head(sources), Files[Head(sources)]) ELSE <<>>)
    /\ sources' = Tail(sources)
    /\ UNCHANGED <<servers, initial, polling, got, inUse>>

(* getRemoteWords: the lines of the list as it is now, or, if the request  *)
(* fails, the answer is bad or its charset unknown, no lines.              *)
Get ==
    /\ sources # <<>> /\ Head(sources) \in Locations
    /\ LET l == Head(sources)
       IN  /\ ReadLines(Lines(l, RemoteWords[l][version[l]]))
           /\ got' = [got EXCEPT ![l] = version[l]]
    /\ sources' = Tail(sources)
    /\ UNCHANGED <<servers, initial, polling, inUse>>

GetFails ==
    /\ sources # <<>> /\ Head(sources) \in Locations /\ failures < MaxFailures
    /\ ReadLines(<<>>)
    /\ got' = [got EXCEPT ![Head(sources)] = Missing]
    /\ failures' = failures + 1
    /\ sources' = Tail(sources)
    /\ UNCHANGED <<version, initial, polling, inUse>>

FillWord == LoadWord /\ UNCHANGED <<servers, initial, polling, progress>>

AllRead == sources = <<>> /\ toLoad = <<>>

-----------------------------------------------------------------------------
(* NewConfigurationSub reads the settings of an index, where only "true"   *)
(* is true, and calls Initial with them.                                   *)
Setting(settings, key, default) ==
    IF key \in DOMAIN settings THEN settings[key] ELSE default

NewConfigurationSub(request) ==
    [enableRemoteDict |-> Setting(request.settings, "enable_remote_dict", "true") = "true",
     env              |-> request.env]

CallInitial(c, request) ==
    /\ state[c] = "outside"
    /\ configuration' = [configuration EXCEPT ![c] = NewConfigurationSub(request)]
    /\ state' = [state EXCEPT ![c] = IF live # 0 THEN "returned" ELSE "waiting"]
    /\ UNCHANGED <<dvars, servers, singletonMu, owner, toSchedule, polling, progress>>

(* The lock is free, but somebody else was faster.                         *)
InitialTooLate(c) ==
    /\ state[c] = "waiting" /\ singletonMu = None /\ live # 0
    /\ state' = [state EXCEPT ![c] = "returned"]
    /\ UNCHANGED <<dvars, servers, configuration, singletonMu, owner, toSchedule,
                   polling, progress>>

(* Faulty: whether there is a dictionary is not asked again.               *)
EnterInitialAnyway(c) ==
    /\ state[c] = "waiting" /\ singletonMu = None
    /\ StartLoad
    /\ sources' = MainFiles \o RemoteMain \o CriticalFiles \o StopFiles \o RemoteStop
    /\ state' = [state EXCEPT ![c] = "loading"]
    /\ singletonMu' = c
    /\ UNCHANGED <<servers, configuration, owner, toSchedule, polling, got, inUse>>

EnterInitial(c) ==
    /\ state[c] = "waiting" /\ singletonMu = None /\ live = 0
    /\ StartLoad
    /\ sources' = MainFiles \o RemoteMain \o CriticalFiles \o StopFiles \o RemoteStop
    /\ state' = [state EXCEPT ![c] = "loading"]
    /\ singletonMu' = c
    /\ UNCHANGED <<servers, configuration, owner, toSchedule, polling, got, inUse>>

(* Faulty: the lock is not released on the way out.                        *)
CriticalFileMissingLocked(c) ==
    /\ singletonMu = c /\ sources # <<>> /\ Head(sources) \in Critical \ DOMAIN Files
    /\ DropLoad
    /\ sources' = <<>>
    /\ state' = [state EXCEPT ![c] = "panicked"]
    /\ UNCHANGED <<servers, configuration, singletonMu, owner, toSchedule, polling,
                   got, inUse>>

(* The panic gives up the lock, and the next caller tries again.           *)
CriticalFileMissing(c) ==
    /\ singletonMu = c /\ sources # <<>> /\ Head(sources) \in Critical \ DOMAIN Files
    /\ DropLoad
    /\ sources' = <<>>
    /\ state' = [state EXCEPT ![c] = "panicked"]
    /\ singletonMu' = None
    /\ UNCHANGED <<servers, configuration, owner, toSchedule, polling, got, inUse>>

StoreSingleton(c) ==
    /\ singletonMu = c /\ state[c] = "loading" /\ AllRead
    /\ Publish
    /\ inUse' = got
    /\ owner' = c
    /\ state' = [state EXCEPT ![c] = "scheduling"]
    /\ toSchedule' = IF configuration[c].enableRemoteDict THEN Remote ELSE <<>>
    /\ UNCHANGED <<servers, configuration, singletonMu, polling, sources, got>>

(* scheduleAtFixedRate, a location at a time; the worker is there from the *)
(* first one on.                                                           *)
ScheduleMonitor(c) ==
    /\ state[c] = "scheduling" /\ toSchedule # <<>>
    /\ tasks' = Append(tasks, [location     |-> Head(toSchedule),
                               lastModified |-> Absent, eTag |-> Absent])
    /\ toSchedule' = Tail(toSchedule)
    /\ UNCHANGED <<dvars, servers, state, configuration, singletonMu, owner, queue,
                   phase, answer, progress>>

InitialReturned(c) ==
    /\ state[c] = "scheduling" /\ toSchedule = <<>>
    /\ state' = [state EXCEPT ![c] = "returned"]
    /\ singletonMu' = None
    /\ UNCHANGED <<dvars, servers, configuration, owner, toSchedule, polling, progress>>

-----------------------------------------------------------------------------
(* A tick: the worker polls the monitors that there are, one by one.       *)
StartRound ==
    /\ queue = <<>> /\ tasks # <<>>
    /\ queue' = [i \in 1..Len(tasks) |-> i]
    /\ UNCHANGED <<dvars, servers, initial, tasks, phase, answer, progress>>

Polled   == tasks[Head(queue)]
Response == Tags[Polled.location][version[Polled.location]]

(* External: the server compares the ETag if the request carries one, and  *)
(* the date if not.                                                        *)
NotModified == IF Polled.eTag # Absent THEN Polled.eTag = Response.eTag
               ELSE Polled.lastModified # Absent /\ Polled.lastModified = Response.lastModified

(* Faulty: only the ETag is looked at.                                     *)
ChangedByETag == Response.eTag # Absent /\ Response.eTag # Polled.eTag

Changed == \/ Response.lastModified # Absent /\ Response.lastModified # Polled.lastModified
           \/ Response.eTag # Absent /\ Response.eTag # Polled.eTag

(* The HEAD fails, or the answer is neither 200 nor 304.                   *)
HeadFails ==
    /\ queue # <<>> /\ phase = "poll" /\ failures < MaxFailures
    /\ failures' = failures + 1
    /\ queue' = Tail(queue)
    /\ UNCHANGED <<dvars, version, initial, tasks, phase, answer, progress>>

HeadUnchanged ==
    /\ queue # <<>> /\ phase = "poll" /\ (NotModified \/ ~Changed)
    /\ queue' = Tail(queue)
    /\ UNCHANGED <<dvars, servers, initial, tasks, phase, answer, progress>>

(* Faulty: the headers are recorded before the lists are read.             *)
HeadChangedRecords ==
    /\ queue # <<>> /\ phase = "poll" /\ ~NotModified /\ Changed
    /\ StartLoad
    /\ sources' = MainFiles \o RemoteMain \o StopFiles \o RemoteStop
    /\ phase' = "reload"
    /\ answer' = Response
    /\ tasks' = [tasks EXCEPT ![Head(queue)].lastModified = Response.lastModified,
                              ![Head(queue)].eTag = Response.eTag]
    /\ UNCHANGED <<servers, initial, queue, got, inUse>>

(* Something is new: everything is loaded again.                           *)
HeadChanged ==
    /\ queue # <<>> /\ phase = "poll" /\ ~NotModified /\ Changed
    /\ StartLoad
    /\ sources' = MainFiles \o RemoteMain \o StopFiles \o RemoteStop
    /\ phase' = "reload"
    /\ answer' = Response
    /\ UNCHANGED <<servers, initial, tasks, queue, got, inUse>>

(* Faulty: the main dictionary is swapped in before the stop words are     *)
(* read.                                                                   *)
PublishReloadEarly ==
    /\ phase = "reload" /\ (\A i \in 1..Len(sources) : KindOfSource(sources[i]) = "stop")
    /\ Publish
    /\ inUse' = got
    /\ phase' = "record"
    /\ sources' = <<>>
    /\ UNCHANGED <<servers, initial, tasks, queue, answer, got>>

PublishReload ==
    /\ phase = "reload" /\ AllRead
    /\ Publish
    /\ inUse' = got
    /\ phase' = "record"
    /\ UNCHANGED <<servers, initial, tasks, queue, answer, sources, got>>

(* The headers are recorded, whether or not the lists could be read.       *)
RecordTags ==
    /\ phase = "record"
    /\ tasks' = [tasks EXCEPT ![Head(queue)].lastModified = answer.lastModified,
                              ![Head(queue)].eTag = answer.eTag]
    /\ queue' = Tail(queue)
    /\ phase' = "poll"
    /\ UNCHANGED <<dvars, servers, initial, answer, progress>>

-----------------------------------------------------------------------------
Load == ReadFile \/ Get \/ GetFails \/ FillWord

InsideInitial(c) == \/ InitialTooLate(c)
                    \/ EnterInitial(c)
                    \/ CriticalFileMissing(c)
                    \/ StoreSingleton(c)
                    \/ ScheduleMonitor(c)
                    \/ InitialReturned(c)

Worker == \/ StartRound
          \/ HeadFails
          \/ HeadUnchanged
          \/ HeadChanged
          \/ PublishReload
          \/ RecordTags

MonitorNext == \/ \E l \in Locations : ServerChanges(l)
               \/ \E c \in Callers, request \in Requests : CallInitial(c, request)
               \/ \E c \in Callers : InsideInitial(c)
               \/ Load
               \/ Worker

(* The goroutine inside Initial and the worker run on: a request ends, and *)
(* nobody holds the write lock for good.                                   *)
Fairness == /\ \A c \in Callers : WF_mvars(InsideInitial(c))
            /\ WF_mvars(Load)
            /\ WF_mvars(Worker)

MonitorSpec == MonitorInit /\ [][MonitorNext]_mvars /\ Fairness

-----------------------------------------------------------------------------
(* Every variable has its type; the lock of Initial is held by the caller  *)
(* that loads or schedules and by no other; tries are being filled only    *)
(* for that caller or for the reload of the worker.                        *)
MonitorTypeOK ==
    /\ DictTypeOK
    /\ version \in [Locations -> Versions] /\ failures \in 0..MaxFailures
    /\ \A c \in Callers : (singletonMu = c) <=> state[c] \in {"loading", "scheduling"}
    /\ owner \in Callers \cup {None}
    /\ Loading <=> (phase = "reload" \/ \E c \in Callers : state[c] = "loading")
    /\ phase \in {"poll", "reload", "record"}
    /\ phase # "poll" => queue # <<>>
    /\ \A i \in 1..Len(queue) : queue[i] \in 1..Len(tasks)
    /\ got \in [Locations -> Versions \cup {Missing}]
    /\ inUse \in [Locations -> Versions \cup {Missing}]

(* There is one dictionary, however many callers race for it: it is that   *)
(* of one of them, every caller returns only when it is there, and the     *)
(* lists are monitored if its configuration says so and no list twice      *)
(* (dictionary.go:114-141).                                                *)
OneDictionary ==
    /\ (live = 0) <=> (owner = None)
    /\ \A c \in Callers : state[c] = "returned" => owner # None
    /\ owner # None =>
          [i \in 1..Len(tasks) |-> tasks[i].location] \o toSchedule
             = IF configuration[owner].enableRemoteDict THEN Remote ELSE <<>>

(* What comes into force is all that was read from files and servers, and  *)
(* nothing else: never a part of a load, never a mixture of two            *)
(* (dictionary.go:451-453).                                                *)
WordsIn(words) == {Trim(words[i]) : i \in 1..Len(words)} \ {<<>>}

FileWords(kind) ==
    UNION {WordsIn(Files[file]) :
              file \in {f \in DOMAIN Files : f \notin Critical /\ KindOfSource(f) = kind}}

ListWords(kind, versions) ==
    UNION {{ToLower(word) : word \in WordsIn(RemoteWords[l][versions[l]])} :
              l \in {l \in Locations : KindOfSource(l) = kind /\ versions[l] # Missing}}

ReloadIsWhole ==
    [][live' # live =>
         \A kind \in Kinds :
            WordsOf(tries'[live'][kind]) = FileWords(kind) \cup ListWords(kind, got)]_mvars

(* A monitor never believes in a version later than the one whose words    *)
(* are in force, though lists change between the HEAD and the GET and      *)
(* though other monitors reload them too (monitor.go:73-82): else a change *)
(* would be missed for good.                                               *)
MonitorsTrail ==
    \A i \in 1..Len(tasks) :
       LET l == tasks[i].location
       IN  \/ inUse[l] = Missing
           \/ tasks[i].lastModified = Absent /\ tasks[i].eTag = Absent
           \/ \E v \in 1..inUse[l] : /\ Tags[l][v].lastModified = tasks[i].lastModified
                                     /\ Tags[l][v].eTag = tasks[i].eTag

(* Initial returns, or panics, for every caller: a missing file does not   *)
(* shut out those who wait (dictionary.go:118-121, 184).                   *)
InitialReturns ==
    \A c \in Callers : state[c] = "waiting" ~> state[c] \in {"returned", "panicked"}

(* When servers and network have come to rest, every list that is          *)
(* monitored is in force as it is, or its download failed when it was last *)
(* read (monitor.go:74-82).                                                *)
EveryChangeSettles ==
    <>[](\A i \in 1..Len(tasks) :
            LET l == tasks[i].location IN inUse[l] \in {version[l], Missing})

-----------------------------------------------------------------------------
(* README.md:139: if either header changes, the words are fetched.  A      *)
(* download that fails is not tried again until the server's copy, or that *)
(* of another list, changes once more.                                     *)
EveryChangeArrives ==
    <>[](\A i \in 1..Len(tasks) :
            LET l == tasks[i].location IN inUse[l] = version[l])
=============================================================================
