----------------------------- MODULE MonitorProofs -----------------------------
(***************************************************************************)
(* How the dictionary comes to be and is kept up to date, for any number of*)
(* callers, files, lists, versions and failures: what happens is what      *)
(* LiveDictionary allows; one dictionary is made and no list is polled     *)
(* twice; what comes into force is all that was read and nothing else; and *)
(* no monitor believes in a version later than the one in force.           *)
(***************************************************************************)
EXTENDS Monitor, LiveDictionaryProofs, WellFoundedInduction

Configurations == {NoConfiguration} \cup {NewConfigurationSub(request) : request \in Requests}

Dates == {Absent} \cup {Tags[l][v].lastModified : l \in Locations, v \in Versions}
ETags == {Absent} \cup {Tags[l][v].eTag : l \in Locations, v \in Versions}
Task  == [location : Locations, lastModified : Dates, eTag : ETags]

ProgressTypes ==
    /\ version \in [Locations -> Versions]
    /\ got \in [Locations -> Versions \cup {Missing}]
    /\ inUse \in [Locations -> Versions \cup {Missing}]
    /\ \A l \in Locations : got[l] <= version[l] /\ inUse[l] <= version[l]
    /\ failures \in 0..MaxFailures
    /\ sources \in Seq(STRING)

(* The lock belongs to the caller that loads, before there is a dictionary,*)
(* or that schedules, when it is its own.                                  *)
InitialTypes ==
    /\ state \in [Callers -> {"outside", "waiting", "loading", "scheduling",
                              "returned", "panicked"}]
    /\ configuration \in [Callers -> Configurations]
    /\ singletonMu \in Callers \cup {None} /\ owner \in Callers \cup {None}
    /\ toSchedule \in Seq(Locations)
    /\ \A c \in Callers : (singletonMu = c) <=> state[c] \in {"loading", "scheduling"}
    /\ live = 0 <=> owner = None
    /\ owner # None => state[owner] \in {"scheduling", "returned"}
    /\ \A c \in Callers : /\ state[c] = "loading" => live = 0
                          /\ state[c] = "scheduling" => owner = c
                          /\ state[c] = "returned" => live # 0

PollingTypes ==
    /\ tasks \in Seq(Task) /\ queue \in Seq(1..Len(tasks))
    /\ answer.lastModified \in Dates /\ answer.eTag \in ETags
    /\ phase \in {"poll", "reload", "record"}
    /\ phase # "poll" => queue # <<>>
    /\ tasks # <<>> => live # 0

(* Only the caller that holds the lock and the worker load, never both.    *)
LoadingTypes ==
    /\ Loading <=> (phase = "reload" \/ \E c \in Callers : state[c] = "loading")
    /\ ~Loading => sources = <<>> /\ toLoad = <<>>

MTypeInv == ProgressTypes /\ InitialTypes /\ PollingTypes /\ LoadingTypes

-----------------------------------------------------------------------------
(* What is scheduled and what is still to be, in order.                    *)
LocationsOf(list) == [i \in 1..Len(list) |-> list[i].location]

ScheduleInv ==
    owner # None => LocationsOf(tasks) \o toSchedule
                       = IF configuration[owner].enableRemoteDict THEN Remote ELSE <<>>

(* Headers tell nothing, or they are those of a version up to this one.    *)
TagsUpTo(l, lastModified, eTag, v) ==
    \/ lastModified = Absent /\ eTag = Absent
    \/ \E w \in 1..v : Tags[l][w].lastModified = lastModified /\ Tags[l][w].eTag = eTag

Trails(l, lastModified, eTag, v) == v = Missing \/ TagsUpTo(l, lastModified, eTag, v)

Left == Range(sources)

(* What a monitor believes in was up once, and what was read since is not  *)
(* older; so is the answer that made the worker reload, once the reload is *)
(* past that list.                                                         *)
TrailInv ==
    /\ \A i \in 1..Len(tasks) :
          LET l == tasks[i].location
          IN  /\ TagsUpTo(l, tasks[i].lastModified, tasks[i].eTag, version[l])
              /\ Trails(l, tasks[i].lastModified, tasks[i].eTag, got[l])
              /\ Trails(l, tasks[i].lastModified, tasks[i].eTag, inUse[l])
    /\ phase # "poll" =>
          LET l == Polled.location
          IN  /\ TagsUpTo(l, answer.lastModified, answer.eTag, version[l])
              /\ l \in Left \/ Trails(l, answer.lastModified, answer.eTag, got[l])
              /\ phase = "record" =>
                    Trails(l, answer.lastModified, answer.eTag, inUse[l])

(* What a file or list holds for the load, if it has been read or was read  *)
(* now.                                                                    *)
Sources == Range(Names)

WordsFrom(source) ==
    IF source \in Locations
    THEN IF got[source] = Missing THEN {}
         ELSE {ToLower(word) : word \in WordsIn(RemoteWords[source][got[source]])}
    ELSE IF source \in DOMAIN Files \ Critical THEN WordsIn(Files[source]) ELSE {}

WordsRead(kind) ==
    UNION {WordsFrom(source) : source \in {source \in Sources \ Left :
                                              KindOfSource(source) = kind}}

WordsToFill(kind, lines) ==
    {lines[i].word : i \in {i \in 1..Len(lines) : lines[i].kind = kind}} \ {<<>>}

(* What is still to be read is a part of what there is, each once.         *)
LeftInv == Left \subseteq Sources /\ IsInjective(sources)

(* What has been loaded, with the lines still to be filled in, is what the *)
(* files and lists that have been read hold.                               *)
FilledInv ==
    Loading => \A kind \in Kinds : loaded[kind] \cup WordsToFill(kind, toLoad) = WordsRead(kind)

-----------------------------------------------------------------------------
(* Sequences and constants.                                                *)

LEMMA RangeFacts ==
  ASSUME NEW S, NEW s \in Seq(S)
  PROVE  /\ Range(s) = {s[i] : i \in 1..Len(s)} /\ Range(s) \subseteq S
         /\ \A x : x \in Range(s) <=> \E i \in 1..Len(s) : x = s[i]
         /\ IsInjective(s) <=> \A i, j \in 1..Len(s) : s[i] = s[j] => i = j
         /\ s = <<>> => Range(s) = {}
<1>1. DOMAIN s = 1..Len(s) /\ \A i \in 1..Len(s) : s[i] \in S
  OBVIOUS
<1>2. Range(s) = {s[i] : i \in 1..Len(s)}
  BY <1>1 DEF Range
<1>3. \A x : x \in Range(s) <=> \E i \in 1..Len(s) : x = s[i]
  BY <1>1 DEF Range
<1>4. IsInjective(s) <=> \A i, j \in 1..Len(s) : s[i] = s[j] => i = j
  BY <1>1 DEF IsInjective
<1>5. s = <<>> => Range(s) = {}
  <2>1. s = <<>> => Len(s) = 0
    OBVIOUS
  <2> QED
    BY <1>1, <2>1 DEF Range
<1> QED
  BY <1>1, <1>2, <1>3, <1>4, <1>5

LEMMA ConstantFacts ==
  /\ None \notin Callers /\ MaxVersion \in Nat \ {0} /\ MaxFailures \in Nat
  /\ Locations \subseteq STRING /\ Locations \subseteq Sources
  /\ Remote \in Seq(STRING) /\ Remote \in Seq(Locations)
  /\ Missing \notin Versions /\ Versions \subseteq Nat /\ 1 \in Versions
<1>1. MaxVersion \in Nat \ {0} /\ RemoteMain \in Seq(STRING) /\ RemoteStop \in Seq(STRING)
      /\ MainFiles \in Seq(STRING) /\ CriticalFiles \in Seq(STRING) /\ StopFiles \in Seq(STRING)
  BY MonitorAssumption
<1>2. Remote \in Seq(STRING)
  BY <1>1 DEF Remote
<1>3. Locations \subseteq STRING
  BY <1>2 DEF Locations
<1>4. Remote \in Seq(Locations)
  BY <1>2 DEF Locations
<1>5. Locations \subseteq Sources
  <2> DEFINE files == MainFiles \o CriticalFiles \o StopFiles
  <2>1. files \in Seq(STRING) /\ Names = files \o Remote
    BY <1>1 DEF Names
  <2> HIDE DEF files
  <2>2. \A i \in 1..Len(Remote) : /\ Len(files) + i \in 1..Len(Names)
                                  /\ Names[Len(files) + i] = Remote[i]
    BY <1>2, <2>1
  <2> QED
    <3>1. Names \in Seq(STRING)
      BY <1>2, <2>1
    <3>2. \A l \in Locations : \E i \in 1..Len(Remote) : l = Remote[i]
      BY DEF Locations
    <3>3. \A l \in Locations : \E i \in 1..Len(Names) : l = Names[i]
      BY <2>2, <3>2
    <3> QED
      BY <3>1, <3>3, RangeFacts DEF Sources
<1> QED
  BY <1>1, <1>2, <1>3, <1>4, <1>5, MonitorAssumption DEF Missing, Versions

(* Taking the first of a sequence away.                                    *)
LEMMA TailFacts ==
  ASSUME NEW S, NEW s \in Seq(S), s # <<>>
  PROVE  /\ Head(s) \in S /\ Tail(s) \in Seq(S)
         /\ Range(s) = {Head(s)} \cup Range(Tail(s))
         /\ IsInjective(s) => Head(s) \notin Range(Tail(s)) /\ IsInjective(Tail(s))
<1>1. /\ Head(s) \in S /\ Tail(s) \in Seq(S) /\ Len(s) \in Nat \ {0} /\ Head(s) = s[1]
      /\ Len(Tail(s)) = Len(s) - 1
      /\ \A i \in 1..Len(Tail(s)) : Tail(s)[i] = s[i + 1] /\ i + 1 \in 2..Len(s)
  BY HeadTailProperties
<1>2. {s[i] : i \in 1..Len(s)} = {Head(s)} \cup {Tail(s)[i] : i \in 1..Len(Tail(s))}
  <2>1. \A i \in 1..Len(s) : i = 1 \/ (i - 1 \in 1..Len(Tail(s)) /\ Tail(s)[i - 1] = s[i])
    <3> SUFFICES ASSUME NEW i \in 1..Len(s), i # 1
                 PROVE  i - 1 \in 1..Len(Tail(s)) /\ Tail(s)[i - 1] = s[i]
      OBVIOUS
    <3>1. i - 1 \in 1..Len(Tail(s)) /\ (i - 1) + 1 = i
      BY <1>1
    <3> QED
      BY <1>1, <3>1
  <2>2. 1 \in 1..Len(s) /\ \A i \in 1..Len(Tail(s)) : i + 1 \in 1..Len(s)
    BY <1>1
  <2> DEFINE first == Head(s)
             rest == Tail(s)
  <2>3. /\ \A i \in 1..Len(s) : i = 1 \/ (i - 1 \in 1..Len(rest) /\ rest[i - 1] = s[i])
        /\ \A i \in 1..Len(rest) : i + 1 \in 1..Len(s) /\ rest[i] = s[i + 1]
        /\ first = s[1] /\ 1 \in 1..Len(s)
    BY <1>1, <2>1, <2>2
  <2> HIDE DEF first, rest
  <2>4. {s[i] : i \in 1..Len(s)} \subseteq {first} \cup {rest[i] : i \in 1..Len(rest)}
    BY <2>3
  <2>5. {first} \cup {rest[i] : i \in 1..Len(rest)} \subseteq {s[i] : i \in 1..Len(s)}
    BY <2>3
  <2>6. {s[i] : i \in 1..Len(s)} = {first} \cup {rest[i] : i \in 1..Len(rest)}
    BY <2>4, <2>5
  <2> QED
    BY <2>6 DEF first, rest
<1>3. ASSUME \A i, j \in 1..Len(s) : s[i] = s[j] => i = j
      PROVE  /\ Head(s) \notin {Tail(s)[i] : i \in 1..Len(Tail(s))}
             /\ \A i, j \in 1..Len(Tail(s)) : Tail(s)[i] = Tail(s)[j] => i = j
  <2>1. \A i \in 1..Len(Tail(s)) : i + 1 \in 1..Len(s) /\ i + 1 # 1 /\ i \in Int
    BY <1>1
  <2>2. 1 \in 1..Len(s)
    BY <1>1
  <2> QED
    BY <1>1, <1>3, <2>1, <2>2
<1> QED
  BY <1>1, <1>2, <1>3, RangeFacts

(* Two sequences one after the other.                                      *)
LEMMA ConcatFacts ==
  ASSUME NEW S, NEW s \in Seq(S), NEW t \in Seq(S)
  PROVE  /\ s \o t \in Seq(S) /\ Range(s \o t) = Range(s) \cup Range(t)
         /\ IsInjective(s \o t) <=> /\ IsInjective(s) /\ IsInjective(t)
                                    /\ Range(s) \cap Range(t) = {}
<1> DEFINE u == s \o t
<1>1. /\ u \in Seq(S) /\ Len(u) = Len(s) + Len(t) /\ Len(s) \in Nat /\ Len(t) \in Nat
      /\ \A i \in 1..Len(s) : i \in 1..Len(u) /\ u[i] = s[i]
      /\ \A i \in 1..Len(t) : Len(s) + i \in 1..Len(u) /\ u[Len(s) + i] = t[i]
  OBVIOUS
<1>2. \A i \in 1..Len(u) : \/ i \in 1..Len(s) /\ u[i] = s[i]
                           \/ /\ i - Len(s) \in 1..Len(t) /\ u[i] = t[i - Len(s)]
                              /\ i > Len(s)
  OBVIOUS
<1> HIDE DEF u
<1>0. /\ \A x : x \in Range(s) <=> \E i \in 1..Len(s) : x = s[i]
      /\ \A x : x \in Range(t) <=> \E i \in 1..Len(t) : x = t[i]
      /\ \A x : x \in Range(u) <=> \E i \in 1..Len(u) : x = u[i]
  BY <1>1, RangeFacts
<1>3. Range(u) = Range(s) \cup Range(t)
  <2>1. Range(u) \subseteq Range(s) \cup Range(t)
    BY <1>0, <1>2
  <2>2. Range(s) \cup Range(t) \subseteq Range(u)
    BY <1>0, <1>1
  <2> QED
    BY <2>1, <2>2
<1>4. ASSUME IsInjective(u)
      PROVE  IsInjective(s) /\ IsInjective(t) /\ Range(s) \cap Range(t) = {}
  <2>1. \A i, j \in 1..Len(u) : u[i] = u[j] => i = j
    BY <1>1, <1>4, RangeFacts
  <2>2. \A i, j \in 1..Len(s) : s[i] = s[j] => i = j
    BY <1>1, <2>1
  <2>3. \A i, j \in 1..Len(t) : t[i] = t[j] => i = j
    <3> SUFFICES ASSUME NEW i \in 1..Len(t), NEW j \in 1..Len(t), t[i] = t[j] PROVE i = j
      OBVIOUS
    <3>1. Len(s) + i = Len(s) + j
      BY <1>1, <2>1
    <3> QED
      BY <1>1, <3>1
  <2>4. \A i \in 1..Len(s), j \in 1..Len(t) : s[i] # t[j]
    BY <1>1, <2>1
  <2> QED
    BY <1>0, <2>2, <2>3, <2>4, RangeFacts
<1>5. ASSUME IsInjective(s), IsInjective(t), Range(s) \cap Range(t) = {}
      PROVE  IsInjective(u)
  <2>1. /\ \A i, j \in 1..Len(s) : s[i] = s[j] => i = j
        /\ \A i, j \in 1..Len(t) : t[i] = t[j] => i = j
        /\ \A i \in 1..Len(s), j \in 1..Len(t) : s[i] # t[j]
    BY <1>0, <1>5, RangeFacts
  <2>2. ASSUME NEW i \in 1..Len(u), NEW j \in 1..Len(u), u[i] = u[j] PROVE i = j
    <3>1. CASE i \in 1..Len(s) /\ u[i] = s[i] /\ j \in 1..Len(s) /\ u[j] = s[j]
      BY <2>1, <2>2, <3>1
    <3>2. CASE i \in 1..Len(s) /\ u[i] = s[i] /\ j - Len(s) \in 1..Len(t) /\ u[j] = t[j - Len(s)]
      BY <2>1, <2>2, <3>2
    <3>3. CASE j \in 1..Len(s) /\ u[j] = s[j] /\ i - Len(s) \in 1..Len(t) /\ u[i] = t[i - Len(s)]
      BY <2>1, <2>2, <3>3
    <3>4. CASE /\ i - Len(s) \in 1..Len(t) /\ u[i] = t[i - Len(s)]
               /\ j - Len(s) \in 1..Len(t) /\ u[j] = t[j - Len(s)]
      <4>1. i - Len(s) = j - Len(s)
        BY <2>1, <2>2, <3>4
      <4> QED
        BY <1>1, <4>1
    <3> QED
      BY <1>2, <3>1, <3>2, <3>3, <3>4
  <2> QED
    BY <1>1, <2>2, RangeFacts
<1> QED
  BY <1>1, <1>3, <1>4, <1>5 DEF u

(* What a load reads: what Initial reads is everything, and a reload       *)
(* leaves out only the critical files.                                     *)
InitialSources == MainFiles \o RemoteMain \o CriticalFiles \o StopFiles \o RemoteStop
ReloadSources  == MainFiles \o RemoteMain \o StopFiles \o RemoteStop

LEMMA SourcesFacts ==
  /\ InitialSources \in Seq(STRING) /\ IsInjective(InitialSources)
  /\ Range(InitialSources) = Sources
  /\ ReloadSources \in Seq(STRING) /\ IsInjective(ReloadSources)
  /\ Range(ReloadSources) = Sources \ Critical /\ Locations \subseteq Range(ReloadSources)
<1>1. /\ MainFiles \in Seq(STRING) /\ CriticalFiles \in Seq(STRING) /\ StopFiles \in Seq(STRING)
      /\ RemoteMain \in Seq(STRING) /\ RemoteStop \in Seq(STRING) /\ Names \in Seq(STRING)
      /\ IsInjective(Names)
  <2>1. /\ MainFiles \in Seq(STRING) /\ CriticalFiles \in Seq(STRING)
        /\ StopFiles \in Seq(STRING) /\ RemoteMain \in Seq(STRING)
        /\ RemoteStop \in Seq(STRING)
    BY MonitorAssumption
  <2>2. Names \in Seq(STRING)
    BY <2>1 DEF Names, Remote
  <2> QED
    BY <2>1, <2>2, RangeFacts, MonitorAssumption
<1> DEFINE fileSources == MainFiles \o CriticalFiles
           localSources == fileSources \o StopFiles
<1>2. /\ fileSources \in Seq(STRING) /\ localSources \in Seq(STRING) /\ Remote \in Seq(STRING)
      /\ Names = localSources \o Remote
      /\ Range(fileSources) = Range(MainFiles) \cup Range(CriticalFiles)
      /\ Range(localSources) = Range(fileSources) \cup Range(StopFiles)
      /\ Range(Remote) = Range(RemoteMain) \cup Range(RemoteStop)
  <2>1. /\ fileSources \in Seq(STRING)
        /\ Range(fileSources) = Range(MainFiles) \cup Range(CriticalFiles)
    BY <1>1, ConcatFacts
  <2>2. Names = localSources \o Remote
    BY DEF Names
  <2> HIDE DEF fileSources
  <2>3. /\ localSources \in Seq(STRING)
        /\ Range(localSources) = Range(fileSources) \cup Range(StopFiles)
    BY <1>1, <2>1, ConcatFacts
  <2>4. /\ Remote \in Seq(STRING) /\ Range(Remote) = Range(RemoteMain) \cup Range(RemoteStop)
    BY <1>1, ConcatFacts DEF Remote
  <2> QED
    BY <2>1, <2>2, <2>3, <2>4
<1>3. /\ IsInjective(localSources) /\ IsInjective(Remote)
      /\ Range(localSources) \cap Range(Remote) = {}
      /\ Range(Names) = Range(localSources) \cup Range(Remote)
  <2> HIDE DEF localSources
  <2> QED
    BY <1>1, <1>2, ConcatFacts
<1>4. /\ IsInjective(RemoteMain) /\ IsInjective(RemoteStop)
      /\ Range(RemoteMain) \cap Range(RemoteStop) = {}
  BY <1>1, <1>3, ConcatFacts DEF Remote
<1>5. IsInjective(fileSources) /\ IsInjective(StopFiles)
      /\ Range(fileSources) \cap Range(StopFiles) = {}
  <2> HIDE DEF fileSources
  <2> QED
    BY <1>1, <1>2, <1>3, ConcatFacts
<1>6. /\ IsInjective(MainFiles) /\ IsInjective(CriticalFiles)
      /\ Range(MainFiles) \cap Range(CriticalFiles) = {}
  BY <1>1, <1>5, ConcatFacts
<1> HIDE DEF fileSources, localSources
<1> DEFINE main == MainFiles \o RemoteMain
           lines == main \o CriticalFiles
           stops == lines \o StopFiles
           all == stops \o RemoteStop
           words == main \o StopFiles
           reload == words \o RemoteStop
<1>7. /\ main \in Seq(STRING) /\ IsInjective(main)
      /\ Range(main) = Range(MainFiles) \cup Range(RemoteMain)
  BY <1>1, <1>2, <1>3, <1>4, <1>6, ConcatFacts
<1>8. InitialSources = all /\ ReloadSources = reload
  BY DEF InitialSources, ReloadSources
<1> HIDE DEF main
<1>9. /\ lines \in Seq(STRING) /\ IsInjective(lines)
      /\ Range(lines) = Range(main) \cup Range(CriticalFiles)
  BY <1>1, <1>2, <1>3, <1>6, <1>7, ConcatFacts
<1>10. /\ words \in Seq(STRING) /\ IsInjective(words)
       /\ Range(words) = Range(main) \cup Range(StopFiles)
  BY <1>1, <1>2, <1>3, <1>5, <1>7, ConcatFacts
<1> HIDE DEF lines, words
<1>11. /\ stops \in Seq(STRING) /\ IsInjective(stops)
       /\ Range(stops) = Range(lines) \cup Range(StopFiles)
  BY <1>1, <1>2, <1>3, <1>5, <1>7, <1>9, ConcatFacts
<1>12. /\ reload \in Seq(STRING) /\ IsInjective(reload)
       /\ Range(reload) = Range(words) \cup Range(RemoteStop)
  BY <1>1, <1>2, <1>3, <1>4, <1>7, <1>10, ConcatFacts
<1> HIDE DEF stops, reload
<1>13. /\ all \in Seq(STRING) /\ IsInjective(all)
       /\ Range(all) = Range(stops) \cup Range(RemoteStop)
  BY <1>1, <1>2, <1>3, <1>4, <1>7, <1>9, <1>11, ConcatFacts
<1> HIDE DEF all
<1>14. /\ Locations = Range(Remote) /\ Critical = Range(CriticalFiles)
       /\ Sources = Range(Names)
  BY <1>1, <1>2, RangeFacts DEF Locations, Critical, Sources
<1>15. Range(all) = Sources
  BY <1>2, <1>3, <1>7, <1>9, <1>11, <1>13, <1>14
<1>16. Range(reload) = Sources \ Critical /\ Locations \subseteq Range(reload)
  BY <1>2, <1>3, <1>5, <1>6, <1>7, <1>10, <1>12, <1>14
<1> QED
  BY <1>8, <1>12, <1>13, <1>15, <1>16

(* What the steps of the dictionary do to what Monitor looks at.           *)
LEMMA DictSteps ==
  ASSUME TypeInv
  PROVE  /\ StartLoad => Loading' /\ ~Loading /\ UNCHANGED <<live, toLoad>>
         /\ \A lines : ReadLines(lines) => /\ Loading' /\ Loading /\ toLoad' = lines
                                           /\ UNCHANGED <<live, loaded>>
         /\ DropLoad => ~Loading' /\ toLoad' = <<>> /\ UNCHANGED live
         /\ LoadWord => Loading' /\ Loading /\ UNCHANGED live
         /\ Publish => /\ ~Loading' /\ Loading /\ toLoad' = <<>> /\ live' # 0 /\ live' # live
                       /\ live' = live + 1
<1>1. DOMAIN [kind \in Kinds |-> NewTrie] # {}
  BY WordsAreTexts
<1>2. StartLoad => Loading' /\ ~Loading /\ UNCHANGED <<live, toLoad>>
  BY <1>1 DEF StartLoad, Loading
<1>3. \A lines : ReadLines(lines) => /\ Loading' /\ Loading /\ toLoad' = lines
                                     /\ UNCHANGED <<live, loaded>>
  BY DEF ReadLines, Loading
<1>4. DropLoad => ~Loading' /\ toLoad' = <<>> /\ UNCHANGED live
  BY DEF DropLoad, Loading, NoDict
<1>5. LoadWord => Loading' /\ Loading /\ UNCHANGED live
  BY LoadWordEffect DEF LoadWord
<1>6. Publish => ~Loading' /\ Loading /\ toLoad' = <<>> /\ live' # 0 /\ live' # live
                 /\ live' = live + 1
  <2>1. live \in Nat /\ live + 1 # live
    BY WordsAreTexts DEF TypeInv, DictTypeOK
  <2> QED
    BY <2>1, PublishEffect DEF Publish
<1> QED
  BY <1>2, <1>3, <1>4, <1>5, <1>6

-----------------------------------------------------------------------------
(* The types.                                                              *)

(* The monitor that is being polled, and the files of the load.            *)
LEMMA QueueFacts ==
  ASSUME PollingTypes, queue # <<>>
  PROVE  /\ Head(queue) \in 1..Len(tasks) /\ Tail(queue) \in Seq(1..Len(tasks))
         /\ Polled \in Task /\ live # 0 /\ tasks # <<>>
<1>1. Head(queue) \in 1..Len(tasks) /\ Tail(queue) \in Seq(1..Len(tasks))
  BY HeadTailProperties DEF PollingTypes
<1>2. tasks \in Seq(Task)
  BY DEF PollingTypes
<1>3. tasks # <<>> /\ tasks[Head(queue)] \in Task
  BY <1>1, <1>2
<1> QED
  BY <1>1, <1>3 DEF Polled, PollingTypes

LEMMA VersionFacts ==
  ASSUME ProgressTypes, NEW l \in Locations
  PROVE  /\ version[l] \in Versions /\ version[l] \in Nat /\ version[l] # Missing
         /\ Tags[l][version[l]].lastModified \in Dates /\ Tags[l][version[l]].eTag \in ETags
         /\ RemoteWords[l][version[l]] \in Seq(Seq(Char))
         /\ Lines(l, RemoteWords[l][version[l]]) \in Loads
<1>1. version[l] \in Versions
  BY DEF ProgressTypes
<1>2. version[l] \in Nat /\ version[l] # Missing
  BY <1>1, ConstantFacts
<1>3. Tags[l][version[l]].lastModified \in Dates /\ Tags[l][version[l]].eTag \in ETags
  BY <1>1 DEF Dates, ETags
<1>4. /\ RemoteWords[l][version[l]] \in Seq(Seq(Char))
      /\ Lines(l, RemoteWords[l][version[l]]) \in Loads
  BY <1>1, MonitorAssumption
<1> QED
  BY <1>1, <1>2, <1>3, <1>4

LEMMA MTypeInvInit == MonitorInit => MTypeInv
<1> SUFFICES ASSUME MonitorInit PROVE MTypeInv
  OBVIOUS
<1> USE DEF MonitorInit
<1>1. ProgressTypes
  BY ConstantFacts DEF ProgressTypes, Missing
<1>2. live = 0 /\ toLoad = <<>> /\ ~Loading
  BY DEF DictInit, NoDict, Loading
<1>3. InitialTypes
  BY <1>2, ConstantFacts DEF InitialTypes, Configurations
<1>4. PollingTypes
  <2>1. tasks \in Seq(Task) /\ queue \in Seq(1..Len(tasks))
    OBVIOUS
  <2>2. answer.lastModified \in Dates /\ answer.eTag \in ETags
    BY DEF NoTags, Dates, ETags
  <2> QED
    BY <2>1, <2>2 DEF PollingTypes
<1>5. LoadingTypes
  BY <1>2 DEF LoadingTypes
<1> QED
  BY <1>1, <1>3, <1>4, <1>5 DEF MTypeInv

(* Nobody but the caller that loads, or the worker, publishes.             *)
LEMMA WhoLoads ==
  ASSUME MTypeInv, Loading
  PROVE  \/ /\ phase = "reload" /\ live # 0 /\ queue # <<>> /\ owner # None
            /\ \A c \in Callers : state[c] # "loading"
         \/ /\ phase = "poll" /\ live = 0 /\ tasks = <<>> /\ owner = None
            /\ singletonMu \in Callers /\ state[singletonMu] = "loading"
<1> USE DEF MTypeInv, InitialTypes, LoadingTypes, PollingTypes
<1>1. CASE phase = "reload"
  BY <1>1, QueueFacts
<1>2. CASE phase # "reload"
  <2>1. PICK c \in Callers : state[c] = "loading"
    BY <1>2
  <2>2. live = 0 /\ singletonMu = c
    BY <2>1
  <2>3. phase # "record"
    BY <2>2, QueueFacts
  <2> QED
    BY <1>2, <2>1, <2>2, <2>3
<1> QED
  BY <1>1, <1>2

LEMMA ProgressTypesNext ==
  ASSUME TypeInv, MTypeInv, [MonitorNext]_mvars
  PROVE  ProgressTypes'
<1> USE DEF ProgressTypes
<1>1. ProgressTypes
  BY DEF MTypeInv
<1>0. \A m \in Locations : version[m] \in Nat /\ got[m] \in Nat /\ inUse[m] \in Nat
  <2>1. Versions \cup {Missing} \subseteq Nat
    BY ConstantFacts DEF Missing
  <2>2. \A m \in Locations : /\ version[m] \in Versions /\ got[m] \in Versions \cup {Missing}
                             /\ inUse[m] \in Versions \cup {Missing}
    BY <1>1
  <2> QED
    BY <2>1, <2>2
<1>2. ASSUME NEW l \in Locations, ServerChanges(l) PROVE ProgressTypes'
  <2>1. version[l] \in 1..MaxVersion /\ version[l] < MaxVersion /\ MaxVersion \in Nat
    BY <1>1, <1>2, ConstantFacts DEF ServerChanges, Versions
  <2>2. version[l] + 1 \in Versions /\ version' = [version EXCEPT ![l] = version[l] + 1]
    BY <1>2, <2>1 DEF ServerChanges, Versions
  <2>3. version' \in [Locations -> Versions]
    BY <1>1, <2>2
  <2>4. \A m \in Locations : version[m] <= version'[m]
    <3> SUFFICES ASSUME NEW m \in Locations PROVE version[m] <= version'[m]
      OBVIOUS
    <3>1. CASE m = l
      BY <1>0, <1>1, <2>2, <3>1
    <3>2. CASE m # l
      BY <1>0, <1>1, <2>2, <3>2
    <3> QED
      BY <3>1, <3>2
  <2>5. \A m \in Locations : version'[m] \in Nat
    BY <2>3, ConstantFacts
  <2>6. UNCHANGED <<failures, sources, got, inUse>>
    BY <1>2 DEF ServerChanges, progress
  <2> QED
    <3>1. \A m \in Locations : got[m] <= version'[m] /\ inUse[m] <= version'[m]
      BY <1>0, <1>1, <2>4, <2>5
    <3> QED
      BY <1>1, <2>3, <2>6, <3>1
<1>3. sources # <<>> => Tail(sources) \in Seq(STRING)
  BY <1>1, HeadTailProperties
<1>4. CASE ReadFile
  BY <1>1, <1>3, <1>4 DEF ReadFile, servers
<1>5. CASE Get
  <2> DEFINE l == Head(sources)
  <2>1. /\ l \in Locations /\ got' = [got EXCEPT ![l] = version[l]] /\ sources' = Tail(sources)
        /\ UNCHANGED <<version, failures, inUse>> /\ sources # <<>>
    BY <1>5 DEF Get, servers
  <2> HIDE DEF l
  <2>2. version[l] \in Versions /\ version[l] \in Nat
    BY <1>1, <2>1, ConstantFacts
  <2> QED
    BY <1>1, <1>3, <2>1, <2>2
<1>6. CASE GetFails
  <2> DEFINE l == Head(sources)
  <2>1. /\ l \in Locations /\ got' = [got EXCEPT ![l] = Missing] /\ sources' = Tail(sources)
        /\ UNCHANGED <<version, inUse>> /\ sources # <<>>
        /\ failures < MaxFailures /\ failures' = failures + 1
    BY <1>6 DEF GetFails
  <2> HIDE DEF l
  <2>2. failures' \in 0..MaxFailures
    BY <1>1, <2>1, ConstantFacts
  <2>3. version[l] \in Nat /\ Missing <= version[l]
    BY <1>0, <2>1 DEF Missing
  <2> QED
    BY <1>1, <1>3, <2>1, <2>2, <2>3
<1>7. CASE HeadFails
  <2>1. failures' \in 0..MaxFailures
    BY <1>1, <1>7, ConstantFacts DEF HeadFails
  <2> QED
    BY <1>1, <1>7, <2>1 DEF HeadFails, progress
<1>8. MainFiles \o RemoteMain \o CriticalFiles \o StopFiles \o RemoteStop \in Seq(STRING)
      /\ MainFiles \o RemoteMain \o StopFiles \o RemoteStop \in Seq(STRING)
  BY MonitorAssumption
<1>9. ASSUME NEW c \in Callers, InsideInitial(c) PROVE ProgressTypes'
  <2>1. UNCHANGED <<version, failures, got>> /\ (UNCHANGED inUse \/ inUse' = got)
    BY <1>9 DEF InsideInitial, InitialTooLate, EnterInitial, CriticalFileMissing,
          StoreSingleton, ScheduleMonitor, InitialReturned, servers, progress
  <2>2. \/ sources' = sources \/ sources' = <<>>
        \/ sources' = MainFiles \o RemoteMain \o CriticalFiles \o StopFiles \o RemoteStop
    BY <1>9 DEF InsideInitial, InitialTooLate, EnterInitial, CriticalFileMissing,
          StoreSingleton, ScheduleMonitor, InitialReturned, progress
  <2>3. sources' \in Seq(STRING)
    <3>1. <<>> \in Seq(STRING) /\ sources \in Seq(STRING)
      BY <1>1
    <3> QED
      BY <1>8, <2>2, <3>1
  <2> QED
    BY <1>1, <2>1, <2>3
<1>10. CASE \/ UNCHANGED mvars \/ FillWord \/ StartRound \/ HeadUnchanged \/ HeadChanged
            \/ PublishReload \/ RecordTags
            \/ \E c \in Callers, request \in Requests : CallInitial(c, request)
  <2>1. /\ UNCHANGED <<version, failures, got>> /\ (UNCHANGED inUse \/ inUse' = got)
        /\ sources' \in Seq(STRING)
    BY <1>1, <1>8, <1>10 DEF mvars, FillWord, StartRound, HeadUnchanged, HeadChanged,
          PublishReload, RecordTags, CallInitial, servers, progress
  <2> QED
    BY <1>1, <2>1
<1> QED
  BY <1>2, <1>4, <1>5, <1>6, <1>7, <1>9, <1>10 DEF MonitorNext, Load, Worker

LEMMA InitialTypesNext ==
  ASSUME TypeInv, MTypeInv, [MonitorNext]_mvars
  PROVE  InitialTypes'
<1> USE DEF InitialTypes
<1>1. InitialTypes
  BY DEF MTypeInv
<1>2. ASSUME UNCHANGED <<initial, live>> PROVE InitialTypes'
  BY <1>1, <1>2 DEF initial
<1>3. CASE Load
  <2>1. UNCHANGED live
    BY <1>3, DictSteps DEF Load, ReadFile, Get, GetFails, FillWord
  <2> QED
    BY <1>2, <1>3, <2>1 DEF Load, ReadFile, Get, GetFails, FillWord
<1>4. CASE PublishReload
  <2>1. Loading /\ live' # 0 /\ UNCHANGED initial /\ phase = "reload"
    BY <1>4, DictSteps DEF PublishReload
  <2>2. live # 0 /\ \A c \in Callers : state[c] # "loading"
    BY <2>1, WhoLoads
  <2> QED
    BY <1>1, <2>1, <2>2 DEF initial
<1>5. CASE Worker /\ ~PublishReload
  <2>1. UNCHANGED initial
    BY <1>5 DEF Worker, StartRound, HeadFails, HeadUnchanged, HeadChanged, RecordTags
  <2>2. UNCHANGED live
    BY <1>5, DictSteps DEF Worker, StartRound, HeadFails, HeadUnchanged, HeadChanged, RecordTags,
                           dvars, tables
  <2> QED
    BY <1>2, <2>1, <2>2
<1>6. CASE UNCHANGED mvars \/ \E l \in Locations : ServerChanges(l)
  BY <1>2, <1>6 DEF mvars, dvars, tables, ServerChanges
<1>7. ASSUME NEW c \in Callers, NEW request \in Requests, CallInitial(c, request)
      PROVE  InitialTypes'
  <2>1. /\ state[c] = "outside" /\ UNCHANGED <<live, singletonMu, owner, toSchedule>>
        /\ state' = [state EXCEPT ![c] = IF live # 0 THEN "returned" ELSE "waiting"]
        /\ configuration' = [configuration EXCEPT ![c] = NewConfigurationSub(request)]
    BY <1>7 DEF CallInitial, dvars, tables
  <2>2. NewConfigurationSub(request) \in Configurations
    BY DEF Configurations
  <2>3. configuration' \in [Callers -> Configurations]
    BY <1>1, <2>1, <2>2
  <2> HIDE DEF NewConfigurationSub
  <2> QED
    BY <1>1, <2>1, <2>3
<1>8. ASSUME NEW c \in Callers, InitialTooLate(c) PROVE InitialTypes'
  <2>1. /\ state[c] = "waiting" /\ singletonMu = None /\ live # 0
        /\ state' = [state EXCEPT ![c] = "returned"]
        /\ UNCHANGED <<live, configuration, singletonMu, owner, toSchedule>>
    BY <1>8 DEF InitialTooLate, dvars, tables
  <2> QED
    BY <1>1, <2>1
<1>9. ASSUME NEW c \in Callers, EnterInitial(c) PROVE InitialTypes'
  <2>1. /\ state[c] = "waiting" /\ singletonMu = None /\ live = 0
        /\ state' = [state EXCEPT ![c] = "loading"] /\ singletonMu' = c
        /\ UNCHANGED <<live, configuration, owner, toSchedule>>
    BY <1>9, DictSteps DEF EnterInitial
  <2> QED
    BY <1>1, <2>1, ConstantFacts
<1>10. ASSUME NEW c \in Callers, CriticalFileMissing(c) PROVE InitialTypes'
  <2>1. /\ singletonMu = c /\ singletonMu' = None
        /\ state' = [state EXCEPT ![c] = "panicked"]
        /\ UNCHANGED <<live, configuration, owner, toSchedule>>
    BY <1>10, DictSteps DEF CriticalFileMissing
  <2>2. live = 0
    BY <1>10 DEF CriticalFileMissing, DropLoad
  <2> QED
    BY <1>1, <2>1, <2>2, ConstantFacts
<1>11. ASSUME NEW c \in Callers, StoreSingleton(c) PROVE InitialTypes'
  <2>1. /\ singletonMu = c /\ state[c] = "loading" /\ owner' = c /\ live' # 0
        /\ state' = [state EXCEPT ![c] = "scheduling"]
        /\ toSchedule' = (IF configuration[c].enableRemoteDict THEN Remote ELSE <<>>)
        /\ UNCHANGED <<configuration, singletonMu>>
    BY <1>11, DictSteps DEF StoreSingleton
  <2>2. toSchedule' \in Seq(Locations)
    <3>1. <<>> \in Seq(Locations)
      OBVIOUS
    <3> QED
      BY <2>1, <3>1, ConstantFacts
  <2>3. live = 0 /\ owner = None /\ None \notin Callers
    BY <1>1, <2>1, ConstantFacts
  <2> QED
    BY <1>1, <2>1, <2>2, <2>3
<1>12. ASSUME NEW c \in Callers, ScheduleMonitor(c) PROVE InitialTypes'
  <2>1. /\ toSchedule # <<>> /\ toSchedule' = Tail(toSchedule)
        /\ UNCHANGED <<live, state, configuration, singletonMu, owner>>
    BY <1>12 DEF ScheduleMonitor, dvars, tables
  <2>2. toSchedule' \in Seq(Locations)
    BY <1>1, <2>1, HeadTailProperties
  <2> QED
    BY <1>1, <2>1, <2>2
<1>13. ASSUME NEW c \in Callers, InitialReturned(c) PROVE InitialTypes'
  <2>1. /\ state[c] = "scheduling" /\ state' = [state EXCEPT ![c] = "returned"]
        /\ singletonMu' = None
        /\ UNCHANGED <<live, configuration, owner, toSchedule>>
    BY <1>13 DEF InitialReturned, dvars, tables
  <2>2. owner = c /\ singletonMu = c
    BY <1>1, <2>1
  <2>3. live # 0 /\ c # None
    BY <1>1, <2>2, ConstantFacts
  <2> QED
    BY <1>1, <2>1, <2>2, <2>3, ConstantFacts
<1> QED
  BY <1>3, <1>4, <1>5, <1>6, <1>7, <1>8, <1>9, <1>10, <1>11, <1>12, <1>13
     DEF MonitorNext, InsideInitial

(* Recording headers changes no location, and a new monitor none of the    *)
(* others.                                                                 *)
LEMMA TasksRecorded ==
  ASSUME PollingTypes, RecordTags
  PROVE  /\ tasks' \in Seq(Task) /\ Len(tasks') = Len(tasks)
         /\ \A i \in 1..Len(tasks) :
               /\ tasks'[i].location = tasks[i].location
               /\ i # Head(queue) => tasks'[i] = tasks[i]
               /\ i = Head(queue) => /\ tasks'[i].lastModified = answer.lastModified
                                     /\ tasks'[i].eTag = answer.eTag
<1>1. /\ phase = "record" /\ queue # <<>>
      /\ tasks' = [tasks EXCEPT ![Head(queue)].lastModified = answer.lastModified,
                                ![Head(queue)].eTag = answer.eTag]
  BY DEF PollingTypes, RecordTags
<1>2. Head(queue) \in 1..Len(tasks) /\ tasks \in Seq(Task) /\ tasks[Head(queue)] \in Task
  BY <1>1, QueueFacts DEF PollingTypes, Polled
<1> DEFINE h == Head(queue)
           dated == [tasks[h] EXCEPT !.lastModified = answer.lastModified]
           tagged == [dated EXCEPT !.eTag = answer.eTag]
           once == [tasks EXCEPT ![h] = dated]
<1> HIDE DEF h
<1>3. /\ dated \in Task /\ dated.lastModified = answer.lastModified
      /\ dated.location = tasks[h].location
  BY <1>2 DEF Task, PollingTypes, h
<1> HIDE DEF dated
<1>4. /\ tagged \in Task /\ tagged.lastModified = answer.lastModified
      /\ tagged.eTag = answer.eTag /\ tagged.location = tasks[h].location
  BY <1>3 DEF Task, PollingTypes
<1>5. once \in Seq(Task) /\ Len(once) = Len(tasks) /\ once[h] = dated
      /\ \A i \in 1..Len(tasks) : i # h => once[i] = tasks[i]
  BY <1>2, <1>3 DEF h
<1>6. tasks' = [once EXCEPT ![h] = tagged]
  <2>1. tasks' = [once EXCEPT ![h].eTag = answer.eTag]
    BY <1>1 DEF dated, h
  <2> HIDE DEF once
  <2> QED
    BY <1>5, <2>1
<1> HIDE DEF tagged, once
<1>7. /\ tasks' \in Seq(Task) /\ Len(tasks') = Len(tasks) /\ tasks'[h] = tagged
      /\ \A i \in 1..Len(tasks) : i # h => tasks'[i] = once[i]
  BY <1>2, <1>4, <1>5, <1>6 DEF h
<1> QED
  BY <1>4, <1>5, <1>7 DEF h

LEMMA TaskScheduled ==
  ASSUME PollingTypes, InitialTypes, NEW c \in Callers, ScheduleMonitor(c)
  PROVE  /\ tasks' \in Seq(Task) /\ Len(tasks') = Len(tasks) + 1
         /\ \A i \in 1..Len(tasks) : tasks'[i] = tasks[i]
         /\ tasks'[Len(tasks) + 1] = [location     |-> Head(toSchedule),
                                      lastModified |-> Absent, eTag |-> Absent]
         /\ Head(toSchedule) \in Locations /\ toSchedule # <<>>
         /\ toSchedule' = Tail(toSchedule) /\ live # 0 /\ c = owner
<1> DEFINE task == [location     |-> Head(toSchedule),
                    lastModified |-> Absent, eTag |-> Absent]
<1>1. /\ toSchedule # <<>> /\ toSchedule \in Seq(Locations) /\ tasks \in Seq(Task)
      /\ toSchedule' = Tail(toSchedule) /\ state[c] = "scheduling" /\ tasks' = Append(tasks, task)
  BY DEF ScheduleMonitor, PollingTypes, InitialTypes
<1>2. c = owner /\ live # 0
  BY <1>1, ConstantFacts DEF InitialTypes
<1>3. Head(toSchedule) \in Locations
  BY <1>1
<1>4. task \in Task
  BY <1>3 DEF Task, Dates, ETags
<1> HIDE DEF task
<1>5. /\ tasks' \in Seq(Task) /\ Len(tasks') = Len(tasks) + 1
      /\ \A i \in 1..Len(tasks) : tasks'[i] = tasks[i]
      /\ tasks'[Len(tasks) + 1] = task
  BY <1>1, <1>4
<1> QED
  BY <1>1, <1>2, <1>3, <1>5 DEF task

LEMMA PollingTypesNext ==
  ASSUME TypeInv, MTypeInv, [MonitorNext]_mvars
  PROVE  PollingTypes'
<1> USE DEF PollingTypes
<1>1. PollingTypes
  BY DEF MTypeInv
<1>2. live # 0 => live' # 0
  <2>1. UNCHANGED live \/ live' # 0
    BY DictSteps DEF MonitorNext, ServerChanges, CallInitial, InsideInitial, InitialTooLate,
       EnterInitial, CriticalFileMissing, StoreSingleton, ScheduleMonitor, InitialReturned,
       Load, ReadFile, Get, GetFails, FillWord, Worker, StartRound, HeadFails, HeadUnchanged,
       HeadChanged, PublishReload, RecordTags, mvars, dvars, tables
  <2> QED
    BY <2>1
<1>3. ASSUME UNCHANGED polling PROVE PollingTypes'
  BY <1>1, <1>2, <1>3 DEF polling
<1>4. CASE UNCHANGED mvars \/ Load \/ \E l \in Locations : ServerChanges(l)
  BY <1>3, <1>4 DEF mvars, Load, ReadFile, Get, GetFails, FillWord, ServerChanges
<1>5. ASSUME NEW c \in Callers, \E request \in Requests : CallInitial(c, request)
      PROVE  PollingTypes'
  BY <1>3, <1>5 DEF CallInitial
<1>6. ASSUME NEW c \in Callers, InsideInitial(c), ~ScheduleMonitor(c)
      PROVE  PollingTypes'
  BY <1>3, <1>6 DEF InsideInitial, InitialTooLate, EnterInitial, CriticalFileMissing,
                    StoreSingleton, InitialReturned
<1>7. ASSUME NEW c \in Callers, ScheduleMonitor(c) PROVE PollingTypes'
  <2>1. tasks' \in Seq(Task) /\ Len(tasks') = Len(tasks) + 1 /\ live # 0
    BY <1>1, <1>7, TaskScheduled DEF MTypeInv
  <2>2. UNCHANGED <<queue, phase, answer>>
    BY <1>7 DEF ScheduleMonitor
  <2>3. 1..Len(tasks) \subseteq 1..Len(tasks')
    BY <1>1, <2>1
  <2>4. queue' \in Seq(1..Len(tasks'))
    BY <1>1, <2>2, <2>3, SeqMonotonic
  <2> QED
    BY <1>1, <1>2, <2>1, <2>2, <2>4
<1>8. CASE StartRound
  <2>1. /\ tasks # <<>> /\ queue' = [i \in 1..Len(tasks) |-> i]
        /\ UNCHANGED <<tasks, phase, answer>>
    BY <1>8 DEF StartRound
  <2>2. Len(tasks) \in Nat /\ Len(tasks) # 0
    BY <1>1, <2>1
  <2>3. queue' \in Seq(1..Len(tasks)) /\ Len(queue') # 0
    BY <2>1, <2>2
  <2> QED
    BY <1>1, <1>2, <2>1, <2>3
<1>9. CASE HeadFails \/ HeadUnchanged
  <2>1. /\ queue # <<>> /\ queue' = Tail(queue) /\ phase = "poll"
        /\ UNCHANGED <<tasks, phase, answer>>
    BY <1>9 DEF HeadFails, HeadUnchanged
  <2> QED
    BY <1>1, <1>2, <2>1, QueueFacts
<1>10. CASE HeadChanged
  <2>1. /\ queue # <<>> /\ phase' = "reload" /\ answer' = Response
        /\ UNCHANGED <<tasks, queue>>
    BY <1>10 DEF HeadChanged
  <2>2. Polled \in Task
    BY <1>1, <2>1, QueueFacts
  <2>3. Polled.location \in Locations
    BY <2>2 DEF Task
  <2>4. Response.lastModified \in Dates /\ Response.eTag \in ETags
    BY <2>3, VersionFacts DEF MTypeInv, Response
  <2> HIDE DEF Polled, Response
  <2> QED
    BY <1>1, <1>2, <2>1, <2>4
<1>11. CASE PublishReload
  <2>1. phase = "reload" /\ phase' = "record" /\ UNCHANGED <<tasks, queue, answer>>
    BY <1>11 DEF PublishReload
  <2> QED
    BY <1>1, <1>2, <2>1
<1>12. CASE RecordTags
  <2>1. /\ phase = "record" /\ phase' = "poll" /\ queue' = Tail(queue) /\ UNCHANGED answer
    BY <1>12 DEF RecordTags
  <2>2. tasks' \in Seq(Task) /\ Len(tasks') = Len(tasks) /\ tasks # <<>>
        /\ Tail(queue) \in Seq(1..Len(tasks))
    BY <1>1, <1>12, <2>1, TasksRecorded, QueueFacts
  <2> QED
    BY <1>1, <1>2, <2>1, <2>2
<1> QED
  BY <1>4, <1>5, <1>6, <1>7, <1>8, <1>9, <1>10, <1>11, <1>12 DEF MonitorNext, Worker

LEMMA LoadingTypesNext ==
  ASSUME TypeInv, MTypeInv, [MonitorNext]_mvars
  PROVE  LoadingTypes'
<1> USE DEF LoadingTypes
<1>1. LoadingTypes /\ InitialTypes /\ PollingTypes
  BY DEF MTypeInv
<1>2. ASSUME Loading, Loading', UNCHANGED <<phase, state>> PROVE LoadingTypes'
  BY <1>1, <1>2
<1>3. ASSUME UNCHANGED <<tmpDict, phase, sources, toLoad>>,
             \A c \in Callers : state'[c] = "loading" <=> state[c] = "loading"
      PROVE  LoadingTypes'
  BY <1>1, <1>3 DEF Loading
<1>4. CASE Load
  <2>1. Loading /\ Loading' /\ UNCHANGED <<phase, state>>
    BY <1>4, DictSteps DEF Load, ReadFile, Get, GetFails, FillWord, initial, polling
  <2> QED
    BY <1>2, <2>1
<1>5. CASE UNCHANGED mvars \/ \E l \in Locations : ServerChanges(l)
  <2>1. UNCHANGED <<tmpDict, phase, sources, toLoad, state>>
    BY <1>5 DEF mvars, ServerChanges, dvars, tables, initial, polling, progress
  <2> QED
    BY <1>3, <2>1
<1>6. ASSUME NEW c \in Callers, \/ \E request \in Requests : CallInitial(c, request)
                                \/ InitialTooLate(c) \/ ScheduleMonitor(c) \/ InitialReturned(c)
      PROVE  LoadingTypes'
  <2>1. UNCHANGED <<tmpDict, phase, sources, toLoad>>
    BY <1>6 DEF CallInitial, InitialTooLate, ScheduleMonitor, InitialReturned, dvars, tables,
                polling, progress
  <2>2. \A d \in Callers : state'[d] = "loading" <=> state[d] = "loading"
    BY <1>1, <1>6 DEF CallInitial, InitialTooLate, ScheduleMonitor, InitialReturned, InitialTypes
  <2> QED
    BY <1>3, <2>1, <2>2
<1>7. ASSUME NEW c \in Callers, EnterInitial(c) PROVE LoadingTypes'
  <2>1. Loading' /\ state' = [state EXCEPT ![c] = "loading"]
    BY <1>7, DictSteps DEF EnterInitial
  <2> QED
    BY <1>1, <2>1 DEF InitialTypes
<1>8. ASSUME NEW c \in Callers,
             \/ CriticalFileMissing(c) /\ state' = [state EXCEPT ![c] = "panicked"]
             \/ StoreSingleton(c) /\ state' = [state EXCEPT ![c] = "scheduling"]
      PROVE  LoadingTypes'
  <2>1. /\ singletonMu = c /\ sources' = <<>> /\ toLoad' = <<>> /\ ~Loading' /\ Loading
        /\ UNCHANGED phase
    BY <1>8, DictSteps DEF CriticalFileMissing, StoreSingleton, AllRead, polling, DropLoad
  <2>2. phase # "reload"
    <3>1. state[c] \in {"loading", "scheduling"}
      BY <1>1, <2>1 DEF InitialTypes
    <3>2. CASE CriticalFileMissing(c)
      <4>1. live = 0
        BY <3>2 DEF CriticalFileMissing, DropLoad
      <4> QED
        BY <2>1, <4>1, WhoLoads
    <3>3. CASE StoreSingleton(c)
      <4>1. state[c] = "loading"
        BY <3>3 DEF StoreSingleton
      <4> QED
        BY <2>1, <4>1, WhoLoads
    <3> QED
      BY <1>8, <3>2, <3>3
  <2>3. \A d \in Callers : state'[d] # "loading"
    BY <1>1, <1>8, <2>1 DEF InitialTypes
  <2> QED
    BY <2>1, <2>2, <2>3
<1>9. CASE StartRound \/ HeadFails \/ HeadUnchanged \/ RecordTags
  <2>1. UNCHANGED <<tmpDict, sources, toLoad, state>>
    BY <1>9 DEF StartRound, HeadFails, HeadUnchanged, RecordTags, dvars, tables, progress, initial
  <2>2. phase' = "reload" <=> phase = "reload"
    BY <1>9 DEF StartRound, HeadFails, HeadUnchanged, RecordTags
  <2> QED
    BY <1>1, <2>1, <2>2 DEF Loading
<1>10. CASE HeadChanged
  <2>1. Loading' /\ phase' = "reload"
    BY <1>10, DictSteps DEF HeadChanged
  <2> QED
    BY <2>1
<1>11. CASE PublishReload
  <2>1. /\ ~Loading' /\ Loading /\ phase = "reload" /\ phase' = "record"
        /\ sources' = <<>> /\ toLoad' = <<>> /\ UNCHANGED state
    BY <1>11, DictSteps DEF PublishReload, AllRead, initial
  <2>2. \A c \in Callers : state[c] # "loading"
    BY <2>1, WhoLoads
  <2> QED
    BY <2>1, <2>2
<1>12. ASSUME NEW c \in Callers, InsideInitial(c) PROVE LoadingTypes'
  <2>1. /\ CriticalFileMissing(c) => state' = [state EXCEPT ![c] = "panicked"]
        /\ StoreSingleton(c) => state' = [state EXCEPT ![c] = "scheduling"]
    BY DEF CriticalFileMissing, StoreSingleton
  <2> QED
    BY <1>6, <1>7, <1>8, <1>12, <2>1 DEF InsideInitial
<1> HIDE DEF LoadingTypes
<1>13. CASE Worker
  BY <1>9, <1>10, <1>11, <1>13 DEF Worker
<1> QED
  BY <1>4, <1>5, <1>6, <1>12, <1>13 DEF MonitorNext

LEMMA MTypeInvNext ==
  ASSUME TypeInv, MTypeInv, [MonitorNext]_mvars
  PROVE  MTypeInv'
BY ProgressTypesNext, InitialTypesNext, PollingTypesNext, LoadingTypesNext DEF MTypeInv

-----------------------------------------------------------------------------
(* What happens is what LiveDictionary allows.                             *)

(* The files of a load are those of the caller that loads or that did.     *)
LEMMA FilesFacts ==
  ASSUME MTypeInv, Loading
  PROVE  /\ \E c \in Callers : /\ Files = configuration[c].env /\ state[c] # "outside"
                               /\ c = (IF owner = None THEN singletonMu ELSE owner)
         /\ DOMAIN Files \subseteq FilesListed
         /\ \A file \in DOMAIN Files : /\ Files[file] \in Seq(Seq(Char))
                                       /\ Lines(file, Files[file]) \in Loads
<1> DEFINE c == IF owner = None THEN singletonMu ELSE owner
<1>1. c \in Callers /\ state[c] # "outside" /\ configuration[c] \in Configurations
  BY WhoLoads DEF MTypeInv, InitialTypes
<1>2. Files = configuration[c].env
  BY DEF Files
<1> HIDE DEF c
<1>3. CASE configuration[c] = NoConfiguration
  <2>1. DOMAIN Files = {}
    BY <1>2, <1>3 DEF NoConfiguration
  <2> QED
    BY <1>1, <1>2, <2>1 DEF c
<1>4. CASE configuration[c] # NoConfiguration
  <2>1. PICK request \in Requests : configuration[c] = NewConfigurationSub(request)
    BY <1>1, <1>4 DEF Configurations
  <2>2. Files = request.env
    BY <1>2, <2>1 DEF NewConfigurationSub
  <2> QED
    BY <1>1, <1>2, <2>2, MonitorAssumption DEF c
<1> QED
  BY <1>3, <1>4

LEMMA MonitorStep ==
  ASSUME TypeInv, MTypeInv, [MonitorNext]_mvars
  PROVE  [DictNext]_dvars
<1>1. CASE ReadFile
  <2>1. Loading
    BY <1>1 DEF ReadFile, ReadLines
  <2>2. PICK lines : /\ ReadLines(lines)
                     /\ lines = IF Head(sources) \in DOMAIN Files /\ Head(sources) \notin Critical
                                THEN Lines(Head(sources), Files[Head(sources)]) ELSE <<>>
    BY <1>1 DEF ReadFile
  <2>3. lines \in Loads
    BY <2>1, <2>2, FilesFacts, MonitorAssumption
  <2> QED
    BY <2>2, <2>3 DEF DictNext
<1>2. CASE Get
  <2>1. PICK l \in Locations : ReadLines(Lines(l, RemoteWords[l][version[l]]))
    BY <1>2 DEF Get
  <2>2. Lines(l, RemoteWords[l][version[l]]) \in Loads
    BY VersionFacts DEF MTypeInv
  <2> QED
    BY <2>1, <2>2 DEF DictNext
<1>3. CASE GetFails
  BY <1>3, MonitorAssumption DEF GetFails, DictNext
<1>4. ASSUME NEW c \in Callers, InsideInitial(c) PROVE [DictNext]_dvars
  BY <1>4 DEF InsideInitial, InitialTooLate, EnterInitial, CriticalFileMissing,
              StoreSingleton, ScheduleMonitor, InitialReturned, DictNext
<1>5. CASE Worker
  BY <1>5 DEF Worker, StartRound, HeadFails, HeadUnchanged, HeadChanged, PublishReload,
              RecordTags, DictNext
<1>6. CASE \/ UNCHANGED mvars \/ FillWord \/ (\E l \in Locations : ServerChanges(l))
           \/ \E c \in Callers, request \in Requests : CallInitial(c, request)
  BY <1>6 DEF mvars, FillWord, ServerChanges, CallInitial, DictNext
<1> QED
  BY <1>1, <1>2, <1>3, <1>4, <1>5, <1>6 DEF MonitorNext, Load

MonitorTypes == TypeInv /\ WordsInv /\ MTypeInv

LEMMA MonitorTypesInductive ==
  /\ MonitorInit => MonitorTypes
  /\ MonitorTypes /\ [MonitorNext]_mvars => MonitorTypes'
<1>1. MonitorInit => MonitorTypes
  BY TypeInvInit, WordsInvInit, MTypeInvInit DEF MonitorInit, MonitorTypes
<1>2. ASSUME MonitorTypes, [MonitorNext]_mvars PROVE MonitorTypes'
  BY <1>2, MonitorStep, TypeInvNext, WordsInvNext, MTypeInvNext DEF MonitorTypes
<1> QED
  BY <1>1, <1>2

(* Whatever callers, servers and the worker do, they do to the dictionary  *)
(* only what LiveDictionary says may be done, so that all that is proved   *)
(* of it there holds here.                                                 *)
THEOREM MonitorDrivesDictionary == MonitorSpec => DictSpec
<1>1. MonitorInit => DictInit
  BY DEF MonitorInit
<1>2. MonitorTypes /\ [MonitorNext]_mvars => [DictNext]_dvars
  BY MonitorStep DEF MonitorTypes
<1> QED
  BY <1>1, <1>2, MonitorTypesInductive, PTL DEF MonitorSpec, DictSpec

(* Every variable has its type, the lock of Initial is held by the caller  *)
(* that loads or schedules, and tries are filled only for it or for the    *)
(* worker, however many callers race and whatever fails                    *)
(* (dictionary.go:114-141, monitor.go:55-82).                              *)
THEOREM MonitorIsTyped == MonitorSpec => []MonitorTypeOK
<1>1. MonitorTypes => MonitorTypeOK
  <2> SUFFICES ASSUME MonitorTypes PROVE MonitorTypeOK
    OBVIOUS
  <2>1. DictTypeOK
    BY DEF MonitorTypes, TypeInv
  <2>2. \A i \in 1..Len(queue) : queue[i] \in 1..Len(tasks)
    BY DEF MonitorTypes, MTypeInv, PollingTypes
  <2> QED
    BY <2>1, <2>2 DEF MonitorTypes, MTypeInv, ProgressTypes, InitialTypes, PollingTypes,
                      LoadingTypes, MonitorTypeOK
<1> QED
  BY <1>1, MonitorTypesInductive, PTL DEF MonitorSpec

-----------------------------------------------------------------------------
(* One dictionary, and its lists.                                          *)

LEMMA LocationsTyped ==
  ASSUME NEW list \in Seq(Task)
  PROVE  /\ LocationsOf(list) \in Seq(Locations) /\ Len(LocationsOf(list)) = Len(list)
         /\ \A i \in 1..Len(list) : LocationsOf(list)[i] = list[i].location
<1>1. Len(list) \in Nat /\ \A i \in 1..Len(list) : list[i] \in Task
  OBVIOUS
<1>2. \A i \in 1..Len(list) : list[i].location \in Locations
  BY <1>1 DEF Task
<1> QED
  BY <1>1, <1>2 DEF LocationsOf

(* A location moves from what is to be scheduled to what is.               *)
LEMMA LocationMoves ==
  ASSUME NEW S, NEW s \in Seq(S), NEW t \in Seq(S), t # <<>>,
         NEW u \in Seq(S), Len(u) = Len(s) + 1, u[Len(s) + 1] = Head(t),
         \A i \in 1..Len(s) : u[i] = s[i]
  PROVE  u \o Tail(t) = s \o t
<1>1. /\ Tail(t) \in Seq(S) /\ Len(Tail(t)) = Len(t) - 1 /\ Head(t) = t[1] /\ Len(t) # 0
      /\ \A i \in 1..Len(Tail(t)) : Tail(t)[i] = t[i + 1]
  BY HeadTailProperties
<1> DEFINE rest == Tail(t)
           left == u \o rest
           right == s \o t
<1>2. /\ left \in Seq(S) /\ Len(left) = Len(u) + Len(rest)
      /\ \A i \in 1..(Len(u) + Len(rest)) :
            left[i] = IF i <= Len(u) THEN u[i] ELSE rest[i - Len(u)]
  BY <1>1
<1>3. /\ right \in Seq(S) /\ Len(right) = Len(s) + Len(t)
      /\ \A i \in 1..(Len(s) + Len(t)) :
            right[i] = IF i <= Len(s) THEN s[i] ELSE t[i - Len(s)]
  OBVIOUS
<1>4. Len(s) \in Nat /\ Len(t) \in Nat /\ Len(rest) = Len(t) - 1 /\ t[1] = Head(t)
      /\ \A i \in 1..Len(rest) : rest[i] = t[i + 1]
  BY <1>1
<1> HIDE DEF rest, left, right
<1>5. Len(left) = Len(right)
  BY <1>2, <1>3, <1>4
<1>6. ASSUME NEW i \in 1..Len(left) PROVE left[i] = right[i]
  <2>1. i \in 1..(Len(s) + Len(t)) /\ i \in 1..(Len(u) + Len(rest))
    BY <1>2, <1>3, <1>4, <1>5, <1>6
  <2>2. CASE i <= Len(s)
    BY <1>2, <1>3, <1>4, <2>1, <2>2
  <2>3. CASE i = Len(s) + 1
    BY <1>2, <1>3, <1>4, <2>1, <2>3
  <2>4. CASE i > Len(s) + 1
    <3>1. i - Len(u) \in 1..Len(rest) /\ (i - Len(u)) + 1 = i - Len(s)
      BY <1>4, <2>1, <2>4
    <3>2. left[i] = rest[i - Len(u)] /\ right[i] = t[i - Len(s)]
      BY <1>2, <1>3, <1>4, <2>1, <2>4
    <3> QED
      BY <1>4, <3>1, <3>2
  <2> QED
    BY <1>4, <2>1, <2>2, <2>3, <2>4
<1>7. left = right
  BY <1>2, <1>3, <1>5, <1>6, SeqEqual
<1> QED
  BY <1>7 DEF left, right, rest

LEMMA ScheduleInvNext ==
  ASSUME TypeInv, MTypeInv, ScheduleInv, [MonitorNext]_mvars
  PROVE  ScheduleInv'
<1> USE DEF ScheduleInv
<1>1. InitialTypes /\ PollingTypes
  BY DEF MTypeInv
<1>2. ASSUME UNCHANGED <<tasks, toSchedule, owner, configuration>> PROVE ScheduleInv'
  BY <1>2
<1>3. CASE \/ UNCHANGED mvars \/ Load \/ (Worker /\ ~RecordTags)
           \/ \E l \in Locations : ServerChanges(l)
  <2>1. UNCHANGED <<tasks, toSchedule, owner, configuration>>
    BY <1>3 DEF mvars, Load, ReadFile, Get, GetFails, FillWord, ServerChanges, initial, polling,
                Worker, StartRound, HeadFails, HeadUnchanged, HeadChanged, PublishReload
  <2> QED
    BY <1>2, <2>1
<1>4. CASE RecordTags
  <2>1. /\ tasks' \in Seq(Task) /\ Len(tasks') = Len(tasks) /\ tasks \in Seq(Task)
        /\ \A i \in 1..Len(tasks) : tasks'[i].location = tasks[i].location
    BY <1>1, <1>4, TasksRecorded DEF PollingTypes
  <2>2. LocationsOf(tasks') = LocationsOf(tasks)
    BY <2>1 DEF LocationsOf
  <2> QED
    BY <1>4, <2>2 DEF RecordTags, initial
<1>5. ASSUME NEW c \in Callers, NEW request \in Requests, CallInitial(c, request)
      PROVE  ScheduleInv'
  <2>1. /\ state[c] = "outside" /\ UNCHANGED <<tasks, toSchedule, owner>>
        /\ configuration' = [configuration EXCEPT ![c] = NewConfigurationSub(request)]
    BY <1>5 DEF CallInitial, polling
  <2>2. owner # c
    BY <1>1, <2>1, ConstantFacts DEF InitialTypes
  <2>3. owner # None => configuration'[owner] = configuration[owner]
    BY <1>1, <2>1, <2>2 DEF InitialTypes
  <2> QED
    BY <2>1, <2>3
<1>6. ASSUME NEW c \in Callers, \/ InitialTooLate(c) \/ EnterInitial(c)
                                \/ CriticalFileMissing(c) \/ InitialReturned(c)
      PROVE  ScheduleInv'
  <2>1. UNCHANGED <<tasks, toSchedule, owner, configuration>>
    BY <1>6 DEF InitialTooLate, EnterInitial, CriticalFileMissing, InitialReturned, polling
  <2> QED
    BY <1>2, <2>1
<1>7. ASSUME NEW c \in Callers, StoreSingleton(c) PROVE ScheduleInv'
  <2>1. /\ owner' = c /\ UNCHANGED <<tasks, configuration>> /\ state[c] = "loading"
        /\ toSchedule' = (IF configuration[c].enableRemoteDict THEN Remote ELSE <<>>)
    BY <1>7 DEF StoreSingleton, polling
  <2>2. tasks = <<>>
    BY <1>1, <2>1 DEF InitialTypes, PollingTypes
  <2>3. LocationsOf(tasks) = <<>>
    <3>1. <<>> \in Seq(Task) /\ Len(<<>>) = 0
      OBVIOUS
    <3>2. LocationsOf(<<>>) \in Seq(Locations) /\ Len(LocationsOf(<<>>)) = 0
      BY <3>1, LocationsTyped
    <3> QED
      BY <2>2, <3>2
  <2>4. Remote \in Seq(Locations) /\ <<>> \in Seq(Locations)
    BY ConstantFacts
  <2>5. \A s \in Seq(Locations) : <<>> \o s = s
    BY ConcatEmptySeq
  <2> QED
    BY <2>1, <2>3, <2>4, <2>5
<1>8. ASSUME NEW c \in Callers, ScheduleMonitor(c) PROVE ScheduleInv'
  <2>1. /\ tasks' \in Seq(Task) /\ tasks \in Seq(Task) /\ Len(tasks') = Len(tasks) + 1
        /\ \A i \in 1..Len(tasks) : tasks'[i] = tasks[i]
        /\ tasks'[Len(tasks) + 1].location = Head(toSchedule)
        /\ toSchedule \in Seq(Locations) /\ toSchedule # <<>> /\ toSchedule' = Tail(toSchedule)
    BY <1>1, <1>8, TaskScheduled DEF PollingTypes, InitialTypes
  <2>2. /\ LocationsOf(tasks) \in Seq(Locations) /\ LocationsOf(tasks') \in Seq(Locations)
        /\ Len(LocationsOf(tasks)) = Len(tasks) /\ Len(LocationsOf(tasks')) = Len(tasks) + 1
        /\ \A i \in 1..Len(tasks) : LocationsOf(tasks)[i] = tasks[i].location
        /\ \A i \in 1..(Len(tasks) + 1) : LocationsOf(tasks')[i] = tasks'[i].location
    BY <2>1, LocationsTyped
  <2>3. \A i \in 1..Len(tasks) : LocationsOf(tasks')[i] = LocationsOf(tasks)[i]
    BY <2>1, <2>2
  <2>4. LocationsOf(tasks')[Len(tasks) + 1] = Head(toSchedule)
    BY <2>1, <2>2
  <2>5. LocationsOf(tasks') \o Tail(toSchedule) = LocationsOf(tasks) \o toSchedule
    <3> DEFINE before == LocationsOf(tasks)
               after == LocationsOf(tasks')
    <3>1. /\ before \in Seq(Locations) /\ after \in Seq(Locations)
          /\ Len(after) = Len(before) + 1 /\ after[Len(before) + 1] = Head(toSchedule)
          /\ \A i \in 1..Len(before) : after[i] = before[i]
          /\ toSchedule \in Seq(Locations) /\ toSchedule # <<>>
      BY <2>1, <2>2, <2>3, <2>4
    <3> HIDE DEF before, after
    <3>2. after \o Tail(toSchedule) = before \o toSchedule
      BY <3>1, LocationMoves
    <3> QED
      BY <3>2 DEF before, after
  <2> QED
    BY <1>8, <2>1, <2>5 DEF ScheduleMonitor
<1> QED
  BY <1>3, <1>4, <1>5, <1>6, <1>7, <1>8 DEF MonitorNext, InsideInitial, Worker

(* One dictionary is made, however many callers race for it, a caller      *)
(* returns only when it is there, and every list is monitored once if the  *)
(* configuration that came first says so (dictionary.go:114-141).          *)
THEOREM OneDictionaryIsMade == MonitorSpec => []OneDictionary
<1>1. MonitorInit => ScheduleInv
  BY DEF MonitorInit, ScheduleInv
<1>2. MonitorTypes /\ ScheduleInv /\ [MonitorNext]_mvars => ScheduleInv'
  BY ScheduleInvNext DEF MonitorTypes
<1>3. MonitorTypes /\ ScheduleInv => OneDictionary
  BY DEF MonitorTypes, MTypeInv, InitialTypes, ScheduleInv, OneDictionary, LocationsOf
<1> QED
  BY <1>1, <1>2, <1>3, MonitorTypesInductive, PTL DEF MonitorSpec

-----------------------------------------------------------------------------
(* The monitors.                                                           *)

(* What a version accounts for, a later one does.                          *)
LEMMA TagsUpToGrows ==
  ASSUME NEW l, NEW lastModified, NEW eTag, NEW v \in Nat, NEW w \in Nat, v <= w,
         TagsUpTo(l, lastModified, eTag, v)
  PROVE  TagsUpTo(l, lastModified, eTag, w)
<1>1. 1..v \subseteq 1..w
  OBVIOUS
<1> QED
  BY <1>1 DEF TagsUpTo

(* A step at which versions go up and lists are read as they are.          *)
VersionsGrow ==
    \A l \in Locations :
       /\ version[l] \in Nat /\ version'[l] \in Nat /\ version[l] <= version'[l]
       /\ \/ got'[l] = got[l] \/ got'[l] = Missing
          \/ got'[l] = version[l] /\ version'[l] = version[l]
       /\ inUse'[l] = inUse[l] \/ inUse'[l] = got[l]

LEMMA MonitorTrailsOn ==
  ASSUME VersionsGrow, NEW l \in Locations, NEW lastModified, NEW eTag,
         TagsUpTo(l, lastModified, eTag, version[l])
  PROVE  /\ TagsUpTo(l, lastModified, eTag, version'[l])
         /\ Trails(l, lastModified, eTag, got[l]) => Trails(l, lastModified, eTag, got'[l])
         /\ /\ Trails(l, lastModified, eTag, got[l])
            /\ Trails(l, lastModified, eTag, inUse[l])
            => Trails(l, lastModified, eTag, inUse'[l])
<1>1. TagsUpTo(l, lastModified, eTag, version'[l])
  BY TagsUpToGrows DEF VersionsGrow
<1> QED
  BY <1>1 DEF Trails, VersionsGrow

(* What a monitor believes in, given where it is.                          *)
TaskTrails(task, up, read, used) ==
    /\ TagsUpTo(task.location, task.lastModified, task.eTag, up[task.location])
    /\ Trails(task.location, task.lastModified, task.eTag, read[task.location])
    /\ Trails(task.location, task.lastModified, task.eTag, used[task.location])

AnswerTrails ==
    phase # "poll" =>
       LET l == Polled.location
       IN  /\ TagsUpTo(l, answer.lastModified, answer.eTag, version[l])
           /\ l \in Left \/ Trails(l, answer.lastModified, answer.eTag, got[l])
           /\ phase = "record" => Trails(l, answer.lastModified, answer.eTag, inUse[l])

LEMMA TrailParts ==
  TrailInv <=> /\ \A i \in 1..Len(tasks) : TaskTrails(tasks[i], version, got, inUse)
               /\ AnswerTrails
BY DEF TrailInv, TaskTrails, AnswerTrails

LEMMA VersionsGrowNext ==
  ASSUME MTypeInv, [MonitorNext]_mvars
  PROVE  VersionsGrow
<1> SUFFICES ASSUME NEW l \in Locations
             PROVE  /\ version[l] \in Nat /\ version'[l] \in Nat /\ version[l] <= version'[l]
                    /\ \/ got'[l] = got[l] \/ got'[l] = Missing
                       \/ got'[l] = version[l] /\ version'[l] = version[l]
                    /\ inUse'[l] = inUse[l] \/ inUse'[l] = got[l]
  BY DEF VersionsGrow
<1>1. /\ version \in [Locations -> Versions] /\ version[l] \in Nat
      /\ got \in [Locations -> Versions \cup {Missing}]
  BY VersionFacts DEF MTypeInv, ProgressTypes
<1>2. version' = version \/ \E m \in Locations : version' = [version EXCEPT ![m] = @ + 1]
  BY DEF MonitorNext, ServerChanges, CallInitial, InsideInitial, InitialTooLate, EnterInitial,
         CriticalFileMissing, StoreSingleton, ScheduleMonitor, InitialReturned, Load, ReadFile,
         Get, GetFails, FillWord, Worker, StartRound, HeadFails, HeadUnchanged, HeadChanged,
         PublishReload, RecordTags, mvars, servers
<1>3. version'[l] \in Nat /\ version[l] <= version'[l]
  BY <1>1, <1>2
<1>4. \/ got' = got
      \/ \E m \in Locations : got' = [got EXCEPT ![m] = Missing]
      \/ version' = version /\ \E m \in Locations : got' = [got EXCEPT ![m] = version[m]]
  BY DEF MonitorNext, ServerChanges, CallInitial, InsideInitial, InitialTooLate, EnterInitial,
         CriticalFileMissing, StoreSingleton, ScheduleMonitor, InitialReturned, Load, ReadFile,
         Get, GetFails, FillWord, Worker, StartRound, HeadFails, HeadUnchanged, HeadChanged,
         PublishReload, RecordTags, mvars, servers, progress
<1>5. \/ got'[l] = got[l] \/ got'[l] = Missing
      \/ got'[l] = version[l] /\ version'[l] = version[l]
  BY <1>1, <1>4
<1>6. inUse' = inUse \/ inUse' = got
  BY DEF MonitorNext, ServerChanges, CallInitial, InsideInitial, InitialTooLate, EnterInitial,
         CriticalFileMissing, StoreSingleton, ScheduleMonitor, InitialReturned, Load, ReadFile,
         Get, GetFails, FillWord, Worker, StartRound, HeadFails, HeadUnchanged, HeadChanged,
         PublishReload, RecordTags, mvars, progress
<1> QED
  BY <1>1, <1>3, <1>5, <1>6

(* A monitor that does not change trails on, and one that records the      *)
(* answer as the answer does.                                              *)
LEMMA TaskTrailsOn ==
  ASSUME VersionsGrow, NEW task, task.location \in Locations, TaskTrails(task, version, got, inUse)
  PROVE  TaskTrails(task, version', got', inUse')
BY MonitorTrailsOn DEF TaskTrails

LEMMA TaskLocation ==
  ASSUME PollingTypes, NEW i \in 1..Len(tasks)
  PROVE  tasks[i].location \in Locations
<1>1. tasks[i] \in Task
  BY DEF PollingTypes
<1> QED
  BY <1>1 DEF Task

LEMMA TasksTrailNext ==
  ASSUME MTypeInv, TrailInv, VersionsGrow, [MonitorNext]_mvars
  PROVE  \A i \in 1..Len(tasks') : TaskTrails(tasks'[i], version', got', inUse')
<1>1. PollingTypes /\ InitialTypes /\ tasks \in Seq(Task) /\ Len(tasks) \in Nat
  BY DEF MTypeInv, PollingTypes
<1>2. (\A i \in 1..Len(tasks) : TaskTrails(tasks[i], version, got, inUse)) /\ AnswerTrails
  BY TrailParts
<1>3. \A i \in 1..Len(tasks) : \A task :
         task = tasks[i] => task.location \in Locations /\ TaskTrails(task, version, got, inUse)
  BY <1>1, <1>2, TaskLocation
<1>4. \A i \in 1..Len(tasks) : \A task : task = tasks[i] => TaskTrails(task, version', got', inUse')
  BY <1>3, TaskTrailsOn
<1>5. CASE UNCHANGED tasks
  BY <1>4, <1>5
<1>6. ASSUME NEW c \in Callers, ScheduleMonitor(c)
      PROVE  \A i \in 1..Len(tasks') : TaskTrails(tasks'[i], version', got', inUse')
  <2>1. /\ Len(tasks') = Len(tasks) + 1 /\ \A i \in 1..Len(tasks) : tasks'[i] = tasks[i]
        /\ tasks'[Len(tasks) + 1].lastModified = Absent /\ tasks'[Len(tasks) + 1].eTag = Absent
    BY <1>1, <1>6, TaskScheduled
  <2>2. \A task : task.lastModified = Absent /\ task.eTag = Absent => TaskTrails(task, version', got', inUse')
    BY DEF TaskTrails, Trails, TagsUpTo
  <2>3. \A i \in 1..Len(tasks') : i \in 1..Len(tasks) \/ i = Len(tasks) + 1
    BY <1>1, <2>1
  <2> QED
    BY <1>4, <2>1, <2>2, <2>3
<1>7. CASE RecordTags
  <2>1. /\ Len(tasks') = Len(tasks) /\ queue # <<>> /\ phase = "record"
        /\ UNCHANGED <<version, got, inUse>>
        /\ Head(queue) \in 1..Len(tasks)
        /\ \A i \in 1..Len(tasks) : i # Head(queue) => tasks'[i] = tasks[i]
    BY <1>1, <1>7, TasksRecorded, QueueFacts DEF RecordTags, PollingTypes, servers, progress
  <2>2. /\ tasks'[Head(queue)].location = Polled.location
        /\ tasks'[Head(queue)].lastModified = answer.lastModified
        /\ tasks'[Head(queue)].eTag = answer.eTag
    BY <1>1, <1>7, <2>1, TasksRecorded DEF Polled
  <2>3. Left = {}
    <3>1. sources = <<>>
      <4>1. ~Loading
        BY <2>1, WhoLoads
      <4> QED
        BY <4>1 DEF MTypeInv, LoadingTypes
    <3> QED
      BY <3>1 DEF Left, Range
  <2>4. /\ TagsUpTo(Polled.location, answer.lastModified, answer.eTag, version[Polled.location])
        /\ Trails(Polled.location, answer.lastModified, answer.eTag, got[Polled.location])
        /\ Trails(Polled.location, answer.lastModified, answer.eTag, inUse[Polled.location])
    BY <1>2, <2>1, <2>3 DEF AnswerTrails
  <2>5. \A task : /\ task.location = Polled.location /\ task.eTag = answer.eTag
                  /\ task.lastModified = answer.lastModified
                  => TaskTrails(task, version', got', inUse')
    BY <2>1, <2>4 DEF TaskTrails, Trails, TagsUpTo
  <2>6. TaskTrails(tasks'[Head(queue)], version', got', inUse')
    BY <2>2, <2>5
  <2> QED
    BY <1>4, <2>1, <2>6
<1>8. \/ UNCHANGED tasks \/ RecordTags \/ \E c \in Callers : ScheduleMonitor(c)
  BY DEF MonitorNext, ServerChanges, CallInitial, InsideInitial, InitialTooLate, EnterInitial,
         CriticalFileMissing, StoreSingleton, InitialReturned, Load, ReadFile, Get, GetFails,
         FillWord, Worker, StartRound, HeadFails, HeadUnchanged, HeadChanged, PublishReload,
         mvars, polling
<1> QED
  BY <1>5, <1>6, <1>7, <1>8

(* While the worker is busy with a monitor nothing makes another out of it.*)
LEMMA PolledStays ==
  ASSUME PollingTypes, InitialTypes, phase # "poll", UNCHANGED queue,
         UNCHANGED tasks \/ \E c \in Callers : ScheduleMonitor(c)
  PROVE  /\ Polled' = Polled /\ Polled.location \in Locations
<1>1. queue # <<>> /\ Head(queue) \in 1..Len(tasks)
  BY QueueFacts DEF PollingTypes
<1>2. Polled.location \in Locations
  BY <1>1, TaskLocation DEF Polled
<1>3. Polled' = Polled
  BY <1>1, TaskScheduled DEF Polled
<1> QED
  BY <1>2, <1>3

LEMMA AnswerTrailsNext ==
  ASSUME TypeInv, MTypeInv, AnswerTrails, VersionsGrow, [MonitorNext]_mvars
  PROVE  AnswerTrails'
<1> DEFINE l == Polled.location
<1>1. PollingTypes /\ InitialTypes /\ LoadingTypes /\ ProgressTypes
  BY DEF MTypeInv
(* The answer, where it waits for the list to be read.                     *)
<1>2. ASSUME phase # "poll", UNCHANGED <<phase, answer, queue>>,
             UNCHANGED tasks \/ \E c \in Callers : ScheduleMonitor(c),
             l \in Left => \/ l \in Left' \/ got'[l] = version[l] \/ got'[l] = Missing
      PROVE  AnswerTrails'
  <2>1. Polled'.location = l /\ l \in Locations
    BY <1>1, <1>2, PolledStays
  <2>2. /\ TagsUpTo(l, answer.lastModified, answer.eTag, version[l])
        /\ l \in Left \/ Trails(l, answer.lastModified, answer.eTag, got[l])
        /\ phase = "record" => Trails(l, answer.lastModified, answer.eTag, inUse[l])
    BY <1>2 DEF AnswerTrails
  <2>3. /\ TagsUpTo(l, answer.lastModified, answer.eTag, version'[l])
        /\ Trails(l, answer.lastModified, answer.eTag, got[l])
              => Trails(l, answer.lastModified, answer.eTag, got'[l])
        /\ /\ Trails(l, answer.lastModified, answer.eTag, got[l])
           /\ Trails(l, answer.lastModified, answer.eTag, inUse[l])
           => Trails(l, answer.lastModified, answer.eTag, inUse'[l])
    BY <2>1, <2>2, MonitorTrailsOn
  <2>4. l \in Left' \/ Trails(l, answer.lastModified, answer.eTag, got'[l])
    BY <1>2, <2>2, <2>3 DEF Trails
  <2>5. phase = "record" => Left = {}
    <3>1. phase = "record" => sources = <<>>
      BY <1>1, WhoLoads DEF MTypeInv, LoadingTypes
    <3> QED
      BY <3>1 DEF Left, Range
  <2>6. phase = "record" => Trails(l, answer.lastModified, answer.eTag, inUse'[l])
    BY <2>2, <2>3, <2>5
  <2> HIDE DEF l
  <2>7. \A m : m = Polled'.location =>
           /\ TagsUpTo(m, answer'.lastModified, answer'.eTag, version'[m])
           /\ m \in Left' \/ Trails(m, answer'.lastModified, answer'.eTag, got'[m])
           /\ phase' = "record" => Trails(m, answer'.lastModified, answer'.eTag, inUse'[m])
    BY <1>2, <2>1, <2>3, <2>4, <2>6
  <2> QED
    BY <2>7 DEF AnswerTrails
<1>3. CASE phase' = "poll"
  BY <1>3 DEF AnswerTrails
<1>4. sources # <<>> => Left = {Head(sources)} \cup Range(Tail(sources))
  BY <1>1, TailFacts DEF ProgressTypes, Left
<1>5. CASE Load /\ phase # "poll"
  <2>1. UNCHANGED <<phase, answer, queue, tasks>>
    BY <1>5 DEF Load, ReadFile, Get, GetFails, FillWord, polling
  <2>2. l \in Locations
    BY <1>1, <1>5, <2>1, PolledStays
  <2>3. CASE ReadFile
    <3>1. Head(sources) \notin Locations /\ Left' = Range(Tail(sources)) /\ sources # <<>>
      BY <2>3 DEF ReadFile, Left
    <3> QED
      BY <1>2, <1>4, <1>5, <2>1, <2>2, <3>1
  <2>4. CASE Get \/ GetFails
    <3>1. Left' = Range(Tail(sources)) /\ sources # <<>> /\ Head(sources) \in Locations
      BY <2>4 DEF Get, GetFails, Left
    <3>2. got'[Head(sources)] \in {version[Head(sources)], Missing}
      BY <1>1, <2>4 DEF Get, GetFails, ProgressTypes
    <3> QED
      BY <1>2, <1>4, <1>5, <2>1, <2>2, <3>1, <3>2
  <2>5. CASE FillWord
    <3>1. Left' = Left
      BY <2>5 DEF FillWord, progress, Left
    <3> QED
      BY <1>2, <1>5, <2>1, <3>1
  <2> QED
    BY <1>5, <2>3, <2>4, <2>5 DEF Load
<1>6. CASE phase # "poll" /\ \/ UNCHANGED mvars
                             \/ \E m \in Locations : ServerChanges(m)
                             \/ \E c \in Callers, request \in Requests : CallInitial(c, request)
                             \/ \E c \in Callers : InitialTooLate(c) \/ ScheduleMonitor(c)
                                                   \/ InitialReturned(c)
  <2>1. /\ UNCHANGED <<phase, answer, queue, sources>>
        /\ UNCHANGED tasks \/ \E c \in Callers : ScheduleMonitor(c)
    BY <1>6 DEF mvars, ServerChanges, CallInitial, InitialTooLate, ScheduleMonitor,
                InitialReturned, polling, progress
  <2>2. Left' = Left
    BY <2>1 DEF Left
  <2> QED
    BY <1>2, <1>6, <2>1, <2>2
<1>7. ASSUME phase # "poll", NEW c \in Callers,
             EnterInitial(c) \/ CriticalFileMissing(c) \/ StoreSingleton(c)
      PROVE  FALSE
  <2>1. live # 0
    BY <1>1, <1>7, QueueFacts DEF PollingTypes
  <2>2. live = 0
    BY <1>1, <1>7 DEF EnterInitial, CriticalFileMissing, DropLoad, StoreSingleton, InitialTypes
  <2> QED
    BY <2>1, <2>2
<1>8. CASE HeadChanged
  <2>1. /\ queue # <<>> /\ phase' = "reload" /\ answer' = Response /\ sources' = ReloadSources
        /\ UNCHANGED <<tasks, queue, version, got>>
    BY <1>8 DEF HeadChanged, servers, ReloadSources
  <2>2. Polled'.location = l /\ l \in Locations
    BY <1>1, <2>1, QueueFacts, TaskLocation DEF Polled
  <2>3. l \in Left'
    BY <2>1, <2>2, SourcesFacts DEF Left
  <2>4. answer'.lastModified = Tags[l][version[l]].lastModified
        /\ answer'.eTag = Tags[l][version[l]].eTag
    BY <2>1 DEF Response
  <2>5. TagsUpTo(l, answer'.lastModified, answer'.eTag, version'[l])
    <3>1. version[l] \in 1..version[l]
      BY <1>1, <2>2, VersionFacts DEF Versions
    <3> QED
      BY <2>1, <2>4, <3>1 DEF TagsUpTo
  <2> HIDE DEF l
  <2>6. \A m : m = Polled'.location =>
           /\ TagsUpTo(m, answer'.lastModified, answer'.eTag, version'[m])
           /\ m \in Left'
    BY <2>2, <2>3, <2>5
  <2> QED
    BY <2>1, <2>6 DEF AnswerTrails
<1>9. CASE PublishReload
  <2>1. /\ phase = "reload" /\ phase' = "record" /\ sources = <<>> /\ inUse' = got
        /\ UNCHANGED <<version, tasks, queue, answer, got>>
    BY <1>9 DEF PublishReload, AllRead, servers
  <2>2. Polled'.location = l
    BY <2>1 DEF Polled
  <2>3. Left = {}
    BY <2>1 DEF Left, Range
  <2>4. /\ TagsUpTo(l, answer.lastModified, answer.eTag, version[l])
        /\ Trails(l, answer.lastModified, answer.eTag, got[l])
    BY <2>1, <2>3 DEF AnswerTrails
  <2> HIDE DEF l
  <2>5. \A m : m = Polled'.location =>
           /\ TagsUpTo(m, answer'.lastModified, answer'.eTag, version'[m])
           /\ Trails(m, answer'.lastModified, answer'.eTag, got'[m])
           /\ Trails(m, answer'.lastModified, answer'.eTag, inUse'[m])
    BY <2>1, <2>2, <2>4
  <2> QED
    BY <2>5 DEF AnswerTrails
<1>10. CASE phase # "poll" /\ (StartRound \/ HeadFails \/ HeadUnchanged)
  BY <1>1, <1>10 DEF PollingTypes, StartRound, HeadFails, HeadUnchanged
<1>11. CASE RecordTags
  BY <1>3, <1>11 DEF RecordTags
<1>12. CASE phase = "poll" /\ ~HeadChanged
  <2>1. phase' = "poll"
    BY <1>12 DEF MonitorNext, ServerChanges, CallInitial, InsideInitial, InitialTooLate,
       EnterInitial, CriticalFileMissing, StoreSingleton, ScheduleMonitor, InitialReturned, Load,
       ReadFile, Get, GetFails, FillWord, Worker, StartRound, HeadFails, HeadUnchanged,
       PublishReload, RecordTags, mvars, polling
  <2> QED
    BY <1>3, <2>1
<1> QED
  BY <1>5, <1>6, <1>7, <1>8, <1>9, <1>10, <1>11, <1>12 DEF MonitorNext, InsideInitial, Worker

(* A monitor never believes in a version later than the one whose words    *)
(* are in force, for any number of lists, versions and failures, though    *)
(* lists change between the HEAD and the GET and though other monitors     *)
(* reload them too (monitor.go:73-82).                                     *)
THEOREM MonitorsTrailInForce == MonitorSpec => []MonitorsTrail
<1>1. MonitorInit => TrailInv
  <2>1. MonitorInit => tasks = <<>> /\ phase = "poll" /\ Len(tasks) = 0
    BY DEF MonitorInit
  <2> QED
    BY <2>1 DEF TrailInv
<1>2. MonitorTypes /\ TrailInv /\ [MonitorNext]_mvars => TrailInv'
  <2> SUFFICES ASSUME MonitorTypes, TrailInv, [MonitorNext]_mvars PROVE TrailInv'
    OBVIOUS
  <2>1. VersionsGrow /\ AnswerTrails /\ TypeInv /\ MTypeInv
    BY VersionsGrowNext, TrailParts DEF MonitorTypes
  <2>2. AnswerTrails' /\ \A i \in 1..Len(tasks') : TaskTrails(tasks'[i], version', got', inUse')
    BY <2>1, AnswerTrailsNext, TasksTrailNext
  <2> QED
    BY <2>2 DEF TrailInv, TaskTrails, AnswerTrails
<1>3. TrailInv /\ MonitorTypes => MonitorsTrail
  BY DEF TrailInv, MonitorsTrail, Trails, TagsUpTo
<1> QED
  BY <1>1, <1>2, <1>3, MonitorTypesInductive, PTL DEF MonitorSpec

-----------------------------------------------------------------------------
(* What comes into force.                                                  *)

(* A set of numbers has a least one, and if it is bounded a greatest.      *)
LEMMA Least ==
  ASSUME NEW T, T \subseteq Nat, T # {}
  PROVE  \E x \in T : \A y \in T : x <= y
<1> DEFINE R == OpToRel(<, Nat)
<1>1. IsWellFoundedOn(R, Nat)
  BY NatLessThanWellFounded
<1> HIDE DEF R
<1>2. PICK x \in T : \A y \in T : ~(<<y, x>> \in R)
  BY <1>1, WFMin
<1>3. \A y \in T : ~(y < x)
  BY <1>2 DEF R, OpToRel
<1> QED
  BY <1>3

LEMMA Greatest ==
  ASSUME NEW n \in Nat, NEW T, T \subseteq 0..n, T # {}
  PROVE  \E x \in T : \A y \in T : y <= x
<1> DEFINE U == {n - x : x \in T}
<1>1. U \subseteq Nat /\ U # {}
  OBVIOUS
<1> HIDE DEF U
<1>2. PICK u \in U : \A v \in U : u <= v
  BY <1>1, Least
<1>3. PICK x \in T : u = n - x
  BY DEF U
<1>4. ASSUME NEW y \in T PROVE y <= x
  <2>1. n - y \in U
    BY DEF U
  <2>2. u <= n - y
    BY <1>2, <2>1
  <2> QED
    BY <1>3, <2>2
<1> QED
  BY <1>4

(* What is trimmed is a text, and only what is empty is put in small       *)
(* letters as nothing.                                                     *)
LEMMA TrimIsText ==
  ASSUME NEW units \in Seq(Char)
  PROVE  Trim(units) \in Seq(Char)
<1> DEFINE kept == {i \in 1..Len(units) : units[i] > Space}
           first == CHOOSE i \in kept : \A j \in kept : i <= j
           last == CHOOSE i \in kept : \A j \in kept : j <= i
<1>1. Trim(units) = IF kept = {} THEN <<>> ELSE SubSeq(units, first, last)
  BY DEF Trim
<1>2. CASE kept = {}
  BY <1>1, <1>2
<1>3. CASE kept # {}
  <2>1. kept \subseteq Nat /\ kept \subseteq 0..Len(units) /\ Len(units) \in Nat
    OBVIOUS
  <2>2. kept \subseteq 1..Len(units)
    OBVIOUS
  <2> HIDE DEF kept
  <2>3. first \in kept
    <3>1. \E i \in kept : \A j \in kept : i <= j
      BY <1>3, <2>1, Least
    <3> QED
      BY <3>1
  <2>4. last \in kept
    <3>1. \E i \in kept : \A j \in kept : j <= i
      BY <1>3, <2>1, Greatest
    <3> QED
      BY <3>1
  <2> HIDE DEF first, last
  <2>5. first \in Int /\ last \in Int /\ \A i \in first..last : units[i] \in Char
    BY <2>2, <2>3, <2>4
  <2>6. SubSeq(units, first, last) \in Seq(Char)
    BY <2>5, SubSeqProperties
  <2> QED
    BY <1>1, <1>3, <2>6
<1> QED
  BY <1>2, <1>3

LEMMA ToLowerFacts ==
  ASSUME NEW units \in Seq(Char)
  PROVE  (ToLower(units) = <<>>) <=> (units = <<>>)
<1>1. Len(units) \in Nat /\ \A i \in 1..Len(units) : units[i] \in Int
  BY CharIsInt
<1>2. \A i \in 1..Len(units) : (IF units[i] \in 65..90 THEN units[i] + 32 ELSE units[i]) \in Int
  BY <1>1
<1>3. ToLower(units) \in Seq(Int) /\ Len(ToLower(units)) = Len(units)
  BY <1>1, <1>2 DEF ToLower
<1>4. ToLower(units) = <<>> <=> Len(ToLower(units)) = 0
  BY <1>3
<1>5. units = <<>> <=> Len(units) = 0
  OBVIOUS
<1> QED
  BY <1>3, <1>4, <1>5

(* The words of the lines that are read from a file or a list.             *)
LEMMA LinesHold ==
  ASSUME NEW source, NEW words \in Seq(Seq(Char)), NEW kind
  PROVE  WordsToFill(kind, Lines(source, words)) =
            IF KindOfSource(source) # kind THEN {}
            ELSE IF source \in Locations THEN {ToLower(word) : word \in WordsIn(words)}
            ELSE WordsIn(words)
<1> DEFINE lines == Lines(source, words)
<1>1. Len(words) \in Nat /\ \A i \in 1..Len(words) : words[i] \in Seq(Char)
  OBVIOUS
<1>2. Len(lines) = Len(words)
      /\ \A i \in 1..Len(words) : /\ lines[i].kind = KindOfSource(source)
                                  /\ lines[i].word = Normal(source, words[i])
  BY <1>1 DEF Lines
<1>3. \A i \in 1..Len(words) :
         Normal(source, words[i]) = IF source \in Locations THEN ToLower(Trim(words[i]))
                                    ELSE Trim(words[i])
  BY DEF Normal
<1>4. \A i \in 1..Len(words) : Trim(words[i]) \in Seq(Char)
  BY <1>1, TrimIsText
<1>5. \A i \in 1..Len(words) : (ToLower(Trim(words[i])) = <<>>) <=> (Trim(words[i]) = <<>>)
  BY <1>4, ToLowerFacts
<1> HIDE DEF lines
<1>6. CASE KindOfSource(source) # kind
  <2>1. \A i \in 1..Len(lines) : lines[i].kind # kind
    BY <1>2, <1>6
  <2>2. WordsToFill(kind, lines) = {}
    BY <2>1 DEF WordsToFill
  <2> QED
    BY <1>6, <2>2 DEF lines
<1>7. CASE KindOfSource(source) = kind
  <2>1. \A x : x \in WordsToFill(kind, lines) <=>
                  x # <<>> /\ \E i \in 1..Len(words) : x = Normal(source, words[i])
    BY <1>2, <1>7 DEF WordsToFill
  <2>2. \A x : x \in WordsIn(words) <=> x # <<>> /\ \E i \in 1..Len(words) : x = Trim(words[i])
    BY DEF WordsIn
  <2>3. CASE source \notin Locations
    <3>1. \A x : x \in WordsToFill(kind, lines) <=> x \in WordsIn(words)
      BY <1>3, <2>1, <2>2, <2>3
    <3>2. WordsToFill(kind, lines) = WordsIn(words)
      BY <3>1
    <3> QED
      BY <1>7, <2>3, <3>2 DEF lines
  <2>4. CASE source \in Locations
    <3>1. \A x : x \in WordsToFill(kind, lines) <=> \E word \in WordsIn(words) : x = ToLower(word)
      BY <1>3, <1>5, <2>1, <2>2, <2>4
    <3>2. WordsToFill(kind, lines) = {ToLower(word) : word \in WordsIn(words)}
      BY <3>1
    <3> QED
      BY <1>7, <2>4, <3>2 DEF lines
  <2> QED
    BY <2>3, <2>4
<1> QED
  BY <1>6, <1>7

LEMMA NoLines ==
  \A kind : WordsToFill(kind, <<>>) = {}
<1>1. Len(<<>>) = 0
  OBVIOUS
<1> QED
  BY <1>1 DEF WordsToFill

LEMMA FirstLine ==
  ASSUME NEW S, NEW lines \in Seq(S), lines # <<>>, NEW kind
  PROVE  WordsToFill(kind, lines) =
            (IF Head(lines).kind = kind /\ Head(lines).word # <<>> THEN {Head(lines).word} ELSE {})
               \cup WordsToFill(kind, Tail(lines))
<1> DEFINE rest == Tail(lines)
           line == Head(lines)
<1>1. /\ Len(lines) \in Nat \ {0} /\ line = lines[1] /\ Len(rest) = Len(lines) - 1
      /\ \A i \in 1..Len(rest) : rest[i] = lines[i + 1] /\ i + 1 \in 1..Len(lines)
  BY HeadTailProperties
<1>2. \A i \in 1..Len(lines) : i = 1 \/ (i - 1 \in 1..Len(rest) /\ rest[i - 1] = lines[i])
  <2> SUFFICES ASSUME NEW i \in 1..Len(lines), i # 1
               PROVE  i - 1 \in 1..Len(rest) /\ rest[i - 1] = lines[i]
    OBVIOUS
  <2>1. i - 1 \in 1..Len(rest) /\ (i - 1) + 1 = i
    BY <1>1
  <2> HIDE DEF rest
  <2> QED
    BY <1>1, <2>1
<1>3. 1 \in 1..Len(lines)
  BY <1>1
<1> HIDE DEF rest, line
<1>4. \A x, list : x \in WordsToFill(kind, list) <=>
         x # <<>> /\ \E i \in 1..Len(list) : list[i].kind = kind /\ x = list[i].word
  BY DEF WordsToFill
<1>5. \A x : x \in WordsToFill(kind, lines) <=>
                \/ line.kind = kind /\ line.word # <<>> /\ x = line.word
                \/ x \in WordsToFill(kind, rest)
  <2> SUFFICES ASSUME NEW x
               PROVE  x \in WordsToFill(kind, lines) <=>
                         \/ line.kind = kind /\ line.word # <<>> /\ x = line.word
                         \/ x \in WordsToFill(kind, rest)
    OBVIOUS
  <2>1. ASSUME NEW i \in 1..Len(lines), x # <<>>, lines[i].kind = kind, x = lines[i].word
        PROVE  \/ line.kind = kind /\ line.word # <<>> /\ x = line.word
               \/ x \in WordsToFill(kind, rest)
    <3>1. CASE i = 1
      BY <1>1, <2>1, <3>1
    <3>2. CASE i - 1 \in 1..Len(rest) /\ rest[i - 1] = lines[i]
      BY <1>4, <2>1, <3>2
    <3> QED
      BY <1>2, <3>1, <3>2
  <2>2. ASSUME line.kind = kind, line.word # <<>>, x = line.word
        PROVE  x \in WordsToFill(kind, lines)
    BY <1>1, <1>3, <1>4, <2>2
  <2>3. ASSUME x \in WordsToFill(kind, rest)
        PROVE  x \in WordsToFill(kind, lines)
    <3>1. PICK i \in 1..Len(rest) : x # <<>> /\ rest[i].kind = kind /\ x = rest[i].word
      BY <1>4, <2>3
    <3>2. i + 1 \in 1..Len(lines) /\ rest[i] = lines[i + 1]
      BY <1>1
    <3> QED
      BY <1>4, <3>1, <3>2
  <2> QED
    BY <1>4, <2>1, <2>2, <2>3
<1>6. WordsToFill(kind, lines) =
         (IF line.kind = kind /\ line.word # <<>> THEN {line.word} ELSE {})
            \cup WordsToFill(kind, rest)
  BY <1>5
<1> QED
  BY <1>6 DEF rest, line

(* Nothing changes the configuration of a load that goes on.               *)
LEMMA FilesStay ==
  ASSUME TypeInv, MTypeInv, Loading, Loading', [MonitorNext]_mvars
  PROVE  Files' = Files
<1> DEFINE c == IF owner = None THEN singletonMu ELSE owner
<1>1. c \in Callers /\ state[c] # "outside" /\ InitialTypes
  BY FilesFacts DEF MTypeInv
<1>2. ASSUME UNCHANGED <<owner, configuration>>, owner = None => UNCHANGED singletonMu
      PROVE  Files' = Files
  BY <1>2 DEF Files
<1>3. ASSUME NEW d \in Callers, NEW request \in Requests, CallInitial(d, request)
      PROVE  Files' = Files
  <2>1. /\ state[d] = "outside" /\ UNCHANGED <<owner, singletonMu>>
        /\ configuration' = [configuration EXCEPT ![d] = NewConfigurationSub(request)]
    BY <1>3 DEF CallInitial
  <2>2. configuration'[c] = configuration[c]
    BY <1>1, <2>1 DEF InitialTypes
  <2>3. Files = configuration[c].env /\ Files' = configuration'[c].env
    BY <2>1 DEF Files
  <2> QED
    BY <2>2, <2>3
<1>4. ASSUME NEW d \in Callers, InsideInitial(d) PROVE Files' = Files
  <2>1. CASE InitialTooLate(d) \/ ScheduleMonitor(d)
    BY <1>2, <2>1 DEF InitialTooLate, ScheduleMonitor
  <2>2. CASE InitialReturned(d)
    <3>1. state[d] = "scheduling" /\ UNCHANGED <<owner, configuration>>
      BY <2>2 DEF InitialReturned
    <3>2. owner # None
      BY <1>1, <3>1, ConstantFacts DEF InitialTypes
    <3> QED
      BY <1>2, <3>1, <3>2
  <2>3. ~(EnterInitial(d) \/ CriticalFileMissing(d) \/ StoreSingleton(d))
    BY DictSteps DEF EnterInitial, CriticalFileMissing, StoreSingleton
  <2> QED
    BY <1>4, <2>1, <2>2, <2>3 DEF InsideInitial
<1>5. CASE UNCHANGED mvars \/ Load \/ Worker \/ \E l \in Locations : ServerChanges(l)
  <2>1. UNCHANGED <<owner, configuration, singletonMu>>
    BY <1>5 DEF mvars, Load, ReadFile, Get, GetFails, FillWord, Worker, StartRound, HeadFails,
                HeadUnchanged, HeadChanged, PublishReload, RecordTags, ServerChanges, initial
  <2> QED
    BY <1>2, <2>1
<1> QED
  BY <1>3, <1>4, <1>5 DEF MonitorNext

(* Sources are taken off the list one by one.                              *)
LEMMA LeftInvNext ==
  ASSUME MTypeInv, LeftInv, [MonitorNext]_mvars
  PROVE  LeftInv'
<1>1. sources \in Seq(STRING)
  BY DEF MTypeInv, ProgressTypes
<1>2. CASE sources' = sources
  BY <1>2 DEF LeftInv, Left
<1>3. CASE sources' = <<>>
  <2>1. <<>> \in Seq(STRING) /\ Len(<<>>) = 0
    OBVIOUS
  <2>2. Range(<<>>) = {} /\ IsInjective(<<>>)
    BY <2>1, RangeFacts
  <2> QED
    BY <1>3, <2>2 DEF LeftInv, Left
<1>4. CASE sources # <<>> /\ sources' = Tail(sources)
  BY <1>1, <1>4, TailFacts DEF LeftInv, Left
<1>5. CASE sources' = InitialSources \/ sources' = ReloadSources
  BY <1>5, SourcesFacts DEF LeftInv, Left
<1>6. \/ sources' = sources
      \/ sources' = <<>>
      \/ sources' = InitialSources \/ sources' = ReloadSources
      \/ (sources # <<>> /\ sources' = Tail(sources))
  BY DEF MonitorNext, ServerChanges, CallInitial, InsideInitial, InitialTooLate, EnterInitial,
         CriticalFileMissing, StoreSingleton, ScheduleMonitor, InitialReturned, Load, ReadFile,
         Get, GetFails, FillWord, Worker, StartRound, HeadFails, HeadUnchanged, HeadChanged,
         PublishReload, RecordTags, mvars, progress, InitialSources, ReloadSources
<1> QED
  BY <1>2, <1>3, <1>4, <1>5, <1>6

(* At first nothing has been read but the critical files, which are empty. *)
LEMMA LoadStarts ==
  ASSUME TypeInv, MTypeInv, StartLoad, Left' = Sources \/ Left' = Sources \ Critical
  PROVE  FilledInv'
<1>1. loaded' = NoWords /\ toLoad' = <<>>
  BY DEF StartLoad, MTypeInv, LoadingTypes
<1>2. \A source \in Sources \ Left' : source \in Critical /\ source \notin Locations
  BY SourcesFacts
<1>3. \A source \in Sources \ Left' : WordsFrom(source)' = {}
  BY <1>2 DEF WordsFrom
<1>4. \A kind \in Kinds : WordsRead(kind)' = {}
  BY <1>3 DEF WordsRead
<1>5. \A kind \in Kinds : loaded'[kind] \cup WordsToFill(kind, toLoad') = {}
  BY <1>1, NoLines DEF NoWords
<1> QED
  BY <1>4, <1>5 DEF FilledInv

(* A file or list is read, and its lines are those to be filled in.        *)
LEMMA LoadReads ==
  ASSUME LeftInv, FilledInv, Loading, sources \in Seq(STRING), sources # <<>>, toLoad = <<>>,
         UNCHANGED loaded, sources' = Tail(sources), NEW s, s = Head(sources),
         \A source \in Sources \ {s} : WordsFrom(source)' = WordsFrom(source),
         \A kind \in Kinds :
            WordsToFill(kind, toLoad') = IF KindOfSource(s) # kind THEN {} ELSE WordsFrom(s)'
  PROVE  FilledInv'
<1>1. Left = {s} \cup Left' /\ s \notin Left' /\ Left \subseteq Sources
  BY TailFacts DEF LeftInv, Left
<1>2. s \in Sources /\ Sources \ Left' = (Sources \ Left) \cup {s} /\ s \notin Sources \ Left
  BY <1>1
<1>3. ASSUME NEW kind \in Kinds
      PROVE  loaded'[kind] \cup WordsToFill(kind, toLoad') = WordsRead(kind)'
  <2> DEFINE before == {source \in Sources \ Left : KindOfSource(source) = kind}
             after == {source \in Sources \ Left' : KindOfSource(source) = kind}
  <2>1. loaded[kind] = UNION {WordsFrom(source) : source \in before}
    <3>1. loaded[kind] \cup WordsToFill(kind, toLoad) = WordsRead(kind)
      BY DEF FilledInv
    <3> QED
      BY <3>1, NoLines DEF WordsRead
  <2>2. WordsRead(kind)' = UNION {WordsFrom(source)' : source \in after}
    BY DEF WordsRead
  <2>3. after = before \cup (IF KindOfSource(s) = kind THEN {s} ELSE {})
    BY <1>2
  <2>4. \A source \in before : WordsFrom(source)' = WordsFrom(source)
    BY <1>2
  <2> HIDE DEF before, after
  <2>5. UNION {WordsFrom(source)' : source \in before} = loaded[kind]
    BY <2>1, <2>4
  <2>6. WordsRead(kind)' = loaded[kind] \cup (IF KindOfSource(s) = kind THEN WordsFrom(s)' ELSE {})
    <3>1. CASE KindOfSource(s) # kind
      BY <2>2, <2>3, <2>5, <3>1
    <3>2. CASE KindOfSource(s) = kind
      <4>1. after = before \cup {s}
        BY <2>3, <3>2
      <4>2. UNION {WordsFrom(source)' : source \in before \cup {s}}
               = (UNION {WordsFrom(source)' : source \in before}) \cup WordsFrom(s)'
        OBVIOUS
      <4> QED
        BY <2>2, <2>5, <3>2, <4>1, <4>2
    <3> QED
      BY <3>1, <3>2
  <2>7. WordsToFill(kind, toLoad') = IF KindOfSource(s) # kind THEN {} ELSE WordsFrom(s)'
    OBVIOUS
  <2> QED
    BY <2>6, <2>7
<1> QED
  BY <1>3 DEF FilledInv

(* What a file or list holds for a load stays as it is until it is read.   *)
LEMMA WordsStay ==
  ASSUME TypeInv, MTypeInv, Loading, Loading', [MonitorNext]_mvars,
         NEW source, source \notin Locations \/ got'[source] = got[source]
  PROVE  WordsFrom(source)' = WordsFrom(source)
<1>1. Files' = Files
  BY FilesStay
<1> QED
  BY <1>1 DEF WordsFrom

(* A local file is read.                                                   *)
LEMMA FileRead ==
  ASSUME TypeInv, MTypeInv, LeftInv, FilledInv, ReadFile
  PROVE  FilledInv'
<1>1. /\ Loading /\ Loading' /\ toLoad = <<>> /\ UNCHANGED loaded /\ sources # <<>>
      /\ sources' = Tail(sources) /\ sources \in Seq(STRING) /\ UNCHANGED got
  BY DictSteps DEF ReadFile, ReadLines, MTypeInv, ProgressTypes
<1>2. [MonitorNext]_mvars
  BY DEF MonitorNext, Load
<1>3. PICK s : s = Head(sources)
  OBVIOUS
<1>4. /\ s \notin Locations
      /\ toLoad' = IF s \in DOMAIN Files \ Critical THEN Lines(s, Files[s]) ELSE <<>>
  BY <1>3, DictSteps DEF ReadFile
<1>5. WordsFrom(s)' = IF s \in DOMAIN Files \ Critical THEN WordsIn(Files[s]) ELSE {}
  BY <1>1, <1>2, <1>4, FilesStay DEF WordsFrom
<1>6. \A source \in Sources \ {s} : WordsFrom(source)' = WordsFrom(source)
  BY <1>1, <1>2, WordsStay
<1>7. ASSUME NEW kind \in Kinds
      PROVE  WordsToFill(kind, toLoad') = IF KindOfSource(s) # kind THEN {} ELSE WordsFrom(s)'
  <2>1. CASE s \in DOMAIN Files \ Critical
    <3>1. Files[s] \in Seq(Seq(Char))
      BY <1>1, <2>1, FilesFacts
    <3>2. WordsToFill(kind, Lines(s, Files[s]))
             = IF KindOfSource(s) # kind THEN {} ELSE WordsIn(Files[s])
      BY <1>4, <3>1, LinesHold
    <3> QED
      BY <1>4, <1>5, <2>1, <3>2
  <2>2. CASE s \notin DOMAIN Files \ Critical
    BY <1>4, <1>5, <2>2, NoLines
  <2> QED
    BY <2>1, <2>2
<1> QED
  BY <1>1, <1>3, <1>6, <1>7, LoadReads

(* A remote list is read, or its download fails.                           *)
LEMMA ListRead ==
  ASSUME TypeInv, MTypeInv, LeftInv, FilledInv, Get \/ GetFails
  PROVE  FilledInv'
<1>1. /\ Loading /\ Loading' /\ toLoad = <<>> /\ UNCHANGED loaded /\ sources # <<>>
      /\ sources' = Tail(sources) /\ sources \in Seq(STRING)
  BY DictSteps DEF Get, GetFails, ReadLines, MTypeInv, ProgressTypes
<1>2. [MonitorNext]_mvars
  BY DEF MonitorNext, Load
<1>3. PICK s : s = Head(sources)
  OBVIOUS
<1>4. s \in Locations /\ ProgressTypes
  BY <1>3 DEF Get, GetFails, MTypeInv
<1>5. PICK v : /\ got' = [got EXCEPT ![s] = v]
               /\ \/ v = Missing /\ toLoad' = <<>>
                  \/ v = version[s] /\ toLoad' = Lines(s, RemoteWords[s][version[s]])
  BY <1>3, DictSteps DEF Get, GetFails
<1>6. got'[s] = v /\ \A source \in Locations \ {s} : got'[source] = got[source]
  BY <1>4, <1>5 DEF ProgressTypes
<1>7. \A source \in Sources \ {s} : WordsFrom(source)' = WordsFrom(source)
  BY <1>1, <1>2, <1>6, WordsStay
<1>8. WordsFrom(s)' = IF v = Missing THEN {}
                      ELSE {ToLower(word) : word \in WordsIn(RemoteWords[s][v])}
  BY <1>4, <1>6 DEF WordsFrom
<1>9. ASSUME NEW kind \in Kinds
      PROVE  WordsToFill(kind, toLoad') = IF KindOfSource(s) # kind THEN {} ELSE WordsFrom(s)'
  <2>1. CASE v = Missing /\ toLoad' = <<>>
    BY <1>8, <2>1, NoLines
  <2>2. CASE v = version[s] /\ toLoad' = Lines(s, RemoteWords[s][version[s]])
    <3>1. v # Missing /\ RemoteWords[s][v] \in Seq(Seq(Char))
      BY <1>4, <2>2, VersionFacts
    <3>2. WordsToFill(kind, Lines(s, RemoteWords[s][v]))
             = IF KindOfSource(s) # kind THEN {}
               ELSE {ToLower(word) : word \in WordsIn(RemoteWords[s][v])}
      BY <1>4, <3>1, LinesHold
    <3> QED
      BY <1>8, <2>2, <3>1, <3>2
  <2> QED
    BY <1>5, <2>1, <2>2
<1> QED
  BY <1>1, <1>3, <1>7, <1>9, LoadReads

(* A line is filled in: it moves from what is to be filled to what is loaded. *)
LEMMA LineFilled ==
  ASSUME TypeInv, MTypeInv, LeftInv, FilledInv, FillWord
  PROVE  FilledInv'
<1> DEFINE line == Head(toLoad)
<1>1. /\ Loading /\ Loading' /\ toLoad # <<>> /\ toLoad' = Tail(toLoad)
      /\ UNCHANGED <<sources, got>> /\ LoadWord
  BY DictSteps DEF FillWord, LoadWord, progress
<1>2. [MonitorNext]_mvars
  BY DEF MonitorNext, Load
<1>3. \A kind \in Kinds : WordsRead(kind)' = WordsRead(kind)
  <2>1. Left' = Left
    BY <1>1 DEF Left
  <2>2. \A source : WordsFrom(source)' = WordsFrom(source)
    BY <1>1, <1>2, WordsStay
  <2> QED
    BY <2>1, <2>2 DEF WordsRead
<1>4. toLoad \in Seq([kind : Kinds, word : Words \cup {<<>>}]) /\ loaded \in [Kinds -> SUBSET Words]
  BY DEF TypeInv, DictTypeOK
<1>5. \A kind \in Kinds :
         loaded'[kind] = loaded[kind] \cup
            (IF line.kind = kind /\ line.word # <<>> THEN {line.word} ELSE {})
  <2>1. /\ line.kind \in Kinds
        /\ line.word = <<>> => loaded' = loaded
        /\ line.word # <<>> => loaded' = [loaded EXCEPT ![line.kind] = @ \cup {line.word}]
    BY <1>1, LoadWordEffect
  <2> QED
    BY <1>4, <2>1
<1>6. \A kind \in Kinds :
         WordsToFill(kind, toLoad) = (IF line.kind = kind /\ line.word # <<>>
                                      THEN {line.word} ELSE {}) \cup WordsToFill(kind, toLoad')
  BY <1>1, <1>4, FirstLine
<1>7. \A kind \in Kinds : loaded[kind] \cup WordsToFill(kind, toLoad) = WordsRead(kind)
  BY <1>1 DEF FilledInv
<1> QED
  BY <1>3, <1>5, <1>6, <1>7 DEF FilledInv

(* No step of anybody disturbs the account of the load.                    *)
LEMMA FilledInvNext ==
  ASSUME TypeInv, MTypeInv, LeftInv, FilledInv, [MonitorNext]_mvars
  PROVE  FilledInv'
<1>1. CASE ~Loading'
  BY <1>1 DEF FilledInv
<1>2. ASSUME NEW c \in Callers, EnterInitial(c) PROVE FilledInv'
  <2>1. StartLoad /\ sources' = InitialSources
    BY <1>2 DEF EnterInitial, InitialSources
  <2>2. Left' = Sources
    BY <2>1, SourcesFacts DEF Left
  <2> QED
    BY <2>1, <2>2, LoadStarts
<1>3. CASE HeadChanged
  <2>1. StartLoad /\ sources' = ReloadSources
    BY <1>3 DEF HeadChanged, ReloadSources
  <2>2. Left' = Sources \ Critical
    BY <2>1, SourcesFacts DEF Left
  <2> QED
    BY <2>1, <2>2, LoadStarts
<1>4. CASE Load
  BY <1>4, FileRead, ListRead, LineFilled DEF Load
<1>5. ASSUME Loading', UNCHANGED <<dvars, progress>> PROVE FilledInv'
  <2>1. Loading /\ UNCHANGED <<loaded, toLoad, sources, got>>
    BY <1>5 DEF dvars, tables, progress, Loading
  <2>2. \A source : WordsFrom(source)' = WordsFrom(source)
    BY <1>5, <2>1, WordsStay
  <2>3. \A kind \in Kinds : WordsRead(kind)' = WordsRead(kind)
    BY <2>1, <2>2 DEF WordsRead, Left
  <2> QED
    BY <2>1, <2>3 DEF FilledInv
<1>6. ASSUME NEW c \in Callers, InsideInitial(c) PROVE FilledInv'
  <2>1. CriticalFileMissing(c) \/ StoreSingleton(c) => ~Loading'
    BY DictSteps DEF CriticalFileMissing, StoreSingleton
  <2>2. InitialTooLate(c) \/ ScheduleMonitor(c) \/ InitialReturned(c) => UNCHANGED <<dvars, progress>>
    BY DEF InitialTooLate, ScheduleMonitor, InitialReturned
  <2> QED
    BY <1>1, <1>2, <1>5, <1>6, <2>1, <2>2 DEF InsideInitial
<1>7. CASE Worker
  <2>1. PublishReload => ~Loading'
    BY DictSteps DEF PublishReload
  <2>2. StartRound \/ HeadFails \/ HeadUnchanged \/ RecordTags => UNCHANGED <<dvars, progress>>
    BY DEF StartRound, HeadFails, HeadUnchanged, RecordTags
  <2> QED
    BY <1>1, <1>3, <1>5, <1>7, <2>1, <2>2 DEF Worker
<1>8. CASE UNCHANGED mvars \/ \E l \in Locations : ServerChanges(l)
  BY <1>1, <1>5, <1>8 DEF mvars, ServerChanges
<1>9. ASSUME NEW c \in Callers, NEW request \in Requests, CallInitial(c, request)
      PROVE  FilledInv'
  BY <1>1, <1>5, <1>9 DEF CallInitial
<1> QED
  BY <1>4, <1>6, <1>7, <1>8, <1>9 DEF MonitorNext

(* When all has been read, what is loaded is what the files of the         *)
(* configuration and the lists in the versions read hold.                  *)
LEMMA AllIsLoaded ==
  ASSUME MTypeInv, FilledInv, Loading, AllRead, NEW kind \in Kinds
  PROVE  loaded[kind] = FileWords(kind) \cup ListWords(kind, got)
<1>1. loaded[kind] = WordsRead(kind) /\ Left = {}
  <2>1. Left = {}
    BY RangeFacts DEF AllRead, Left, MTypeInv, ProgressTypes
  <2> QED
    BY <2>1, NoLines DEF FilledInv, AllRead
<1>2. DOMAIN Files \subseteq Sources \ Locations /\ Locations \subseteq Sources
  <2>1. Names \in Seq(STRING)
    BY MonitorAssumption DEF Names, Remote
  <2>2. FilesListed = Sources \ Locations
    BY <2>1, RangeFacts DEF FilesListed, Sources
  <2> QED
    BY <2>2, FilesFacts, ConstantFacts
<1> DEFINE files == {f \in DOMAIN Files : f \notin Critical /\ KindOfSource(f) = kind}
           lists == {l \in Locations : KindOfSource(l) = kind /\ got[l] # Missing}
           read  == {source \in Sources : KindOfSource(source) = kind}
<1>3. WordsRead(kind) = UNION {WordsFrom(source) : source \in read}
  BY <1>1 DEF WordsRead
<1>4. files \subseteq read /\ lists \subseteq read
  BY <1>2
<1>5. \A source \in files : WordsFrom(source) = WordsIn(Files[source])
  BY <1>2 DEF WordsFrom
<1>6. \A l \in lists : WordsFrom(l) = {ToLower(word) : word \in WordsIn(RemoteWords[l][got[l]])}
  BY DEF WordsFrom
<1>7. \A source \in read \ (files \cup lists) : WordsFrom(source) = {}
  BY <1>2 DEF WordsFrom
<1>8. FileWords(kind) = UNION {WordsFrom(source) : source \in files}
  BY <1>5 DEF FileWords
<1>9. ListWords(kind, got) = UNION {WordsFrom(source) : source \in lists}
  BY <1>6 DEF ListWords
<1> HIDE DEF files, lists, read
<1>10. \A x : x \in UNION {WordsFrom(source) : source \in read}
                <=> \E source \in read : x \in WordsFrom(source)
  OBVIOUS
<1>11. \A x : (\E source \in read : x \in WordsFrom(source))
          <=> (\E source \in files : x \in WordsFrom(source))
                 \/ \E source \in lists : x \in WordsFrom(source)
  BY <1>4, <1>7
<1>12. \A x : x \in FileWords(kind) \cup ListWords(kind, got)
                <=> (\E source \in files : x \in WordsFrom(source))
                       \/ \E source \in lists : x \in WordsFrom(source)
  BY <1>8, <1>9
<1> QED
  BY <1>1, <1>3, <1>10, <1>11, <1>12

(* What comes into force is all that was read from files and servers, each *)
(* list in the version that was read, and nothing else: never a part of a  *)
(* load, never a mixture of two, whatever is polled, updated or segmented  *)
(* meanwhile (dictionary.go:451-453).                                      *)
THEOREM ReloadsAreWhole == MonitorSpec => ReloadIsWhole
<1> DEFINE Inv == MonitorTypes /\ LeftInv /\ FilledInv
           LoadedWhole == live' # live =>
                        \A kind \in Kinds :
                           WordsOf(tries'[live'][kind]) = FileWords(kind) \cup ListWords(kind, got)
<1>1. MonitorInit => LeftInv /\ FilledInv
  <2> SUFFICES ASSUME MonitorInit PROVE LeftInv /\ FilledInv
    OBVIOUS
  <2>1. sources = <<>> /\ sources \in Seq(STRING) /\ Len(sources) = 0 /\ ~Loading
    BY DEF MonitorInit, DictInit, Loading, NoDict
  <2> QED
    BY <2>1, RangeFacts DEF LeftInv, Left, FilledInv
<1>2. Inv /\ [MonitorNext]_mvars => Inv'
  BY MonitorTypesInductive, LeftInvNext, FilledInvNext DEF MonitorTypes
<1>3. ASSUME Inv, [MonitorNext]_mvars PROVE LoadedWhole
  <2> SUFFICES ASSUME live' # live, NEW kind \in Kinds
               PROVE  WordsOf(tries'[live'][kind]) = FileWords(kind) \cup ListWords(kind, got)
    OBVIOUS
  <2>1. TypeInv /\ WordsInv /\ MTypeInv
    BY <1>3 DEF MonitorTypes
  <2>2. Publish /\ AllRead
    <3>1. ASSUME NEW c \in Callers, InsideInitial(c) PROVE Publish /\ AllRead
      BY <2>1, <3>1, DictSteps DEF InsideInitial, InitialTooLate, EnterInitial,
         CriticalFileMissing, StoreSingleton, ScheduleMonitor, InitialReturned, dvars, tables
    <3>2. CASE Worker
      BY <2>1, <3>2, DictSteps DEF Worker, StartRound, HeadFails, HeadUnchanged, HeadChanged,
         PublishReload, RecordTags, dvars, tables
    <3>3. ~Load
      BY <2>1, DictSteps DEF Load, ReadFile, Get, GetFails, FillWord
    <3>4. ~UNCHANGED mvars /\ ~\E l \in Locations : ServerChanges(l)
      BY DEF mvars, dvars, tables, ServerChanges
    <3>5. ~\E c \in Callers, request \in Requests : CallInitial(c, request)
      BY DEF CallInitial, dvars, tables
    <3> QED
      BY <1>3, <3>1, <3>2, <3>3, <3>4, <3>5 DEF MonitorNext
  <2>3. Loading /\ tries'[live'] = tmpDict
    BY <2>1, <2>2, PublishEffect, DictSteps
  <2>4. WordsOf(tmpDict[kind]) = loaded[kind]
    BY <2>1, <2>3 DEF WordsInv
  <2>5. loaded[kind] = FileWords(kind) \cup ListWords(kind, got)
    BY <1>3, <2>1, <2>2, <2>3, AllIsLoaded
  <2> QED
    BY <2>3, <2>4, <2>5
<1>4. LoadedWhole => [live' # live =>
                   \A kind \in Kinds :
                      WordsOf(tries'[live'][kind]) = FileWords(kind) \cup ListWords(kind, got)]_mvars
  OBVIOUS
<1> HIDE DEF LoadedWhole
<1> QED
  BY <1>1, <1>2, <1>3, <1>4, MonitorTypesInductive, PTL DEF MonitorSpec, ReloadIsWhole

(* What LiveDictionary promises of the dictionary holds of the whole: words*)
(* are accounted for, a word reported was in force, and the dictionary is  *)
(* a set of words as far as lookups can tell, with every caller, monitor   *)
(* and failure there is (dictionary.go:307-333, 451-464).                  *)
THEOREM MonitorKeepsDictionary ==
  MonitorSpec => []WordsAccountedFor /\ []MatchesWereInForce /\ ImplementsWordSet
BY MonitorDrivesDictionary, WordsAccounted, MatchesInForce, DictionaryIsWordSet, PTL
=============================================================================
