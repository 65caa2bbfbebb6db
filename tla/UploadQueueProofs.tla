------------------------- MODULE UploadQueueProofs -------------------------
(* Proofs about UploadQueue, for any songs, titles and number of requests.     *)
EXTENDS UploadQueue, FiniteSetTheorems, TLAPS

(* Why OneAtATime holds: what is started is at most one thing, a job or its    *)
(* outcome, and nothing is started while isRunning is not set.                 *)
OneStarted == \E x : Started \subseteq {x}

AtMostOne == OneStarted /\ (Started # {} => isRunning)

(* Why MarkedIsThere holds: an answer or outcome that will set the mark speaks *)
(* of a song that is on the server, and nothing leaves the server.             *)
MarkedOrKnown ==
    /\ upload \subseteq server
    /\ \A a \in answers : a.exists => a.song \in server
    /\ \A o \in outcomes : o.ok => o.song \in server

(* Why OneTaskPerTitle holds: the titles of waiting tasks are all different,   *)
(* none is the title of what is started, and songtags has all of them.         *)
Distinct(tasks, tags, started) ==
    /\ \A i \in 1 .. Len(tasks) :
         /\ Title[tasks[i]] \in tags
         /\ \A j \in 1 .. Len(tasks) : Title[tasks[i]] = Title[tasks[j]] => i = j
         /\ \A s \in started : Title[s.song] # Title[tasks[i]]
    /\ \A s \in started : Title[s.song] \in tags

TasksDistinct == Distinct(threads, songtags, Started)
------------------------------------------------------------------------------
(* A waiting task is a song of the table.                                      *)
LEMMA TypeInit == Init => TypeOK
<1>1. <<>> \in Seq(Songs)
  OBVIOUS
<1> QED BY <1>1 DEF Init, TypeOK, Contexts

(* onStart with the tasks there are, for the types.                            *)
LEMMA OnStartType ==
  ASSUME TypeOK, NEW tasks \in Seq(Songs), NEW running \in BOOLEAN,
         OnStart(tasks, running)
  PROVE  threads' \in Seq(Songs) /\ isRunning' \in BOOLEAN /\ uploading' \subseteq Jobs
<1>1. CASE Wait(tasks, running)
  BY <1>1 DEF Wait, TypeOK
<1>2. CASE tasks # <<>> /\ StartFirst(tasks)
  <2>1. Head(tasks) \in Songs /\ Tail(tasks) \in Seq(Songs)
    BY <1>2
  <2> QED BY <1>2, <2>1 DEF StartFirst, TypeOK, Jobs
<1> QED BY <1>1, <1>2 DEF OnStart

(* Every step of the queue keeps the types.                                    *)
LEMMA TypeStep == TypeOK /\ [Next]_vars => TypeOK'
<1> SUFFICES ASSUME TypeOK, [Next]_vars PROVE TypeOK'
  OBVIOUS
<1> USE UploadAssumption
<1>1. CASE ScreenStep
  <2>1. CASE OpenScreen
    BY <2>1 DEF OpenScreen, queue, TypeOK, Asks, Askers
  <2>2. CASE CloseScreen
    <3>1. Left(asks) \subseteq Asks /\ Left(answers) \subseteq Answers
      BY DEF Left, TypeOK, Asks, Answers, Askers
    <3> QED BY <2>2, <3>1 DEF CloseScreen, queue, TypeOK
  <2>3. ASSUME NEW song \in Songs, ClickUpload(song) PROVE TypeOK'
    BY <2>3 DEF ClickUpload, queue, TypeOK, Asks, Askers
  <2> QED BY <1>1, <2>1, <2>2, <2>3 DEF ScreenStep
<1>2. CASE NetworkStep
  <2>1. ASSUME NEW ask \in asks, Answer(ask) PROVE TypeOK'
    <3>1. [song |-> ask.song, by |-> ask.by, exists |-> ask.song \in server] \in Answers
      BY DEF TypeOK, Asks, Answers
    <3> QED BY <2>1, <3>1 DEF Answer, queue, TypeOK
  <2>2. ASSUME NEW job \in uploading, NEW ok \in BOOLEAN, Ends(job, ok),
               server' \subseteq Songs
        PROVE  TypeOK'
    <3>1. [song |-> job.song, ok |-> ok] \in Outcomes
      BY DEF TypeOK, Jobs, Outcomes
    <3> QED BY <2>2, <3>1 DEF Ends, queue, TypeOK
  <2>3. ASSUME NEW job \in uploading, UploadSucceeds(job) PROVE TypeOK'
    <3>1. server' \subseteq Songs
      BY <2>3 DEF UploadSucceeds, TypeOK, Jobs
    <3> QED BY <2>2, <2>3, <3>1 DEF UploadSucceeds
  <2>4. ASSUME NEW job \in uploading, UploadFails(job) PROVE TypeOK'
    <3>1. server' \subseteq Songs
      BY <2>4 DEF UploadFails, TypeOK, Jobs
    <3> QED BY <2>2, <2>4, <3>1 DEF UploadFails
  <2> QED BY <1>2, <2>1, <2>3, <2>4 DEF NetworkStep
<1>3. CASE LooperStep
  <2>1. ASSUME NEW a \in answers, HandleScan(a) PROVE TypeOK'
    <3>1. a.song \in Songs
      BY DEF TypeOK, Answers
    <3>2. Add(a.song) \in Seq(Songs)
      BY <3>1 DEF Add, TypeOK
    <3>3. CASE a.exists
      BY <2>1, <3>1, <3>3 DEF HandleScan, queue, TypeOK
    <3>4. CASE ~a.exists
      <4>1. threads' \in Seq(Songs) /\ isRunning' \in BOOLEAN /\ uploading' \subseteq Jobs
        BY <2>1, <3>2, <3>4, OnStartType DEF HandleScan, TypeOK
      <4> QED BY <2>1, <3>1, <3>4, <4>1 DEF HandleScan, TypeOK, Contexts
    <3> QED BY <3>3, <3>4
  <2>2. ASSUME NEW a \in answers, HandleRow(a) PROVE TypeOK'
    <3>1. [song |-> a.song, by |-> "row"] \in Jobs
      BY DEF TypeOK, Answers, Jobs
    <3> QED BY <2>2, <3>1 DEF HandleRow, queue, TypeOK
  <2>3. ASSUME NEW o \in outcomes, HandleSuccess(o) PROVE TypeOK'
    <3>1. threads' \in Seq(Songs) /\ isRunning' \in BOOLEAN /\ uploading' \subseteq Jobs
      BY <2>3, OnStartType DEF HandleSuccess, TypeOK
    <3> QED BY <2>3, <3>1 DEF HandleSuccess, TypeOK, Outcomes
  <2>4. ASSUME NEW o \in outcomes, HandleFailure(o) PROVE TypeOK'
    BY <2>4 DEF HandleFailure, queue, TypeOK
  <2> QED BY <1>3, <2>1, <2>2, <2>3, <2>4 DEF LooperStep
<1>4. CASE Restart
  <2>1. <<>> \in Seq(Songs)
    OBVIOUS
  <2> QED BY <1>4, <2>1 DEF Restart, TypeOK, Contexts
<1>5. CASE UNCHANGED vars
  BY <1>5 DEF vars, TypeOK
<1> QED BY <1>1, <1>2, <1>3, <1>4, <1>5 DEF Next

(* Songs stay songs and titles titles, through queue, network and restarts.    *)
THEOREM UploadTypeCorrect == Spec => []TypeOK
BY TypeInit, TypeStep, PTL DEF Spec
------------------------------------------------------------------------------
(* onStart starts a task only when none is started: if isRunning tells of all  *)
(* that is started, it does so afterwards.                                     *)
LEMMA OnStartOne ==
  ASSUME NEW tasks, NEW running \in BOOLEAN, OnStart(tasks, running),
         NEW O, outcomes' = O,
         LET S == {job \in uploading : job.by = "queue"} \cup O IN
           (\E x : S \subseteq {x}) /\ (S # {} => running)
  PROVE  AtMostOne'
<1> DEFINE S == {job \in uploading : job.by = "queue"} \cup O
<1>1. CASE Wait(tasks, running)
  BY <1>1 DEF Wait, AtMostOne, OneStarted, Started
<1>2. CASE ~running /\ StartFirst(tasks)
  <2> DEFINE job == [song |-> Head(tasks), by |-> "queue"]
  <2>1. S = {}
    BY <1>2
  <2>2. Started' \subseteq {job}
    BY <1>2, <2>1 DEF StartFirst, Started
  <2> QED BY <1>2, <2>2 DEF StartFirst, AtMostOne, OneStarted
<1> QED BY <1>1, <1>2 DEF OnStart

(* An upload that ends leaves its outcome in its place, or nothing.            *)
LEMMA EndsOne ==
  ASSUME TypeOK, AtMostOne, NEW job \in uploading, NEW ok \in BOOLEAN, Ends(job, ok)
  PROVE  AtMostOne'
<1> DEFINE o == [song |-> job.song, ok |-> ok]
<1>1. job.by \in {"queue", "row"}
  BY DEF TypeOK, Jobs
<1>2. CASE job.by = "row"
  <2>1. Started' \subseteq Started
    BY <1>2 DEF Ends, Started
  <2> QED BY <2>1 DEF Ends, queue, AtMostOne, OneStarted
<1>3. CASE job.by = "queue"
  <2>1. job \in Started
    BY <1>3 DEF Started
  <2>2. Started \subseteq {job}
    BY <2>1 DEF AtMostOne, OneStarted
  <2>3. Started' \subseteq {o} \cup (Started \ {job}) \cup {x \in outcomes : x = job}
    BY <1>3 DEF Ends, Started
  <2>4. job \notin outcomes
    <3>1. SUFFICES ASSUME job \in outcomes PROVE FALSE
      OBVIOUS
    <3>2. job \in Jobs /\ job \in Outcomes
      BY <3>1 DEF TypeOK
    <3> QED BY <3>2 DEF Jobs, Outcomes
  <2>5. Started' \subseteq {o}
    BY <2>2, <2>3, <2>4
  <2> QED BY <2>1, <2>5 DEF Ends, queue, AtMostOne, OneStarted
<1> QED BY <1>1, <1>2, <1>3

(* When the outcome of an upload is handled nothing else is started.           *)
LEMMA NothingBehind ==
  ASSUME TypeOK, AtMostOne, NEW o \in outcomes
  PROVE  {job \in uploading : job.by = "queue"} \cup (outcomes \ {o}) = {}
<1>1. Started \subseteq {o}
  BY DEF AtMostOne, OneStarted, Started
<1>2. o \notin uploading
  <2>1. SUFFICES ASSUME o \in uploading PROVE FALSE
    OBVIOUS
  <2>2. o \in Jobs /\ o \in Outcomes
    BY <2>1 DEF TypeOK
  <2> QED BY <2>2 DEF Jobs, Outcomes
<1> QED BY <1>1, <1>2 DEF Started

(* At most one thing is started, whatever happens.                             *)
LEMMA AtMostOneStep == TypeOK /\ AtMostOne /\ [Next]_vars => AtMostOne'
<1> SUFFICES ASSUME TypeOK, AtMostOne, [Next]_vars PROVE AtMostOne'
  OBVIOUS
<1>1. ASSUME UNCHANGED <<uploading, outcomes, isRunning>> PROVE AtMostOne'
  BY <1>1 DEF AtMostOne, OneStarted, Started
<1>2. CASE ScreenStep
  BY <1>1, <1>2 DEF ScreenStep, OpenScreen, CloseScreen, ClickUpload, queue
<1>3. CASE NetworkStep
  BY <1>1, <1>3, EndsOne DEF NetworkStep, Answer, UploadSucceeds, UploadFails, queue
<1>4. CASE LooperStep
  <2>1. ASSUME NEW a \in answers, HandleScan(a) PROVE AtMostOne'
    <3>1. CASE a.exists
      BY <1>1, <2>1, <3>1 DEF HandleScan, queue
    <3>2. CASE ~a.exists
      <4>1. OnStart(Add(a.song), isRunning) /\ outcomes' = outcomes
        BY <2>1, <3>2 DEF HandleScan
      <4>2. isRunning \in BOOLEAN
        BY DEF TypeOK
      <4> QED BY <4>1, <4>2, OnStartOne DEF AtMostOne, OneStarted, Started
    <3> QED BY <3>1, <3>2
  <2>2. ASSUME NEW a \in answers, HandleRow(a) PROVE AtMostOne'
    <3>1. Started' = Started /\ isRunning' = isRunning
      BY <2>2 DEF HandleRow, Started, queue
    <3> QED BY <3>1 DEF AtMostOne, OneStarted
  <2>3. ASSUME NEW o \in outcomes, HandleSuccess(o) PROVE AtMostOne'
    <3> DEFINE O == outcomes \ {o}
               S == {job \in uploading : job.by = "queue"} \cup O
    <3>3. S = {}
      BY NothingBehind
    <3>4. OnStart(threads, FALSE) /\ outcomes' = O
      BY <2>3 DEF HandleSuccess
    <3>5. (\E x : S \subseteq {x}) /\ (S # {} => FALSE)
      BY <3>3
    <3> HIDE DEF O
    <3> QED BY <3>4, <3>5, OnStartOne
  <2>4. ASSUME NEW o \in outcomes, HandleFailure(o) PROVE AtMostOne'
    <3>1. Started' \subseteq Started /\ isRunning' = isRunning
      BY <2>4 DEF HandleFailure, Started, queue
    <3> QED BY <3>1 DEF AtMostOne, OneStarted
  <2> QED BY <1>4, <2>1, <2>2, <2>3, <2>4 DEF LooperStep
<1>5. CASE Restart
  BY <1>5 DEF Restart, AtMostOne, OneStarted, Started
<1>6. CASE UNCHANGED vars
  BY <1>1, <1>6 DEF vars
<1> QED BY <1>2, <1>3, <1>4, <1>5, <1>6 DEF Next

(* The queue uploads one song at a time and knows that it does, whatever       *)
(* screens come and go and whatever the server answers.                        *)
THEOREM QueueUploadsOne == Spec => []OneAtATime
<1>1. Init => AtMostOne
  BY DEF Init, AtMostOne, OneStarted, Started
<1>2. AtMostOne => OneAtATime
  <2> SUFFICES ASSUME AtMostOne PROVE OneAtATime
    OBVIOUS
  <2>1. PICK x : Started \subseteq {x}
    BY DEF AtMostOne, OneStarted
  <2>2. IsFiniteSet({x}) /\ Cardinality({x}) = 1
    BY FS_Singleton
  <2>3. Cardinality(Started) <= 1
    BY <2>1, <2>2, FS_Subset
  <2> QED BY <2>3 DEF AtMostOne, OneAtATime
<1> QED BY <1>1, <1>2, AtMostOneStep, UploadTypeCorrect, PTL DEF Spec
------------------------------------------------------------------------------
(* Whatever will set a mark knows that the song is on the server.              *)
LEMMA MarkedOrKnownStep == TypeOK /\ MarkedOrKnown /\ [Next]_vars => MarkedOrKnown'
<1> SUFFICES ASSUME TypeOK, MarkedOrKnown, [Next]_vars PROVE MarkedOrKnown'
  OBVIOUS
<1> USE DEF MarkedOrKnown
<1>1. CASE ScreenStep
  <2>1. CASE OpenScreen \/ \E song \in Songs : ClickUpload(song)
    BY <2>1 DEF OpenScreen, ClickUpload, queue
  <2>2. CASE CloseScreen
    <3>1. ASSUME NEW a \in Left(answers), a.exists PROVE a.song \in server
      <4>1. PICK x \in answers : a = [x EXCEPT !.by = IF @ = "scan" THEN "left" ELSE @]
        BY DEF Left
      <4>2. x \in Answers
        BY DEF TypeOK
      <4>3. a.exists = x.exists /\ a.song = x.song
        BY <4>1, <4>2 DEF Answers
      <4> QED BY <3>1, <4>3
    <3> QED BY <2>2, <3>1 DEF CloseScreen, queue
  <2> QED BY <1>1, <2>1, <2>2 DEF ScreenStep
<1>2. CASE NetworkStep
  <2>1. ASSUME NEW ask \in asks, Answer(ask) PROVE MarkedOrKnown'
    <3> DEFINE new == [song |-> ask.song, by |-> ask.by, exists |-> ask.song \in server]
    <3>1. new.exists => new.song \in server
      OBVIOUS
    <3>2. answers' \subseteq answers \cup {new}
      BY <2>1 DEF Answer
    <3>3. UNCHANGED <<upload, outcomes, server>>
      BY <2>1 DEF Answer
    <3> HIDE DEF new
    <3> QED BY <3>1, <3>2, <3>3
  <2>2. ASSUME NEW job \in uploading, UploadSucceeds(job) PROVE MarkedOrKnown'
    BY <2>2 DEF UploadSucceeds, Ends, queue
  <2>3. ASSUME NEW job \in uploading, UploadFails(job) PROVE MarkedOrKnown'
    <3>1. server \subseteq server' /\ UNCHANGED <<upload, answers>>
      BY <2>3 DEF UploadFails, Ends
    <3>2. ASSUME NEW o \in outcomes', o.ok PROVE o \in outcomes
      BY <2>3, <3>2 DEF UploadFails, Ends
    <3> QED BY <3>1, <3>2
  <2> QED BY <1>2, <2>1, <2>2, <2>3 DEF NetworkStep
<1>3. CASE LooperStep
  <2>1. ASSUME NEW a \in answers, HandleScan(a) PROVE MarkedOrKnown'
    BY <2>1 DEF HandleScan, queue
  <2>2. ASSUME NEW a \in answers, HandleRow(a) PROVE MarkedOrKnown'
    BY <2>2 DEF HandleRow, queue
  <2>3. ASSUME NEW o \in outcomes, HandleSuccess(o) PROVE MarkedOrKnown'
    BY <2>3 DEF HandleSuccess
  <2>4. ASSUME NEW o \in outcomes, HandleFailure(o) PROVE MarkedOrKnown'
    BY <2>4 DEF HandleFailure, queue
  <2> QED BY <1>3, <2>1, <2>2, <2>3, <2>4 DEF LooperStep
<1>4. CASE Restart
  BY <1>4 DEF Restart
<1>5. CASE UNCHANGED vars
  BY <1>5 DEF vars
<1> QED BY <1>1, <1>2, <1>3, <1>4, <1>5 DEF Next

(* What is marked as uploaded is on the server, after lost responses and       *)
(* restarts too: skipping it at the next scan forgets no song.                 *)
THEOREM MarkedSongsAreThere == Spec => []MarkedIsThere
<1>1. Init => MarkedOrKnown
  BY DEF Init, MarkedOrKnown
<1>2. MarkedOrKnown => MarkedIsThere
  BY DEF MarkedOrKnown, MarkedIsThere
<1> QED BY <1>1, <1>2, MarkedOrKnownStep, UploadTypeCorrect, PTL DEF Spec
------------------------------------------------------------------------------
(* addUploadThread keeps the titles apart: it reads songtags.                  *)
LEMMA AddDistinct ==
  ASSUME TypeOK, TasksDistinct, NEW song \in Songs
  PROVE  Distinct(Add(song), songtags \cup {Title[song]}, Started)
<1>1. CASE Title[song] \in songtags
  BY <1>1 DEF Add, TasksDistinct, Distinct
<1>2. CASE Title[song] \notin songtags
  <2> DEFINE tasks == Append(threads, song)
  <2>1. threads \in Seq(Songs) /\ Len(threads) \in Nat
    BY DEF TypeOK
  <2>2. /\ Len(tasks) = Len(threads) + 1
        /\ \A i \in 1 .. Len(threads) : tasks[i] = threads[i]
        /\ tasks[Len(threads) + 1] = song
    BY <2>1
  <2>3. \A i \in 1 .. Len(threads) : Title[threads[i]] # Title[song]
    BY <1>2 DEF TasksDistinct, Distinct
  <2>4. \A s \in Started : Title[s.song] # Title[song]
    BY <1>2 DEF TasksDistinct, Distinct
  <2>5. Add(song) = tasks
    BY <1>2 DEF Add
  <2> HIDE DEF tasks
  <2>6. \A i \in 1 .. Len(tasks) : i \in 1 .. Len(threads) \/ i = Len(threads) + 1
    BY <2>1, <2>2
  <2>7. Distinct(tasks, songtags \cup {Title[song]}, Started)
    BY <2>2, <2>3, <2>4, <2>6 DEF TasksDistinct, Distinct
  <2> QED BY <2>5, <2>7
<1> QED BY <1>1, <1>2

(* onStart keeps them apart: the task it starts leaves the waiting ones, and   *)
(* nothing else is started then.                                               *)
LEMMA OnStartDistinct ==
  ASSUME NEW tasks \in Seq(Songs), NEW running \in BOOLEAN, OnStart(tasks, running),
         NEW O, outcomes' = O,
         {job \in uploading : job.by = "queue"} \cup O # {} => running,
         Distinct(tasks, songtags', {job \in uploading : job.by = "queue"} \cup O)
  PROVE  TasksDistinct'
<1> DEFINE S == {job \in uploading : job.by = "queue"} \cup O
<1>1. CASE Wait(tasks, running)
  <2>1. Started' = S /\ threads' = tasks
    BY <1>1 DEF Wait, Started
  <2> QED BY <2>1 DEF TasksDistinct, Distinct
<1>2. CASE ~running /\ tasks # <<>> /\ StartFirst(tasks)
  <2> DEFINE job == [song |-> Head(tasks), by |-> "queue"]
             rest == Tail(tasks)
  <2>1. Started' \subseteq {job} /\ threads' = rest
    BY <1>2 DEF StartFirst, Started
  <2>2. /\ Len(rest) = Len(tasks) - 1 /\ Len(tasks) \in Nat /\ Len(tasks) > 0
        /\ \A i \in 1 .. Len(rest) : rest[i] = tasks[i + 1]
    BY <1>2
  <2>3. job.song = tasks[1]
    BY <1>2
  <2> HIDE DEF job, rest
  <2>4. \A i \in 1 .. Len(rest) : i + 1 \in 1 .. Len(tasks) /\ i + 1 # 1
    BY <2>2
  <2>5. 1 \in 1 .. Len(tasks)
    BY <2>2
  <2>6. ASSUME NEW i \in 1 .. Len(rest)
        PROVE  /\ Title[rest[i]] \in songtags'
               /\ \A j \in 1 .. Len(rest) : Title[rest[i]] = Title[rest[j]] => i = j
               /\ Title[job.song] # Title[rest[i]]
    <3>1. Title[rest[i]] \in songtags'
      BY <2>2, <2>4 DEF Distinct
    <3>2. ASSUME NEW j \in 1 .. Len(rest), Title[rest[i]] = Title[rest[j]] PROVE i = j
      <4>1. i + 1 = j + 1
        BY <2>2, <2>4, <3>2 DEF Distinct
      <4> QED BY <4>1, <2>2
    <3>3. Title[job.song] # Title[rest[i]]
      BY <2>2, <2>3, <2>4, <2>5 DEF Distinct
    <3> QED BY <3>1, <3>2, <3>3
  <2>7. Title[job.song] \in songtags'
    BY <2>3, <2>5 DEF Distinct
  <2> QED BY <2>1, <2>6, <2>7 DEF TasksDistinct, Distinct
<1> QED BY <1>1, <1>2 DEF OnStart

(* The tasks stay distinct, whatever screens ask for and in whatever order.    *)
LEMMA TasksDistinctStep ==
  TypeOK /\ AtMostOne /\ TasksDistinct /\ [Next]_vars => TasksDistinct'
<1> SUFFICES ASSUME TypeOK, AtMostOne, TasksDistinct, [Next]_vars PROVE TasksDistinct'
  OBVIOUS
<1>1. ASSUME UNCHANGED <<threads, songtags>>,
             \A s \in Started' : \E r \in Started : s.song = r.song
      PROVE  TasksDistinct'
  BY <1>1 DEF TasksDistinct, Distinct
<1>2. CASE ScreenStep
  BY <1>1, <1>2 DEF ScreenStep, OpenScreen, CloseScreen, ClickUpload, queue, Started
<1>3. CASE NetworkStep
  <2>1. ASSUME NEW job \in uploading, NEW ok \in BOOLEAN, Ends(job, ok)
        PROVE  TasksDistinct'
    <3>1. ASSUME NEW s \in Started' PROVE \E r \in Started : s.song = r.song
      <4>1. s \in Started \/ (job.by # "row" /\ s = [song |-> job.song, ok |-> ok])
        BY <2>1 DEF Ends, Started
      <4>2. job.by # "row" => job \in Started
        BY DEF TypeOK, Jobs, Started
      <4> QED BY <4>1, <4>2
    <3> QED BY <1>1, <2>1, <3>1 DEF Ends, queue
  <2>2. ASSUME NEW ask \in asks, Answer(ask) PROVE TasksDistinct'
    BY <1>1, <2>2 DEF Answer, queue, Started
  <2> QED BY <1>3, <2>1, <2>2 DEF NetworkStep, UploadSucceeds, UploadFails
<1>4. CASE LooperStep
  <2>1. ASSUME NEW a \in answers, HandleScan(a) PROVE TasksDistinct'
    <3>1. CASE a.exists
      BY <1>1, <2>1, <3>1 DEF HandleScan, queue, Started
    <3>2. CASE ~a.exists
      <4>1. a.song \in Songs /\ isRunning \in BOOLEAN /\ Add(a.song) \in Seq(Songs)
        BY DEF TypeOK, Answers, Add
      <4>2. /\ OnStart(Add(a.song), isRunning)
            /\ songtags' = songtags \cup {Title[a.song]} /\ outcomes' = outcomes
        BY <2>1, <3>2 DEF HandleScan
      <4>3. Distinct(Add(a.song), songtags', Started)
        BY <4>1, <4>2, AddDistinct
      <4>4. Started # {} => isRunning
        BY DEF AtMostOne
      <4> QED BY <4>1, <4>2, <4>3, <4>4, OnStartDistinct DEF Started
    <3> QED BY <3>1, <3>2
  <2>2. ASSUME NEW a \in answers, HandleRow(a) PROVE TasksDistinct'
    <3>1. Started' = Started
      BY <2>2 DEF HandleRow, Started, queue
    <3> QED BY <1>1, <2>2, <3>1 DEF HandleRow, queue
  <2>3. ASSUME NEW o \in outcomes, HandleSuccess(o) PROVE TasksDistinct'
    <3> DEFINE O == outcomes \ {o}
               S == {job \in uploading : job.by = "queue"} \cup O
    <3>3. S = {}
      BY NothingBehind
    <3>4. OnStart(threads, FALSE) /\ outcomes' = O /\ songtags' = songtags
      BY <2>3 DEF HandleSuccess
    <3>5. Distinct(threads, songtags', S)
      BY <3>3, <3>4 DEF TasksDistinct, Distinct
    <3>6. threads \in Seq(Songs)
      BY DEF TypeOK
    <3> HIDE DEF O
    <3> QED BY <3>3, <3>4, <3>5, <3>6, OnStartDistinct
  <2>4. ASSUME NEW o \in outcomes, HandleFailure(o) PROVE TasksDistinct'
    BY <1>1, <2>4 DEF HandleFailure, queue, Started
  <2> QED BY <1>4, <2>1, <2>2, <2>3, <2>4 DEF LooperStep
<1>5. CASE Restart
  BY <1>5 DEF Restart, TasksDistinct, Distinct, Started
<1>6. CASE UNCHANGED vars
  BY <1>1, <1>6 DEF vars, Started
<1> QED BY <1>2, <1>3, <1>4, <1>5, <1>6 DEF Next

(* A set whose members are all equal has at most one.                          *)
LEMMA AllEqual ==
  ASSUME NEW S, \A x, y \in S : x = y
  PROVE  Cardinality(S) \in {0, 1} /\ (S = {} => Cardinality(S) = 0)
<1>1. CASE S = {}
  BY <1>1, FS_EmptySet
<1>2. CASE S # {}
  <2>1. PICK x : S = {x}
    BY <1>2
  <2> QED BY <1>2, <2>1, FS_Singleton
<1> QED BY <1>1, <1>2

(* A title is never queued twice, waiting or started, however often screens    *)
(* ask for it while it is not marked.                                          *)
THEOREM TitlesQueuedOnce == Spec => []OneTaskPerTitle
<1>1. Init => AtMostOne /\ TasksDistinct
  BY DEF Init, AtMostOne, OneStarted, Started, TasksDistinct, Distinct
<1>2. AtMostOne /\ TasksDistinct => OneTaskPerTitle
  <2> SUFFICES ASSUME AtMostOne, TasksDistinct, NEW t \in Titles
               PROVE  Cardinality({i \in 1 .. Len(threads) : Title[threads[i]] = t})
                        + Cardinality({j \in Started : Title[j.song] = t}) <= 1
    BY DEF OneTaskPerTitle
  <2> DEFINE Waiting == {i \in 1 .. Len(threads) : Title[threads[i]] = t}
             Begun   == {j \in Started : Title[j.song] = t}
  <2>1. \A x, y \in Waiting : x = y
    BY DEF TasksDistinct, Distinct
  <2>2. \A x, y \in Begun : x = y
    BY DEF AtMostOne, OneStarted
  <2>3. Waiting = {} \/ Begun = {}
    BY DEF TasksDistinct, Distinct
  <2>4. Cardinality(Waiting) \in {0, 1} /\ (Waiting = {} => Cardinality(Waiting) = 0)
    BY <2>1, AllEqual
  <2>5. Cardinality(Begun) \in {0, 1} /\ (Begun = {} => Cardinality(Begun) = 0)
    BY <2>2, AllEqual
  <2> HIDE DEF Waiting, Begun
  <2>6. Cardinality(Waiting) + Cardinality(Begun) <= 1
    BY <2>3, <2>4, <2>5
  <2> QED BY <2>6 DEF Waiting, Begun
<1> QED BY <1>1, <1>2, TasksDistinctStep, AtMostOneStep, UploadTypeCorrect, PTL DEF Spec
==============================================================================
