---------------------------- MODULE UploadQueue ----------------------------
(* utils/UploadSongsUtil.java, the queue that copies the local songs to the    *)
(* server one after the other, with its two sources: MusicLocalFragment, which *)
(* asks the server for every song not marked as uploaded each time the screen  *)
(* is built, and the button of a row, which uploads past the queue.            *)
(*                                                                             *)
(* The queue lives on the main looper; an upload runs on a thread of its own   *)
(* and posts its outcome.  The server answers in any order, or not at all.     *)
EXTENDS Naturals, FiniteSets, Sequences

CONSTANTS Songs,      \* the songinfo table
          Titles,
          Title,      \* the title of a song; two singers may share one
          MaxRequests \* requests on their way (bound)

ASSUME UploadAssumption == Title \in [Songs -> Titles] /\ MaxRequests \in Nat

VARIABLES upload,     \* songs marked as uploaded in the table
          songtags,   \* titles a task was ever made for
          threads,    \* tasks not yet started
          isRunning,
          context,    \* the instance and the context it was made with
          attached,   \* the screen is there: getActivity() is not null
          asks,       \* "is this song on the server?" on its way
          answers,    \* and answered, not yet handled
          uploading,  \* upload threads on the network
          outcomes,   \* outcomes of the queue's uploads, not yet handled
          server      \* the songs the server has

vars == <<upload, songtags, threads, isRunning, context, attached, asks,
          answers, uploading, outcomes, server>>

queue   == <<songtags, threads, isRunning, context>>
------------------------------------------------------------------------------
(* by: the scan of the screen there is, of a screen left since, the button of  *)
(* a row; an upload is the queue's or the row's.                               *)
Askers   == {"scan", "left", "row"}
Asks     == [song : Songs, by : Askers]
Answers  == [song : Songs, by : Askers, exists : BOOLEAN]
Jobs     == [song : Songs, by : {"queue", "row"}]
Outcomes == [song : Songs, ok : BOOLEAN]

OnTheWay == Cardinality(asks) + Cardinality(answers)
Contexts == {"none", "activity", "null"}

Init ==
    /\ upload = {} /\ server = {}
    /\ songtags = {} /\ threads = <<>> /\ isRunning = FALSE /\ context = "none"
    /\ attached = FALSE
    /\ asks = {} /\ answers = {} /\ uploading = {} /\ outcomes = {}

(* onViewCreated: every song not marked is asked for, again if need be.        *)
OpenScreen ==
    /\ ~attached
    /\ OnTheWay + Cardinality(Songs \ upload) <= MaxRequests
    /\ attached' = TRUE
    /\ asks' = asks \cup [song : Songs \ upload, by : {"scan"}]
    /\ UNCHANGED <<upload, queue, answers, uploading, outcomes, server>>

(* The requests stay; getActivity() is null for their answers.                 *)
Left(S) == {[x EXCEPT !.by = IF @ = "scan" THEN "left" ELSE @] : x \in S}

CloseScreen ==
    /\ attached
    /\ attached' = FALSE
    /\ asks' = Left(asks) /\ answers' = Left(answers)
    /\ UNCHANGED <<upload, queue, uploading, outcomes, server>>

(* The upload button of a row.                                                 *)
ClickUpload(song) ==
    /\ attached /\ OnTheWay < MaxRequests
    /\ asks' = asks \cup {[song |-> song, by |-> "row"]}
    /\ UNCHANGED <<upload, queue, attached, answers, uploading, outcomes, server>>

Answer(ask) ==
    /\ ask \in asks
    /\ asks' = asks \ {ask}
    /\ \/ answers' = answers \cup {[song |-> ask.song, by |-> ask.by,
                                    exists |-> ask.song \in server]}
       \/ UNCHANGED answers                      \* no network
    /\ UNCHANGED <<upload, queue, attached, uploading, outcomes, server>>

AddTwice(song) == Append(threads, song)          \* mutant: the tags are not read

AddTitle(song) ==                                \* mutant: queues the tag
    IF Title[song] \in songtags THEN threads ELSE Append(threads, Title[song])

(* addUploadThread: a title met before makes no task.                          *)
Add(song) == IF Title[song] \in songtags THEN threads ELSE Append(threads, song)

(* onStart, with the tasks there are then: nothing new, or the first of them.  *)
Wait(tasks, running) == /\ threads' = tasks
                        /\ isRunning' = running
                        /\ uploading' = uploading
StartFirst(tasks)    == /\ threads' = Tail(tasks)
                        /\ isRunning' = TRUE
                        /\ uploading' = uploading \cup
                                {[song |-> Head(tasks), by |-> "queue"]}

StartAlways(tasks, running) ==                   \* mutant: isRunning is not read
    IF tasks = <<>> THEN Wait(tasks, running) ELSE StartFirst(tasks)

StartOnce(tasks, running) ==                     \* mutant: nothing is polled again
    IF running \/ tasks = <<>> \/ tasks = threads THEN Wait(tasks, running)
    ELSE StartFirst(tasks)

OnStart(tasks, running) ==
    IF running \/ tasks = <<>> THEN Wait(tasks, running) ELSE StartFirst(tasks)

(* The answer to the scan.  The singleton is made with the activity of then.   *)
HandleScan(a) ==
    /\ a \in answers /\ a.by # "row"
    /\ answers' = answers \ {a}
    /\ IF a.exists
       THEN /\ upload' = upload \cup {a.song}
            /\ UNCHANGED <<queue, uploading>>
       ELSE /\ context' = IF context # "none" THEN context
                          ELSE IF a.by = "scan" THEN "activity" ELSE "null"
            /\ songtags' = songtags \cup {Title[a.song]}
            /\ OnStart(Add(a.song), isRunning)
            /\ UNCHANGED upload
    /\ UNCHANGED <<attached, asks, outcomes, server>>

(* The answer to the button: a thread of its own, and nobody listens to it.    *)
HandleRow(a) ==
    /\ a \in answers /\ a.by = "row"
    /\ answers' = answers \ {a}
    /\ uploading' = IF a.exists THEN uploading
                    ELSE uploading \cup {[song |-> a.song, by |-> "row"]}
    /\ UNCHANGED <<upload, queue, attached, asks, outcomes, server>>

(* A task made with a null context fails before it sends anything.  Nobody     *)
(* listens to the outcome of a row's upload.                                   *)
CanSend(job) == job.by = "row" \/ context = "activity"

Ends(job, ok) ==
    /\ uploading' = uploading \ {job}
    /\ outcomes' = IF job.by = "row" THEN outcomes
                   ELSE outcomes \cup {[song |-> job.song, ok |-> ok]}
    /\ UNCHANGED <<upload, queue, attached, asks, answers>>

UploadSucceeds(job) ==
    /\ job \in uploading /\ CanSend(job)
    /\ server' = server \cup {job.song}
    /\ Ends(job, TRUE)

(* The file may have arrived and the response be lost.                         *)
UploadFails(job) ==
    /\ job \in uploading
    /\ \/ UNCHANGED server
       \/ CanSend(job) /\ server' = server \cup {job.song}
    /\ Ends(job, FALSE)

(* uploadSuccess                                                               *)
HandleSuccess(o) ==
    /\ o \in outcomes /\ o.ok
    /\ outcomes' = outcomes \ {o}
    /\ upload' = upload \cup {o.song}
    /\ OnStart(threads, FALSE)
    /\ UNCHANGED <<songtags, context, attached, asks, answers, server>>

MarkAnyway(o) ==                                 \* mutant: a failure marks too
    /\ o \in outcomes /\ ~o.ok
    /\ outcomes' = outcomes \ {o}
    /\ upload' = upload \cup {o.song}
    /\ UNCHANGED <<queue, attached, asks, answers, uploading, server>>

(* uploadFailed only logs, and so nothing is started any more.                 *)
HandleFailure(o) ==
    /\ o \in outcomes /\ ~o.ok
    /\ outcomes' = outcomes \ {o}
    /\ UNCHANGED <<upload, queue, attached, asks, answers, uploading, server>>

(* The process dies; the table and the server stay.                            *)
Restart ==
    /\ songtags' = {} /\ threads' = <<>> /\ isRunning' = FALSE /\ context' = "none"
    /\ attached' = FALSE
    /\ asks' = {} /\ answers' = {} /\ uploading' = {} /\ outcomes' = {}
    /\ UNCHANGED <<upload, server>>

ScreenStep  == OpenScreen \/ CloseScreen \/ \E song \in Songs : ClickUpload(song)
NetworkStep == \/ \E ask \in asks : Answer(ask)
               \/ \E job \in uploading : UploadSucceeds(job) \/ UploadFails(job)
LooperStep  == \/ \E a \in answers : HandleScan(a) \/ HandleRow(a)
               \/ \E o \in outcomes : HandleSuccess(o) \/ HandleFailure(o)

Next == ScreenStep \/ NetworkStep \/ LooperStep \/ Restart

Spec == Init /\ [][Next]_vars
------------------------------------------------------------------------------
TypeOK ==
    /\ upload \subseteq Songs /\ server \subseteq Songs
    /\ songtags \subseteq Titles
    /\ threads \in Seq(Songs)
    /\ isRunning \in BOOLEAN /\ attached \in BOOLEAN
    /\ context \in Contexts
    /\ asks \subseteq Asks /\ uploading \subseteq Jobs
    /\ answers \subseteq Answers /\ outcomes \subseteq Outcomes

(* The queue's own upload on the network, or its outcome still to be handled.  *)
Started == {job \in uploading : job.by = "queue"} \cup outcomes

(* The queue uploads one song at a time, whatever screens were opened and      *)
(* closed and in whatever order the server answered, and it knows that it does.*)
OneAtATime ==
    /\ Cardinality(Started) <= 1
    /\ Started # {} => isRunning

(* The queue never has two tasks for one title, waiting or started, however    *)
(* often the screen asked again before the first was done.                     *)
OneTaskPerTitle ==
    LET Waiting(t) == {i \in 1 .. Len(threads) : Title[threads[i]] = t}
        Begun(t)   == {j \in Started : Title[j.song] = t}
    IN  \A t \in Titles : Cardinality(Waiting(t)) + Cardinality(Begun(t)) <= 1

(* A song marked as uploaded is on the server: it will not be asked for again. *)
MarkedIsThere == upload \subseteq server
------------------------------------------------------------------------------
(* The looper handles what is posted.  An upload need not end: only the        *)
(* connection has a timeout.                                                   *)
Fairness ==
    \A song \in Songs, ok \in BOOLEAN :
        LET o == [song |-> song, ok |-> ok]
        IN  WF_vars(HandleSuccess(o) \/ HandleFailure(o))

FairSpec == Spec /\ Fairness

Waits(song) == \E i \in 1 .. Len(threads) : threads[i] = song

OnNetwork == {job \in uploading : job.by = "queue"}

(* A failed upload leaves isRunning set and nothing running.                   *)
Stalled == isRunning /\ Started = {}

(* Only a failed upload, one that never ends, or the death of the process      *)
(* keeps the queue from draining: every task that waits is started in the end  *)
(* and its song marked.                                                        *)
QueueDrains ==
    \A song \in Songs :
        Waits(song) ~> \/ song \in upload
                       \/ context = "none" \/ Stalled
                       \/ [](OnNetwork # {})
==============================================================================
