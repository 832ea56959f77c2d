------------------------------ MODULE JobQueue ------------------------------
(***************************************************************************)
(* The job queue of the server (Jobs.cpp) and its consumers: the threads   *)
(* of Logic_Work and the main loop that starts and stops them.             *)
(*                                                                         *)
(* One deque holds everything the server does: a job per game object (a    *)
(* client, a critter, a map), the general jobs (time events, garbagers,    *)
(* deferred release...), a JOB_THREAD_LOOP for every thread, which only    *)
(* this thread may pop, and as many JOB_THREAD_SYNCHRONIZE as threads.  A  *)
(* thread pops the first job it may execute and pushes it back when done:  *)
(* that the server serves everybody, can be stopped for an exclusive       *)
(* section and ends, all rests on the order of this deque.                 *)
(*                                                                         *)
(* Each method of Job runs under JobLocker and is one step.  The barrier   *)
(* is LogicSync's; here a thread with a synchronize job is held while some *)
(* thread is, or wants to be, alone (stopper).                             *)
(***************************************************************************)
EXTENDS Naturals, Sequences, FiniteSets, SequencesExt

CONSTANTS Thread,          \* the logic threads
          FailingThreads,  \* those whose Script::InitThread may fail
          Main,            \* the main thread
          NoThread,        \* Job::ThreadId 0: any thread may pop the job
          Object,          \* the objects with a job: clients, critters, maps
          NoObject,        \* Job::Data NULL
          General,         \* the general jobs: subset of {"garbage", "release"}
          Stoppers,        \* the threads that stop the world
          MayQuit          \* whether FOQuit may be set

ASSUME ThreadAssumption ==
  /\ IsFiniteSet(Thread) /\ Main \notin Thread
  /\ NoThread \notin Thread \cup {Main}
  /\ FailingThreads \subseteq Thread
  /\ Stoppers \subseteq Thread \cup {Main}
  /\ General \subseteq {"garbage", "release"}
  /\ MayQuit \in BOOLEAN
ASSUME NoObjectAssumption == NoObject \notin Object

VARIABLES
  jobs,       \* Jobs: the deque
  hand,       \* Logic_Work's job: what the thread has popped
  state,      \* "off"; "new": its loop job is not pushed, "idle": at the
              \* top of the loop, "popped", "busy": executing, "done"
  object,     \* "none": not yet created, "live", "gone": IsNotValid
  mainState,  \* "starting" the threads, "loop", "finishing": waits for the
              \* threads, "last": garbagers and last release, "ended"
  finishes,   \* the finish jobs pushed
  stopper     \* the thread that synchronizes, NoThread when the event is allowed

queueVars == <<jobs, hand, state, object, mainState, finishes, stopper>>

Job(type, data, owner) == [type |-> type, data |-> data, owner |-> owner]

ObjectJob(o)   == Job("object", o, NoThread)
LoopJob(t)     == Job("loop", NoObject, t)
GeneralJob(g)  == Job(g, NoObject, NoThread)
SynchronizeJob == Job("synchronize", NoObject, NoThread)
FinishJob      == Job("finish", NoObject, NoThread)
NoJob          == Job("nop", NoObject, NoThread)

JobRecord == [type  : {"object", "loop", "garbage", "release", "synchronize",
                       "finish", "nop"},
              data  : Object \cup {NoObject},
              owner : Thread \cup {NoThread}]

TypeOK ==
  /\ jobs      \in Seq(JobRecord)
  /\ hand      \in [Thread -> JobRecord]
  /\ state     \in [Thread -> {"off", "new", "idle", "popped", "busy", "done"}]
  /\ object    \in [Object -> {"none", "live", "gone"}]
  /\ mainState \in {"starting", "loop", "finishing", "last", "ended"}
  /\ finishes  \in 0..Cardinality(Thread)
  /\ stopper   \in Thread \cup {Main, NoThread}

(***************************************************************************)
(* MainLoop begins with the general jobs; one of the garbagers stands for  *)
(* all that run game code.                                                 *)
(***************************************************************************)
Init ==
  /\ jobs      = SetToSeq({GeneralJob(g) : g \in General})
  /\ hand      = [t \in Thread |-> NoJob]
  /\ state     = [t \in Thread |-> "off"]
  /\ object    = [o \in Object |-> "none"]
  /\ mainState = "starting"
  /\ finishes  = 0
  /\ stopper   = NoThread

-----------------------------------------------------------------------------
(***************************************************************************)
(* The deque.                                                              *)
(***************************************************************************)
PushBack(job) == jobs' = Append(jobs, job)

MayExecute(t, job) == job.owner \in {NoThread, t}

\* Faulty: a job found behind another thread's is not erased.
PopFrontKeeps(t) ==
  LET Mine(job) == MayExecute(t, job) IN
  /\ \E i \in DOMAIN jobs : Mine(jobs[i])
  /\ hand' = [hand EXCEPT ![t] = jobs[SelectInSeq(jobs, Mine)]]
  /\ jobs' = IF Mine(Head(jobs)) THEN Tail(jobs) ELSE jobs

\* Faulty: only the front job is looked at.
PopFrontOnly(t) ==
  /\ jobs # <<>>
  /\ MayExecute(t, Head(jobs))
  /\ hand' = [hand EXCEPT ![t] = Head(jobs)]
  /\ jobs' = Tail(jobs)

(***************************************************************************)
(* The first job that t may execute.  When there is none the code gives a  *)
(* JOB_NOP, on which the thread sleeps and tries again.                    *)
(***************************************************************************)
PopFront(t) ==
  LET Mine(job) == MayExecute(t, job) IN
  /\ \E i \in DOMAIN jobs : Mine(jobs[i])
  /\ hand' = [hand EXCEPT ![t] = jobs[SelectInSeq(jobs, Mine)]]
  /\ jobs' = RemoveFirstMatch(jobs, Mine)

-----------------------------------------------------------------------------
(***************************************************************************)
(* Logic_Work.                                                             *)
(***************************************************************************)
InitThread(t) ==
  /\ state[t] = "new"
  /\ \/ PushBack(LoopJob(t)) /\ state' = [state EXCEPT ![t] = "idle"]
     \/ /\ t \in FailingThreads
        /\ state' = [state EXCEPT ![t] = "done"]
        /\ UNCHANGED jobs
  /\ UNCHANGED <<hand, object, mainState, finishes, stopper>>

PopJob(t) ==
  /\ state[t] = "idle"
  /\ PopFront(t)
  /\ state' = [state EXCEPT ![t] = "popped"]
  /\ UNCHANGED <<object, mainState, finishes, stopper>>

Popped(t, type) == state[t] = "popped" /\ hand[t].type = type

(***************************************************************************)
(* A job of the game begins unless its object is not valid any more.       *)
(***************************************************************************)
Begin(t) ==
  /\ \/ Popped(t, "object") /\ object[hand[t].data] = "live"
     \/ Popped(t, "garbage") \/ Popped(t, "release") \/ Popped(t, "loop")
  /\ state' = [state EXCEPT ![t] = "busy"]
  /\ UNCHANGED <<jobs, hand, object, mainState, finishes, stopper>>

Drop(t, next) ==
  /\ hand' = [hand EXCEPT ![t] = NoJob]
  /\ state' = [state EXCEPT ![t] = next]

DropJob(t) ==
  /\ Popped(t, "object")
  /\ object[hand[t].data] = "gone"
  /\ Drop(t, "idle")
  /\ UNCHANGED <<jobs, object, mainState, finishes, stopper>>

\* Faulty: the job goes to the front.
PutFront(t) == jobs' = <<hand[t]>> \o jobs /\ Drop(t, "idle")

PutBack(t) == PushBack(hand[t]) /\ Drop(t, "idle")

(***************************************************************************)
(* The job is done and goes to the back of the deque; a thread that is     *)
(* alone has resynchronized before.                                        *)
(***************************************************************************)
EndJob(t) ==
  /\ state[t] = "busy"
  /\ stopper # t
  /\ PutBack(t)
  /\ UNCHANGED <<object, mainState, finishes, stopper>>

PassSynchronize(t) ==
  /\ Popped(t, "synchronize")
  /\ stopper = NoThread
  /\ PutBack(t)
  /\ UNCHANGED <<object, mainState, finishes, stopper>>

Finish(t) ==
  /\ Popped(t, "finish")
  /\ Drop(t, "done")
  /\ UNCHANGED <<jobs, object, mainState, finishes, stopper>>

(***************************************************************************)
(* Somebody creates an object with its job: world loading, a script, the   *)
(* network thread that accepts a connection.                               *)
(***************************************************************************)
AddObject(o) ==
  /\ object[o] = "none"
  /\ PushBack(ObjectJob(o))
  /\ object' = [object EXCEPT ![o] = "live"]
  /\ UNCHANGED <<hand, state, mainState, finishes, stopper>>

(***************************************************************************)
(* A garbager, a script, a time event removes an object, whoever executes  *)
(* or has popped its job.                                                  *)
(***************************************************************************)
RemoveObject(t, o) ==
  /\ state[t] = "busy" /\ hand[t].type \in {"object", "garbage"}
  /\ object[o] = "live"
  /\ object' = [object EXCEPT ![o] = "gone"]
  /\ UNCHANGED <<jobs, hand, state, mainState, finishes, stopper>>

(***************************************************************************)
(* The job of a client whose connection is closed removes it and ends      *)
(* without going back.                                                     *)
(***************************************************************************)
RemoveClient(t, o) ==
  /\ Popped(t, "object")
  /\ hand[t].data = o
  /\ object[o] = "live"
  /\ object' = [object EXCEPT ![o] = "gone"]
  /\ Drop(t, "idle")
  /\ UNCHANGED <<jobs, mainState, finishes, stopper>>

-----------------------------------------------------------------------------
(***************************************************************************)
(* MainLoop, and the barrier as the queue sees it: a thread that is to be  *)
(* alone waits until all others have a synchronize job.                    *)
(***************************************************************************)
StartThread(t) ==
  /\ mainState = "starting"
  /\ state[t] = "off"
  /\ PushBack(SynchronizeJob)
  /\ state' = [state EXCEPT ![t] = "new"]
  /\ mainState' = IF \E u \in Thread \ {t} : state[u] = "off" THEN "starting" ELSE "loop"
  /\ UNCHANGED <<hand, object, finishes, stopper>>

StopWorld(s) ==
  /\ s \in Stoppers
  /\ stopper = NoThread
  /\ IF s = Main THEN mainState = "loop"
     ELSE state[s] = "busy" /\ hand[s].type \in {"object", "garbage"}
  /\ stopper' = s
  /\ UNCHANGED <<jobs, hand, state, object, mainState, finishes>>

(***************************************************************************)
(* LogicThreadCount counts the other logic threads and the main thread,    *)
(* which comes to its SynchronizePoint in every round of the loop and not  *)
(* after it.  When the main thread itself stops the world, it counts the   *)
(* logic threads.                                                          *)
(***************************************************************************)
AllStopped ==
  /\ \A t \in Thread \ {stopper} : Popped(t, "synchronize")
  /\ stopper = Main \/ mainState = "loop"

ResumeWorld ==
  /\ stopper # NoThread
  /\ AllStopped
  /\ stopper' = NoThread
  /\ UNCHANGED <<jobs, hand, state, object, mainState, finishes>>

\* Faulty: one finish job too many.
PushFinishMore ==
  /\ MayQuit
  /\ mainState \in {"loop", "finishing"} /\ stopper # Main
  /\ finishes <= Cardinality(Thread)
  /\ PushBack(FinishJob)
  /\ finishes' = finishes + 1
  /\ mainState' = "finishing"
  /\ UNCHANGED <<hand, state, object, stopper>>

\* Faulty: the first thread gets no finish job.
PushFinishLess ==
  /\ MayQuit
  /\ mainState \in {"loop", "finishing"} /\ stopper # Main
  /\ finishes < Cardinality(Thread)
  /\ IF finishes = 0 THEN UNCHANGED jobs ELSE PushBack(FinishJob)
  /\ finishes' = finishes + 1
  /\ mainState' = "finishing"
  /\ UNCHANGED <<hand, state, object, stopper>>

(***************************************************************************)
(* FOQuit is set: a finish job per thread, pushed one by one.              *)
(***************************************************************************)
PushFinish ==
  /\ MayQuit
  /\ mainState \in {"loop", "finishing"} /\ stopper # Main
  /\ finishes < Cardinality(Thread)
  /\ PushBack(FinishJob)
  /\ finishes' = finishes + 1
  /\ mainState' = "finishing"
  /\ UNCHANGED <<hand, state, object, stopper>>

(***************************************************************************)
(* Every thread has been waited for: all jobs are erased.                  *)
(***************************************************************************)
EraseJobs ==
  /\ mainState = "finishing" /\ finishes = Cardinality(Thread)
  /\ \A t \in Thread : state[t] = "done"
  /\ jobs' = <<>>
  /\ mainState' = "last"
  /\ UNCHANGED <<hand, state, object, finishes, stopper>>

-----------------------------------------------------------------------------
Execute(t) ==
  \/ InitThread(t) \/ PopJob(t) \/ Begin(t) \/ DropJob(t) \/ Finish(t)

Next ==
  \/ \E t \in Thread :
       \/ Execute(t) \/ PassSynchronize(t) \/ EndJob(t) \/ StartThread(t)
       \/ \E o \in Object : RemoveObject(t, o) \/ RemoveClient(t, o)
  \/ \E o \in Object : AddObject(o)
  \/ \E s \in Stoppers : StopWorld(s)
  \/ ResumeWorld \/ PushFinish \/ EraseJobs

Spec == Init /\ [][Next]_queueVars

(***************************************************************************)
(* Fairness: threads run, their jobs and exclusive sections end.  A held   *)
(* thread passes although the world may be stopped again at once: it stood *)
(* in the synchronizer before, and msLocker lets everybody in.             *)
(***************************************************************************)
FairSpec ==
  /\ Spec
  /\ \A t \in Thread :
       /\ WF_queueVars(Execute(t)) /\ WF_queueVars(EndJob(t))
       /\ SF_queueVars(PassSynchronize(t)) /\ WF_queueVars(StartThread(t))
  /\ WF_queueVars(ResumeWorld) /\ WF_queueVars(EraseJobs)
  /\ WF_queueVars(mainState = "finishing" /\ PushFinish)

-----------------------------------------------------------------------------
Copies(job) ==
  Cardinality({i \in DOMAIN jobs : jobs[i] = job})
    + Cardinality({t \in Thread : hand[t] = job})

JobsErased == mainState \in {"last", "ended"}

Working(t) == state[t] \in {"idle", "popped", "busy"}

ObjectJobsConserved ==
  \A o \in Object :
    /\ Copies(ObjectJob(o)) <= 1
    /\ object[o] = "none" => Copies(ObjectJob(o)) = 0
    /\ object[o] = "live" /\ ~JobsErased => Copies(ObjectJob(o)) = 1

LoopJobsConserved ==
  \A t \in Thread :
    /\ MayExecute(t, hand[t])
    /\ Working(t) => Copies(LoopJob(t)) = 1

SynchronizeJobsConserved ==
  ~JobsErased =>
    Copies(SynchronizeJob) = Cardinality({t \in Thread : state[t] # "off"})

(***************************************************************************)
(* No job is lost and none is doubled, wherever it is on its way between   *)
(* the deque and the threads: a live object has exactly one job, so that   *)
(* no two threads process it by its job at once; a working thread has its  *)
(* one loop job, which nobody else ever pops; there are as many            *)
(* synchronize jobs as threads started, or the world could not be stopped. *)
(***************************************************************************)
JobsConserved ==
  ObjectJobsConserved /\ LoopJobsConserved /\ SynchronizeJobsConserved

(***************************************************************************)
(* The one way to stand still: a thread wants to be alone while another    *)
(* has ended or the main thread has left its loop, for the count includes  *)
(* them (see LogicSync.Stranded).                                          *)
(***************************************************************************)
Halted ==
  \/ stopper # NoThread /\ \E t \in Thread \ {stopper} : state[t] = "done"
  \/ stopper \in Thread /\ mainState \in {"finishing", "last", "ended"}

(***************************************************************************)
(* Whoever wants to be alone will be, while the main loop goes on and      *)
(* nobody has ended: the queue gives every other thread a synchronize job, *)
(* the threads already held and their loop jobs, stuck in the deque,       *)
(* notwithstanding.                                                        *)
(***************************************************************************)
WorldStops == stopper # NoThread ~> stopper = NoThread \/ Halted

(***************************************************************************)
(* While the server loops, every live object is processed again and again, *)
(* also when a thread has failed to initialize.                            *)
(***************************************************************************)
ObjectsServed ==
  \A o \in Object :
    object[o] = "live" /\ mainState = "loop" ~>
      \/ \E t \in Thread : hand[t].data = o /\ state[t] = "busy"
      \/ object[o] = "gone" \/ mainState # "loop" \/ Halted

(***************************************************************************)
(* The finish jobs end all threads, the last of their kind included, so    *)
(* that main gets past Wait, and none of them is used twice; unless a      *)
(* thread still wants to be alone, when main has left its loop.            *)
(***************************************************************************)
ThreadsFinish == mainState = "finishing" ~> mainState = "last" \/ Halted
=============================================================================
