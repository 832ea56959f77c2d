----------------------------- MODULE TimeEvents -----------------------------
(***************************************************************************)
(* The time events of the server (Server.cpp): functions of scripts that   *)
(* ProcessTimeEvents calls when their second has come, while scripts of    *)
(* other threads, and the event's own, create, read, change and erase      *)
(* events.                                                                 *)
(*                                                                         *)
(* Every method holds TimeEventsLocker, but an event is used longer: the   *)
(* thread that processes it, or has read it with GetTimeEvent to change it *)
(* with SetTimeEvent, is noted in InProcess.  GetTimeEvent and             *)
(* SetTimeEvent wait in a loop for the event of another thread; an erased  *)
(* event in use is marked and deleted by its user.                         *)
(*                                                                         *)
(* There are TIME_EVENTS_PER_CYCLE jobs JOB_TIME_EVENTS, ten (Server.h),   *)
(* so that any threads process events at the same time, even the same one  *)
(* when the script of the first has let it go.                             *)
(*                                                                         *)
(* An event has its number for ever, which stands for the pointer, too:    *)
(* one in 1..last that is not in events has been deleted.  The seconds are *)
(* left out: any event may be due at any time, in any order.  The threads  *)
(* are several (LogicMT).                                                  *)
(***************************************************************************)
EXTENDS Naturals

CONSTANTS Thread,      \* the threads that run scripts
          NoThread,
          MaxEvents    \* bound: the events ever created

ASSUME NoThreadAssumption == NoThread \notin Thread
ASSUME BoundAssumption == MaxEvents \in Nat

VARIABLES
  concurrent,   \* ConcurrentExecution, read from the configuration
  turn,         \* owner of ConcurrentExecutionLocker
  events,       \* TimeEvents
  last,         \* TimeEventsLastNum
  inProcess,    \* InProcess of each event
  eraseMe,      \* the events with EraseMe
  cur,          \* cur_event of a thread with a job JOB_TIME_EVENTS
  stage,        \* where each thread is, see Stages
  want,         \* the event it waits for
  callback,     \* threads with TimeEventEndScriptCallback to be called
  handed,       \* history: processed events that their own script let go
  undefined     \* a deleted event has been used: anything may follow

eventVars  == <<events, last, inProcess, eraseMe>>
threadVars == <<cur, stage, want, callback>>
vars == <<concurrent, turn, eventVars, threadVars, handed, undefined>>

NoEvent == 0
Num     == 1..MaxEvents

(***************************************************************************)
(* "begin"    in PrepareContext                                            *)
(* "turn", "resume"  in BeginExecution, waiting for the turn and then for  *)
(*            the objects that were lent meanwhile                         *)
(* "script"   in a script                                                  *)
(* "get", "set"  in the loop of GetTimeEvent, SetTimeEvent                 *)
(* "ended"    in EndExecution, before the callbacks                        *)
(* "failed", "done"  in ProcessTimeEvents after the script                 *)
(***************************************************************************)
Stages == {"idle", "begin", "turn", "resume", "script", "get", "set", "ended",
           "failed", "done"}

(***************************************************************************)
(* The types: an event in the list has a number that was given out.        *)
(***************************************************************************)
TypeOK ==
  /\ concurrent \in BOOLEAN
  /\ turn       \in Thread \cup {NoThread}
  /\ last       \in 0..MaxEvents
  /\ events     \subseteq 1..last
  /\ inProcess  \in [Num -> Thread \cup {NoThread}]
  /\ eraseMe    \subseteq Num
  /\ cur        \in [Thread -> Num \cup {NoEvent}]
  /\ stage      \in [Thread -> Stages]
  /\ want       \in [Thread -> Num \cup {NoEvent}]
  /\ callback   \subseteq Thread
  /\ handed     \subseteq Num
  /\ undefined  \in BOOLEAN

(***************************************************************************)
(* The events of the saved world are loaded, none of them in use.          *)
(***************************************************************************)
Init ==
  /\ concurrent \in BOOLEAN
  /\ turn       = NoThread
  /\ last       \in 0..MaxEvents
  /\ events     = 1..last
  /\ inProcess  = [n \in Num |-> NoThread]
  /\ eraseMe    = {}
  /\ cur        = [t \in Thread |-> NoEvent]
  /\ stage      = [t \in Thread |-> "idle"]
  /\ want       = [t \in Thread |-> NoEvent]
  /\ callback   = {}
  /\ handed     = {}
  /\ undefined  = FALSE

Go(t, from, to) == stage[t] = from /\ stage' = [stage EXCEPT ![t] = to]

-----------------------------------------------------------------------------
(***************************************************************************)
(* The execution of a script: a job of the thread calls one ...            *)
(***************************************************************************)
StartScript(t) ==
  /\ Go(t, "idle", "begin")
  /\ UNCHANGED <<concurrent, turn, eventVars, cur, want, callback, handed, undefined>>

(***************************************************************************)
(* ... or one of the jobs of the time events, which takes an event that    *)
(* nobody is noted to use.                                                 *)
(***************************************************************************)
PickEvent(t) ==
  /\ Go(t, "idle", "begin")
  /\ \E n \in events :
       /\ inProcess[n] = NoThread
       /\ inProcess' = [inProcess EXCEPT ![n] = t]
       /\ cur' = [cur EXCEPT ![t] = n]
  /\ UNCHANGED <<concurrent, turn, events, last, eraseMe, want, callback, handed, undefined>>

(***************************************************************************)
(* BeginExecution: first the thread must be let in by the garbage          *)
(* collector (EnterCode); unless scripts run concurrently, it then lends   *)
(* its objects (Suspend), waits for its turn, and waits for its objects.   *)
(* How long it waits for the collector and for objects is left open here,  *)
(* and so is whether it waits for ever.                                    *)
(***************************************************************************)
EnterCode(t) ==
  /\ Go(t, "begin", IF concurrent THEN "script" ELSE "turn")
  /\ UNCHANGED <<concurrent, turn, eventVars, cur, want, callback, handed, undefined>>

TakeTurn(t) ==
  /\ Go(t, "turn", "resume")
  /\ turn = NoThread /\ turn' = t
  /\ UNCHANGED <<concurrent, eventVars, cur, want, callback, handed, undefined>>

Resume(t) ==
  /\ Go(t, "resume", "script")
  /\ UNCHANGED <<concurrent, turn, eventVars, cur, want, callback, handed, undefined>>

Processes(t) == cur[t] # NoEvent

(***************************************************************************)
(* PrepareContext finds no function or context.                            *)
(***************************************************************************)
PrepareFails(t) ==
  /\ Go(t, "begin", IF Processes(t) THEN "failed" ELSE "idle")
  /\ UNCHANGED <<concurrent, turn, eventVars, cur, want, callback, handed, undefined>>

(***************************************************************************)
(* The script has ended, or could not be prepared after all.               *)
(***************************************************************************)
EndExecution(t) ==
  /\ Go(t, "script", "ended")
  /\ turn' = IF concurrent THEN turn ELSE NoThread
  /\ UNCHANGED <<concurrent, eventVars, cur, want, callback, handed, undefined>>

(***************************************************************************)
(* The events of S are no longer in use by the thread that was noted, and  *)
(* the marked ones of them are deleted.                                    *)
(***************************************************************************)
LetGo(S) ==
  /\ inProcess' = [n \in Num |-> IF n \in S THEN NoThread ELSE inProcess[n]]
  /\ events'  = events \ (S \cap eraseMe)
  /\ eraseMe' = eraseMe \ S

AfterScript(t) == IF Processes(t) THEN {"failed", "done"} ELSE {"idle"}

UsedBy(t) == {n \in events : inProcess[n] = t}

\* Faulty: the events of every thread are let go.
TimeEventEndScriptCallbackAll(t) ==
  /\ \E s \in AfterScript(t) : Go(t, "ended", s)
  /\ callback' = callback \ {t}
  /\ IF t \in callback
     THEN LetGo(events) /\ handed' = handed \cup (UsedBy(t) \cap {cur[t]})
     ELSE UNCHANGED <<events, inProcess, eraseMe, handed>>
  /\ UNCHANGED <<concurrent, turn, last, cur, want, undefined>>

(***************************************************************************)
(* The callback lets go all events the thread uses: the one whose script   *)
(* has ended, too.                                                         *)
(***************************************************************************)
TimeEventEndScriptCallback(t) ==
  /\ \E s \in AfterScript(t) : Go(t, "ended", s)
  /\ callback' = callback \ {t}
  /\ IF t \in callback
     THEN LetGo(UsedBy(t)) /\ handed' = handed \cup (UsedBy(t) \cap {cur[t]})
     ELSE UNCHANGED <<events, inProcess, eraseMe, handed>>
  /\ UNCHANGED <<concurrent, turn, last, cur, want, undefined>>

-----------------------------------------------------------------------------
(***************************************************************************)
(* ProcessTimeEvents takes its event from the list and puts it back if the *)
(* script has failed or asks to be called again, and nobody has erased it, *)
(* whoever is noted in InProcess by now.  An event that is not in the list *)
(* has been deleted: erase is called with the end of the list, and the     *)
(* event is used after that.                                               *)
(***************************************************************************)
FinishEvent(t) ==
  LET n == cur[t] IN
  /\ Processes(t)
  /\ \E from \in {"failed", "done"} : Go(t, from, "idle")
  /\ cur' = [cur EXCEPT ![t] = NoEvent]
  /\ handed' = IF \E u \in Thread \ {t} : cur[u] = n THEN handed ELSE handed \ {n}
  /\ IF n \notin events
     THEN undefined' = TRUE /\ UNCHANGED <<events, inProcess, eraseMe>>
     ELSE \E again \in {TRUE} \cup (IF stage[t] = "done" THEN {FALSE} ELSE {}) :
            /\ inProcess' = [inProcess EXCEPT ![n] = NoThread]
            /\ events' = IF again /\ n \notin eraseMe THEN events ELSE events \ {n}
            /\ eraseMe' = eraseMe \ {n}
            /\ UNCHANGED undefined
  /\ UNCHANGED <<concurrent, turn, last, want, callback>>

-----------------------------------------------------------------------------
CreateTimeEvent(t) ==
  /\ stage[t] = "script"
  /\ last < MaxEvents
  /\ last' = last + 1
  /\ events' = events \cup {last + 1}
  /\ inProcess' = [inProcess EXCEPT ![last + 1] = NoThread]
  /\ UNCHANGED <<concurrent, turn, eraseMe, threadVars, handed, undefined>>

\* Faulty: an event in use is deleted, too.
EraseTimeEventAtOnce(t) ==
  /\ stage[t] = "script"
  /\ \E n \in events : events' = events \ {n}
  /\ UNCHANGED <<concurrent, turn, last, inProcess, eraseMe, threadVars, handed, undefined>>

EraseTimeEvent(t) ==
  /\ stage[t] = "script"
  /\ \E n \in events :
       IF inProcess[n] # NoThread
       THEN eraseMe' = eraseMe \cup {n} /\ UNCHANGED events
       ELSE events' = events \ {n} /\ UNCHANGED eraseMe
  /\ UNCHANGED <<concurrent, turn, last, inProcess, threadVars, handed, undefined>>

(***************************************************************************)
(* GetTimeEvent ("get") and SetTimeEvent ("set") look for event n, in the  *)
(* call or again after waiting for the thread that uses it.                *)
(***************************************************************************)
Look(t, call, n) == stage[t] = "script" \/ (stage[t] = call /\ want[t] = n)

MayUse(t, n) == n \in events \ eraseMe /\ inProcess[n] \in {t, NoThread}

Return(t) ==
  /\ stage' = [stage EXCEPT ![t] = "script"]
  /\ want'  = [want EXCEPT ![t] = NoEvent]

WaitForOther(t) ==
  /\ \E call \in {"get", "set"} : Go(t, "script", call)
  /\ \E n \in events \ eraseMe :
       /\ inProcess[n] \notin {t, NoThread}
       /\ want' = [want EXCEPT ![t] = n]
  /\ UNCHANGED <<concurrent, turn, eventVars, cur, callback, handed, undefined>>

\* Faulty: the callback that lets go the event is not added.
GetTimeEventOnly(t) ==
  /\ \E n \in Num :
       /\ MayUse(t, n) /\ Look(t, "get", n)
       /\ inProcess' = [inProcess EXCEPT ![n] = t]
  /\ Return(t)
  /\ UNCHANGED <<concurrent, turn, events, last, eraseMe, cur, callback, handed, undefined>>

(***************************************************************************)
(* The event is free or the thread's own: it is now the thread's own until *)
(* SetTimeEvent or the end of the script.                                  *)
(***************************************************************************)
GetTimeEvent(t) ==
  /\ \E n \in Num :
       /\ MayUse(t, n) /\ Look(t, "get", n)
       /\ inProcess' = [inProcess EXCEPT ![n] = t]
  /\ Return(t)
  /\ callback' = callback \cup {t}
  /\ UNCHANGED <<concurrent, turn, events, last, eraseMe, cur, handed, undefined>>

\* Faulty: an event marked for erasing is set, too.
SetTimeEventErased(t) ==
  /\ \E n \in events :
       /\ inProcess[n] \in {t, NoThread} /\ Look(t, "set", n)
       /\ inProcess' = [inProcess EXCEPT ![n] = NoThread]
       /\ handed' = handed \cup ({n} \cap {cur[t]})
  /\ Return(t)
  /\ UNCHANGED <<concurrent, turn, events, last, eraseMe, cur, callback, undefined>>

(***************************************************************************)
(* SetTimeEvent lets the event go, also the one whose script it is.        *)
(***************************************************************************)
SetTimeEvent(t) ==
  /\ \E n \in Num :
       /\ MayUse(t, n) /\ Look(t, "set", n)
       /\ inProcess' = [inProcess EXCEPT ![n] = NoThread]
       /\ handed' = handed \cup ({n} \cap {cur[t]})
  /\ Return(t)
  /\ UNCHANGED <<concurrent, turn, events, last, eraseMe, cur, callback, undefined>>

(***************************************************************************)
(* The event was marked while the thread waited: the call fails.           *)
(***************************************************************************)
TimeEventErased(t) ==
  /\ stage[t] \in {"get", "set"}
  /\ want[t] \in events \cap eraseMe
  /\ Return(t)
  /\ UNCHANGED <<concurrent, turn, eventVars, cur, callback, handed, undefined>>

(***************************************************************************)
(* The event was deleted while the thread waited: te still points to it,   *)
(* and what is read there is not an event.  The call fails, goes on        *)
(* waiting, or takes what it reads for an event that is free, writes to it *)
(* and, if it is GetTimeEvent, adds the callback.                          *)
(***************************************************************************)
TimeEventDeleted(t) ==
  /\ stage[t] \in {"get", "set"}
  /\ want[t] \notin events
  /\ Return(t)
  /\ \/ UNCHANGED <<inProcess, callback, undefined>>
     \/ LET get == stage[t] = "get" IN
        /\ inProcess' = [inProcess EXCEPT ![want[t]] = IF get THEN t ELSE NoThread]
        /\ callback' = IF get THEN callback \cup {t} ELSE callback
        /\ undefined' = TRUE
  /\ UNCHANGED <<concurrent, turn, events, last, eraseMe, cur, handed>>

-----------------------------------------------------------------------------
Execute(t) ==
  \/ EnterCode(t) \/ TakeTurn(t) \/ Resume(t) \/ PrepareFails(t)
  \/ EndExecution(t) \/ TimeEventEndScriptCallback(t)

Call(t) ==
  \/ CreateTimeEvent(t) \/ EraseTimeEvent(t) \/ GetTimeEvent(t) \/ SetTimeEvent(t)
  \/ WaitForOther(t) \/ TimeEventErased(t) \/ TimeEventDeleted(t)

Step(t) == StartScript(t) \/ PickEvent(t) \/ Execute(t) \/ FinishEvent(t) \/ Call(t)

Next == ~undefined /\ \E t \in Thread : Step(t)

Spec == Init /\ [][Next]_vars

-----------------------------------------------------------------------------
(***************************************************************************)
(* ProcessTimeEvents uses its event without the lock while the script      *)
(* runs: until it is done the event stays in the list and noted as its     *)
(* own, whatever the scripts and the processors of other threads do,       *)
(* unless a script of the event itself has let it go: with SetTimeEvent,   *)
(* or because it has called GetTimeEvent for any event, whose callback     *)
(* lets go everything (then a second thread may process the event, and the *)
(* end of the first ends it for both).                                     *)
(***************************************************************************)
HeldUntilDone ==
  \A t \in Thread :
    Processes(t) /\ cur[t] \notin handed => cur[t] \in events /\ inProcess[cur[t]] = t

(***************************************************************************)
(* An event marked for erasing is in use: it is never called again, never  *)
(* read again, and its user is there to delete it.                         *)
(***************************************************************************)
MarkedIsHeld == \A n \in events \cap eraseMe : inProcess[n] # NoThread

(***************************************************************************)
(* Who is noted as the user of an event still has to let it go: the thread *)
(* processes it, or the callback is due at the end of its script.  So no   *)
(* event is lost to the others because a script has ended, failed or was   *)
(* never begun.                                                            *)
(***************************************************************************)
UserPresent ==
  \A n \in events : \A t \in Thread :
    inProcess[n] = t =>
      \/ cur[t] = n /\ stage[t] # "idle"
      \/ t \in callback /\ stage[t] \in {"script", "get", "set", "ended"}

(***************************************************************************)
(* What a thread uses nobody else lets go or deletes: but for a thread     *)
(* that is done with processing the event, which a script of the event has *)
(* let go before.                                                          *)
(***************************************************************************)
HolderOnly ==
  [][\A n \in events : \A t \in Thread :
       inProcess[n] = t /\ ~(n \in events' /\ inProcess'[n] = t) =>
         Step(t) \/ (n \in handed /\ \E u \in Thread : cur[u] = n /\ cur'[u] = NoEvent)]_vars
=============================================================================
