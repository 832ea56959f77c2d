------------------------- MODULE TimeEvents_proofs -------------------------
(***************************************************************************)
(* Proofs about TimeEvents, for any number of threads that run scripts and *)
(* process events: types, that a processed event stays in its thread's     *)
(* hands, that a marked event is in use, that users let go, and that an    *)
(* event in use is left to its user by the other threads.                  *)
(***************************************************************************)
EXTENDS TimeEvents, TLAPS

(***************************************************************************)
(* Who is where: a processor is between taking its event and being done    *)
(* with it, and a callback is left over for no later script.               *)
(***************************************************************************)
InScript == {"script", "get", "set", "ended"}

Placed ==
  \A t \in Thread :
    /\ Processes(t) => stage[t] # "idle"
    /\ stage[t] \in {"failed", "done"} => Processes(t)
    /\ t \in callback => stage[t] \in InScript

Marked == eraseMe \subseteq events /\ MarkedIsHeld

IInv == TypeOK /\ Placed /\ HeldUntilDone /\ Marked /\ UserPresent

LEMMA Numbers ==
  ASSUME TypeOK
  PROVE  events \subseteq Num /\ NoEvent \notin Num /\ last + 1 \notin events
  BY BoundAssumption DEF TypeOK, Num, NoEvent

LEMMA Initial == Init => IInv
<1> SUFFICES ASSUME Init PROVE IInv
  OBVIOUS
<1>1. TypeOK
  BY BoundAssumption DEF Init, TypeOK, Stages, Num, NoEvent
<1>2. /\ \A t \in Thread : cur[t] = NoEvent /\ stage[t] = "idle" /\ t \notin callback
      /\ \A n \in Num : inProcess[n] = NoThread
      /\ eraseMe = {}
  BY DEF Init
<1>3. Placed /\ HeldUntilDone /\ Marked
  BY <1>2 DEF Placed, Processes, HeldUntilDone, Marked, MarkedIsHeld
<1>4. UserPresent
  BY <1>1, <1>2, Numbers, NoThreadAssumption DEF UserPresent
<1> QED
  BY <1>1, <1>3, <1>4 DEF IInv

-----------------------------------------------------------------------------
(***************************************************************************)
(* The steps that leave the events as they are, and only move a thread:    *)
(* from idle it does not go on to a stage after the script, and while it   *)
(* has a callback it stays in the script.                                  *)
(***************************************************************************)
Moves(t, to) ==
  /\ stage' = [stage EXCEPT ![t] = to] /\ to \in Stages \ {"idle"}
  /\ to \in {"failed", "done"} => Processes(t)
  /\ t \in callback => to \in InScript
  /\ UNCHANGED <<events, last, inProcess, eraseMe, cur, callback, handed>>

LEMMA MovesKeep ==
  ASSUME IInv, NEW t \in Thread, NEW to, Moves(t, to), TypeOK'
  PROVE  IInv'
<1> USE DEF IInv, Moves
<1>1. Placed'
  BY DEF TypeOK, Placed, Processes
<1>2. HeldUntilDone' /\ Marked'
  BY DEF HeldUntilDone, Processes, Marked, MarkedIsHeld
<1>3. UserPresent'
  BY DEF TypeOK, UserPresent, InScript
<1> QED
  BY <1>1, <1>2, <1>3

LEMMA StartScriptKeeps ==
  ASSUME IInv, NEW t \in Thread, StartScript(t)
  PROVE  IInv'
<1>1. TypeOK'
  BY DEF IInv, TypeOK, StartScript, Go, Stages, eventVars
<1>2. Moves(t, "begin")
  BY DEF IInv, Placed, StartScript, Go, Moves, Stages, InScript, eventVars
<1> QED
  BY <1>1, <1>2, MovesKeep

LEMMA BeginExecutionKeeps ==
  ASSUME IInv, NEW t \in Thread, EnterCode(t) \/ TakeTurn(t) \/ Resume(t)
  PROVE  IInv'
<1> USE DEF EnterCode, TakeTurn, Resume
<1>1. TypeOK'
  BY DEF IInv, TypeOK, Go, Stages, eventVars
<1>2. \E to \in {"turn", "resume", "script"} : Moves(t, to)
  BY DEF IInv, Placed, Go, Moves, Stages, InScript, eventVars
<1> QED
  BY <1>1, <1>2, MovesKeep

(***************************************************************************)
(* A thread that could not prepare its script has no callback: if it does  *)
(* not process an event either, nothing is noted as its own.               *)
(***************************************************************************)
LEMMA PrepareFailsKeeps ==
  ASSUME IInv, NEW t \in Thread, PrepareFails(t)
  PROVE  IInv'
<1> USE DEF IInv, PrepareFails
<1>1. TypeOK'
  BY DEF TypeOK, Go, Stages, eventVars
<1>2. CASE Processes(t)
  <2>1. Moves(t, "failed")
    BY <1>2 DEF Placed, Go, Moves, Stages, InScript, eventVars
  <2> QED
    BY <1>1, <2>1, MovesKeep
<1>3. CASE ~Processes(t)
  <2>1. /\ stage[t] = "begin" /\ t \notin callback /\ cur[t] = NoEvent
        /\ stage' = [stage EXCEPT ![t] = "idle"]
        /\ UNCHANGED <<events, last, inProcess, eraseMe, cur, callback, handed>>
    BY <1>3 DEF Placed, Go, InScript, Processes, eventVars
  <2>2. Placed'
    BY <2>1 DEF TypeOK, Placed, Processes
  <2>3. HeldUntilDone' /\ Marked'
    BY <2>1 DEF HeldUntilDone, Processes, Marked, MarkedIsHeld
  <2>4. UserPresent'
    BY <2>1, Numbers DEF TypeOK, UserPresent
  <2> QED
    BY <1>1, <2>2, <2>3, <2>4
<1> QED
  BY <1>2, <1>3

LEMMA EndExecutionKeeps ==
  ASSUME IInv, NEW t \in Thread, EndExecution(t)
  PROVE  IInv'
<1>1. TypeOK'
  BY DEF IInv, TypeOK, EndExecution, Go, Stages, eventVars
<1>2. Moves(t, "ended")
  BY DEF EndExecution, Go, Moves, Stages, InScript, eventVars
<1> QED
  BY <1>1, <1>2, MovesKeep

LEMMA WaitKeeps ==
  ASSUME IInv, NEW t \in Thread, WaitForOther(t)
  PROVE  IInv'
<1>1. PICK call \in {"get", "set"} : Go(t, "script", call)
  BY DEF WaitForOther
<1>2. TypeOK'
  <2>1. stage' \in [Thread -> Stages]
    BY <1>1 DEF IInv, TypeOK, Go, Stages
  <2>2. want' \in [Thread -> Num \cup {NoEvent}]
    BY Numbers DEF IInv, TypeOK, WaitForOther
  <2> QED
    BY <2>1, <2>2 DEF IInv, TypeOK, WaitForOther, eventVars
<1>3. Moves(t, call)
  BY <1>1 DEF WaitForOther, Go, Moves, Stages, InScript, eventVars
<1> QED
  BY <1>2, <1>3, MovesKeep

LEMMA ErasedReturnKeeps ==
  ASSUME IInv, NEW t \in Thread, TimeEventErased(t)
  PROVE  IInv'
<1>1. TypeOK'
  BY DEF IInv, TypeOK, TimeEventErased, Return, Stages, NoEvent, eventVars
<1>2. Moves(t, "script")
  BY DEF TimeEventErased, Return, Moves, Stages, InScript, eventVars
<1> QED
  BY <1>1, <1>2, MovesKeep

-----------------------------------------------------------------------------
LEMMA PickEventKeeps ==
  ASSUME IInv, NEW t \in Thread, PickEvent(t)
  PROVE  IInv'
<1> USE DEF IInv
<1>1. PICK n \in events : /\ inProcess[n] = NoThread
                          /\ inProcess' = [inProcess EXCEPT ![n] = t]
                          /\ cur' = [cur EXCEPT ![t] = n]
  BY DEF PickEvent
<1>2. /\ n \in Num /\ n # NoEvent /\ n \notin eraseMe
      /\ stage[t] = "idle" /\ t \notin callback /\ cur[t] = NoEvent
  BY <1>1, Numbers
     DEF PickEvent, Go, Placed, Processes, Marked, MarkedIsHeld, InScript
<1>3. TypeOK'
  BY <1>1, <1>2 DEF TypeOK, PickEvent, Go, Stages
<1>4. /\ stage' = [stage EXCEPT ![t] = "begin"]
      /\ UNCHANGED <<events, eraseMe, callback, handed>>
  BY DEF PickEvent, Go
<1>5. Placed'
  BY <1>1, <1>2, <1>4 DEF TypeOK, Placed, Processes, InScript
<1>6. HeldUntilDone'
  BY <1>1, <1>2, <1>4, NoThreadAssumption DEF TypeOK, HeldUntilDone, Processes
<1>7. Marked'
  BY <1>1, <1>2, <1>4 DEF TypeOK, Marked, MarkedIsHeld
<1>8. UserPresent'
  BY <1>1, <1>2, <1>4, Numbers, NoThreadAssumption DEF TypeOK, UserPresent
<1> QED
  BY <1>3, <1>5, <1>6, <1>7, <1>8

(***************************************************************************)
(* The callback lets go what its thread is noted to use, and among that    *)
(* the event it processes, which counts as handed from then on.            *)
(***************************************************************************)
LEMMA CallbackKeeps ==
  ASSUME IInv, NEW t \in Thread, TimeEventEndScriptCallback(t)
  PROVE  IInv'
<1> USE DEF IInv
<1>1. PICK s \in AfterScript(t) : Go(t, "ended", s)
  BY DEF TimeEventEndScriptCallback
<1>2. /\ s \in {"idle", "failed", "done"} /\ (s = "idle" <=> ~Processes(t))
      /\ stage[t] = "ended" /\ stage' = [stage EXCEPT ![t] = s]
      /\ callback' = callback \ {t} /\ UNCHANGED <<concurrent, turn, last, cur, want, undefined>>
  BY <1>1 DEF AfterScript, TimeEventEndScriptCallback, Go
<1> DEFINE S == IF t \in callback THEN UsedBy(t) ELSE {}
<1>3. /\ \A n \in Num : inProcess'[n] = IF n \in S THEN NoThread ELSE inProcess[n]
      /\ events' = events \ (S \cap eraseMe) /\ eraseMe' = eraseMe \ S
      /\ handed' = handed \cup (S \cap {cur[t]})
      /\ inProcess' \in [Num -> Thread \cup {NoThread}]
  <2>1. CASE t \in callback
    BY <2>1 DEF TimeEventEndScriptCallback, LetGo, TypeOK
  <2>2. CASE t \notin callback
    BY <2>2 DEF TimeEventEndScriptCallback, TypeOK
  <2> QED
    BY <2>1, <2>2
<1>4. S \subseteq events /\ S \subseteq Num /\ \A n \in S : inProcess[n] = t
  BY Numbers DEF UsedBy
<1>5. t \in callback => \A n \in events \ S : inProcess[n] # t
  BY DEF UsedBy
<1> HIDE DEF S
<1>6. TypeOK'
  BY <1>2, <1>3, <1>4 DEF TypeOK, Stages
<1>7. Placed'
  BY <1>2 DEF TypeOK, Placed, Processes, InScript
<1>8. HeldUntilDone'
  <2>1. ASSUME NEW u \in Thread, Processes(u), cur[u] \notin handed'
        PROVE  cur[u] \in events' /\ inProcess'[cur[u]] = u
    <3>1. cur[u] \in events /\ inProcess[cur[u]] = u /\ cur[u] \in Num
      BY <1>3, <2>1, Numbers DEF HeldUntilDone
    <3>2. cur[u] \notin S
      BY <1>3, <1>4, <2>1, <3>1
    <3> QED
      BY <1>3, <3>1, <3>2
  <2> QED
    BY <1>2, <2>1 DEF HeldUntilDone, Processes
<1>9. Marked'
  BY <1>3, <1>4, Numbers DEF Marked, MarkedIsHeld
<1>10. UserPresent'
  <2>1. ASSUME NEW n \in events', NEW u \in Thread, inProcess'[n] = u
        PROVE  /\ inProcess[n] = u /\ n \in events /\ n \in Num
               /\ u = t => t \notin callback
    BY <1>3, <1>5, <2>1, Numbers, NoThreadAssumption
  <2>2. ASSUME NEW n \in events', inProcess'[n] = t
        PROVE  cur[t] = n /\ Processes(t)
    BY <2>1, <2>2, Numbers DEF UserPresent, Processes
  <2> QED
    BY <1>2, <2>1, <2>2 DEF TypeOK, UserPresent
<1> QED
  BY <1>6, <1>7, <1>8, <1>9, <1>10

(***************************************************************************)
(* The end of the processing: another thread that processes the same event *)
(* knows it as handed.                                                     *)
(***************************************************************************)
LEMMA FinishKeeps ==
  ASSUME IInv, NEW t \in Thread, FinishEvent(t)
  PROVE  IInv'
<1> USE DEF IInv
<1> DEFINE n == cur[t]
<1>1. /\ n # NoEvent /\ n \in Num /\ stage[t] \in {"failed", "done"} /\ t \notin callback
      /\ stage' = [stage EXCEPT ![t] = "idle"] /\ cur' = [cur EXCEPT ![t] = NoEvent]
      /\ UNCHANGED <<concurrent, turn, last, want, callback>>
      /\ handed' = IF \E u \in Thread \ {t} : cur[u] = n THEN handed ELSE handed \ {n}
  BY DEF FinishEvent, Processes, Go, Placed, InScript, TypeOK
<1>2. /\ undefined' \in BOOLEAN /\ inProcess' \in [Num -> Thread \cup {NoThread}]
      /\ events' \subseteq events /\ events \ {n} \subseteq events'
      /\ eraseMe' = eraseMe \ {n}
      /\ \A m \in Num \ {n} : inProcess'[m] = inProcess[m]
      /\ n \in events' => inProcess'[n] = NoThread
  <2>1. CASE n \notin events
    BY <2>1 DEF FinishEvent, TypeOK, Marked
  <2>2. CASE n \in events
    <3>1. PICK again \in BOOLEAN :
            /\ inProcess' = [inProcess EXCEPT ![n] = NoThread]
            /\ events' = IF again /\ n \notin eraseMe THEN events ELSE events \ {n}
            /\ eraseMe' = eraseMe \ {n}
            /\ UNCHANGED undefined
      BY <2>2 DEF FinishEvent
    <3> QED
      BY <1>1, <3>1 DEF TypeOK
  <2> QED
    BY <2>1, <2>2
<1>3. \A m \in eraseMe' : m \in events' /\ m \in Num /\ inProcess'[m] = inProcess[m]
  BY <1>2, Numbers DEF Marked
<1>4. TypeOK'
  BY <1>1, <1>2 DEF TypeOK, Stages
<1>5. Placed'
  BY <1>1 DEF TypeOK, Placed, Processes
<1>6. HeldUntilDone'
  <2>1. ASSUME NEW u \in Thread \ {t}, Processes(u), cur[u] \notin handed'
        PROVE  cur[u] \in events' /\ inProcess'[cur[u]] = u
    <3>1. cur[u] \notin handed
      BY <1>1, <2>1
    <3>2. cur[u] \in events /\ inProcess[cur[u]] = u /\ cur[u] \in Num
      BY <2>1, <3>1, Numbers DEF HeldUntilDone
    <3>3. cur[u] # n
      BY <1>1, <2>1, <3>1, <3>2 DEF HeldUntilDone, Processes
    <3> QED
      BY <1>2, <3>2, <3>3
  <2> QED
    BY <1>1, <2>1 DEF TypeOK, HeldUntilDone, Processes
<1>7. Marked'
  BY <1>2, <1>3 DEF Marked, MarkedIsHeld
<1>8. UserPresent'
  <2>1. ASSUME NEW m \in events', NEW u \in Thread, inProcess'[m] = u
        PROVE  m # n /\ m \in events /\ inProcess[m] = u
    BY <1>2, <2>1, Numbers, NoThreadAssumption
  <2>2. ASSUME NEW m \in events', inProcess'[m] = t
        PROVE  FALSE
    <3>1. m # n /\ m \in events /\ inProcess[m] = t
      BY <2>1, <2>2
    <3> QED
      BY <1>1, <3>1 DEF UserPresent
  <2>3. \A u \in Thread \ {t} : cur'[u] = cur[u] /\ stage'[u] = stage[u]
    BY <1>1 DEF TypeOK
  <2> QED
    BY <1>1, <2>1, <2>2, <2>3 DEF UserPresent
<1> QED
  BY <1>4, <1>5, <1>6, <1>7, <1>8

-----------------------------------------------------------------------------
LEMMA CreateKeeps ==
  ASSUME IInv, NEW t \in Thread, CreateTimeEvent(t)
  PROVE  IInv'
<1> USE DEF IInv
<1>1. /\ last < MaxEvents /\ last' = last + 1 /\ events' = events \cup {last + 1}
      /\ inProcess' = [inProcess EXCEPT ![last + 1] = NoThread]
      /\ UNCHANGED <<concurrent, turn, eraseMe, cur, stage, want, callback>>
      /\ UNCHANGED <<handed, undefined>>
  BY DEF CreateTimeEvent, threadVars
<1>2. /\ last + 1 \in Num /\ last + 1 \notin eraseMe /\ last + 1 \notin events
      /\ inProcess'[last + 1] = NoThread
      /\ \A n \in Num \ {last + 1} : inProcess'[n] = inProcess[n]
  <2>1. last \in Nat /\ last + 1 \in 1..MaxEvents /\ last + 1 \notin events
    BY <1>1, Numbers, BoundAssumption DEF TypeOK
  <2>2. last + 1 \in Num /\ last + 1 \notin eraseMe
    BY <2>1 DEF Num, Marked
  <2> QED
    BY <1>1, <2>1, <2>2 DEF TypeOK
<1>3. TypeOK'
  <2>1. events' \subseteq 1..last' /\ last' \in 0..MaxEvents
    BY <1>1, BoundAssumption DEF TypeOK
  <2> QED
    BY <1>1, <1>2, <2>1 DEF TypeOK
<1>4. Placed' /\ HeldUntilDone'
  BY <1>1, <1>2, Numbers DEF Placed, Processes, HeldUntilDone
<1>5. Marked'
  BY <1>1, <1>2, Numbers DEF Marked, MarkedIsHeld
<1>6. UserPresent'
  <2>1. ASSUME NEW n \in events', NEW u \in Thread, inProcess'[n] = u
        PROVE  n \in events /\ inProcess[n] = u
    BY <1>1, <1>2, <2>1, Numbers, NoThreadAssumption
  <2> QED
    BY <1>1, <2>1 DEF UserPresent
<1> QED
  BY <1>3, <1>4, <1>5, <1>6

LEMMA EraseKeeps ==
  ASSUME IInv, NEW t \in Thread, EraseTimeEvent(t)
  PROVE  IInv'
<1> USE DEF IInv
<1>1. PICK n \in events :
        IF inProcess[n] # NoThread
        THEN eraseMe' = eraseMe \cup {n} /\ UNCHANGED events
        ELSE events' = events \ {n} /\ UNCHANGED eraseMe
  BY DEF EraseTimeEvent
<1>2. /\ n \in Num
      /\ UNCHANGED <<concurrent, turn, last, inProcess, cur, stage, want, callback>>
      /\ UNCHANGED <<handed, undefined>>
  BY Numbers DEF EraseTimeEvent, threadVars
<1>3. TypeOK'
  BY <1>1, <1>2 DEF TypeOK
<1>4. Placed'
  BY <1>2 DEF Placed, Processes
<1>5. HeldUntilDone'
  BY <1>1, <1>2, NoThreadAssumption DEF HeldUntilDone, Processes
<1>6. Marked'
  BY <1>1, <1>2 DEF Marked, MarkedIsHeld
<1>7. UserPresent'
  BY <1>1, <1>2 DEF UserPresent
<1> QED
  BY <1>3, <1>4, <1>5, <1>6, <1>7

(***************************************************************************)
(* GetTimeEvent and SetTimeEvent: only an event that is free or the        *)
(* thread's own has a new user, or none.                                   *)
(***************************************************************************)
Returns(t) ==
  /\ stage[t] \in {"script", "get", "set"}
  /\ stage' = [stage EXCEPT ![t] = "script"] /\ want' = [want EXCEPT ![t] = NoEvent]
  /\ UNCHANGED <<concurrent, turn, events, last, eraseMe, cur>>

LEMMA GetKeeps ==
  ASSUME IInv, NEW t \in Thread, GetTimeEvent(t)
  PROVE  IInv'
<1> USE DEF IInv
<1>1. PICK n \in Num : /\ MayUse(t, n) /\ Look(t, "get", n)
                       /\ inProcess' = [inProcess EXCEPT ![n] = t]
  BY DEF GetTimeEvent
<1>2. /\ Returns(t) /\ callback' = callback \cup {t} /\ UNCHANGED <<handed, undefined>>
      /\ n \in events \ eraseMe /\ inProcess[n] \in {t, NoThread}
  BY <1>1 DEF GetTimeEvent, Return, Returns, Look, MayUse
<1>3. TypeOK'
  BY <1>1, <1>2 DEF TypeOK, Returns, Stages, NoEvent
<1>4. Placed'
  BY <1>2 DEF TypeOK, Placed, Processes, Returns, InScript
<1>5. HeldUntilDone'
  BY <1>1, <1>2, NoThreadAssumption DEF TypeOK, HeldUntilDone, Processes, Returns
<1>6. Marked'
  BY <1>1, <1>2, NoThreadAssumption DEF TypeOK, Marked, MarkedIsHeld, Returns
<1>7. UserPresent'
  <2>1. ASSUME NEW m \in events, NEW u \in Thread, inProcess'[m] = u, u # t
        PROVE  inProcess[m] = u /\ stage'[u] = stage[u]
    BY <1>1, <1>2, <2>1, Numbers DEF TypeOK, Returns
  <2>2. stage'[t] = "script" /\ t \in callback' /\ callback \subseteq callback'
    BY <1>2 DEF TypeOK, Returns
  <2> QED
    BY <1>2, <2>1, <2>2 DEF UserPresent, Returns
<1> QED
  BY <1>3, <1>4, <1>5, <1>6, <1>7

LEMMA SetKeeps ==
  ASSUME IInv, NEW t \in Thread, SetTimeEvent(t)
  PROVE  IInv'
<1> USE DEF IInv
<1>1. PICK n \in Num : /\ MayUse(t, n) /\ Look(t, "set", n)
                       /\ inProcess' = [inProcess EXCEPT ![n] = NoThread]
                       /\ handed' = handed \cup ({n} \cap {cur[t]})
  BY DEF SetTimeEvent
<1>2. /\ Returns(t) /\ UNCHANGED <<callback, undefined>>
      /\ n \in events \ eraseMe /\ inProcess[n] \in {t, NoThread}
  BY <1>1 DEF SetTimeEvent, Return, Returns, Look, MayUse
<1>3. TypeOK'
  BY <1>1, <1>2 DEF TypeOK, Returns, Stages, NoEvent
<1>4. Placed'
  BY <1>2 DEF TypeOK, Placed, Processes, Returns, InScript
<1>5. HeldUntilDone'
  BY <1>1, <1>2, NoThreadAssumption DEF TypeOK, HeldUntilDone, Processes, Returns
<1>6. Marked'
  BY <1>1, <1>2, NoThreadAssumption DEF TypeOK, Marked, MarkedIsHeld, Returns
<1>7. UserPresent'
  <2>1. ASSUME NEW m \in events, NEW u \in Thread, inProcess'[m] = u
        PROVE  inProcess[m] = u
    BY <1>1, <2>1, Numbers, NoThreadAssumption DEF TypeOK
  <2>2. /\ stage'[t] = "script" /\ stage[t] \in {"script", "get", "set"}
        /\ \A u \in Thread \ {t} : stage'[u] = stage[u]
    BY <1>2 DEF TypeOK, Returns
  <2> QED
    BY <1>2, <2>1, <2>2 DEF UserPresent, Returns
<1> QED
  BY <1>3, <1>4, <1>5, <1>6, <1>7

(***************************************************************************)
(* What is written to a deleted event changes none of those in the list.   *)
(***************************************************************************)
LEMMA DeletedReturnKeeps ==
  ASSUME IInv, NEW t \in Thread, TimeEventDeleted(t)
  PROVE  IInv'
<1> USE DEF IInv
<1>1. /\ Returns(t) /\ want[t] \notin events /\ UNCHANGED handed
      /\ callback' \subseteq callback \cup {t} /\ callback \subseteq callback'
      /\ undefined' \in BOOLEAN
  BY DEF TimeEventDeleted, Return, Returns, TypeOK
<1>2. /\ inProcess' \in [Num -> Thread \cup {NoThread}]
      /\ \A n \in events : inProcess'[n] = inProcess[n]
  <2>1. CASE UNCHANGED inProcess
    BY <2>1 DEF TypeOK
  <2>2. CASE \E x \in {t, NoThread} : inProcess' = [inProcess EXCEPT ![want[t]] = x]
    <3>1. PICK x \in {t, NoThread} : inProcess' = [inProcess EXCEPT ![want[t]] = x]
      BY <2>2
    <3>2. x \in Thread \cup {NoThread} /\ inProcess \in [Num -> Thread \cup {NoThread}]
      BY <3>1 DEF TypeOK
    <3>3. inProcess' \in [Num -> Thread \cup {NoThread}]
      BY <3>1, <3>2
    <3>4. ASSUME NEW n \in events PROVE inProcess'[n] = inProcess[n]
      <4>1. n \in Num /\ n # want[t]
        BY <1>1, Numbers
      <4> QED
        BY <3>1, <3>2, <4>1
    <3> QED
      BY <3>3, <3>4
  <2>3. CASE inProcess' = [inProcess EXCEPT
                             ![want[t]] = IF stage[t] = "get" THEN t ELSE NoThread]
    <3>1. CASE stage[t] = "get"
      BY <2>2, <2>3, <3>1
    <3>2. CASE stage[t] # "get"
      BY <2>2, <2>3, <3>2
    <3> QED
      BY <3>1, <3>2
  <2> QED
    BY <2>1, <2>3 DEF TimeEventDeleted
<1>3. TypeOK'
  BY <1>1, <1>2 DEF TypeOK, Returns, Stages, NoEvent
<1>4. Placed'
  BY <1>1 DEF TypeOK, Placed, Processes, Returns, InScript
<1>5. HeldUntilDone' /\ Marked'
  BY <1>1, <1>2 DEF HeldUntilDone, Processes, Returns, Marked, MarkedIsHeld
<1>6. UserPresent'
  <2>1. /\ stage'[t] = "script" /\ stage[t] \in {"script", "get", "set"}
        /\ \A u \in Thread \ {t} : stage'[u] = stage[u]
    BY <1>1 DEF TypeOK, Returns
  <2> QED
    BY <1>1, <1>2, <2>1 DEF UserPresent, Returns
<1> QED
  BY <1>3, <1>4, <1>5, <1>6

-----------------------------------------------------------------------------
(***************************************************************************)
(* The inductive invariant holds in every state.                           *)
(***************************************************************************)
LEMMA StepKeeps ==
  ASSUME IInv, NEW t \in Thread, Step(t)
  PROVE  IInv'
<1>1. CASE Execute(t)
  BY <1>1, BeginExecutionKeeps, PrepareFailsKeeps, EndExecutionKeeps, CallbackKeeps
     DEF Execute
<1>2. CASE Call(t)
  BY <1>2, CreateKeeps, EraseKeeps, GetKeeps, SetKeeps, WaitKeeps, ErasedReturnKeeps,
     DeletedReturnKeeps DEF Call
<1> QED
  BY <1>1, <1>2, StartScriptKeeps, PickEventKeeps, FinishKeeps DEF Step

LEMMA Invariance == Spec => []IInv
<1>1. IInv /\ [Next]_vars => IInv'
  <2> SUFFICES ASSUME IInv, [Next]_vars PROVE IInv'
    OBVIOUS
  <2>1. CASE UNCHANGED vars
    <3>1. /\ UNCHANGED <<concurrent, turn, events, last, inProcess, eraseMe>>
          /\ UNCHANGED <<cur, stage, want, callback, handed, undefined>>
      BY <2>1 DEF vars, eventVars, threadVars
    <3>2. TypeOK'
      BY <3>1 DEF IInv, TypeOK
    <3>3. Placed' /\ HeldUntilDone'
      BY <3>1 DEF IInv, Placed, Processes, HeldUntilDone
    <3>4. Marked' /\ UserPresent'
      BY <3>1 DEF IInv, Marked, MarkedIsHeld, UserPresent
    <3> QED
      BY <3>2, <3>3, <3>4 DEF IInv
  <2> QED
    BY <2>1, StepKeeps DEF Next
<1> QED
  BY <1>1, Initial, PTL DEF Spec

(***************************************************************************)
(* Every variable keeps its type, with any number of threads that process  *)
(* events (ProcessTimeEvents) and run scripts: the list holds only numbers *)
(* that CreateTimeEvent has given out.                                     *)
(***************************************************************************)
THEOREM TypeCorrect == Spec => []TypeOK
<1>1. IInv => TypeOK
  BY DEF IInv
<1> QED
  BY <1>1, Invariance, PTL

(***************************************************************************)
(* The event of ProcessTimeEvents is in the list and its own until it is   *)
(* done, whatever the scripts and the processors of the other threads do,  *)
(* unless its own script has let it go.                                    *)
(***************************************************************************)
THEOREM ProcessedStays == Spec => []HeldUntilDone
<1>1. IInv => HeldUntilDone
  BY DEF IInv
<1> QED
  BY <1>1, Invariance, PTL

(***************************************************************************)
(* A marked event is in use: it is not picked or read any more (PickEvent, *)
(* GetTimeEvent and SetTimeEvent pass it by), until its user deletes it.   *)
(***************************************************************************)
THEOREM ErasedNeverCalled == Spec => []MarkedIsHeld
<1>1. IInv => MarkedIsHeld
  BY DEF IInv, Marked
<1> QED
  BY <1>1, Invariance, PTL

(***************************************************************************)
(* Whoever is noted in InProcess still has to let the event go: at the end *)
(* of ProcessTimeEvents, or in the callback of EndExecution.               *)
(***************************************************************************)
THEOREM UsersLetGo == Spec => []UserPresent
<1>1. IInv => UserPresent
  BY DEF IInv
<1> QED
  BY <1>1, Invariance, PTL

(***************************************************************************)
(* An event in the hands of a thread stays in the list and in its hands    *)
(* in the steps of the other threads: they pick, read, set and delete only *)
(* events that are free or their own, mark those in use, and their         *)
(* callbacks let go only their own.  The one exception is an event that a  *)
(* script of its own has let go while it was processed: ProcessTimeEvents  *)
(* puts it back or deletes it without looking at InProcess.                *)
(***************************************************************************)
LEMMA OthersKeep ==
  ASSUME IInv, NEW u \in Thread, Step(u),
         NEW n \in events, NEW t \in Thread, inProcess[n] = t, t # u
  PROVE  \/ n \in events' /\ inProcess'[n] = t
         \/ n \in handed /\ cur[u] = n /\ cur'[u] = NoEvent
<1> USE DEF IInv
<1>1. n \in Num
  BY Numbers
<1>2. CASE UNCHANGED <<events, inProcess>>
  BY <1>2
<1>3. CASE PickEvent(u)
  BY <1>1, <1>3, NoThreadAssumption DEF PickEvent, TypeOK
<1>4. CASE TimeEventEndScriptCallback(u)
  BY <1>1, <1>4 DEF TimeEventEndScriptCallback, LetGo, UsedBy
<1>5. CASE FinishEvent(u)
  <2>1. cur'[u] = NoEvent /\ Processes(u)
    BY <1>5 DEF FinishEvent, TypeOK
  <2>2. CASE cur[u] = n
    BY <2>1, <2>2 DEF HeldUntilDone
  <2>3. CASE cur[u] # n
    <3>1. CASE cur[u] \notin events
      BY <1>5, <3>1 DEF FinishEvent
    <3>2. CASE cur[u] \in events
      BY <1>1, <1>5, <2>3, <3>2 DEF FinishEvent, TypeOK
    <3> QED
      BY <3>1, <3>2
  <2> QED
    BY <2>2, <2>3
<1>6. CASE CreateTimeEvent(u)
  BY <1>1, <1>6, Numbers DEF CreateTimeEvent, TypeOK
<1>7. CASE EraseTimeEvent(u)
  BY <1>7, NoThreadAssumption DEF EraseTimeEvent
<1>8. CASE GetTimeEvent(u) \/ SetTimeEvent(u)
  BY <1>1, <1>8, NoThreadAssumption DEF GetTimeEvent, SetTimeEvent, MayUse, TypeOK
<1>9. CASE TimeEventDeleted(u)
  <2>1. want[u] \in Num \cup {NoEvent} /\ want[u] # n
    BY <1>9 DEF TimeEventDeleted, TypeOK
  <2> QED
    BY <1>1, <1>9, <2>1 DEF TimeEventDeleted, TypeOK
<1> QED
  BY <1>2, <1>3, <1>4, <1>5, <1>6, <1>7, <1>8, <1>9
     DEF Step, Execute, Call, StartScript, PrepareFails, EnterCode, TakeTurn, Resume,
         EndExecution, WaitForOther, TimeEventErased, eventVars

(***************************************************************************)
(* What one thread is noted to use no other thread lets go or deletes,     *)
(* though EraseTimeEvent of another may mark it, but for the end of        *)
(* ProcessTimeEvents with an event that a script of its own has let go.    *)
(***************************************************************************)
THEOREM HeldByHolderOnly == Spec => HolderOnly
<1>1. ASSUME IInv, [Next]_vars, NEW n \in events, NEW t \in Thread,
             inProcess[n] = t, ~(n \in events' /\ inProcess'[n] = t)
      PROVE  Step(t) \/ (n \in handed /\ \E u \in Thread : cur[u] = n /\ cur'[u] = NoEvent)
  <2>1. ~UNCHANGED vars
    BY <1>1 DEF vars, eventVars
  <2>2. PICK u \in Thread : Step(u)
    BY <1>1, <2>1 DEF Next
  <2> QED
    BY <1>1, <2>2, OthersKeep
<1>2. IInv /\ [Next]_vars =>
        [\A n \in events : \A t \in Thread :
           inProcess[n] = t /\ ~(n \in events' /\ inProcess'[n] = t) =>
             Step(t) \/ (n \in handed /\ \E u \in Thread : cur[u] = n /\ cur'[u] = NoEvent)]_vars
  BY <1>1
<1> QED
  BY <1>2, Invariance, PTL DEF Spec, HolderOnly
=============================================================================
