------------------------ MODULE ClientSession_proofs ------------------------
(***************************************************************************)
(* Proofs about ClientSession, for any number of Clients and threads:      *)
(* types, the jobs and the references of a Client, and that an avatar is   *)
(* played by the connection that was sent the map.                         *)
(***************************************************************************)
EXTENDS ClientSession, FiniteSetTheorems, TLAPS

(***************************************************************************)
(* The invariant.  First, what a thread has in its hands.                  *)
(***************************************************************************)
InClientJob(t, c)  == hand[t] = c /\ pc[t] \in ClientStages
InCritterJob(t, c) == hand[t] = c /\ pc[t] \in {"critter", "remove"}

HandsMatch ==
  \A t \in Thread :
    /\ pc[t] = "idle" <=> hand[t] = NoClient
    /\ pc[t] \notin {"swap", "load"} => found[t] = NoClient

(***************************************************************************)
(* A connection that has not logged in yet has no job of an avatar, and so *)
(* the login can give it one.                                              *)
(***************************************************************************)
Newcomers ==
  \A t \in Thread :
    pc[t] \in {"swap", "load", "enter", "enterSaved"} => CritterJobs(hand[t]) = 0

Untried ==
  \A c \in Client :
    (/\ client[c].state # "playing" /\ ~client[c].offline /\ ~client[c].notValid
     /\ \A t \in Thread : hand[t] = c => pc[t] # "greet")
    => CritterJobs(c) = 0

(***************************************************************************)
(* The avatar, and who creates or removes it.                              *)
(***************************************************************************)
Creators ==
  \A t \in Thread : Creating(t) => client[hand[t]].id /\ ~client[hand[t]].notValid

AvatarValid == \A c \in Client : c = player => client[c].id /\ ~client[c].notValid

Removing ==
  \A t \in Thread :
    pc[t] = "remove" => player = hand[t] /\ client[hand[t]].canBeRemoved

OneAvatar ==
  \/ overlap
  \/ /\ \A t, u \in Thread : (Creating(t) /\ Creating(u)) => t = u
     /\ \A t \in Thread : Creating(t) => player = NoClient
     /\ \A c \in Client : c # player => CritterJobs(c) = 0

(***************************************************************************)
(* What a Client is owed: the reference for the game is that of its job.   *)
(***************************************************************************)
Owed(c) ==
  deferred[c] + One(c \in connected) + One(client[c].sock)
    + CritterJobs(c) + One(c \in saveClients)

Balance == \A c \in Client : refs[c] >= Owed(c) /\ (overlap \/ refs[c] = Owed(c))

(***************************************************************************)
(* What a login has found is kept by somebody, or was released early.      *)
(***************************************************************************)
FoundHeld ==
  \A t \in Thread :
    /\ pc[t] = "swap" =>
         /\ found[t] \in Client
         /\ \/ found[t] = player
            \/ /\ client[found[t]].canBeRemoved
               /\ deferred[found[t]] > 0 \/ found[t] \in early
    /\ (pc[t] = "load" /\ found[t] # NoClient)
         => (found[t] \in saveClients \/ overlap \/ marked)

DueAreOffline ==
  marked \/ \A c \in connected : client[c].canBeRemoved => client[c].offline

OnlinePlays ==
  \/ overlap \/ marked
  \/ /\ \A c \in connected :
          (client[c].state = "playing" /\ ~client[c].offline) => player = c
     /\ \A t \in Thread :
          (pc[t] = "greet" /\ ~client[hand[t]].offline) => player = hand[t]

IInv ==
  /\ TypeOK /\ JobsMatch /\ HandsMatch
  /\ Newcomers /\ Untried /\ Creators /\ AvatarValid /\ Removing /\ OneAvatar
  /\ Balance /\ FoundHeld /\ DueAreOffline /\ OnlinePlays

-----------------------------------------------------------------------------
(***************************************************************************)
(* Counting the hands: one thread takes up or puts down a job.             *)
(***************************************************************************)
Holders(h, p, c, S) == {t \in Thread : h[t] = c /\ p[t] \in S}

LEMMA HoldersFinite ==
  ASSUME NEW h, NEW p, NEW c, NEW S
  PROVE  IsFiniteSet(Holders(h, p, c, S)) /\ Cardinality(Holders(h, p, c, S)) \in Nat
<1>1. Holders(h, p, c, S) \subseteq Thread
  BY DEF Holders
<1> QED
  BY <1>1, SessionAssumption, FS_Subset, FS_CardinalityType

LEMMA HoldersMove ==
  ASSUME NEW c, NEW S, NEW t \in Thread,
         \A u \in Thread \ {t} : hand'[u] = hand[u] /\ pc'[u] = pc[u]
  PROVE  LET was == hand[t] = c /\ pc[t] \in S
             is  == hand'[t] = c /\ pc'[t] \in S
             n   == Cardinality(Holders(hand, pc, c, S))
             m   == Cardinality(Holders(hand', pc', c, S)) IN
         /\ (was <=> is) => m = n
         /\ (was /\ ~is) => m = n - 1
         /\ (~was /\ is) => m = n + 1
<1> DEFINE H == Holders(hand, pc, c, S)
           G == Holders(hand', pc', c, S)
           was == hand[t] = c /\ pc[t] \in S
           is  == hand'[t] = c /\ pc'[t] \in S
<1>1. \A u \in Thread \ {t} : u \in H <=> u \in G
  BY DEF Holders
<1>2. H \subseteq Thread /\ G \subseteq Thread /\ (t \in H <=> was) /\ (t \in G <=> is)
  BY DEF Holders
<1>3. IsFiniteSet(H) /\ Cardinality(H) \in Nat
  BY HoldersFinite
<1> HIDE DEF H, G, was, is
<1>4. (was <=> is) => Cardinality(G) = Cardinality(H)
  <2>1. (was <=> is) => G = H
    BY <1>1, <1>2
  <2> QED
    BY <2>1
<1>5. (was /\ ~is) => Cardinality(G) = Cardinality(H) - 1
  <2>1. (was /\ ~is) => G = H \ {t} /\ t \in H
    BY <1>1, <1>2
  <2> QED
    BY <1>3, <2>1, FS_RemoveElement
<1>6. (~was /\ is) => Cardinality(G) = Cardinality(H) + 1
  <2>1. (~was /\ is) => G = H \cup {t} /\ t \notin H
    BY <1>1, <1>2
  <2> QED
    BY <1>3, <2>1, FS_AddElement
<1> QED
  BY <1>4, <1>5, <1>6 DEF H, G, was, is

(***************************************************************************)
(* What a step of one thread does to the jobs of a Client.                 *)
(***************************************************************************)
LEMMA JobsCount ==
  ASSUME TypeOK, NEW c \in Client
  PROVE  /\ ClientJobs(c) \in Nat /\ CritterJobs(c) \in Nat
         /\ ClientJobs(c) =
              clientJobs[c] + Cardinality(Holders(hand, pc, c, ClientStages))
         /\ CritterJobs(c) =
              critterJobs[c] + Cardinality(Holders(hand, pc, c, {"critter", "remove"}))
<1>1. clientJobs[c] \in Nat /\ critterJobs[c] \in Nat
  BY DEF TypeOK
<1>2. /\ Cardinality(Holders(hand, pc, c, ClientStages)) \in Nat
      /\ Cardinality(Holders(hand, pc, c, {"critter", "remove"})) \in Nat
  BY HoldersFinite
<1>3. /\ ClientJobs(c) =
           clientJobs[c] + Cardinality(Holders(hand, pc, c, ClientStages))
      /\ CritterJobs(c) =
           critterJobs[c] + Cardinality(Holders(hand, pc, c, {"critter", "remove"}))
  BY DEF ClientJobs, CritterJobs, Holders
<1> QED
  BY <1>1, <1>2, <1>3

(***************************************************************************)
(* The thread that has the job of a Client is the only one.                *)
(***************************************************************************)
LEMMA HolderAlone ==
  ASSUME TypeOK, JobsMatch, NEW t \in Thread, NEW c \in Client
  PROVE  /\ InClientJob(t, c) =>
              /\ c \in connected /\ clientJobs[c] = 0 /\ ClientJobs(c) = 1
              /\ \A u \in Thread : InClientJob(u, c) => u = t
         /\ InCritterJob(t, c) =>
              /\ critterJobs[c] = 0 /\ CritterJobs(c) = 1
              /\ \A u \in Thread : InCritterJob(u, c) => u = t
<1> DEFINE H == Holders(hand, pc, c, ClientStages)
           G == Holders(hand, pc, c, {"critter", "remove"})
<1>1. /\ ClientJobs(c) = clientJobs[c] + Cardinality(H)
      /\ CritterJobs(c) = critterJobs[c] + Cardinality(G)
      /\ clientJobs[c] \in Nat /\ critterJobs[c] \in Nat
  BY JobsCount DEF TypeOK
<1>2. ClientJobs(c) = One(c \in connected) /\ CritterJobs(c) <= 1
  BY DEF JobsMatch
<1>3. ASSUME NEW S, t \in S, Cardinality(S) <= 1,
             \/ S = Holders(hand, pc, c, ClientStages)
             \/ S = Holders(hand, pc, c, {"critter", "remove"})
      PROVE  Cardinality(S) = 1 /\ \A u \in S : u = t
  <2>1. IsFiniteSet(S) /\ Cardinality(S) \in Nat
    BY <1>3, HoldersFinite
  <2>2. IsFiniteSet(S \ {t}) /\ Cardinality(S \ {t}) = Cardinality(S) - 1
    BY <1>3, <2>1, FS_RemoveElement
  <2>3. Cardinality(S \ {t}) \in Nat
    BY <2>2, FS_CardinalityType
  <2>4. Cardinality(S) = 1 /\ Cardinality(S \ {t}) = 0
    BY <1>3, <2>1, <2>2, <2>3
  <2>5. S \ {t} = {}
    BY <2>2, <2>4, FS_EmptySet
  <2> QED
    BY <2>4, <2>5
<1>4. /\ Cardinality(H) \in Nat /\ Cardinality(G) \in Nat
  BY HoldersFinite
<1>5. /\ \A u \in Thread : InClientJob(u, c) <=> u \in H
      /\ \A u \in Thread : InCritterJob(u, c) <=> u \in G
      /\ H \subseteq Thread /\ G \subseteq Thread
  BY DEF InClientJob, InCritterJob, Holders
<1> HIDE DEF H, G
<1>6. ASSUME InClientJob(t, c)
      PROVE  /\ c \in connected /\ clientJobs[c] = 0 /\ ClientJobs(c) = 1
             /\ \A u \in Thread : InClientJob(u, c) => u = t
  <2>1. t \in H /\ Cardinality(H) <= 1
    BY <1>1, <1>2, <1>4, <1>5, <1>6 DEF One
  <2>2. Cardinality(H) = 1 /\ \A u \in H : u = t
    BY <1>3, <2>1 DEF H
  <2> QED
    BY <1>1, <1>2, <1>5, <2>2 DEF One
<1>7. ASSUME InCritterJob(t, c)
      PROVE  /\ critterJobs[c] = 0 /\ CritterJobs(c) = 1
             /\ \A u \in Thread : InCritterJob(u, c) => u = t
  <2>1. t \in G /\ Cardinality(G) <= 1
    BY <1>1, <1>2, <1>4, <1>5, <1>7
  <2>2. Cardinality(G) = 1 /\ \A u \in G : u = t
    BY <1>3, <2>1 DEF G
  <2> QED
    BY <1>1, <1>2, <1>5, <2>2
<1> QED
  BY <1>6, <1>7

(***************************************************************************)
(* The types of what a step of one thread t changes, and the jobs after    *)
(* it.                                                                     *)
(***************************************************************************)
Moves(t) ==
  /\ clientJobs' \in [Client -> Nat] /\ critterJobs' \in [Client -> Nat]
  /\ pc' \in [Thread -> Stages] /\ hand' \in [Thread -> Client \cup {NoClient}]
  /\ \A u \in Thread \ {t} : hand'[u] = hand[u] /\ pc'[u] = pc[u]

LEMMA JobsMove ==
  ASSUME TypeOK, NEW t \in Thread, Moves(t), NEW c \in Client
  PROVE  /\ (InClientJob(t, c) <=> InClientJob(t, c)')
              => ClientJobs(c)' = ClientJobs(c) + clientJobs'[c] - clientJobs[c]
         /\ (InClientJob(t, c) /\ ~InClientJob(t, c)')
              => ClientJobs(c)' = ClientJobs(c) + clientJobs'[c] - clientJobs[c] - 1
         /\ (~InClientJob(t, c) /\ InClientJob(t, c)')
              => ClientJobs(c)' = ClientJobs(c) + clientJobs'[c] - clientJobs[c] + 1
         /\ (InCritterJob(t, c) <=> InCritterJob(t, c)')
              => CritterJobs(c)' = CritterJobs(c) + critterJobs'[c] - critterJobs[c]
         /\ (InCritterJob(t, c) /\ ~InCritterJob(t, c)')
              => CritterJobs(c)' = CritterJobs(c) + critterJobs'[c] - critterJobs[c] - 1
         /\ (~InCritterJob(t, c) /\ InCritterJob(t, c)')
              => CritterJobs(c)' = CritterJobs(c) + critterJobs'[c] - critterJobs[c] + 1
<1> DEFINE n(S) == Cardinality(Holders(hand, pc, c, S))
           m(S) == Cardinality(Holders(hand', pc', c, S))
           Critter == {"critter", "remove"}
<1>1. /\ ClientJobs(c) = clientJobs[c] + n(ClientStages)
      /\ CritterJobs(c) = critterJobs[c] + n(Critter)
  BY JobsCount
<1>2. /\ ClientJobs(c)' = clientJobs'[c] + m(ClientStages)
      /\ CritterJobs(c)' = critterJobs'[c] + m(Critter)
  BY DEF ClientJobs, CritterJobs, Holders
<1>3. /\ n(ClientStages) \in Nat /\ n(Critter) \in Nat
      /\ m(ClientStages) \in Nat /\ m(Critter) \in Nat
  BY HoldersFinite
<1>4. /\ clientJobs[c] \in Nat /\ critterJobs[c] \in Nat
      /\ clientJobs'[c] \in Nat /\ critterJobs'[c] \in Nat
  BY DEF TypeOK, Moves
<1>5. \A u \in Thread \ {t} : hand'[u] = hand[u] /\ pc'[u] = pc[u]
  BY DEF Moves
<1>6. /\ (InClientJob(t, c) <=> InClientJob(t, c)') => m(ClientStages) = n(ClientStages)
      /\ (InClientJob(t, c) /\ ~InClientJob(t, c)') => m(ClientStages) = n(ClientStages) - 1
      /\ (~InClientJob(t, c) /\ InClientJob(t, c)') => m(ClientStages) = n(ClientStages) + 1
  BY <1>5, HoldersMove DEF InClientJob
<1>7. /\ (InCritterJob(t, c) <=> InCritterJob(t, c)') => m(Critter) = n(Critter)
      /\ (InCritterJob(t, c) /\ ~InCritterJob(t, c)') => m(Critter) = n(Critter) - 1
      /\ (~InCritterJob(t, c) /\ InCritterJob(t, c)') => m(Critter) = n(Critter) + 1
  BY <1>5, HoldersMove DEF InCritterJob
<1> HIDE DEF n, m
<1> QED
  BY <1>1, <1>2, <1>3, <1>4, <1>6, <1>7

-----------------------------------------------------------------------------
(***************************************************************************)
(* The effects that several actions have in common: on the threads, on the *)
(* jobs and on the locks.                                                  *)
(***************************************************************************)
ClientType ==
  [sock : BOOLEAN, offline : BOOLEAN, notValid : BOOLEAN, canBeRemoved : BOOLEAN,
   id : BOOLEAN, state : {"none", "connected", "playing"}]

ThreadsOK ==
  /\ pc \in [Thread -> Stages]
  /\ hand \in [Thread -> Client \cup {NoClient}]
  /\ found \in [Thread -> Client \cup {NoClient}]
  /\ clientJobs \in [Client -> Nat] /\ critterJobs \in [Client -> Nat]
  /\ Locks!TypeOK /\ HandsMatch

JobsStay ==
  \A c \in Client : ClientJobs(c)' = ClientJobs(c) /\ CritterJobs(c)' = CritterJobs(c)

Becomes(t, stage, c) ==
  /\ pc'[t] = stage /\ hand'[t] = c
  /\ \A u \in Thread \ {t} :
       pc'[u] = pc[u] /\ hand'[u] = hand[u] /\ found'[u] = found[u]

LEMMA InHand ==
  ASSUME IInv, NEW t \in Thread
  PROVE  /\ pc[t] # "idle" => hand[t] \in Client
         /\ pc[t] \in ClientStages => InClientJob(t, hand[t])
         /\ pc[t] \in {"critter", "remove"} => InCritterJob(t, hand[t])
BY SessionAssumption DEF IInv, TypeOK, HandsMatch, InClientJob, InCritterJob

LEMMA LocksKeepType ==
  ASSUME Locks!TypeOK, NEW t \in Thread,
         \/ Locks!Pause(t) \/ Locks!Activate(t) \/ Locks!ReleaseAll(t)
         \/ \E c \in Client : Locks!Request(t, c)
  PROVE  Locks!TypeOK'
BY DEF Locks!TypeOK, Locks!Pause, Locks!Activate, Locks!ReleaseAll, Locks!Request

LEMMA JobEnds ==
  ASSUME IInv, NEW t \in Thread, pc[t] # "idle", Done(t),
         clientJobs' \in [Client -> Nat], critterJobs' \in [Client -> Nat]
  PROVE  ThreadsOK' /\ Becomes(t, "idle", NoClient) /\ Moves(t) /\ found'[t] = NoClient
<1>1. Locks!TypeOK'
  BY LocksKeepType DEF Done, IInv, TypeOK
<1>2. /\ pc' \in [Thread -> Stages]
      /\ hand' \in [Thread -> Client \cup {NoClient}]
      /\ found' \in [Thread -> Client \cup {NoClient}]
      /\ Becomes(t, "idle", NoClient) /\ found'[t] = NoClient
  BY DEF Done, IInv, TypeOK, Becomes, Stages
<1>3. HandsMatch'
  BY <1>2 DEF IInv, TypeOK, HandsMatch, Becomes
<1>4. Moves(t)
  BY <1>2 DEF Moves, Becomes
<1> QED
  BY <1>1, <1>2, <1>3, <1>4 DEF ThreadsOK

LEMMA PushedBack ==
  ASSUME IInv, NEW t \in Thread, Done(t),
         \/ pc[t] \in ClientStages /\ PutClientJob(hand[t])
         \/ pc[t] \in {"critter", "remove"} /\ PutCritterJob(hand[t])
  PROVE  /\ ThreadsOK' /\ Becomes(t, "idle", NoClient) /\ found'[t] = NoClient
         /\ JobsStay
<1> DEFINE c == hand[t]
<1>1. c \in Client /\ pc[t] # "idle"
  BY InHand DEF ClientStages
<1>2. clientJobs' \in [Client -> Nat] /\ critterJobs' \in [Client -> Nat]
  BY <1>1 DEF IInv, TypeOK, PutClientJob, PutCritterJob
<1>3. ThreadsOK' /\ Becomes(t, "idle", NoClient) /\ Moves(t) /\ found'[t] = NoClient
  BY <1>1, <1>2, JobEnds
<1>4. ASSUME NEW x \in Client
      PROVE  ClientJobs(x)' = ClientJobs(x) /\ CritterJobs(x)' = CritterJobs(x)
  <2>1. ~InClientJob(t, x)' /\ ~InCritterJob(t, x)'
    BY <1>3, SessionAssumption DEF Becomes, InClientJob, InCritterJob
  <2>2. /\ clientJobs[x] \in Nat /\ critterJobs[x] \in Nat
        /\ ClientJobs(x) \in Nat /\ CritterJobs(x) \in Nat
    BY JobsCount DEF IInv, TypeOK
  <2>3. CASE pc[t] \in ClientStages /\ PutClientJob(hand[t])
    <3>1. (InClientJob(t, x) <=> x = c) /\ ~InCritterJob(t, x)
      BY <2>3 DEF InClientJob, InCritterJob, ClientStages
    <3>2. /\ clientJobs'[x] = IF x = c THEN clientJobs[x] + 1 ELSE clientJobs[x]
          /\ critterJobs'[x] = critterJobs[x]
      BY <1>1, <2>3 DEF PutClientJob, IInv, TypeOK
    <3> QED
      BY <1>3, <2>1, <2>2, <3>1, <3>2, JobsMove DEF IInv
  <2>4. CASE pc[t] \in {"critter", "remove"} /\ PutCritterJob(hand[t])
    <3>1. (InCritterJob(t, x) <=> x = c) /\ ~InClientJob(t, x)
      BY <2>4 DEF InClientJob, InCritterJob, ClientStages
    <3>2. /\ critterJobs'[x] = IF x = c THEN critterJobs[x] + 1 ELSE critterJobs[x]
          /\ clientJobs'[x] = clientJobs[x]
      BY <1>1, <2>4 DEF PutCritterJob, IInv, TypeOK
    <3> QED
      BY <1>3, <2>1, <2>2, <3>1, <3>2, JobsMove DEF IInv
  <2> QED
    BY <2>3, <2>4
<1> QED
  BY <1>3, <1>4 DEF JobsStay

LEMMA JobGoesOn ==
  ASSUME IInv, NEW t \in Thread, NEW stage \in Stages, pc[t] # "idle",
         Goto(t, stage), UNCHANGED <<hand, clientJobs, critterJobs>>,
         /\ pc[t] \in ClientStages <=> stage \in ClientStages
         /\ pc[t] \in {"critter", "remove"} <=> stage \in {"critter", "remove"}
  PROVE  JobsStay
<1>1. Moves(t) /\ hand' = hand /\ pc'[t] = stage
  BY DEF Goto, Moves, IInv, TypeOK
<1>2. ASSUME NEW x \in Client
      PROVE  ClientJobs(x)' = ClientJobs(x) /\ CritterJobs(x)' = CritterJobs(x)
  <2>1. /\ InClientJob(t, x)' <=> InClientJob(t, x)
        /\ InCritterJob(t, x)' <=> InCritterJob(t, x)
    BY <1>1 DEF InClientJob, InCritterJob
  <2>2. /\ clientJobs[x] \in Nat /\ critterJobs[x] \in Nat
        /\ ClientJobs(x) \in Nat /\ CritterJobs(x) \in Nat
    BY JobsCount DEF IInv, TypeOK
  <2> QED
    BY <1>1, <2>1, <2>2, JobsMove DEF IInv
<1> QED
  BY <1>2 DEF JobsStay

-----------------------------------------------------------------------------
(***************************************************************************)
(* A job is pushed back, and nothing has happened to its Client but that   *)
(* it may have gone offline, or is due for removal, which it is offline.   *)
(***************************************************************************)
Quieter(c) ==
  /\ client' \in [Client -> ClientType]
  /\ \A x \in Client \ {c} : client'[x] = client[x]
  /\ client'[c].sock = client[c].sock /\ client'[c].notValid = client[c].notValid
  /\ client'[c].id = client[c].id /\ client'[c].state = client[c].state
  /\ client[c].offline => client'[c].offline
  /\ client[c].canBeRemoved => client'[c].canBeRemoved
  /\ client'[c].canBeRemoved => client[c].canBeRemoved \/ client'[c].offline

LEMMA QuietStep ==
  ASSUME IInv, NEW t \in Thread, NEW c \in Client, Quieter(c),
         pc[t] \notin {"idle", "greet"}, Becomes(t, "idle", NoClient),
         found'[t] = NoClient, ThreadsOK', JobsStay,
         UNCHANGED <<memory, world, history>>
  PROVE  IInv'
<1>1. UNCHANGED <<refs, deferred, connected, player, saveClients, overlap, marked, early, undefined>>
  BY DEF memory, world, history
<1>2. connected \subseteq Client
  BY DEF IInv, TypeOK
<1>3. \A u \in Thread : pc[u] # "idle" => hand[u] \in Client
  BY InHand
<1>4. TypeOK'
  BY <1>1 DEF IInv, TypeOK, ThreadsOK, Quieter, ClientType
<1>5. JobsMatch'
  BY <1>1 DEF IInv, JobsMatch, JobsStay
<1>6. HandsMatch'
  BY DEF ThreadsOK
<1>7. Newcomers'
  BY InHand DEF IInv, Newcomers, JobsStay, Becomes
<1>8. Untried'
  BY DEF IInv, Untried, JobsStay, Becomes, Quieter
<1>9. Creators'
  BY <1>3 DEF IInv, Creators, Creating, Becomes, Quieter
<1>10. AvatarValid'
  BY <1>1 DEF IInv, AvatarValid, Quieter
<1>11. Removing'
  BY <1>1, <1>3 DEF IInv, Removing, Becomes, Quieter
<1>12. OneAvatar'
  BY <1>1 DEF IInv, OneAvatar, Creating, Becomes, JobsStay
<1>13. Balance'
  BY <1>1 DEF IInv, Balance, Owed, JobsStay, Quieter, One
<1>14. FoundHeld'
  BY <1>1 DEF IInv, FoundHeld, Becomes, Quieter
<1>15. DueAreOffline'
  BY <1>2, <1>1 DEF IInv, DueAreOffline, Quieter
<1>16. OnlinePlays'
  BY <1>2, <1>1, <1>3 DEF IInv, OnlinePlays, Becomes, Quieter
<1> QED
  BY <1>4, <1>5, <1>6, <1>7, <1>8, <1>9, <1>10, <1>11, <1>12, <1>13, <1>14, <1>15, <1>16
     DEF IInv

LEMMA QuietActions ==
  ASSUME IInv, NEW t \in Thread,
         \/ ProcessNet(t) \/ Disconnect(t) \/ Refuse(t)
         \/ ProcessCritter(t) \/ PingFails(t) \/ RemoveFromGame(t)
  PROVE  IInv'
<1> DEFINE c == hand[t]
<1>1. pc[t] \in {"client", "swap", "critter"}
  BY DEF ProcessNet, Disconnect, Refuse, ProcessCritter, PingFails, RemoveFromGame,
         Processed, Heard, In
<1>2. c \in Client /\ client \in [Client -> ClientType]
  BY <1>1, InHand DEF IInv, TypeOK, ClientType
<1>3. Quieter(c)
  <2>1. CASE client' = client
    BY <1>2, <2>1 DEF Quieter
  <2>2. CASE client' = [client EXCEPT ![c].offline = TRUE]
    BY <1>2, <2>2 DEF Quieter, ClientType
  <2>3. CASE client[c].offline /\ client' = [client EXCEPT ![c].canBeRemoved = TRUE]
    BY <1>2, <2>3 DEF Quieter, ClientType
  <2> QED
    BY <2>1, <2>2, <2>3 DEF ProcessNet, Disconnect, Refuse, ProcessCritter, PingFails, RemoveFromGame
<1>4. /\ Done(t) /\ UNCHANGED <<memory, world, history>>
      /\ \/ pc[t] \in ClientStages /\ PutClientJob(c)
         \/ pc[t] \in {"critter", "remove"} /\ PutCritterJob(c)
  BY DEF ProcessNet, Disconnect, Refuse, ProcessCritter, PingFails, RemoveFromGame,
         Processed, Heard, In, ClientStages, Stages
<1>5. /\ ThreadsOK' /\ Becomes(t, "idle", NoClient) /\ found'[t] = NoClient
      /\ JobsStay
  BY <1>4, PushedBack
<1> QED
  BY <1>1, <1>2, <1>3, <1>4, <1>5, QuietStep

-----------------------------------------------------------------------------
(***************************************************************************)
(* A job is popped, or a thread gets its objects back.                     *)
(***************************************************************************)
LEMMA Popped ==
  ASSUME IInv, NEW t \in Thread, NEW c \in Client,
         PopClientJob(t, c) \/ PopCritterJob(t, c)
  PROVE  /\ ThreadsOK' /\ JobsStay /\ pc[t] = "idle" /\ found' = found
         /\ \E stage \in {"client", "critter"} : Becomes(t, stage, c)
<1>1. pc[t] = "idle" /\ hand[t] = NoClient /\ found[t] = NoClient /\ c # NoClient
  BY SessionAssumption DEF PopClientJob, PopCritterJob, IInv, HandsMatch
<1>2. Locks!TypeOK'
  BY LocksKeepType DEF PopClientJob, PopCritterJob, IInv, TypeOK
<1>3. /\ clientJobs' \in [Client -> Nat] /\ critterJobs' \in [Client -> Nat]
      /\ found' = found /\ found \in [Thread -> Client \cup {NoClient}]
  <2>1. CASE PopClientJob(t, c)
    BY <2>1 DEF PopClientJob, IInv, TypeOK
  <2>2. CASE PopCritterJob(t, c)
    BY <2>2 DEF PopCritterJob, IInv, TypeOK
  <2> QED
    BY <2>1, <2>2
<1>4. PICK stage \in {"client", "critter"} :
        /\ pc' = [pc EXCEPT ![t] = stage] /\ hand' = [hand EXCEPT ![t] = c]
        /\ stage = "client" => PopClientJob(t, c)
        /\ stage = "critter" => PopCritterJob(t, c)
  BY DEF PopClientJob, PopCritterJob, Goto
<1>5. /\ pc' \in [Thread -> Stages] /\ hand' \in [Thread -> Client \cup {NoClient}]
      /\ Becomes(t, stage, c)
  BY <1>3, <1>4 DEF IInv, TypeOK, Becomes, Stages
<1>6. HandsMatch'
  BY <1>1, <1>3, <1>5 DEF IInv, HandsMatch, Becomes
<1>7. Moves(t)
  BY <1>3, <1>5 DEF Moves, Becomes
<1>8. ASSUME NEW x \in Client
      PROVE  ClientJobs(x)' = ClientJobs(x) /\ CritterJobs(x)' = CritterJobs(x)
  <2>1. /\ clientJobs[x] \in Nat /\ critterJobs[x] \in Nat
        /\ ClientJobs(x) \in Nat /\ CritterJobs(x) \in Nat
    BY JobsCount DEF IInv, TypeOK
  <2>2. ~InClientJob(t, x) /\ ~InCritterJob(t, x)
    BY <1>1, SessionAssumption DEF InClientJob, InCritterJob
  <2>3. CASE stage = "client"
    <3>1. /\ InClientJob(t, x)' <=> x = c
          /\ ~InCritterJob(t, x)'
      BY <1>5, <2>3 DEF Becomes, InClientJob, InCritterJob, ClientStages, Stages
    <3>2. /\ clientJobs'[x] = IF x = c THEN clientJobs[x] - 1 ELSE clientJobs[x]
          /\ critterJobs'[x] = critterJobs[x]
      BY <1>4, <2>3 DEF PopClientJob, IInv, TypeOK
    <3> QED
      BY <1>7, <2>1, <2>2, <3>1, <3>2, JobsMove DEF IInv
  <2>4. CASE stage = "critter"
    <3>1. /\ InCritterJob(t, x)' <=> x = c
          /\ ~InClientJob(t, x)'
      BY <1>5, <2>4 DEF Becomes, InClientJob, InCritterJob, ClientStages
    <3>2. /\ critterJobs'[x] = IF x = c THEN critterJobs[x] - 1 ELSE critterJobs[x]
          /\ clientJobs'[x] = clientJobs[x]
      BY <1>4, <2>4 DEF PopCritterJob, IInv, TypeOK
    <3> QED
      BY <1>7, <2>1, <2>2, <3>1, <3>2, JobsMove DEF IInv
  <2> QED
    BY <2>3, <2>4
<1> QED
  BY <1>1, <1>2, <1>3, <1>5, <1>6, <1>8 DEF ThreadsOK, JobsStay

LEMMA PopStep ==
  ASSUME IInv, NEW t \in Thread, NEW c \in Client,
         PopClientJob(t, c) \/ PopCritterJob(t, c)
  PROVE  IInv'
<1>1. UNCHANGED <<client, refs, deferred, connected, player, saveClients, overlap, marked, early, undefined>>
  BY DEF PopClientJob, PopCritterJob, memory, world, history
<1>2. PICK stage \in {"client", "critter"} : Becomes(t, stage, c)
  BY Popped
<1>3. ThreadsOK' /\ JobsStay /\ pc[t] = "idle" /\ found' = found
  BY Popped
<1>4. TypeOK'
  BY <1>1, <1>3 DEF IInv, TypeOK, ThreadsOK
<1>5. JobsMatch' /\ HandsMatch'
  BY <1>1, <1>3 DEF IInv, JobsMatch, JobsStay, ThreadsOK
<1>6. \A u \in Thread : pc[u] # "idle" => hand[u] \in Client
  BY InHand
<1>7. Newcomers'
  BY <1>2, <1>3, <1>6 DEF IInv, Newcomers, JobsStay, Becomes
<1>8. Untried'
  BY <1>1, <1>2, <1>3 DEF IInv, Untried, JobsStay, Becomes
<1>9. Creators' /\ AvatarValid' /\ Removing'
  BY <1>1, <1>2, <1>6 DEF IInv, Creators, AvatarValid, Removing, Creating, Becomes
<1>10. OneAvatar'
  BY <1>1, <1>2, <1>3 DEF IInv, OneAvatar, Creating, Becomes, JobsStay
<1>11. Balance'
  BY <1>1, <1>3 DEF IInv, Balance, Owed, JobsStay
<1>12. FoundHeld'
  BY <1>1, <1>2, <1>3 DEF IInv, FoundHeld, Becomes
<1>13. DueAreOffline' /\ OnlinePlays'
  BY <1>1, <1>2, <1>6 DEF IInv, DueAreOffline, OnlinePlays, Becomes
<1> QED
  BY <1>4, <1>5, <1>7, <1>8, <1>9, <1>10, <1>11, <1>12, <1>13 DEF IInv

LEMMA ThreadsStay ==
  ASSUME IInv, UNCHANGED <<jobs, threads>>, Locks!TypeOK'
  PROVE  ThreadsOK' /\ JobsStay /\ UNCHANGED <<pc, hand, found>>
<1>1. UNCHANGED <<pc, hand, found, clientJobs, critterJobs>>
  BY DEF jobs, threads
<1>2. JobsStay
  BY <1>1 DEF JobsStay, ClientJobs, CritterJobs
<1>3. ThreadsOK'
  BY <1>1 DEF ThreadsOK, IInv, TypeOK, HandsMatch
<1> QED
  BY <1>1, <1>2, <1>3

LEMMA SameInvariant ==
  ASSUME IInv,
         UNCHANGED <<client, refs, deferred, connected, player, saveClients>>,
         UNCHANGED <<clientJobs, critterJobs, pc, hand, found>>,
         UNCHANGED <<overlap, marked, early>>, undefined' \in BOOLEAN, Locks!TypeOK'
  PROVE  IInv'
<1>1. TypeOK'
  BY DEF IInv, TypeOK
<1>2. \A c \in Client : ClientJobs(c)' = ClientJobs(c) /\ CritterJobs(c)' = CritterJobs(c)
  BY DEF ClientJobs, CritterJobs
<1>3. JobsMatch' /\ Balance'
  BY <1>2 DEF IInv, JobsMatch, Balance, Owed
<1>4. HandsMatch' /\ Creators' /\ AvatarValid' /\ Removing'
  BY DEF IInv, HandsMatch, Creators, Creating, AvatarValid, Removing
<1>5. Newcomers' /\ Untried' /\ OneAvatar'
  BY <1>2, InHand DEF IInv, Newcomers, Untried, OneAvatar, Creating
<1>6. FoundHeld' /\ DueAreOffline' /\ OnlinePlays'
  BY DEF IInv, FoundHeld, DueAreOffline, OnlinePlays
<1> QED
  BY <1>1, <1>3, <1>4, <1>5, <1>6 DEF IInv

LEMMA TakeBackStep ==
  ASSUME IInv, NEW t \in Thread, TakeBack(t)
  PROVE  IInv'
<1>1. /\ UNCHANGED <<client, refs, deferred, connected, player, saveClients, pc, hand, found>>
      /\ UNCHANGED <<clientJobs, critterJobs, overlap, marked, early, undefined>>
  BY DEF TakeBack, memory, world, jobs, threads, history
<1>2. Locks!TypeOK'
  BY LocksKeepType DEF TakeBack, IInv, TypeOK
<1> QED
  BY <1>1, <1>2, SameInvariant DEF IInv, TypeOK

-----------------------------------------------------------------------------
(***************************************************************************)
(* The references, which nothing else depends on as long as they are not   *)
(* negative, and the actions that only count: what is due to a Client and  *)
(* what it has change together.                                            *)
(***************************************************************************)
LEMMA RefsNatural ==
  ASSUME refs' \in [Client -> Int], deferred' \in [Client -> Nat], Balance',
         \A c \in Client : CritterJobs(c)' \in Nat
  PROVE  refs' \in [Client -> Nat]
<1>1. ASSUME NEW c \in Client
      PROVE  refs'[c] >= 0
  BY <1>1 DEF Balance, Owed, One
<1> QED
  BY <1>1

LEMMA CountsNatural ==
  ASSUME IInv, NEW c \in Client
  PROVE  /\ ClientJobs(c) \in Nat /\ CritterJobs(c) \in Nat
         /\ refs[c] \in Nat /\ deferred[c] \in Nat
BY JobsCount DEF IInv, TypeOK

LEMMA ShutdownStep ==
  ASSUME IInv, NEW c \in Client, Shutdown(c)
  PROVE  IInv'
<1>1. /\ UNCHANGED <<deferred, connected, player, saveClients, overlap, marked, early, undefined>>
      /\ UNCHANGED <<jobs, threads, claim, active>>
  BY DEF Shutdown, world, locks, history
<1>2. ThreadsOK' /\ JobsStay /\ UNCHANGED <<pc, hand, found>>
  BY <1>1, ThreadsStay DEF IInv, TypeOK, Locks!TypeOK
<1>3. /\ client' \in [Client -> ClientType]
      /\ client[c].sock /\ ~client'[c].sock
      /\ client[c].offline => client'[c].offline
      /\ client'[c].notValid = client[c].notValid /\ client'[c].state = client[c].state
      /\ client'[c].id = client[c].id /\ client'[c].canBeRemoved = client[c].canBeRemoved
      /\ \A x \in Client \ {c} : client'[x] = client[x]
  <2>1. PICK off \in {client[c].offline, TRUE} :
          client' = [client EXCEPT ![c].sock = FALSE, ![c].offline = off]
    BY DEF Shutdown
  <2>2. client[c].sock /\ client \in [Client -> ClientType] /\ off \in BOOLEAN
    BY DEF Shutdown, IInv, TypeOK, ClientType
  <2>3. client[c].offline => off
    OBVIOUS
  <2>4. client' \in [Client -> ClientType]
    BY <2>1, <2>2 DEF ClientType
  <2>5. /\ client'[c] = [client[c] EXCEPT !.sock = FALSE, !.offline = off]
        /\ \A x \in Client \ {c} : client'[x] = client[x]
    BY <2>1, <2>2 DEF ClientType
  <2> QED
    BY <2>2, <2>3, <2>4, <2>5 DEF ClientType
<1>4. \A x \in Client : refs'[x] = IF x = c THEN refs[x] - 1 ELSE refs[x]
  BY CountsNatural DEF Shutdown, Counted, One
<1>5. Balance'
  <2>1. ASSUME NEW x \in Client
        PROVE  Owed(x)' = IF x = c THEN Owed(x) - 1 ELSE Owed(x)
    BY <1>1, <1>2, <1>3, CountsNatural DEF Owed, JobsStay, One
  <2>2. \A x \in Client : Owed(x) \in Nat
    BY CountsNatural DEF Owed, One
  <2> QED
    BY <1>1, <1>4, <2>1, <2>2, CountsNatural DEF IInv, Balance
<1>6. TypeOK'
  <2>1. refs' \in [Client -> Int]
    BY CountsNatural DEF Shutdown, Counted, One
  <2>2. refs' \in [Client -> Nat]
    BY <1>1, <1>2, <1>5, <2>1, RefsNatural, CountsNatural DEF IInv, TypeOK, JobsStay
  <2> QED
    BY <1>1, <1>2, <1>3, <2>2 DEF IInv, TypeOK, ThreadsOK, ClientType
<1>7. /\ \A u \in Thread : pc[u] # "idle" => hand[u] \in Client
      /\ connected \subseteq Client
  BY InHand DEF IInv, TypeOK
<1>8. JobsMatch' /\ HandsMatch' /\ Newcomers'
  BY <1>1, <1>2, <1>7 DEF IInv, JobsMatch, JobsStay, ThreadsOK, Newcomers
<1>9. Untried' /\ AvatarValid'
  BY <1>1, <1>2, <1>3 DEF IInv, Untried, AvatarValid, JobsStay
<1>10. Creators' /\ Removing'
  BY <1>1, <1>2, <1>3, <1>7 DEF IInv, Creators, Creating, Removing
<1>11. OneAvatar'
  BY <1>1, <1>2 DEF IInv, OneAvatar, Creating, JobsStay
<1>12. FoundHeld'
  BY <1>1, <1>2, <1>3 DEF IInv, FoundHeld
<1>13. DueAreOffline' /\ OnlinePlays'
  BY <1>1, <1>2, <1>3, <1>7 DEF IInv, DueAreOffline, OnlinePlays
<1> QED
  BY <1>5, <1>6, <1>8, <1>9, <1>10, <1>11, <1>12, <1>13 DEF IInv

LEMMA ReleaseDeferredStep ==
  ASSUME IInv, NEW c \in Client, ReleaseDeferred(c)
  PROVE  IInv'
<1>1. /\ UNCHANGED <<client, connected, player, saveClients, overlap, marked, undefined>>
      /\ UNCHANGED <<jobs, threads, claim, active>>
      /\ deferred[c] > 0
  BY DEF ReleaseDeferred, world, locks
<1>2. ThreadsOK' /\ JobsStay /\ UNCHANGED <<pc, hand, found>>
  BY <1>1, ThreadsStay DEF IInv, TypeOK, Locks!TypeOK
<1>3. /\ deferred' \in [Client -> Nat]
      /\ \A x \in Client : deferred'[x] = IF x = c THEN deferred[x] - 1 ELSE deferred[x]
      /\ \A x \in Client : refs'[x] = IF x = c THEN refs[x] - 1 ELSE refs[x]
  BY CountsNatural DEF ReleaseDeferred, Counted, One, IInv, TypeOK
<1>4. /\ early' \subseteq Client /\ early \subseteq early'
       /\ \A t \in Thread : found[t] = c => c \in early'
  BY DEF ReleaseDeferred, IInv, TypeOK
<1>5. Balance'
  <2>1. ASSUME NEW x \in Client
        PROVE  Owed(x)' = IF x = c THEN Owed(x) - 1 ELSE Owed(x)
    BY <1>1, <1>2, <1>3, CountsNatural DEF Owed, JobsStay, One
  <2>2. \A x \in Client : Owed(x) \in Nat
    BY CountsNatural DEF Owed, One
  <2> QED
    BY <1>1, <1>3, <2>1, <2>2, CountsNatural DEF IInv, Balance
<1>6. TypeOK'
  <2>1. refs' \in [Client -> Int]
    BY CountsNatural DEF ReleaseDeferred, Counted, One
  <2>2. refs' \in [Client -> Nat]
    BY <1>2, <1>3, <1>5, <2>1, RefsNatural, CountsNatural DEF JobsStay
  <2> QED
    BY <1>1, <1>2, <1>3, <1>4, <2>2 DEF IInv, TypeOK, ThreadsOK
<1>7. FoundHeld'
  BY <1>1, <1>2, <1>3, <1>4 DEF IInv, FoundHeld
<1>8. HandsMatch'
  BY <1>2 DEF ThreadsOK
<1>9. JobsMatch' /\ Untried' /\ AvatarValid' /\ Creators' /\ Removing'
  BY <1>1, <1>2 DEF IInv, JobsMatch, Untried, AvatarValid, Creators, Creating, Removing, JobsStay
<1>10. Newcomers'
  BY <1>2, InHand DEF IInv, Newcomers, JobsStay
<1>11. OneAvatar'
  BY <1>1, <1>2 DEF IInv, OneAvatar, Creating, JobsStay
<1>12. DueAreOffline' /\ OnlinePlays'
  BY <1>1, <1>2 DEF IInv, DueAreOffline, OnlinePlays
<1> QED
  BY <1>5, <1>6, <1>7, <1>8, <1>9, <1>10, <1>11, <1>12 DEF IInv

(***************************************************************************)
(* What is deleted is used: nothing else is said of such a step.           *)
(***************************************************************************)
LEMMA UseDeletedStep ==
  ASSUME IInv, NEW t \in Thread, UseDeleted(t)
  PROVE  IInv'
<1>1. /\ UNCHANGED <<client, refs, deferred, connected, player, saveClients>>
      /\ UNCHANGED <<clientJobs, critterJobs, pc, hand, found, claim, active>>
      /\ UNCHANGED <<overlap, marked, early>> /\ undefined' \in BOOLEAN
  BY DEF UseDeleted, memory, world, jobs, threads, locks
<1>2. Locks!TypeOK'
  BY <1>1 DEF IInv, TypeOK, Locks!TypeOK
<1> QED
  BY <1>1, <1>2, SameInvariant

LEMMA SaveWorldStep ==
  ASSUME IInv, SaveWorld
  PROVE  IInv'
<1>1. /\ UNCHANGED <<client, deferred, connected, player, overlap, marked, early, undefined>>
      /\ UNCHANGED <<jobs, threads, claim, active>>
      /\ saveClients' = {}
  BY DEF SaveWorld, locks, history
<1>2. ThreadsOK' /\ JobsStay /\ UNCHANGED <<pc, hand, found>>
  BY <1>1, ThreadsStay DEF IInv, TypeOK, Locks!TypeOK
<1>3. \A x \in Client : refs'[x] = IF x \in saveClients THEN refs[x] - 1 ELSE refs[x]
  BY CountsNatural DEF SaveWorld, Counted, One
<1>4. Balance'
  <2>1. ASSUME NEW x \in Client
        PROVE  Owed(x)' = IF x \in saveClients THEN Owed(x) - 1 ELSE Owed(x)
    BY <1>1, <1>2, CountsNatural DEF Owed, JobsStay, One
  <2>2. \A x \in Client : Owed(x) \in Nat
    BY CountsNatural DEF Owed, One
  <2> QED
    BY <1>1, <1>3, <2>1, <2>2, CountsNatural DEF IInv, Balance
<1>5. TypeOK'
  <2>1. refs' \in [Client -> Int]
    BY CountsNatural DEF SaveWorld, Counted, One
  <2>2. refs' \in [Client -> Nat]
    BY <1>1, <1>2, <1>4, <2>1, RefsNatural, CountsNatural DEF JobsStay, IInv, TypeOK
  <2> QED
    BY <1>1, <1>2, <2>2 DEF IInv, TypeOK, ThreadsOK
<1>6. FoundHeld'
  BY <1>2 DEF SaveWorld, FoundHeld
<1>7. HandsMatch'
  BY <1>2 DEF ThreadsOK
<1>8. JobsMatch' /\ Untried' /\ AvatarValid' /\ Creators' /\ Removing'
  BY <1>1, <1>2 DEF IInv, JobsMatch, Untried, AvatarValid, Creators, Creating, Removing, JobsStay
<1>9. Newcomers'
  BY <1>2, InHand DEF IInv, Newcomers, JobsStay
<1>10. OneAvatar'
  BY <1>1, <1>2 DEF IInv, OneAvatar, Creating, JobsStay
<1>11. DueAreOffline' /\ OnlinePlays'
  BY <1>1, <1>2 DEF IInv, DueAreOffline, OnlinePlays
<1> QED
  BY <1>4, <1>5, <1>6, <1>7, <1>8, <1>9, <1>10, <1>11 DEF IInv

(***************************************************************************)
(* A new Client: nobody has it, since it has no references.                *)
(***************************************************************************)
LEMMA NetListenStep ==
  ASSUME IInv, NEW c \in Client, Net_Listen(c)
  PROVE  IInv'
<1>1. /\ UNCHANGED <<deferred, player, saveClients, overlap, marked, early, undefined>>
      /\ UNCHANGED <<pc, hand, found, critterJobs, claim, active>>
      /\ connected' = connected \cup {c}
  BY DEF Net_Listen, PutClientJob, threads, locks, history
<1>2. /\ refs[c] = 0 /\ deferred[c] = 0 /\ c \notin connected /\ c \notin saveClients
      /\ CritterJobs(c) = 0 /\ ClientJobs(c) = 0 /\ c # player
      /\ client[c].sock = FALSE /\ client[c].offline = FALSE /\ client[c].notValid = FALSE
      /\ client[c].canBeRemoved = FALSE /\ client[c].id = FALSE
  <2>1. refs[c] = 0 /\ client[c] = NewClient /\ refs[c] >= Owed(c)
    BY DEF Net_Listen, IInv, Balance
  <2>2. CritterJobs(c) = 0 /\ deferred[c] = 0 /\ c \notin connected /\ c \notin saveClients
    BY <2>1, CountsNatural DEF Owed, One
  <2>3. ClientJobs(c) = 0 /\ c # player
    BY <2>2 DEF IInv, JobsMatch, One
  <2> QED
    BY <2>1, <2>2, <2>3 DEF NewClient
<1>3. /\ client' \in [Client -> ClientType]
      /\ client'[c].sock /\ client'[c].state = "connected" /\ client'[c].offline = FALSE
      /\ client'[c].notValid = FALSE /\ client'[c].canBeRemoved = FALSE
      /\ client'[c].id = FALSE
      /\ \A x \in Client \ {c} : client'[x] = client[x]
  <2>1. client \in [Client -> ClientType]
    BY DEF IInv, TypeOK, ClientType
  <2>2. client'[c] = [client[c] EXCEPT !.sock = TRUE, !.state = "connected"]
    BY <2>1 DEF Net_Listen, ClientType
  <2>3. /\ client' \in [Client -> ClientType]
        /\ \A x \in Client \ {c} : client'[x] = client[x]
    BY <2>1 DEF Net_Listen, ClientType
  <2> QED
    BY <1>2, <2>1, <2>2, <2>3 DEF ClientType
<1>4. /\ refs' \in [Client -> Nat] /\ clientJobs' \in [Client -> Nat]
      /\ refs'[c] = 2 /\ \A x \in Client \ {c} : refs'[x] = refs[x]
      /\ \A x \in Client :
           /\ ClientJobs(x)' = IF x = c THEN 1 ELSE ClientJobs(x)
           /\ CritterJobs(x)' = CritterJobs(x)
  <2>1. /\ refs' \in [Client -> Nat] /\ clientJobs' \in [Client -> Nat]
        /\ refs'[c] = 2 /\ \A x \in Client \ {c} : refs'[x] = refs[x]
        /\ clientJobs'[c] = clientJobs[c] + 1
        /\ \A x \in Client \ {c} : clientJobs'[x] = clientJobs[x]
    BY DEF Net_Listen, PutClientJob, IInv, TypeOK
  <2>2. ASSUME NEW x \in Client
        PROVE  /\ ClientJobs(x)' = IF x = c THEN 1 ELSE ClientJobs(x)
               /\ CritterJobs(x)' = CritterJobs(x)
    <3>1. /\ ClientJobs(x)' = clientJobs'[x] + Cardinality(Holders(hand, pc, x, ClientStages))
          /\ CritterJobs(x)' = CritterJobs(x)
      BY <1>1 DEF ClientJobs, CritterJobs, Holders
    <3>2. ClientJobs(x) = clientJobs[x] + Cardinality(Holders(hand, pc, x, ClientStages))
      BY JobsCount DEF IInv
    <3>3. /\ Cardinality(Holders(hand, pc, x, ClientStages)) \in Nat
          /\ clientJobs[x] \in Nat
      BY HoldersFinite DEF IInv, TypeOK
    <3> QED
      BY <1>2, <2>1, <3>1, <3>2, <3>3
  <2> QED
    BY <2>1, <2>2
<1>5. TypeOK' /\ HandsMatch'
  BY <1>1, <1>3, <1>4 DEF IInv, TypeOK, Locks!TypeOK, ClientType, HandsMatch
<1>6. \A t \in Thread :
        /\ pc[t] # "idle" => hand[t] \in Client
        /\ pc[t] \notin {"idle", "critter", "remove"} => hand[t] # c
        /\ pc[t] \in {"critter", "remove"} => hand[t] # c
  <2>1. ASSUME NEW t \in Thread, pc[t] # "idle", hand[t] = c
        PROVE  FALSE
    <3>1. InClientJob(t, c) \/ InCritterJob(t, c)
      BY <2>1 DEF InClientJob, InCritterJob, ClientStages, IInv, TypeOK
    <3> QED
      BY <1>2, <3>1, HolderAlone DEF IInv
  <2> QED
    BY <2>1, InHand
<1>7. JobsMatch'
  BY <1>1, <1>2, <1>4 DEF IInv, JobsMatch, One
<1>8. Balance'
  <2>1. ASSUME NEW x \in Client, x # c
        PROVE  Owed(x)' = Owed(x)
    BY <1>1, <1>3, <1>4, <2>1 DEF Owed, One
  <2>2. Owed(c)' = 2
    BY <1>1, <1>2, <1>3, <1>4 DEF Owed, One
  <2> QED
    BY <1>1, <1>4, <2>1, <2>2 DEF IInv, Balance
<1>9. Newcomers'
  BY <1>1, <1>4, InHand DEF IInv, Newcomers
<1>10. Untried'
  BY <1>1, <1>2, <1>3, <1>4 DEF IInv, Untried
<1>11. Creators' /\ Removing'
  BY <1>1, <1>3, <1>6 DEF IInv, Creators, Creating, Removing
<1>12. AvatarValid' /\ OneAvatar'
  BY <1>1, <1>2, <1>3, <1>4 DEF IInv, AvatarValid, OneAvatar, Creating
<1>13. FoundHeld'
  BY <1>1, <1>2, <1>3 DEF IInv, FoundHeld
<1>14. DueAreOffline' /\ OnlinePlays'
  <2>1. connected \subseteq Client
    BY DEF IInv, TypeOK
  <2> QED
    BY <1>1, <1>2, <1>3, <1>6, <2>1 DEF IInv, DueAreOffline, OnlinePlays
<1> QED
  BY <1>5, <1>7, <1>8, <1>9, <1>10, <1>11, <1>12, <1>13, <1>14 DEF IInv

-----------------------------------------------------------------------------
(***************************************************************************)
(* A login finds the avatar, or finds none.                                *)
(***************************************************************************)
LEMMA HeardInHand ==
  ASSUME IInv, NEW t \in Thread, pc[t] = "client"
  PROVE  /\ hand[t] \in Client /\ hand[t] \in connected /\ ClientJobs(hand[t]) = 1
         /\ \A u \in Thread : (hand[u] = hand[t] /\ pc[u] \in ClientStages) => u = t
<1>1. hand[t] \in Client /\ InClientJob(t, hand[t])
  BY InHand DEF ClientStages, Stages
<1> QED
  BY <1>1, HolderAlone DEF IInv, InClientJob

LEMMA FindPlayerStep ==
  ASSUME IInv, NEW t \in Thread, FindPlayer(t)
  PROVE  IInv'
<1>1. /\ UNCHANGED <<client, refs, deferred, connected, player, saveClients>>
      /\ UNCHANGED <<clientJobs, critterJobs, hand, overlap, marked, early, undefined>>
      /\ pc[t] = "client" /\ player # NoClient
  BY DEF FindPlayer, Heard, In, memory, world, jobs, history
<1>2. player \in Client /\ CritterJobs(player) = 1
  BY <1>1 DEF IInv, TypeOK, JobsMatch
<1>3. CritterJobs(hand[t]) = 0
  <2>1. \A u \in Thread : hand[u] = hand[t] => pc[u] # "greet"
    BY <1>1, HeardInHand DEF ClientStages, Stages
  <2>2. /\ client[hand[t]].state = "connected"
        /\ ~client[hand[t]].offline /\ ~client[hand[t]].notValid
    BY DEF FindPlayer, Heard
  <2> QED
    BY <1>1, <2>1, <2>2, HeardInHand DEF IInv, Untried
<1>4. Locks!TypeOK'
  BY <1>2, LocksKeepType DEF FindPlayer, IInv, TypeOK
<1>5. /\ pc' = [pc EXCEPT ![t] = "swap"] /\ found' = [found EXCEPT ![t] = player]
      /\ pc' \in [Thread -> Stages] /\ found' \in [Thread -> Client \cup {NoClient}]
  BY <1>2 DEF FindPlayer, Goto, Stages, IInv, TypeOK
<1>6. JobsStay
  BY <1>1, <1>5, JobGoesOn DEF Goto, ClientStages, Stages
<1>7. TypeOK' /\ HandsMatch'
  BY <1>1, <1>4, <1>5 DEF IInv, TypeOK, HandsMatch
<1>8. \A u \in Thread : pc[u] # "idle" => hand[u] \in Client
  BY InHand
<1>9. JobsMatch' /\ Balance'
  BY <1>1, <1>6 DEF IInv, JobsMatch, JobsStay, Balance, Owed
<1>10. Newcomers'
  BY <1>1, <1>3, <1>5, <1>6, <1>8 DEF IInv, Newcomers, JobsStay, TypeOK
<1>11. Untried'
  BY <1>1, <1>5, <1>6 DEF IInv, Untried, JobsStay, TypeOK
<1>12. Creators' /\ AvatarValid' /\ Removing'
  BY <1>1, <1>5 DEF IInv, Creators, Creating, AvatarValid, Removing, TypeOK
<1>13. OneAvatar'
  BY <1>1, <1>5, <1>6 DEF IInv, OneAvatar, Creating, JobsStay, TypeOK
<1>14. FoundHeld'
  BY <1>1, <1>2, <1>5 DEF IInv, FoundHeld, TypeOK
<1>15. DueAreOffline' /\ OnlinePlays'
  BY <1>1, <1>5 DEF IInv, DueAreOffline, OnlinePlays, TypeOK
<1> QED
  BY <1>7, <1>9, <1>10, <1>11, <1>12, <1>13, <1>14, <1>15 DEF IInv

LEMMA FindNoPlayerStep ==
  ASSUME IInv, NEW t \in Thread, FindNoPlayer(t)
  PROVE  IInv'
<1> DEFINE c == hand[t]
<1>1. /\ UNCHANGED <<refs, deferred, connected, player, saveClients>>
      /\ UNCHANGED <<clientJobs, critterJobs, hand, claim, active, marked, early, undefined>>
      /\ pc[t] = "client" /\ player = NoClient
      /\ overlap' = (overlap \/ \E u \in Thread : Creating(u))
  BY DEF FindNoPlayer, Heard, In, memory, world, jobs, locks
<1>2. /\ c \in Client /\ c \in connected
      /\ \A u \in Thread : (hand[u] = c /\ pc[u] \in ClientStages) => u = t
  BY <1>1, HeardInHand
<1>3. CritterJobs(c) = 0 /\ ~client[c].notValid
  <2>1. \A u \in Thread : hand[u] = c => pc[u] # "greet"
    BY <1>1, <1>2 DEF ClientStages, Stages
  <2>2. client[c].state = "connected" /\ ~client[c].offline /\ ~client[c].notValid
    BY DEF FindNoPlayer, Heard
  <2> QED
    BY <1>2, <2>1, <2>2 DEF IInv, Untried
<1>4. PICK saved \in Client \cup {NoClient} :
        /\ saved # NoClient => saved \in saveClients
        /\ found' = [found EXCEPT ![t] = saved]
  BY DEF FindNoPlayer, IInv, TypeOK
<1>5. /\ pc' = [pc EXCEPT ![t] = "load"]
      /\ pc' \in [Thread -> Stages] /\ found' \in [Thread -> Client \cup {NoClient}]
  BY <1>4 DEF FindNoPlayer, Goto, Stages, IInv, TypeOK
<1>6. /\ client' \in [Client -> ClientType]
      /\ client'[c] = [client[c] EXCEPT !.id = TRUE]
      /\ \A x \in Client \ {c} : client'[x] = client[x]
  BY <1>2 DEF FindNoPlayer, IInv, TypeOK, ClientType
<1>7. /\ client'[c].sock = client[c].sock /\ client'[c].offline = client[c].offline
      /\ client'[c].notValid = client[c].notValid /\ client'[c].state = client[c].state
      /\ client'[c].canBeRemoved = client[c].canBeRemoved /\ client'[c].id
  <2>1. client[c] \in ClientType
    BY <1>2 DEF IInv, TypeOK, ClientType
  <2> QED
    BY <1>6, <2>1 DEF ClientType
<1>8. JobsStay
  BY <1>1, <1>5, JobGoesOn DEF Goto, ClientStages, Stages
<1>9. TypeOK' /\ HandsMatch'
  <2>1. overlap' \in BOOLEAN
    BY <1>1
  <2>2. Locks!TypeOK' /\ marked' \in BOOLEAN /\ player' \in Client \cup {NoClient}
    BY <1>1 DEF IInv, TypeOK, Locks!TypeOK
  <2>3. HandsMatch'
    <3>1. /\ pc'[t] = "load" /\ hand[t] # NoClient
          /\ \A u \in Thread \ {t} : pc'[u] = pc[u] /\ found'[u] = found[u]
      BY <1>1, <1>4, <1>5, <1>2, SessionAssumption DEF IInv, TypeOK
    <3> QED
      BY <1>1, <3>1 DEF IInv, HandsMatch
  <2>4. client' \in [Client -> [sock : BOOLEAN, offline : BOOLEAN, notValid : BOOLEAN,
                              canBeRemoved : BOOLEAN, id : BOOLEAN,
                              state : {"none", "connected", "playing"}]]
    BY <1>6 DEF ClientType
  <2> QED
    BY <1>1, <1>5, <2>1, <2>2, <2>3, <2>4 DEF IInv, TypeOK
<1>10. \A u \in Thread : pc[u] # "idle" => hand[u] \in Client
  BY InHand
<1>11. JobsMatch'
  BY <1>1, <1>8 DEF IInv, JobsMatch, JobsStay
<1>12. Balance'
  <2>1. \A x \in Client : Owed(x)' = Owed(x)
    BY <1>1, <1>6, <1>7, <1>8 DEF Owed, JobsStay
  <2> QED
    BY <1>1, <2>1 DEF IInv, Balance
<1>13. Newcomers'
  BY <1>1, <1>3, <1>5, <1>8, <1>10 DEF IInv, Newcomers, JobsStay, TypeOK
<1>14. Untried'
  BY <1>1, <1>3, <1>5, <1>6, <1>8 DEF IInv, Untried, JobsStay, TypeOK
<1>15. Creators'
  BY <1>1, <1>3, <1>5, <1>6, <1>7, <1>10 DEF IInv, Creators, Creating, TypeOK
<1>16. AvatarValid' /\ Removing'
  BY <1>1, <1>2, <1>5, <1>6, <1>7, <1>10, SessionAssumption
     DEF IInv, AvatarValid, Removing, TypeOK
<1>17. OneAvatar'
  BY <1>1, <1>5, <1>8 DEF IInv, OneAvatar, Creating, JobsStay, TypeOK
<1>18. FoundHeld'
  BY <1>1, <1>4, <1>5, <1>6, <1>7 DEF IInv, FoundHeld, TypeOK
<1>19. DueAreOffline' /\ OnlinePlays'
  <2>1. /\ connected \subseteq Client
        /\ pc'[t] = "load" /\ \A u \in Thread \ {t} : pc'[u] = pc[u]
    BY <1>5 DEF IInv, TypeOK
  <2>2. \A x \in Client :
          /\ client'[x].offline = client[x].offline /\ client'[x].state = client[x].state
          /\ client'[x].canBeRemoved = client[x].canBeRemoved
    BY <1>6, <1>7
  <2>3. DueAreOffline'
    BY <1>1, <2>1, <2>2 DEF IInv, DueAreOffline
  <2>4. OnlinePlays'
    BY <1>1, <1>10, <2>1, <2>2 DEF IInv, OnlinePlays
  <2> QED
    BY <2>3, <2>4
<1> QED
  BY <1>9, <1>11, <1>12, <1>13, <1>14, <1>15, <1>16, <1>17, <1>18, <1>19 DEF IInv

LEMMA LoadClientStep ==
  ASSUME IInv, NEW t \in Thread, LoadClient(t)
  PROVE  IInv'
<1>1. /\ UNCHANGED <<client, refs, deferred, connected, player, saveClients>>
      /\ UNCHANGED <<clientJobs, critterJobs, hand, claim, active, overlap, marked, early, undefined>>
      /\ pc[t] = "load"
  BY DEF LoadClient, In, memory, world, jobs, locks, history
<1>2. PICK stage \in {"enter", "enterSaved"} : pc' = [pc EXCEPT ![t] = stage]
  BY DEF LoadClient, Goto
<1>3. /\ found' = [found EXCEPT ![t] = NoClient]
      /\ pc' \in [Thread -> Stages] /\ found' \in [Thread -> Client \cup {NoClient}]
  BY <1>2 DEF LoadClient, Stages, IInv, TypeOK
<1>4. JobsStay
  <2>1. stage \in Stages /\ Goto(t, stage)
    BY <1>2 DEF Goto, Stages
  <2> QED
    BY <1>1, <2>1, JobGoesOn DEF ClientStages, Stages
<1>5. TypeOK' /\ HandsMatch'
  BY <1>1, <1>2, <1>3 DEF IInv, TypeOK, HandsMatch, Locks!TypeOK
<1>6. \A u \in Thread : pc[u] # "idle" => hand[u] \in Client
  BY InHand
<1>7. JobsMatch' /\ Balance'
  BY <1>1, <1>4 DEF IInv, JobsMatch, JobsStay, Balance, Owed
<1>8. Newcomers'
  BY <1>1, <1>2, <1>4, <1>6 DEF IInv, Newcomers, JobsStay, TypeOK
<1>9. Untried'
  BY <1>1, <1>2, <1>4 DEF IInv, Untried, JobsStay, TypeOK
<1>10. Creators' /\ AvatarValid' /\ Removing'
  BY <1>1, <1>2 DEF IInv, Creators, Creating, AvatarValid, Removing, TypeOK
<1>11. OneAvatar'
  BY <1>1, <1>2, <1>4 DEF IInv, OneAvatar, Creating, JobsStay, TypeOK
<1>12. FoundHeld'
  BY <1>1, <1>2, <1>3 DEF IInv, FoundHeld, TypeOK
<1>13. DueAreOffline' /\ OnlinePlays'
  BY <1>1, <1>2 DEF IInv, DueAreOffline, OnlinePlays, TypeOK
<1> QED
  BY <1>5, <1>7, <1>8, <1>9, <1>10, <1>11, <1>12, <1>13 DEF IInv

-----------------------------------------------------------------------------
(***************************************************************************)
(* The avatar is created, or its creation fails.                           *)
(***************************************************************************)
LEMMA CreatorInHand ==
  ASSUME IInv, NEW t \in Thread, Creating(t)
  PROVE  /\ pc[t] \in {"load", "enter", "enterSaved"} /\ pc[t] \in ClientStages
         /\ hand[t] \in Client /\ hand[t] \in connected /\ ClientJobs(hand[t]) = 1
         /\ hand[t] # player /\ CritterJobs(hand[t]) = 0
         /\ client[hand[t]].id /\ ~client[hand[t]].notValid
         /\ \A u \in Thread : (hand[u] = hand[t] /\ pc[u] # "idle") => u = t
<1>1. pc[t] \in {"load", "enter", "enterSaved"}
  BY DEF Creating
<1>2. hand[t] \in Client /\ InClientJob(t, hand[t]) /\ pc[t] \in ClientStages
  BY <1>1, InHand DEF ClientStages, Stages
<1>3. /\ hand[t] \in connected /\ ClientJobs(hand[t]) = 1
      /\ \A u \in Thread : InClientJob(u, hand[t]) => u = t
  BY <1>2, HolderAlone DEF IInv
<1>4. CritterJobs(hand[t]) = 0
  BY <1>1 DEF IInv, Newcomers
<1>5. hand[t] # player
  BY <1>2, <1>4 DEF IInv, JobsMatch
<1>6. ASSUME NEW u \in Thread, hand[u] = hand[t], pc[u] # "idle"
      PROVE  u = t
  <2>1. ~InCritterJob(u, hand[t])
    BY <1>2, <1>4, HolderAlone DEF IInv
  <2>2. InClientJob(u, hand[t])
    BY <1>6, <2>1 DEF InClientJob, InCritterJob, ClientStages, IInv, TypeOK
  <2> QED
    BY <1>3, <2>2
<1> QED
  BY <1>1, <1>2, <1>3, <1>4, <1>5, <1>6 DEF IInv, Creators

LEMMA LoadFailsStep ==
  ASSUME IInv, NEW t \in Thread, LoadFails(t)
  PROVE  IInv'
<1> DEFINE c == hand[t]
<1>1. /\ UNCHANGED <<refs, deferred, connected, player, saveClients, overlap, marked, early, undefined>>
      /\ PutClientJob(c) /\ Done(t) /\ Creating(t)
  BY DEF LoadFails, memory, world, history
<1>2. /\ pc[t] \in {"load", "enter", "enterSaved"} /\ pc[t] \in ClientStages
      /\ c \in Client /\ c # player
      /\ \A u \in Thread : (hand[u] = c /\ pc[u] # "idle") => u = t
  BY <1>1, CreatorInHand
<1>3. /\ ThreadsOK' /\ Becomes(t, "idle", NoClient) /\ found'[t] = NoClient
      /\ JobsStay
  BY <1>1, <1>2, PushedBack
<1>4. /\ client' \in [Client -> ClientType]
      /\ client'[c] = [client[c] EXCEPT !.offline = TRUE, !.id = FALSE]
      /\ \A x \in Client \ {c} : client'[x] = client[x]
  BY <1>2 DEF LoadFails, IInv, TypeOK, ClientType
<1>5. /\ client'[c].sock = client[c].sock /\ client'[c].offline
      /\ client'[c].notValid = client[c].notValid /\ client'[c].state = client[c].state
      /\ client'[c].canBeRemoved = client[c].canBeRemoved
      /\ \A x \in Client \ {c} : client'[x] = client[x]
  <2>1. client[c] \in ClientType
    BY <1>2 DEF IInv, TypeOK, ClientType
  <2> QED
    BY <1>4, <2>1 DEF ClientType
<1>6. TypeOK' /\ HandsMatch'
  BY <1>1, <1>3, <1>4 DEF IInv, TypeOK, ThreadsOK, ClientType
<1>7. /\ \A u \in Thread : pc[u] # "idle" => hand[u] \in Client
      /\ connected \subseteq Client
  BY InHand DEF IInv, TypeOK
<1>8. JobsMatch'
  BY <1>1, <1>3 DEF IInv, JobsMatch, JobsStay
<1>9. Balance'
  <2>1. \A x \in Client : Owed(x)' = Owed(x)
    BY <1>1, <1>3, <1>5 DEF Owed, JobsStay
  <2> QED
    BY <1>1, <2>1 DEF IInv, Balance
<1>10. Newcomers'
  BY <1>3, <1>7 DEF IInv, Newcomers, JobsStay, Becomes
<1>11. Untried'
  BY <1>2, <1>3, <1>5 DEF IInv, Untried, JobsStay, Becomes
<1>12. Creators' /\ AvatarValid' /\ Removing'
  BY <1>1, <1>2, <1>3, <1>5, <1>7
     DEF IInv, Creators, Creating, AvatarValid, Removing, Becomes
<1>13. OneAvatar'
  BY <1>1, <1>3 DEF IInv, OneAvatar, Creating, JobsStay, Becomes
<1>14. FoundHeld'
  BY <1>1, <1>3, <1>5 DEF IInv, FoundHeld, Becomes
<1>15. DueAreOffline'
  BY <1>1, <1>5, <1>7 DEF IInv, DueAreOffline
<1>16. OnlinePlays'
  BY <1>1, <1>3, <1>5, <1>7 DEF IInv, OnlinePlays, Becomes
<1> QED
  BY <1>6, <1>8, <1>9, <1>10, <1>11, <1>12, <1>13, <1>14, <1>15, <1>16 DEF IInv

LEMMA AddCritterStep ==
  ASSUME IInv, NEW t \in Thread, AddCritter(t)
  PROVE  IInv'
<1> DEFINE c == hand[t]
           unsaved == IF pc[t] = "enterSaved" THEN saveClients ELSE {}
<1>1. /\ UNCHANGED <<client, deferred, connected, clientJobs, hand, found, overlap, marked, early, undefined>>
      /\ pc[t] \in {"enter", "enterSaved"} /\ Creating(t)
      /\ saveClients' = saveClients \ unsaved
      /\ player' = IF player = NoClient THEN c ELSE player
      /\ critterJobs' = [critterJobs EXCEPT ![c] = @ + 1]
      /\ pc' = [pc EXCEPT ![t] = "greet"] /\ Locks!Pause(t)
  BY DEF AddCritter, In, history, Creating, Goto
<1>2. /\ c \in Client /\ c \in connected /\ c # player /\ CritterJobs(c) = 0
      /\ client[c].id /\ ~client[c].notValid
      /\ \A u \in Thread : (hand[u] = c /\ pc[u] # "idle") => u = t
  BY <1>1, CreatorInHand
<1>3. /\ pc' \in [Thread -> Stages] /\ pc'[t] = "greet"
      /\ \A u \in Thread \ {t} : pc'[u] = pc[u]
      /\ critterJobs' \in [Client -> Nat]
  BY <1>1, <1>2 DEF IInv, TypeOK, Stages
<1>4. ASSUME NEW x \in Client
      PROVE  /\ ClientJobs(x)' = ClientJobs(x)
             /\ CritterJobs(x)' = IF x = c THEN 1 ELSE CritterJobs(x)
  <2>1. Moves(t)
    BY <1>1, <1>3 DEF Moves, IInv, TypeOK
  <2>2. /\ InClientJob(t, x)' <=> InClientJob(t, x)
        /\ ~InCritterJob(t, x) /\ ~InCritterJob(t, x)'
    BY <1>1, <1>3 DEF InClientJob, InCritterJob, ClientStages, Stages
  <2>3. /\ clientJobs'[x] = clientJobs[x] /\ clientJobs[x] \in Nat
        /\ critterJobs'[x] = (IF x = c THEN critterJobs[x] + 1 ELSE critterJobs[x])
        /\ critterJobs[x] \in Nat
    BY <1>1, <1>2 DEF IInv, TypeOK
  <2> QED
    BY <1>2, <2>1, <2>2, <2>3, JobsMove, CountsNatural DEF IInv
<1>5. \A x \in Client :
        refs'[x] = (refs[x] + One(x = c)) - One(x \in unsaved)
  BY DEF AddCritter, Counted, One
<1>6. Balance'
  <2>1. ASSUME NEW x \in Client
        PROVE  Owed(x)' = (Owed(x) + One(x = c)) - One(x \in unsaved)
    BY <1>1, <1>2, <1>4, CountsNatural DEF Owed, One
  <2>2. \A x \in Client : Owed(x) \in Nat
    BY CountsNatural DEF Owed, One
  <2> QED
    BY <1>1, <1>5, <2>1, <2>2, CountsNatural DEF IInv, Balance, One
<1>7. TypeOK'
  <2>1. refs' \in [Client -> Int]
    BY CountsNatural DEF AddCritter, Counted, One
  <2>2. refs' \in [Client -> Nat]
    <3>1. deferred' \in [Client -> Nat] /\ \A x \in Client : CritterJobs(x)' \in Nat
      BY <1>1, <1>4, CountsNatural DEF IInv, TypeOK
    <3> QED
      BY <1>6, <2>1, <3>1, RefsNatural
  <2>3. Locks!TypeOK'
    BY <1>1, LocksKeepType DEF IInv, TypeOK
  <2> QED
    BY <1>1, <1>2, <1>3, <2>2, <2>3 DEF IInv, TypeOK
<1>8. HandsMatch'
  BY <1>1, <1>2, <1>3, SessionAssumption DEF IInv, HandsMatch
<1>9. \A u \in Thread : pc[u] # "idle" => hand[u] \in Client
  BY InHand
<1>10. JobsMatch'
  BY <1>1, <1>2, <1>4, SessionAssumption DEF IInv, JobsMatch
<1>11. Newcomers'
  BY <1>1, <1>2, <1>3, <1>4, <1>9 DEF IInv, Newcomers
<1>12. Untried'
  BY <1>1, <1>3, <1>4 DEF IInv, Untried
<1>13. Creators' /\ AvatarValid'
  BY <1>1, <1>2, <1>3 DEF IInv, Creators, Creating, AvatarValid
<1>14. Removing'
  BY <1>1, <1>2, <1>3, <1>9, SessionAssumption DEF IInv, Removing
<1>15. OneAvatar'
  <2>1. /\ \A u \in Thread : Creating(u)' => Creating(u) /\ u # t
        /\ \A x \in Client : CritterJobs(x)' = IF x = c THEN 1 ELSE CritterJobs(x)
    BY <1>1, <1>3, <1>4 DEF Creating
  <2> QED
    BY <1>1, <1>2, <2>1, SessionAssumption DEF IInv, OneAvatar
<1>16. FoundHeld'
  BY <1>1, <1>2, <1>3, SessionAssumption DEF IInv, FoundHeld, OneAvatar, Creating
<1>17. DueAreOffline'
  BY <1>1 DEF IInv, DueAreOffline
<1>18. OnlinePlays'
  <2>1. CASE overlap \/ marked
    BY <1>1, <2>1 DEF OnlinePlays
  <2>2. CASE ~overlap /\ ~marked
    <3>1. player = NoClient /\ player' = c
      BY <1>1, <2>2 DEF IInv, OneAvatar
    <3> QED
      BY <1>1, <1>2, <1>3, <1>9, <2>2, <3>1, SessionAssumption DEF IInv, OnlinePlays, TypeOK
  <2> QED
    BY <2>1, <2>2
<1> QED
  BY <1>6, <1>7, <1>8, <1>10, <1>11, <1>12, <1>13, <1>14, <1>15, <1>16, <1>17, <1>18
     DEF IInv

LEMMA LoginDoneStep ==
  ASSUME IInv, NEW t \in Thread, LoginDone(t)
  PROVE  IInv'
<1> DEFINE c == hand[t]
<1>1. /\ UNCHANGED <<refs, deferred, connected, player, saveClients, overlap, marked, early, undefined>>
      /\ PutClientJob(c) /\ Done(t) /\ pc[t] = "greet"
  BY DEF LoginDone, memory, world, history, In
<1>2. c \in Client /\ pc[t] \in ClientStages
  BY <1>1, InHand DEF ClientStages, Stages
<1>3. /\ ThreadsOK' /\ Becomes(t, "idle", NoClient) /\ found'[t] = NoClient
      /\ JobsStay
  BY <1>1, <1>2, PushedBack
<1>4. /\ client' \in [Client -> ClientType]
      /\ client'[c].sock = client[c].sock /\ client'[c].offline = client[c].offline
      /\ client'[c].notValid = client[c].notValid /\ client'[c].id = client[c].id
      /\ client'[c].canBeRemoved = client[c].canBeRemoved
      /\ client[c].offline \/ client'[c].state = "playing"
      /\ \A x \in Client \ {c} : client'[x] = client[x]
  <2>1. client \in [Client -> ClientType] /\ client[c] \in ClientType
    BY <1>2 DEF IInv, TypeOK, ClientType
  <2>2. PICK state \in {"none", "connected", "playing"} :
          /\ client' = [client EXCEPT ![c].state = state]
          /\ client[c].offline \/ state = "playing"
    BY <2>1 DEF LoginDone, ClientType
  <2>3. client'[c] = [client[c] EXCEPT !.state = state]
    BY <1>2, <2>1, <2>2
  <2> QED
    BY <1>2, <2>1, <2>2, <2>3 DEF ClientType
<1>5. TypeOK' /\ HandsMatch'
  BY <1>1, <1>3, <1>4 DEF IInv, TypeOK, ThreadsOK, ClientType
<1>6. /\ \A u \in Thread : pc[u] # "idle" => hand[u] \in Client
      /\ connected \subseteq Client
  BY InHand DEF IInv, TypeOK
<1>7. JobsMatch'
  BY <1>1, <1>3 DEF IInv, JobsMatch, JobsStay
<1>8. Balance'
  <2>1. \A x \in Client : Owed(x)' = Owed(x)
    BY <1>1, <1>3, <1>4 DEF Owed, JobsStay
  <2> QED
    BY <1>1, <2>1 DEF IInv, Balance
<1>9. Newcomers'
  BY <1>3, <1>6 DEF IInv, Newcomers, JobsStay, Becomes
<1>10. Untried'
  BY <1>2, <1>3, <1>4 DEF IInv, Untried, JobsStay, Becomes
<1>11. Creators' /\ AvatarValid' /\ Removing'
  BY <1>1, <1>2, <1>3, <1>4, <1>6
     DEF IInv, Creators, Creating, AvatarValid, Removing, Becomes
<1>12. OneAvatar'
  BY <1>1, <1>3 DEF IInv, OneAvatar, Creating, JobsStay, Becomes
<1>13. FoundHeld'
  BY <1>1, <1>3, <1>4 DEF IInv, FoundHeld, Becomes
<1>14. DueAreOffline'
  BY <1>1, <1>4, <1>6 DEF IInv, DueAreOffline
<1>15. OnlinePlays'
  BY <1>1, <1>3, <1>4, <1>6 DEF IInv, OnlinePlays, Becomes
<1> QED
  BY <1>5, <1>7, <1>8, <1>9, <1>10, <1>11, <1>12, <1>13, <1>14, <1>15 DEF IInv

-----------------------------------------------------------------------------
(***************************************************************************)
(* The avatar is removed, or a critter job ends.                           *)
(***************************************************************************)
LEMMA RemoveClientStep ==
  ASSUME IInv, NEW t \in Thread, RemoveClient(t)
  PROVE  IInv'
<1>1. /\ UNCHANGED <<client, refs, deferred, connected, player, saveClients>>
      /\ UNCHANGED <<clientJobs, critterJobs, hand, found, overlap, marked, early, undefined>>
      /\ pc[t] = "critter" /\ pc' = [pc EXCEPT ![t] = "remove"] /\ Locks!Pause(t)
      /\ client[hand[t]].canBeRemoved /\ player = hand[t]
  BY DEF RemoveClient, In, IsAvatar, memory, world, jobs, history, Goto
<1>2. Locks!TypeOK'
  BY <1>1, LocksKeepType DEF IInv, TypeOK
<1>3. /\ pc' \in [Thread -> Stages] /\ pc'[t] = "remove"
      /\ \A u \in Thread \ {t} : pc'[u] = pc[u]
  BY <1>1 DEF Stages, IInv, TypeOK
<1>4. JobsStay
  BY <1>1, JobGoesOn DEF Goto, ClientStages, Stages
<1>5. TypeOK' /\ HandsMatch'
  BY <1>1, <1>2, <1>3 DEF IInv, TypeOK, HandsMatch
<1>6. \A u \in Thread : pc[u] # "idle" => hand[u] \in Client
  BY InHand
<1>7. JobsMatch' /\ Balance'
  BY <1>1, <1>4 DEF IInv, JobsMatch, JobsStay, Balance, Owed
<1>8. Newcomers'
  BY <1>1, <1>3, <1>4, <1>6 DEF IInv, Newcomers, JobsStay
<1>9. Untried'
  BY <1>1, <1>3, <1>4 DEF IInv, Untried, JobsStay
<1>10. Creators' /\ AvatarValid' /\ Removing'
  BY <1>1, <1>3 DEF IInv, Creators, Creating, AvatarValid, Removing
<1>11. OneAvatar'
  BY <1>1, <1>3, <1>4 DEF IInv, OneAvatar, Creating, JobsStay
<1>12. FoundHeld'
  BY <1>1, <1>3 DEF IInv, FoundHeld
<1>13. DueAreOffline' /\ OnlinePlays'
  BY <1>1, <1>3 DEF IInv, DueAreOffline, OnlinePlays
<1> QED
  BY <1>5, <1>7, <1>8, <1>9, <1>10, <1>11, <1>12, <1>13 DEF IInv

(***************************************************************************)
(* The critter job of c ends, and c becomes not valid.                     *)
(***************************************************************************)
LEMMA CritterJobEnds ==
  ASSUME IInv, NEW t \in Thread, pc[t] \in {"critter", "remove"}, Done(t), UNCHANGED jobs,
         client' = [client EXCEPT ![hand[t]].notValid = TRUE]
  PROVE  /\ ThreadsOK' /\ Becomes(t, "idle", NoClient) /\ found'[t] = NoClient
         /\ hand[t] \in Client /\ CritterJobs(hand[t]) = 1
         /\ \A u \in Thread : InCritterJob(u, hand[t]) => u = t
         /\ \A x \in Client :
              /\ ClientJobs(x)' = ClientJobs(x)
              /\ CritterJobs(x)' = IF x = hand[t] THEN 0 ELSE CritterJobs(x)
         /\ client' \in [Client -> ClientType] /\ client'[hand[t]].notValid
         /\ \A x \in Client :
              /\ client'[x].sock = client[x].sock /\ client'[x].offline = client[x].offline
              /\ client'[x].id = client[x].id /\ client'[x].state = client[x].state
              /\ client'[x].canBeRemoved = client[x].canBeRemoved
              /\ x # hand[t] => client'[x].notValid = client[x].notValid
<1> DEFINE c == hand[t]
<1>1. c \in Client /\ pc[t] # "idle" /\ InCritterJob(t, c)
  BY InHand
<1>2. CritterJobs(c) = 1 /\ \A u \in Thread : InCritterJob(u, c) => u = t
  BY <1>1, HolderAlone DEF IInv
<1>3. /\ clientJobs' \in [Client -> Nat] /\ critterJobs' \in [Client -> Nat]
      /\ UNCHANGED <<clientJobs, critterJobs>>
  BY DEF jobs, IInv, TypeOK
<1>4. ThreadsOK' /\ Becomes(t, "idle", NoClient) /\ Moves(t) /\ found'[t] = NoClient
  BY <1>1, <1>3, JobEnds
<1>5. ASSUME NEW x \in Client
      PROVE  /\ ClientJobs(x)' = ClientJobs(x)
             /\ CritterJobs(x)' = IF x = c THEN 0 ELSE CritterJobs(x)
  <2>1. /\ ~InClientJob(t, x) /\ ~InClientJob(t, x)' /\ ~InCritterJob(t, x)'
        /\ InCritterJob(t, x) <=> x = c
    BY <1>4, SessionAssumption DEF Becomes, InClientJob, InCritterJob, ClientStages
  <2>2. /\ clientJobs[x] \in Nat /\ critterJobs[x] \in Nat
        /\ ClientJobs(x) \in Nat /\ CritterJobs(x) \in Nat
    BY JobsCount DEF IInv, TypeOK
  <2> QED
    BY <1>2, <1>3, <1>4, <2>1, <2>2, JobsMove DEF IInv
<1>6. client \in [Client -> ClientType]
  BY DEF IInv, TypeOK, ClientType
<1>7. /\ client' \in [Client -> ClientType]
      /\ client'[c] = [client[c] EXCEPT !.notValid = TRUE]
      /\ \A x \in Client \ {c} : client'[x] = client[x]
  BY <1>1, <1>6 DEF ClientType
<1>8. /\ client'[c].sock = client[c].sock /\ client'[c].offline = client[c].offline
      /\ client'[c].id = client[c].id /\ client'[c].state = client[c].state
      /\ client'[c].canBeRemoved = client[c].canBeRemoved /\ client'[c].notValid
  <2>1. client[c] \in ClientType
    BY <1>1, <1>6
  <2> QED
    BY <1>7, <2>1 DEF ClientType
<1> QED
  BY <1>1, <1>2, <1>4, <1>5, <1>7, <1>8

LEMMA RemoveStrangerStep ==
  ASSUME IInv, NEW t \in Thread, RemoveStranger(t)
  PROVE  IInv'
<1> DEFINE c == hand[t]
<1>1. /\ UNCHANGED <<refs, deferred, connected, player, saveClients, overlap, marked, early, undefined>>
      /\ UNCHANGED jobs /\ Done(t) /\ pc[t] = "critter"
      /\ client' = [client EXCEPT ![c].notValid = TRUE]
  BY DEF RemoveStranger, memory, world, history, In
<1>2. /\ ThreadsOK' /\ Becomes(t, "idle", NoClient) /\ found'[t] = NoClient
      /\ c \in Client /\ CritterJobs(c) = 1
      /\ \A x \in Client :
           /\ ClientJobs(x)' = ClientJobs(x)
           /\ CritterJobs(x)' = IF x = c THEN 0 ELSE CritterJobs(x)
  BY <1>1, CritterJobEnds
<1>3. /\ client' \in [Client -> ClientType] /\ client'[c].notValid
      /\ \A x \in Client :
           /\ client'[x].sock = client[x].sock /\ client'[x].offline = client[x].offline
           /\ client'[x].id = client[x].id /\ client'[x].state = client[x].state
           /\ client'[x].canBeRemoved = client[x].canBeRemoved
           /\ x # c => client'[x].notValid = client[x].notValid
  BY <1>1, CritterJobEnds
<1>4. c # player
  BY <1>2 DEF RemoveStranger, IsAvatar, IInv, AvatarValid
<1>5. /\ \A u \in Thread : pc[u] # "idle" => hand[u] \in Client
      /\ \A u \in Thread : Creating(u) => hand[u] # c
      /\ connected \subseteq Client
  BY <1>2, InHand, CreatorInHand DEF IInv, TypeOK
<1>6. Balance'
  <2>1. ASSUME NEW x \in Client
        PROVE  Owed(x)' <= Owed(x) /\ (x # c => Owed(x)' = Owed(x))
    BY <1>1, <1>2, <1>3, CountsNatural DEF Owed, One
  <2>2. overlap
    BY <1>2, <1>4 DEF IInv, OneAvatar
  <2>3. \A x \in Client : Owed(x) \in Nat /\ Owed(x)' \in Int
    BY <1>1, <1>2, <1>3, CountsNatural DEF Owed, One
  <2> QED
    BY <1>1, <2>1, <2>2, <2>3, CountsNatural DEF IInv, Balance
<1>7. TypeOK' /\ HandsMatch'
  BY <1>1, <1>2, <1>3 DEF IInv, TypeOK, ThreadsOK, ClientType
<1>8. JobsMatch'
  BY <1>1, <1>2, <1>4 DEF IInv, JobsMatch
<1>9. Newcomers'
  BY <1>2, <1>5 DEF IInv, Newcomers, Becomes
<1>10. Untried'
  BY <1>1, <1>2, <1>3 DEF IInv, Untried, Becomes
<1>11. Creators' /\ AvatarValid' /\ Removing'
  BY <1>1, <1>2, <1>3, <1>4, <1>5
     DEF IInv, Creators, Creating, AvatarValid, Removing, Becomes
<1>12. OneAvatar'
  BY <1>1, <1>2 DEF IInv, OneAvatar, Creating, Becomes
<1>13. FoundHeld'
  BY <1>1, <1>2, <1>3 DEF IInv, FoundHeld, Becomes
<1>14. DueAreOffline'
  BY <1>1, <1>3, <1>5 DEF IInv, DueAreOffline
<1>15. OnlinePlays'
  BY <1>1, <1>2, <1>3, <1>5 DEF IInv, OnlinePlays, Becomes
<1> QED
  BY <1>6, <1>7, <1>8, <1>9, <1>10, <1>11, <1>12, <1>13, <1>14, <1>15 DEF IInv

LEMMA EraseCritterStep ==
  ASSUME IInv, NEW t \in Thread, EraseCritter(t)
  PROVE  IInv'
<1> DEFINE c == hand[t]
<1>1. /\ UNCHANGED <<connected, overlap, marked, early, undefined>> /\ UNCHANGED jobs
      /\ Done(t) /\ pc[t] = "remove" /\ player' = NoClient /\ saveClients' = {c}
      /\ client' = [client EXCEPT ![c].notValid = TRUE]
      /\ deferred' = [deferred EXCEPT ![c] = @ + 1]
  BY DEF EraseCritter, history, In
<1>2. /\ ThreadsOK' /\ Becomes(t, "idle", NoClient) /\ found'[t] = NoClient
      /\ c \in Client /\ CritterJobs(c) = 1
      /\ \A u \in Thread : InCritterJob(u, c) => u = t
      /\ \A x \in Client :
           /\ ClientJobs(x)' = ClientJobs(x)
           /\ CritterJobs(x)' = IF x = c THEN 0 ELSE CritterJobs(x)
  BY <1>1, CritterJobEnds
<1>3. /\ client' \in [Client -> ClientType] /\ client'[c].notValid
      /\ \A x \in Client :
           /\ client'[x].sock = client[x].sock /\ client'[x].offline = client[x].offline
           /\ client'[x].id = client[x].id /\ client'[x].state = client[x].state
           /\ client'[x].canBeRemoved = client[x].canBeRemoved
           /\ x # c => client'[x].notValid = client[x].notValid
  BY <1>1, CritterJobEnds
<1>4. player = c /\ c # NoClient /\ client[c].canBeRemoved
  BY <1>1, <1>2, SessionAssumption DEF IInv, Removing
<1>5. /\ \A u \in Thread : pc[u] # "idle" => hand[u] \in Client
      /\ \A u \in Thread : Creating(u) => hand[u] # c
      /\ \A u \in Thread : u # t => pc[u] # "remove"
      /\ connected \subseteq Client
  <2>1. ASSUME NEW u \in Thread, pc[u] = "remove"
        PROVE  u = t
    BY <1>2, <1>4, <2>1 DEF IInv, Removing, InCritterJob
  <2> QED
    BY <1>4, <2>1, InHand, CreatorInHand DEF IInv, TypeOK
<1>6. /\ \A x \in Client : refs'[x] = (refs[x] + One(x = c)) - One(x \in saveClients)
      /\ deferred' \in [Client -> Nat]
      /\ \A x \in Client : deferred'[x] = deferred[x] + One(x = c)
  BY <1>2, CountsNatural DEF EraseCritter, Counted, One, IInv, TypeOK
<1>7. Balance'
  <2>1. ASSUME NEW x \in Client
        PROVE  Owed(x)' = (Owed(x) + One(x = c)) - One(x \in saveClients)
    BY <1>1, <1>2, <1>3, <1>6, CountsNatural DEF Owed, One
  <2>2. \A x \in Client : Owed(x) \in Nat
    BY CountsNatural DEF Owed, One
  <2> QED
    BY <1>1, <1>6, <2>1, <2>2, CountsNatural DEF IInv, Balance, One
<1>8. TypeOK' /\ HandsMatch'
  <2>1. refs' \in [Client -> Int]
    BY CountsNatural DEF EraseCritter, Counted, One
  <2>2. \A x \in Client : CritterJobs(x)' \in Nat
    BY <1>2, CountsNatural
  <2>3. refs' \in [Client -> Nat]
    BY <1>6, <1>7, <2>1, <2>2, RefsNatural
  <2> QED
    BY <1>1, <1>2, <1>3, <1>6, <2>3 DEF IInv, TypeOK, ThreadsOK, ClientType
<1>9. JobsMatch'
  BY <1>1, <1>2, SessionAssumption DEF IInv, JobsMatch
<1>10. Newcomers'
  BY <1>2, <1>5 DEF IInv, Newcomers, Becomes
<1>11. Untried'
  BY <1>1, <1>2, <1>3 DEF IInv, Untried, Becomes
<1>12. Creators' /\ AvatarValid' /\ Removing'
  BY <1>1, <1>2, <1>3, <1>5, SessionAssumption
     DEF IInv, Creators, Creating, AvatarValid, Removing, Becomes
<1>13. overlap \/ \A u \in Thread : ~Creating(u)
  BY <1>4 DEF IInv, OneAvatar
<1>14. OneAvatar'
  BY <1>1, <1>2, <1>4, <1>13 DEF IInv, OneAvatar, Creating, Becomes
<1>15. FoundHeld'
  BY <1>1, <1>2, <1>3, <1>4, <1>6, <1>13, CountsNatural
     DEF IInv, FoundHeld, Becomes, Creating, One
<1>16. DueAreOffline'
  BY <1>1, <1>3, <1>5 DEF IInv, DueAreOffline
<1>17. OnlinePlays'
  <2>1. CASE overlap \/ marked
    BY <1>1, <2>1 DEF OnlinePlays
  <2>2. CASE ~overlap /\ ~marked
    <3>1. c \in connected => client[c].offline
      BY <1>4, <2>2 DEF IInv, DueAreOffline
    <3>2. ASSUME NEW u \in Thread, pc[u] = "greet", hand[u] = c
          PROVE  c \in connected
      BY <1>2, <3>2, HolderAlone DEF IInv, InClientJob, ClientStages, Stages
    <3> QED
      BY <1>1, <1>2, <1>3, <1>4, <1>5, <2>2, <3>1, <3>2 DEF IInv, OnlinePlays, Becomes
  <2> QED
    BY <2>1, <2>2
<1> QED
  BY <1>7, <1>8, <1>9, <1>10, <1>11, <1>12, <1>14, <1>15, <1>16, <1>17 DEF IInv

-----------------------------------------------------------------------------
(***************************************************************************)
(* The connection ends.                                                    *)
(***************************************************************************)
LEMMA DisconnectClientStep ==
  ASSUME IInv, NEW t \in Thread, DisconnectClient(t)
  PROVE  IInv'
<1> DEFINE c == hand[t]
           unsaved == IF IsAvatar(c) THEN saveClients ELSE {}
           toSave  == IF IsAvatar(c) THEN {c} ELSE {}
<1>1. /\ UNCHANGED <<client, player, clientJobs, critterJobs, overlap, marked, early, undefined>>
      /\ Done(t) /\ pc[t] = "client" /\ ~client[c].sock
      /\ connected' = connected \ {c}
      /\ deferred' = [deferred EXCEPT ![c] = @ + 1]
      /\ saveClients' = (saveClients \ unsaved) \cup toSave
  BY DEF DisconnectClient, jobs, history, In
<1>2. /\ c \in Client /\ c \in connected /\ ClientJobs(c) = 1
      /\ clientJobs' \in [Client -> Nat] /\ critterJobs' \in [Client -> Nat]
  BY <1>1, HeardInHand DEF IInv, TypeOK
<1>3. ThreadsOK' /\ Becomes(t, "idle", NoClient) /\ Moves(t) /\ found'[t] = NoClient
  BY <1>1, <1>2, JobEnds
<1>4. ASSUME NEW x \in Client
      PROVE  /\ ClientJobs(x)' = IF x = c THEN 0 ELSE ClientJobs(x)
             /\ CritterJobs(x)' = CritterJobs(x)
  <2>1. /\ ~InCritterJob(t, x) /\ ~InClientJob(t, x)' /\ ~InCritterJob(t, x)'
        /\ InClientJob(t, x) <=> x = c
    BY <1>1, <1>3, SessionAssumption
       DEF Becomes, InClientJob, InCritterJob, ClientStages, Stages
  <2>2. clientJobs[x] \in Nat /\ critterJobs[x] \in Nat
    BY DEF IInv, TypeOK
  <2> QED
    BY <1>1, <1>2, <1>3, <2>1, <2>2, JobsMove, CountsNatural DEF IInv
<1>5. /\ \A x \in Client :
           refs'[x] = (refs[x] + One(x \in toSave)) - One(x \in unsaved)
      /\ deferred' \in [Client -> Nat]
      /\ \A x \in Client : deferred'[x] = deferred[x] + One(x = c)
      /\ refs' \in [Client -> Int]
  BY <1>1, <1>2, CountsNatural DEF DisconnectClient, Counted, One, IInv, TypeOK
<1>6. Balance'
  <2>1. ASSUME NEW x \in Client
        PROVE  Owed(x)' = (Owed(x) + One(x \in toSave)) - One(x \in unsaved)
    BY <1>1, <1>2, <1>4, <1>5, CountsNatural DEF Owed, One
  <2>2. \A x \in Client : Owed(x) \in Nat
    BY CountsNatural DEF Owed, One
  <2> QED
    BY <1>1, <1>5, <2>1, <2>2, CountsNatural DEF IInv, Balance, One
<1>7. TypeOK' /\ HandsMatch'
  <2>1. \A x \in Client : CritterJobs(x)' \in Nat
    BY <1>4, CountsNatural
  <2>2. refs' \in [Client -> Nat]
    BY <1>5, <1>6, <2>1, RefsNatural
  <2>3. connected' \subseteq Client /\ saveClients' \subseteq Client
    BY <1>1, <1>2 DEF IInv, TypeOK
  <2> QED
    BY <1>1, <1>3, <1>5, <2>2, <2>3 DEF IInv, TypeOK, ThreadsOK
<1>8. JobsMatch'
  BY <1>1, <1>2, <1>4 DEF IInv, JobsMatch, One
<1>9. \A u \in Thread : pc[u] # "idle" => hand[u] \in Client
  BY InHand
<1>10. Newcomers'
  BY <1>3, <1>4, <1>9 DEF IInv, Newcomers, Becomes
<1>11. Untried'
  BY <1>1, <1>3, <1>4 DEF IInv, Untried, Becomes
<1>12. Creators' /\ AvatarValid' /\ Removing'
  BY <1>1, <1>3 DEF IInv, Creators, Creating, AvatarValid, Removing, Becomes
<1>13. OneAvatar'
  BY <1>1, <1>3, <1>4 DEF IInv, OneAvatar, Creating, Becomes
<1>14. FoundHeld'
  <2>1. overlap \/ unsaved = {} \/ \A u \in Thread : pc[u] # "load"
    BY <1>2, SessionAssumption DEF IInv, OneAvatar, Creating, IsAvatar
  <2> QED
    BY <1>1, <1>3, <1>5, <2>1, CountsNatural DEF IInv, FoundHeld, Becomes, One
<1>15. DueAreOffline' /\ OnlinePlays'
  BY <1>1, <1>3 DEF IInv, DueAreOffline, OnlinePlays, Becomes
<1> QED
  BY <1>6, <1>7, <1>8, <1>10, <1>11, <1>12, <1>13, <1>14, <1>15 DEF IInv

-----------------------------------------------------------------------------
(***************************************************************************)
(* The avatar is taken over.                                               *)
(***************************************************************************)
LEMMA SwapClients ==
  ASSUME IInv, NEW t \in Thread, Swap(t)
  PROVE  LET c == hand[t]
             old == found[t] IN
         /\ client' \in [Client -> ClientType]
         /\ client'[c].sock = FALSE /\ client'[c].notValid
         /\ client'[c].id = client[c].id /\ client'[c].canBeRemoved = client[c].canBeRemoved
         /\ client'[old].sock /\ ~client'[old].notValid
         /\ client'[old].id = client[old].id
         /\ client'[old].canBeRemoved = client[old].canBeRemoved
         /\ client'[old].offline \/ client'[old].state = "playing"
         /\ \A x \in Client \ {c, old} : client'[x] = client[x]
<1> DEFINE c == hand[t]
           old == found[t]
<1>1. pc[t] = "swap" /\ c # old
  BY DEF Swap, In, MaySwap
<1>2. c \in Client /\ old \in Client /\ client \in [Client -> ClientType]
  BY <1>1, InHand DEF IInv, FoundHeld, TypeOK, ClientType
<1>3. client[c] \in ClientType /\ client[old] \in ClientType
  BY <1>2
<1>4. PICK state \in {"connected", "playing"} :
        /\ client[c].offline \/ state = "playing"
        /\ client' = [client EXCEPT
             ![c] = [@ EXCEPT !.sock = FALSE, !.offline = client[old].offline,
                              !.notValid = TRUE, !.state = "none"],
             ![old] = [@ EXCEPT !.sock = TRUE, !.offline = client[c].offline,
                                !.notValid = FALSE, !.state = state]]
  BY DEF Swap
<1>5. client'[c] = [client[c] EXCEPT !.sock = FALSE, !.offline = client[old].offline,
                                     !.notValid = TRUE, !.state = "none"]
  BY <1>1, <1>2, <1>4
<1>6. client'[old] = [client[old] EXCEPT !.sock = TRUE, !.offline = client[c].offline,
                                         !.notValid = FALSE, !.state = state]
  BY <1>1, <1>2, <1>4
<1>7. client'[c] \in ClientType /\ client'[old] \in ClientType
  BY <1>3, <1>5, <1>6 DEF ClientType
<1>8. \A x \in Client \ {c, old} : client'[x] = client[x]
  BY <1>2, <1>4
<1>9. client' \in [Client -> ClientType]
  <2>1. client' = [x \in Client |-> client'[x]]
    BY <1>2, <1>4
  <2>2. \A x \in Client : client'[x] \in ClientType
    BY <1>2, <1>7, <1>8
  <2> QED
    BY <2>1, <2>2
<1>10. /\ client'[c].sock = FALSE /\ client'[c].notValid
       /\ client'[c].id = client[c].id /\ client'[c].canBeRemoved = client[c].canBeRemoved
  BY <1>3, <1>5 DEF ClientType
<1>11. /\ client'[old].sock /\ ~client'[old].notValid
       /\ client'[old].id = client[old].id
       /\ client'[old].canBeRemoved = client[old].canBeRemoved
       /\ client'[old].offline = client[c].offline /\ client'[old].state = state
  BY <1>3, <1>6 DEF ClientType
<1> QED
  BY <1>4, <1>8, <1>9, <1>10, <1>11

LEMMA SwapStep ==
  ASSUME IInv, NEW t \in Thread, Swap(t)
  PROVE  IInv'
<1> DEFINE c == hand[t]
           old == found[t]
<1>1. /\ UNCHANGED <<player, critterJobs, overlap>> /\ Done(t) /\ PutClientJob(old)
      /\ pc[t] = "swap" /\ c # old /\ c \in connected /\ old \notin connected
      /\ client[c].sock /\ ~client[old].sock
      /\ connected' = (connected \ {c}) \cup {old} /\ saveClients' = {}
      /\ deferred' = [deferred EXCEPT ![c] = @ + 1]
      /\ marked' = (marked \/ client[old].canBeRemoved)
      /\ UNCHANGED <<early, undefined>>
  BY DEF Swap, In, MaySwap, PutClientJob
<1>2. /\ c \in Client /\ old \in Client
      /\ old = player \/ client[old].canBeRemoved
  BY <1>1, InHand DEF IInv, FoundHeld
<1>3. /\ client' \in [Client -> ClientType]
      /\ client'[c].sock = FALSE /\ client'[c].notValid
      /\ client'[c].id = client[c].id /\ client'[c].canBeRemoved = client[c].canBeRemoved
      /\ client'[old].sock /\ ~client'[old].notValid
      /\ client'[old].id = client[old].id
      /\ client'[old].canBeRemoved = client[old].canBeRemoved
      /\ client'[old].offline \/ client'[old].state = "playing"
      /\ \A x \in Client \ {c, old} : client'[x] = client[x]
  BY SwapClients
<1>4. /\ ClientJobs(c) = 1 /\ CritterJobs(c) = 0 /\ ClientJobs(old) = 0 /\ c # player
      /\ \A u \in Thread : (hand[u] = c /\ pc[u] \in ClientStages) => u = t
      /\ \A u \in Thread : hand[u] = old => pc[u] \notin ClientStages
  <2>1. pc[t] \in ClientStages /\ InClientJob(t, c)
    BY <1>1 DEF ClientStages, Stages, InClientJob
  <2>2. ClientJobs(c) = 1 /\ \A u \in Thread : InClientJob(u, c) => u = t
    BY <1>2, <2>1, HolderAlone DEF IInv
  <2>3. ClientJobs(old) = 0
    BY <1>1, <1>2 DEF IInv, JobsMatch, One
  <2>4. \A u \in Thread : ~InClientJob(u, old)
    BY <1>2, <2>3, HolderAlone DEF IInv
  <2>5. CritterJobs(c) = 0
    BY <1>1 DEF IInv, Newcomers
  <2>6. c # player
    BY <1>2, <2>5 DEF IInv, JobsMatch
  <2> QED
    BY <2>2, <2>3, <2>4, <2>5, <2>6 DEF InClientJob
<1>5. /\ clientJobs' \in [Client -> Nat] /\ critterJobs' \in [Client -> Nat]
      /\ \A x \in Client : clientJobs'[x] = clientJobs[x] + One(x = old)
  BY <1>1, <1>2 DEF PutClientJob, IInv, TypeOK, One
<1>6. ThreadsOK' /\ Becomes(t, "idle", NoClient) /\ Moves(t) /\ found'[t] = NoClient
  BY <1>1, <1>5, JobEnds
<1>7. ASSUME NEW x \in Client
      PROVE  /\ ClientJobs(x)' =
                  IF x = c THEN 0 ELSE IF x = old THEN 1 ELSE ClientJobs(x)
             /\ CritterJobs(x)' = CritterJobs(x)
  <2>1. /\ ~InCritterJob(t, x) /\ ~InClientJob(t, x)' /\ ~InCritterJob(t, x)'
        /\ InClientJob(t, x) <=> x = c
    BY <1>1, <1>6, SessionAssumption
       DEF Becomes, InClientJob, InCritterJob, ClientStages, Stages
  <2>2. clientJobs[x] \in Nat /\ critterJobs[x] \in Nat
    BY DEF IInv, TypeOK
  <2>3. /\ clientJobs'[x] = IF x = old THEN clientJobs[x] + 1 ELSE clientJobs[x]
        /\ critterJobs'[x] = critterJobs[x]
    BY <1>1, <1>5, <2>2 DEF One
  <2>4. CritterJobs(x)' = CritterJobs(x)
    BY <1>6, <2>1, <2>2, <2>3, JobsMove, CountsNatural DEF IInv
  <2>5. CASE x = c
    BY <1>1, <1>4, <1>6, <2>1, <2>2, <2>3, <2>4, <2>5, JobsMove DEF IInv
  <2>6. CASE x # c
    BY <1>4, <1>6, <2>1, <2>2, <2>3, <2>4, <2>6, JobsMove, CountsNatural DEF IInv
  <2> QED
    BY <2>5, <2>6
<1>8. /\ \A x \in Client :
           refs'[x] = (refs[x] + 2 * One(x = old)) - (One(x = c) + One(x \in saveClients))
      /\ deferred' \in [Client -> Nat]
      /\ \A x \in Client : deferred'[x] = deferred[x] + One(x = c)
      /\ refs' \in [Client -> Int]
  BY <1>1, <1>2, CountsNatural DEF Swap, One, IInv, TypeOK
<1>9. Balance'
  <2>1. ASSUME NEW x \in Client
        PROVE  Owed(x)' =
                 (Owed(x) + 2 * One(x = old)) - (One(x = c) + One(x \in saveClients))
    BY <1>1, <1>2, <1>3, <1>7, <1>8, CountsNatural DEF Owed, One
  <2>2. \A x \in Client : Owed(x) \in Nat
    BY CountsNatural DEF Owed, One
  <2> QED
    BY <1>1, <1>8, <2>1, <2>2, CountsNatural DEF IInv, Balance, One
<1>10. TypeOK' /\ HandsMatch'
  <2>1. \A x \in Client : CritterJobs(x)' \in Nat
    BY <1>7, CountsNatural
  <2>2. refs' \in [Client -> Nat]
    BY <1>8, <1>9, <2>1, RefsNatural
  <2>3. connected' \subseteq Client /\ saveClients' \subseteq Client
    BY <1>1, <1>2 DEF IInv, TypeOK
  <2>4. /\ marked' \in BOOLEAN /\ overlap' \in BOOLEAN /\ player' \in Client \cup {NoClient}
        /\ early' \subseteq Client /\ undefined' \in BOOLEAN
    BY <1>1 DEF IInv, TypeOK
  <2> QED
    BY <1>3, <1>6, <1>8, <2>2, <2>3, <2>4 DEF TypeOK, ThreadsOK, ClientType
<1>11. JobsMatch'
  BY <1>1, <1>2, <1>4, <1>7 DEF IInv, JobsMatch, One
<1>12. /\ \A u \in Thread : pc[u] # "idle" => hand[u] \in Client
       /\ connected \subseteq Client
  BY InHand DEF IInv, TypeOK
<1>13. Newcomers'
  BY <1>6, <1>7, <1>12 DEF IInv, Newcomers, Becomes
<1>14. Untried'
  BY <1>1, <1>2, <1>3, <1>6, <1>7 DEF IInv, Untried, Becomes
<1>15. Creators'
  <2>1. ASSUME NEW u \in Thread \ {t}, Creating(u)
        PROVE  hand[u] \in Client /\ hand[u] # c
    BY <1>4, <2>1, CreatorInHand
  <2> QED
    BY <1>3, <1>6, <2>1 DEF IInv, Creators, Creating, Becomes
<1>16. AvatarValid' /\ Removing'
  BY <1>1, <1>2, <1>3, <1>4, <1>6, <1>12 DEF IInv, AvatarValid, Removing, Becomes
<1>17. OneAvatar'
  BY <1>1, <1>6, <1>7 DEF IInv, OneAvatar, Creating, Becomes
<1>18. FoundHeld'
  <2>1. overlap \/ marked' \/ \A u \in Thread : pc[u] # "load"
    BY <1>1, <1>2, SessionAssumption DEF IInv, OneAvatar, Creating
  <2>2. \A x \in Client :
          /\ deferred[x] > 0 => deferred'[x] > 0
          /\ client'[x].canBeRemoved = client[x].canBeRemoved
    BY <1>2, <1>3, <1>8, CountsNatural DEF One
  <2> QED
    BY <1>1, <1>6, <2>1, <2>2 DEF IInv, FoundHeld, Becomes
<1>19. DueAreOffline'
  BY <1>1, <1>2, <1>3, <1>12 DEF IInv, DueAreOffline
<1>20. OnlinePlays'
  <2>1. CASE overlap \/ marked'
    BY <1>1, <2>1 DEF OnlinePlays
  <2>2. CASE ~overlap /\ ~marked'
    <3>1. ~marked /\ old = player
      BY <1>1, <1>2, <2>2
    <3>2. ASSUME NEW u \in Thread \ {t}, pc[u] = "greet"
          PROVE  hand[u] \in Client \ {c, old}
      BY <1>4, <1>12, <3>2 DEF ClientStages, Stages
    <3> QED
      BY <1>1, <1>3, <1>6, <1>12, <2>2, <3>1, <3>2 DEF IInv, OnlinePlays, Becomes
  <2> QED
    BY <2>1, <2>2
<1> QED
  BY <1>9, <1>10, <1>11, <1>13, <1>14, <1>15, <1>16, <1>17, <1>18, <1>19, <1>20 DEF IInv

-----------------------------------------------------------------------------
LEMMA InitIInv == Init => IInv
<1> SUFFICES ASSUME Init PROVE IInv
  OBVIOUS
<1>1. /\ client = [c \in Client |-> NewClient] /\ refs = [c \in Client |-> 0]
      /\ deferred = [c \in Client |-> 0] /\ connected = {} /\ player = NoClient
      /\ saveClients = {} /\ clientJobs = [c \in Client |-> 0]
      /\ critterJobs = [c \in Client |-> 0] /\ pc = [t \in Thread |-> "idle"]
      /\ hand = [t \in Thread |-> NoClient] /\ found = [t \in Thread |-> NoClient]
      /\ overlap = FALSE /\ marked = FALSE /\ early = {} /\ undefined = FALSE
  BY DEF Init
<1>2. TypeOK
  <2>1. Locks!TypeOK
    BY DEF Init, Locks!Init, Locks!TypeOK
  <2> QED
    BY <1>1, <2>1 DEF TypeOK, NewClient, Stages
<1>3. ASSUME NEW c \in Client
      PROVE  ClientJobs(c) = 0 /\ CritterJobs(c) = 0
  <2>1. /\ Holders(hand, pc, c, ClientStages) = {}
        /\ Holders(hand, pc, c, {"critter", "remove"}) = {}
    BY <1>1, SessionAssumption DEF Holders
  <2>2. clientJobs[c] = 0 /\ critterJobs[c] = 0
    BY <1>1
  <2>3. /\ ClientJobs(c) =
             clientJobs[c] + Cardinality(Holders(hand, pc, c, ClientStages))
        /\ CritterJobs(c) =
             critterJobs[c] + Cardinality(Holders(hand, pc, c, {"critter", "remove"}))
    BY <1>2, JobsCount
  <2>4. Cardinality({}) = 0
    BY FS_EmptySet
  <2> QED
    BY <2>1, <2>2, <2>3, <2>4
<1>4. JobsMatch /\ Balance
  <2>1. \A c \in Client : client[c].sock = FALSE /\ deferred[c] = 0 /\ refs[c] = 0
    BY <1>1 DEF NewClient
  <2> QED
    BY <1>1, <1>3, <2>1, SessionAssumption DEF JobsMatch, Balance, Owed, One
<1>5. HandsMatch /\ Newcomers /\ Untried /\ Creators /\ Removing
  BY <1>1, <1>3 DEF HandsMatch, Newcomers, Untried, Creators, Creating, Removing
<1>6. AvatarValid /\ OneAvatar /\ FoundHeld /\ DueAreOffline /\ OnlinePlays
  BY <1>1, <1>3, SessionAssumption
     DEF AvatarValid, OneAvatar, Creating, FoundHeld, DueAreOffline, OnlinePlays
<1> QED
  BY <1>2, <1>4, <1>5, <1>6 DEF IInv

LEMMA StutterStep ==
  ASSUME IInv, UNCHANGED vars
  PROVE  IInv'
<1>1. /\ UNCHANGED <<client, refs, deferred, connected, player, saveClients>>
      /\ UNCHANGED <<clientJobs, critterJobs, pc, hand, found, claim, active>>
      /\ UNCHANGED <<overlap, marked, early, undefined>>
  BY DEF vars, memory, world, jobs, threads, locks, history
<1>2. Locks!TypeOK'
  BY <1>1 DEF IInv, TypeOK, Locks!TypeOK
<1> QED
  BY <1>1, <1>2, SameInvariant DEF IInv, TypeOK

LEMMA NextIInv ==
  ASSUME IInv, [Next]_vars
  PROVE  IInv'
<1>1. ASSUME NEW c \in Client, Net_Listen(c) \/ Shutdown(c) \/ ReleaseDeferred(c)
      PROVE  IInv'
  BY <1>1, NetListenStep, ShutdownStep, ReleaseDeferredStep
<1>2. ASSUME NEW t \in Thread, NEW c \in Client, PopClientJob(t, c) \/ PopCritterJob(t, c)
      PROVE  IInv'
  BY <1>2, PopStep
<1>3. ASSUME NEW t \in Thread, TakeBack(t)
      PROVE  IInv'
  BY <1>3, TakeBackStep
<1>4. ASSUME NEW t \in Thread, ClientJob(t)
      PROVE  IInv'
  BY <1>4, DisconnectClientStep, QuietActions, FindPlayerStep, FindNoPlayerStep DEF ClientJob
<1>5. ASSUME NEW t \in Thread, Login(t)
      PROVE  IInv'
  BY <1>5, QuietActions, SwapStep, LoadClientStep, LoadFailsStep, AddCritterStep, LoginDoneStep,
     UseDeletedStep
     DEF Login
<1>6. ASSUME NEW t \in Thread, CritterJob(t)
      PROVE  IInv'
  BY <1>6, RemoveClientStep, EraseCritterStep, RemoveStrangerStep, QuietActions
     DEF CritterJob
<1>7. CASE SaveWorld
  BY <1>7, SaveWorldStep
<1>8. CASE UNCHANGED vars
  BY <1>8, StutterStep
<1> QED
  BY <1>1, <1>2, <1>3, <1>4, <1>5, <1>6, <1>7, <1>8 DEF Next, Step

LEMMA Invariance == Spec => []IInv
<1>1. IInv /\ [Next]_vars => IInv'
  BY NextIInv
<1> QED
  BY <1>1, InitIInv, PTL DEF Spec

-----------------------------------------------------------------------------
(***************************************************************************)
(* No reference counter ever becomes negative, in any interleaving of      *)
(* logins, disconnections and removals (ClientSession's TypeOK).           *)
(***************************************************************************)
THEOREM SessionTypeCorrect == Spec => []TypeOK
<1>1. IInv => TypeOK
  BY DEF IInv
<1> QED
  BY <1>1, Invariance, PTL

(***************************************************************************)
(* Whatever login hands its job over to whatever avatar (Server.cpp:731),  *)
(* every connection has exactly one job, and the avatar in the game too.   *)
(***************************************************************************)
THEOREM OneJobEach == Spec => []JobsMatch
<1>1. IInv => JobsMatch
  BY DEF IInv
<1> QED
  BY <1>1, Invariance, PTL

LEMMA BalanceImplies == IInv => RefsBalance
<1> SUFFICES ASSUME IInv, NEW c \in Client
             PROVE  LET owed == deferred[c] + One(c \in connected) + One(client[c].sock)
                                + One(c = player) + One(c \in saveClients) IN
                    IF overlap THEN refs[c] >= owed ELSE refs[c] = owed
  BY DEF RefsBalance
<1>1. /\ c = player => CritterJobs(c) = 1
      /\ overlap \/ (c # player => CritterJobs(c) = 0)
      /\ CritterJobs(c) \in Nat
  BY CountsNatural DEF IInv, JobsMatch, OneAvatar
<1>2. One(c = player) <= CritterJobs(c) /\ (overlap \/ One(c = player) = CritterJobs(c))
  BY <1>1 DEF One
<1>3. refs[c] >= Owed(c) /\ (overlap \/ refs[c] = Owed(c))
  BY DEF IInv, Balance
<1> QED
  BY <1>1, <1>2, <1>3, CountsNatural DEF Owed, One

(***************************************************************************)
(* The reference counter of a Client is what its places owe it, and it is  *)
(* only more than that when two logins have created an avatar at once.     *)
(***************************************************************************)
THEOREM ReferencesBalance == Spec => []RefsBalance
BY BalanceImplies, Invariance, PTL

LEMMA HeldImplies == IInv => NoDangling
<1> SUFFICES ASSUME IInv PROVE NoDangling
  OBVIOUS
<1>1. ASSUME NEW c \in Client, refs[c] = 0
      PROVE  ClientJobs(c) + CritterJobs(c) = 0
  <2>1. Owed(c) <= 0
    BY <1>1 DEF IInv, Balance
  <2>2. CritterJobs(c) = 0 /\ c \notin connected
    BY <2>1, CountsNatural DEF Owed, One
  <2>3. ClientJobs(c) = 0
    BY <2>2 DEF IInv, JobsMatch, One
  <2> QED
    BY <2>2, <2>3
<1>2. ASSUME ~overlap, ~marked, NEW t \in Thread, found[t] \notin early, found[t] \in Client
      PROVE  refs[found[t]] > 0
  <2> DEFINE c == found[t]
  <2>1. c \in Client
    BY <1>2 DEF IInv, TypeOK
  <2>2. c = player \/ deferred[c] > 0 \/ c \in saveClients
    BY <1>2, SessionAssumption DEF IInv, HandsMatch, FoundHeld
  <2>3. c = player => CritterJobs(c) = 1
    BY <2>1 DEF IInv, JobsMatch
  <2>4. Owed(c) > 0
    BY <2>1, <2>2, <2>3, CountsNatural DEF Owed, One
  <2>5. Owed(c) \in Nat /\ refs[c] >= Owed(c) /\ refs[c] \in Nat
    BY <2>1, CountsNatural DEF IInv, Balance, Owed, One
  <2> QED
    BY <2>4, <2>5
<1> QED
  BY <1>1, <1>2 DEF NoDangling, Alive

(***************************************************************************)
(* Nothing points to a Client that has been deleted: neither a job, nor a  *)
(* login that has looked up an avatar and locks it afterwards              *)
(* (CritterManager.cpp:777), but for the cases that NoDangling names.      *)
(***************************************************************************)
THEOREM NothingDangles == Spec => []NoDangling
BY HeldImplies, Invariance, PTL

LEMMA OnlineImplies == IInv => PlaysTheAvatar
<1>1. ASSUME IInv, NEW c \in connected, client[c].state = "playing", ~client[c].offline,
             ~overlap, ~marked
      PROVE  player = c /\ ~client[c].notValid
  <2>1. player = c /\ c \in Client
    BY <1>1 DEF IInv, OnlinePlays, TypeOK
  <2> QED
    BY <1>1, <2>1 DEF IInv, AvatarValid
<1> QED
  BY <1>1 DEF PlaysTheAvatar

(***************************************************************************)
(* Whoever was sent the map plays the avatar that is in the game, across   *)
(* disconnections, removals and logins at the same time, but for the two   *)
(* cases that PlaysTheAvatar names.                                        *)
(***************************************************************************)
THEOREM OnlineIsTheAvatar == Spec => []PlaysTheAvatar
BY OnlineImplies, Invariance, PTL
=============================================================================
