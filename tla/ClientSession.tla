---------------------------- MODULE ClientSession ----------------------------
(***************************************************************************)
(* The sessions of one account, from the connection to the removal of its  *)
(* avatar: Net_Listen, NetIO_Event, the jobs JOB_CLIENT and JOB_CRITTER of *)
(* Logic_Work, DisconnectClient and RemoveClient (Server.cpp), and         *)
(* Process_UserLogin (ServerClient.cpp), in the build with libevent.       *)
(*                                                                         *)
(* A connection is a Client object with a job.  The first login makes it   *)
(* the avatar of the account, with a second job; the avatar stays in the   *)
(* game when its connection ends, and a later login lends it its own       *)
(* socket and gives up its own Client.  The objects are counted: what      *)
(* points to a Client holds a reference, or gives it to the list of        *)
(* deferred releases.                                                      *)
(*                                                                         *)
(* A Client is allocated once: their number is the bound on connections.   *)
(* Of GameState, "playing" stands for STATE_TRANSFERRING, in which the     *)
(* client loads the map, and for STATE_PLAYING.  The object locks are      *)
(* those of ObjectOwnership, which ThreadSync implements.                  *)
(***************************************************************************)
EXTENDS Naturals, FiniteSets

CONSTANTS Client, Thread, NoClient

ASSUME SessionAssumption == NoClient \notin Client /\ IsFiniteSet(Thread)

VARIABLES
  client,      \* Sock, IsDisconnected, IsNotValid, CanBeRemoved, Id, GameState
  refs,        \* the reference counters, 0 for what is not allocated
  deferred,    \* references in the lists of deferred releases
  connected,   \* ConnectedClients
  player,      \* what allCritters holds at the account's id
  saveClients, \* SaveClients
  clientJobs, critterJobs,  \* the jobs of the Client in the deque
  pc, hand,    \* what each thread does, and with the Client of which job
  found,       \* the other Client it has a pointer to
  claim, active,            \* of ObjectOwnership
  overlap,     \* whether two logins were creating the avatar at once
  marked,      \* whether somebody logged in to an avatar due for removal
  early,       \* history: what was released while a login had found it
  undefined    \* a deleted Client has been used: anything may follow

memory  == <<refs, deferred>>
world   == <<connected, player, saveClients>>
jobs    == <<clientJobs, critterJobs>>
threads == <<pc, hand, found>>
locks   == <<claim, active>>
history == <<overlap, marked, early, undefined>>
vars    == <<client, memory, world, jobs, threads, locks, history>>

Locks == INSTANCE ObjectOwnership WITH Object <- Client

Stages == {"idle", "client", "swap", "load", "enter", "enterSaved", "greet",
           "critter", "remove"}

ClientStages == Stages \ {"idle", "critter", "remove"}

NewClient == [sock |-> FALSE, offline |-> FALSE, notValid |-> FALSE,
              canBeRemoved |-> FALSE, id |-> FALSE, state |-> "none"]

Init ==
  /\ client = [c \in Client |-> NewClient]
  /\ refs = [c \in Client |-> 0] /\ deferred = [c \in Client |-> 0]
  /\ connected = {} /\ player = NoClient /\ saveClients = {}
  /\ clientJobs = [c \in Client |-> 0] /\ critterJobs = [c \in Client |-> 0]
  /\ pc = [t \in Thread |-> "idle"]
  /\ hand = [t \in Thread |-> NoClient] /\ found = [t \in Thread |-> NoClient]
  /\ Locks!Init
  /\ overlap = FALSE /\ marked = FALSE /\ early = {} /\ undefined = FALSE

One(b) == IF b THEN 1 ELSE 0

(***************************************************************************)
(* The counters when every Client of S has lost a reference and every one  *)
(* of A has got one.                                                       *)
(***************************************************************************)
Counted(S, A) == [c \in Client |-> (refs[c] + One(c \in A)) - One(c \in S)]

Goto(t, stage) == pc' = [pc EXCEPT ![t] = stage]

(***************************************************************************)
(* The job of the thread ends, and UnlockAll is called before the next.    *)
(***************************************************************************)
Done(t) ==
  /\ pc' = [pc EXCEPT ![t] = "idle"]
  /\ hand' = [hand EXCEPT ![t] = NoClient]
  /\ found' = [found EXCEPT ![t] = NoClient]
  /\ Locks!ReleaseAll(t)

PutClientJob(c) ==
  /\ clientJobs' = [clientJobs EXCEPT ![c] = @ + 1]
  /\ UNCHANGED critterJobs

-----------------------------------------------------------------------------
(***************************************************************************)
(* The network threads.                                                    *)
(***************************************************************************)
(* Faulty: the argument of the network events has no reference.            *)
Net_ListenUncounted(c) ==
  /\ refs[c] = 0 /\ client[c] = NewClient
  /\ client' = [client EXCEPT ![c].sock = TRUE, ![c].state = "connected"]
  /\ refs' = [refs EXCEPT ![c] = 1]
  /\ connected' = connected \cup {c}
  /\ PutClientJob(c)
  /\ UNCHANGED <<deferred, player, saveClients, threads, locks, history>>

(* Net_Listen: one reference is for ConnectedClients, one for the argument *)
(* of the network events.                                                  *)
Net_Listen(c) ==
  /\ refs[c] = 0 /\ client[c] = NewClient
  /\ client' = [client EXCEPT ![c].sock = TRUE, ![c].state = "connected"]
  /\ refs' = [refs EXCEPT ![c] = 2]
  /\ connected' = connected \cup {c}
  /\ PutClientJob(c)
  /\ UNCHANGED <<deferred, player, saveClients, threads, locks, history>>

(* Faulty: Shutdown of a socket that is closed already.                    *)
ShutdownAgain(c) ==
  /\ client[c].state # "none"
  /\ client' = [client EXCEPT ![c].sock = FALSE]
  /\ refs' = Counted({c}, {})
  /\ UNCHANGED <<deferred, world, jobs, threads, locks, history>>

(* The peer is gone or an operation fails (NetIO_Event), or there is       *)
(* nothing more to send to a Client that is offline, which JOB_CLIENT also *)
(* looks for; on a flood or failed compression the Client is disconnected  *)
(* at the same time.                                                       *)
Shutdown(c) ==
  /\ client[c].sock
  /\ \E off \in {client[c].offline, TRUE} :
       client' = [client EXCEPT ![c].sock = FALSE, ![c].offline = off]
  /\ refs' = Counted({c}, {})
  /\ UNCHANGED <<deferred, world, jobs, threads, locks, history>>

-----------------------------------------------------------------------------
(***************************************************************************)
(* Logic_Work: a job is popped and its object is locked.                   *)
(***************************************************************************)
PopClientJob(t, c) ==
  /\ pc[t] = "idle" /\ clientJobs[c] > 0
  /\ clientJobs' = [clientJobs EXCEPT ![c] = @ - 1]
  /\ hand' = [hand EXCEPT ![t] = c]
  /\ Goto(t, "client")
  /\ Locks!Request(t, c)
  /\ UNCHANGED <<client, memory, world, critterJobs, found, history>>

PopCritterJob(t, c) ==
  /\ pc[t] = "idle" /\ critterJobs[c] > 0
  /\ critterJobs' = [critterJobs EXCEPT ![c] = @ - 1]
  /\ hand' = [hand EXCEPT ![t] = c]
  /\ Goto(t, "critter")
  /\ Locks!Request(t, c)
  /\ UNCHANGED <<client, memory, world, clientJobs, found, history>>

(* What the thread waits for, or has lent to others, it owns again.        *)
TakeBack(t) ==
  /\ Locks!Activate(t)
  /\ UNCHANGED <<client, memory, world, jobs, threads, history>>

IsAvatar(c) == client[c].id /\ player = c

In(t, stage) == pc[t] = stage /\ active[t]

-----------------------------------------------------------------------------
(***************************************************************************)
(* JOB_CLIENT.                                                             *)
(***************************************************************************)
(* The connection has ended: DisconnectClient has the avatar saved, if the *)
(* Client is one, and the job is not pushed back.                          *)
DisconnectClient(t) ==
  LET c == hand[t] IN
  /\ In(t, "client") /\ ~client[c].sock
  /\ connected' = connected \ {c}
  /\ deferred' = [deferred EXCEPT ![c] = @ + 1]
  /\ IF IsAvatar(c)
     THEN saveClients' = {c} /\ refs' = Counted(saveClients, {c})
     ELSE UNCHANGED <<saveClients, refs>>
  /\ Done(t)
  /\ UNCHANGED <<client, player, jobs, history>>

(* Process: nothing is read from a Client that is offline or not valid.    *)
Heard(t) ==
  /\ In(t, "client")
  /\ LET c == client[hand[t]] IN c.sock /\ ~c.offline /\ ~c.notValid

(* No message, or one that does not concern the session.                   *)
ProcessNet(t) ==
  LET c == hand[t] IN
  /\ In(t, "client") /\ client[c].sock
  /\ PutClientJob(c) /\ Done(t)
  /\ UNCHANGED <<client, memory, world, history>>

(* The message is wrong, or the Client asks for nothing for too long.      *)
Disconnect(t) ==
  LET c == hand[t] IN
  /\ Heard(t)
  /\ client' = [client EXCEPT ![c].offline = TRUE]
  /\ PutClientJob(c) /\ Done(t)
  /\ UNCHANGED <<memory, world, history>>

-----------------------------------------------------------------------------
(***************************************************************************)
(* Process_UserLogin, after name and password.                             *)
(***************************************************************************)
Creating(t) == pc[t] \in {"load", "enter", "enterSaved"}

(* GetPlayer finds the avatar under crLocker and locks it afterwards.      *)
FindPlayer(t) ==
  /\ Heard(t) /\ client[hand[t]].state = "connected"
  /\ player # NoClient
  /\ found' = [found EXCEPT ![t] = player]
  /\ Goto(t, "swap")
  /\ Locks!Request(t, player)
  /\ UNCHANGED <<client, memory, world, jobs, hand, history>>

(* There is no avatar: its data is looked for among those to be saved.     *)
FindNoPlayer(t) ==
  /\ Heard(t) /\ client[hand[t]].state = "connected"
  /\ player = NoClient
  /\ client' = [client EXCEPT ![hand[t]].id = TRUE]
  /\ found' = [found EXCEPT ![t] = IF saveClients = {} THEN NoClient
                                    ELSE CHOOSE c \in saveClients : TRUE]
  /\ Goto(t, "load")
  /\ overlap' = (overlap \/ \E u \in Thread : Creating(u))
  /\ UNCHANGED <<memory, world, jobs, hand, locks, marked, early, undefined>>

(* Faulty: whether the avatar is online is only asked of its socket.       *)
MaySwapOnline(c, old) ==
  c # old /\ c \in connected /\ client[c].sock /\ ~client[old].sock

(* What the login has found is still there. *)
Alive(t) == \A c \in Client : found[t] = c => refs[c] > 0

(* It has been deleted: the lock that is waited for, its fields and its    *)
(* data are read from memory that is something else.                       *)
UseDeleted(t) ==
  /\ pc[t] \in {"swap", "load"} /\ ~Alive(t)
  /\ undefined' = TRUE
  /\ UNCHANGED <<client, memory, world, jobs, threads, locks, overlap, marked, early>>

(* What has to be true to take over the avatar: it has no connection, and  *)
(* the new one is still there.                                             *)
MaySwap(c, old) ==
  /\ c # old /\ old \notin connected /\ c \in connected
  /\ client[c].sock /\ ~client[old].sock

Refuse(t) ==
  LET c == hand[t] IN
  /\ In(t, "swap") /\ Alive(t) /\ ~MaySwap(c, found[t])
  /\ client' = [client EXCEPT ![c].offline = TRUE]
  /\ PutClientJob(c) /\ Done(t)
  /\ UNCHANGED <<memory, world, history>>

(* The avatar gets the socket, the job and the place in ConnectedClients;  *)
(* it is sent the map if it is not offline (Send_LoadMap).                 *)
Swap(t) ==
  LET c == hand[t]
      old == found[t] IN
  /\ In(t, "swap") /\ Alive(t) /\ MaySwap(c, old)
  /\ client' = [client EXCEPT
       ![c] = [@ EXCEPT !.sock = FALSE, !.offline = client[old].offline,
                        !.notValid = TRUE, !.state = "none"],
       ![old] = [@ EXCEPT !.sock = TRUE, !.offline = client[c].offline,
                          !.notValid = FALSE,
                          !.state = IF client[c].offline THEN "connected"
                                                         ELSE "playing"]]
  /\ connected' = (connected \ {c}) \cup {old}
  /\ saveClients' = {}
  /\ refs' = [x \in Client |-> (refs[x] + 2 * One(x = old))
                               - (One(x = c) + One(x \in saveClients))]
  /\ deferred' = [deferred EXCEPT ![c] = @ + 1]
  /\ marked' = (marked \/ client[old].canBeRemoved)
  /\ PutClientJob(old) /\ Done(t)
  /\ UNCHANGED <<player, overlap, early, undefined>>

(* The data is copied from the saved Client, or read from the file.        *)
LoadClient(t) ==
  /\ In(t, "load") /\ Alive(t)
  /\ Goto(t, IF found[t] = NoClient THEN "enter" ELSE "enterSaved")
  /\ found' = [found EXCEPT ![t] = NoClient]
  /\ UNCHANGED <<client, memory, world, jobs, hand, locks, history>>

(* The file cannot be read, or there is no place on the map.               *)
LoadFails(t) ==
  LET c == hand[t] IN
  /\ active[t] /\ (Creating(t) /\ (pc[t] = "load" => found[t] = NoClient))
  /\ client' = [client EXCEPT ![c].offline = TRUE, ![c].id = FALSE]
  /\ PutClientJob(c) /\ Done(t)
  /\ UNCHANGED <<memory, world, history>>

(* The Client becomes the avatar; allCritters.insert keeps an entry that   *)
(* is there already.  Then a script greets it, and until that has its turn *)
(* (Script::BeginExecution) the objects are lent.                          *)
AddCritter(t) ==
  LET c == hand[t]
      unsaved == IF pc[t] = "enterSaved" THEN saveClients ELSE {} IN
  /\ In(t, "enter") \/ In(t, "enterSaved")
  /\ saveClients' = saveClients \ unsaved
  /\ refs' = Counted(unsaved, {c})
  /\ player' = IF player = NoClient THEN c ELSE player
  /\ critterJobs' = [critterJobs EXCEPT ![c] = @ + 1]
  /\ Goto(t, "greet") /\ Locks!Pause(t)
  /\ UNCHANGED <<client, deferred, connected, clientJobs, hand, found, history>>

LoginDone(t) ==
  LET c == hand[t] IN
  /\ In(t, "greet")
  /\ client' = [client EXCEPT ![c].state = IF client[c].offline THEN @ ELSE "playing"]
  /\ PutClientJob(c) /\ Done(t)
  /\ UNCHANGED <<memory, world, history>>

-----------------------------------------------------------------------------
(***************************************************************************)
(* JOB_CRITTER of an avatar.                                               *)
(***************************************************************************)
PutCritterJob(c) ==
  /\ critterJobs' = [critterJobs EXCEPT ![c] = @ + 1]
  /\ UNCHANGED clientJobs

(* RemoveClient up to the scripts of the event, for whose turn the avatar  *)
(* is lent.                                                                *)
RemoveClient(t) ==
  LET c == hand[t] IN
  /\ In(t, "critter") /\ client[c].canBeRemoved /\ IsAvatar(c)
  /\ Goto(t, "remove") /\ Locks!Pause(t)
  /\ UNCHANGED <<client, memory, world, jobs, hand, found, history>>

(* The rest of RemoveClient: the avatar leaves the game and is to be       *)
(* saved; the job finds it not valid and is not pushed back.               *)
EraseCritter(t) ==
  LET c == hand[t] IN
  /\ In(t, "remove")
  /\ saveClients' = {c} /\ refs' = Counted(saveClients, {c})
  /\ player' = NoClient
  /\ client' = [client EXCEPT ![c].notValid = TRUE]
  /\ deferred' = [deferred EXCEPT ![c] = @ + 1]
  /\ Done(t)
  /\ UNCHANGED <<connected, jobs, history>>

(* A Client that is not the one in allCritters only becomes not valid; the *)
(* job of one that is not valid is not pushed back.                        *)
RemoveStranger(t) ==
  LET c == hand[t] IN
  /\ In(t, "critter")
  /\ IF client[c].canBeRemoved THEN ~IsAvatar(c) ELSE client[c].notValid
  /\ client' = [client EXCEPT ![c].notValid = TRUE]
  /\ Done(t)
  /\ UNCHANGED <<memory, world, jobs, history>>

Processed(t) ==
  /\ In(t, "critter")
  /\ LET c == client[hand[t]] IN ~c.canBeRemoved /\ ~c.notValid

(* ProcessCritter: nothing happens to the session ...                      *)
ProcessCritter(t) ==
  /\ Processed(t)
  /\ PutCritterJob(hand[t]) /\ Done(t)
  /\ UNCHANGED <<client, memory, world, history>>

(* ... a ping was not answered (PingClient) ...                            *)
PingFails(t) ==
  LET c == hand[t] IN
  /\ Processed(t) /\ client[c].state = "playing" /\ ~client[c].offline
  /\ client' = [client EXCEPT ![c].offline = TRUE]
  /\ PutCritterJob(c) /\ Done(t)
  /\ UNCHANGED <<memory, world, history>>

(* Faulty: the avatar need not be offline.                                 *)
RemoveFromGameOnline(t) ==
  /\ Processed(t)
  /\ client' = [client EXCEPT ![hand[t]].canBeRemoved = TRUE]
  /\ PutCritterJob(hand[t]) /\ Done(t)
  /\ UNCHANGED <<memory, world, history>>

(* ... or an avatar that is offline for long enough, alive and not in      *)
(* battle is kicked from the game.                                         *)
RemoveFromGame(t) ==
  LET c == hand[t] IN
  /\ Processed(t) /\ client[c].offline
  /\ client' = [client EXCEPT ![c].canBeRemoved = TRUE]
  /\ PutCritterJob(c) /\ Done(t)
  /\ UNCHANGED <<memory, world, history>>

-----------------------------------------------------------------------------
(* Faulty: the logic threads go on.                                        *)
SaveWorldAnytime ==
  /\ saveClients # {}
  /\ refs' = Counted(saveClients, {})
  /\ saveClients' = {}
  /\ UNCHANGED <<client, deferred, connected, player, jobs, threads, locks, history>>

(***************************************************************************)
(* SaveWorld, while the logic threads stand still, copies and releases the *)
(* Clients to save.                                                        *)
(***************************************************************************)
SaveWorld ==
  /\ saveClients # {} /\ \A t \in Thread : pc[t] = "idle"
  /\ refs' = Counted(saveClients, {})
  /\ saveClients' = {}
  /\ UNCHANGED <<client, deferred, connected, player, jobs, threads, locks, history>>

(* Job::ProcessDeferredReleasing.  A reference may be released when its    *)
(* cycle is over by two, but the cycles are those of the thread that has   *)
(* looped last: another may still be in the job in which it has found the  *)
(* Client.  (The cycles are those of DeferredRelease.)                     *)
ReleaseDeferred(c) ==
  /\ deferred[c] > 0
  /\ deferred' = [deferred EXCEPT ![c] = @ - 1]
  /\ refs' = Counted({c}, {})
  /\ early' = IF \E t \in Thread : found[t] = c THEN early \cup {c} ELSE early
  /\ UNCHANGED <<client, world, jobs, threads, locks, overlap, marked, undefined>>

ClientJob(t) ==
  \/ DisconnectClient(t) \/ ProcessNet(t) \/ Disconnect(t)
  \/ FindPlayer(t) \/ FindNoPlayer(t)

Login(t) ==
  \/ Refuse(t) \/ Swap(t)
  \/ LoadClient(t) \/ LoadFails(t) \/ AddCritter(t) \/ LoginDone(t)
  \/ UseDeleted(t)

CritterJob(t) ==
  \/ RemoveClient(t) \/ EraseCritter(t) \/ RemoveStranger(t)
  \/ ProcessCritter(t) \/ PingFails(t) \/ RemoveFromGame(t)

Step ==
  \/ \E c \in Client : Net_Listen(c) \/ Shutdown(c) \/ ReleaseDeferred(c)
  \/ \E t \in Thread, c \in Client : PopClientJob(t, c) \/ PopCritterJob(t, c)
  \/ \E t \in Thread :
       TakeBack(t) \/ ClientJob(t) \/ Login(t) \/ CritterJob(t)
  \/ SaveWorld

Next == ~undefined /\ Step

Spec == Init /\ [][Next]_vars

-----------------------------------------------------------------------------
ClientJobs(c) ==
  clientJobs[c] + Cardinality({t \in Thread : hand[t] = c /\ pc[t] \in ClientStages})

CritterJobs(c) ==
  critterJobs[c] + Cardinality({t \in Thread : hand[t] = c /\ pc[t] \in {"critter", "remove"}})

(***************************************************************************)
(* The types of the variables: no reference is given up twice.             *)
(***************************************************************************)
TypeOK ==
  /\ client \in [Client -> [sock : BOOLEAN, offline : BOOLEAN, notValid : BOOLEAN,
                            canBeRemoved : BOOLEAN, id : BOOLEAN,
                            state : {"none", "connected", "playing"}]]
  /\ refs \in [Client -> Nat] /\ deferred \in [Client -> Nat]
  /\ connected \subseteq Client /\ saveClients \subseteq Client
  /\ player \in Client \cup {NoClient}
  /\ clientJobs \in [Client -> Nat] /\ critterJobs \in [Client -> Nat]
  /\ pc \in [Thread -> Stages]
  /\ hand \in [Thread -> Client \cup {NoClient}]
  /\ found \in [Thread -> Client \cup {NoClient}]
  /\ Locks!TypeOK
  /\ overlap \in BOOLEAN /\ marked \in BOOLEAN
  /\ early \subseteq Client /\ undefined \in BOOLEAN

(***************************************************************************)
(* Every connection has one job, in the deque or in the hand of a thread,  *)
(* also when the job changes its Client in the middle (Server.cpp:731);    *)
(* nobody else has one.  Every avatar in the game has one job.             *)
(***************************************************************************)
JobsMatch ==
  \A c \in Client :
    /\ ClientJobs(c) = One(c \in connected)
    /\ CritterJobs(c) <= 1
    /\ c = player => CritterJobs(c) = 1

(***************************************************************************)
(* The counters: a Client has a reference for its place in                 *)
(* ConnectedClients, for its socket, for the game, for the list of those   *)
(* to save and for every deferred release, and no other, unless two logins *)
(* have created two avatars, whose reference for the game is never given   *)
(* back.                                                                   *)
(***************************************************************************)
RefsBalance ==
  \A c \in Client :
    LET owed == deferred[c] + One(c \in connected) + One(client[c].sock)
                + One(c = player) + One(c \in saveClients) IN
    IF overlap THEN refs[c] >= owed ELSE refs[c] = owed

(***************************************************************************)
(* No job points to a Client that has been deleted, and no login does,     *)
(* unless a reference was released too early, while the login had found    *)
(* the Client; or two logins copy from the same saved Client; or somebody  *)
(* logs in to an avatar that has left the game already and so clears the   *)
(* account's entry of SaveClients, which is that of a later avatar and is  *)
(* just copied.                                                            *)
(***************************************************************************)
NoDangling ==
  /\ \A c \in Client : refs[c] = 0 => ClientJobs(c) + CritterJobs(c) = 0
  /\ overlap \/ marked \/ \A t \in Thread : found[t] \in early \/ Alive(t)

(***************************************************************************)
(* A connection that has been sent its map plays the avatar of the game,   *)
(* and the avatar is in the game, whatever other connections of the        *)
(* account tried in between: unless two logins created an avatar at once   *)
(* (GetPlayer is not called again before AddCritter), or somebody logged   *)
(* in to an avatar that was already due for removal (CanBeRemoved is never *)
(* taken back, and Process_UserLogin does not look at it).                 *)
(***************************************************************************)
PlaysTheAvatar ==
  \A c \in connected :
    /\ client[c].sock /\ ~client[c].offline
    /\ client[c].state = "playing"
    => (player = c /\ ~client[c].notValid) \/ overlap \/ marked
=============================================================================
