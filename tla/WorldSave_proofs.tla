-------------------------- MODULE WorldSave_proofs --------------------------
(***************************************************************************)
(* Proofs about WorldSave, for any number of accounts, saves and crashes,  *)
(* any sizes of the worlds and of the buffers: no file is ever torn that   *)
(* no crash has torn, the last world is loaded, and the state of no client *)
(* who leaves is forgotten.                                                *)
(*                                                                         *)
(* The invariant has three parts: how SaveWorld and Dump_Work take turns,  *)
(* where the data of each client are, and what the buffers and the files   *)
(* of the world hold.                                                      *)
(***************************************************************************)
EXTENDS WorldSave, FiniteSetTheorems, SequenceTheorems, NaturalsInduction, TLAPS

USE ClientAssumption, SizeAssumption

-----------------------------------------------------------------------------
(***************************************************************************)
(* The turns.  With the manager: nobody has anything to do, SaveWorld      *)
(* collects, it has woken Dump_Work, Dump_Work writes.  Meanwhile SaveWorld*)
(* may wait again.                                                         *)
(***************************************************************************)
Idle ==
  endAllowed /\ ~beginAllowed /\ dump = "wait" /\ saving \in {"no", "wait"}
Collecting ==
  /\ ~endAllowed /\ ~beginAllowed /\ dump = "wait"
  /\ saving \in {"world", "clients", "awake"}
Woken ==
  /\ ~endAllowed /\ beginAllowed /\ dump \in {"wait", "disallow"}
  /\ saving \in {"no", "wait"}
Writing ==
  /\ ~endAllowed /\ ~beginAllowed
  /\ dump \in {"open", "write", "close", "client", "fill", "erase"}
  /\ saving \in {"no", "wait"}

\* Without the manager SaveWorld does everything.
Alone ==
  /\ endAllowed /\ ~beginAllowed
  /\ \/ dump = "wait" /\ saving \in {"no", "world", "clients"}
     \/ dump \in {"open", "write", "close", "client", "fill"} /\ saving = "write"

Turns ==
  /\ manager \in BOOLEAN
  /\ server \in {"run", "last", "off"}
  /\ epoch \in 1..MaxSaves + 1
  /\ saving \in {"wait", "world", "clients"} => epoch <= MaxSaves
  /\ IF manager THEN Idle \/ Collecting \/ Woken \/ Writing ELSE Alone
  /\ server = "off" => endAllowed /\ dump = "wait" /\ saving = "no"

Flags == beginAllowed \in BOOLEAN /\ endAllowed \in BOOLEAN

-----------------------------------------------------------------------------
(***************************************************************************)
(* The clients.                                                            *)
(***************************************************************************)
Entry == [client : Client, data : DataRecord]
FileData == {NoFile, Torn} \cup DataRecord
History ==
  [left : [Client -> FileData], cut : SUBSET [file : {"world", "client"}, of : Client \cup Nat],
   last : Nat, wrapped : BOOLEAN, deleted : SUBSET Client, failed : BOOLEAN]

ClientTypes ==
  /\ place \in [Client -> {"online", "offline", "out", "gone"}]
  /\ data \in [Client -> DataRecord]
  /\ saveClients \subseteq Client
  /\ clientBuffer \in Seq(Entry)
  /\ next \in Nat
  /\ clientFile \in [Client -> FileData]
  /\ history \in History
  /\ crashes \in Nat

\* Each client is collected once, and written once.
Cursor ==
  /\ \A i, j \in DOMAIN clientBuffer :
       clientBuffer[i].client = clientBuffer[j].client => i = j
  /\ manager /\ dump = "close" => next = 1
  /\ dump \in {"client", "fill"} => next \in 1..Len(clientBuffer) + 1
  /\ dump = "fill" => next <= Len(clientBuffer)

\* What has been collected of c, or else its file, is v.
Saved(c, v) ==
  IF Pending(c) = {} THEN clientFile[c] = v
  ELSE \E i \in Pending(c) : clientBuffer[i].data = v

Kept(c) ==
  server # "off" /\ place[c] = "out" =>
    IF c \in saveClients THEN data[c] = history.left[c] ELSE Saved(c, history.left[c])

\* What the last save has collected.
LastCollected ==
  server = "last" /\ (saving \in {"awake", "write"} \/ (saving = "no" /\ ~history.failed))

Clients ==
  /\ ClientTypes
  /\ Cursor
  /\ server = "off" => saveClients = {}
  /\ \A c \in Client : place[c] = "online" => c \notin saveClients
  /\ \A c \in Client : Kept(c)
  /\ LastCollected =>
       saveClients = {} /\ \A c \in Client : place[c] = "online" => Saved(c, data[c])

-----------------------------------------------------------------------------
(***************************************************************************)
(* The world.                                                              *)
(***************************************************************************)
WorldTypes ==
  /\ items \in [Client -> 0..MaxSaves + 1]
  /\ buffers \in BufferRecord
  /\ world \in WorldRecord
  /\ erase \subseteq 1..MaxIndex
  /\ index \in 0..MaxIndex
  /\ worldFile \in [1..MaxIndex + 1 -> {NoFile} \cup WorldRecord]

(***************************************************************************)
(* The first n bytes of the world of save e are in the buffers b.          *)
(***************************************************************************)
Filled(b, n, e) ==
  /\ b \in BufferRecord
  /\ b.count \in 1..Len(b.physical)
  /\ (b.count - 1) * BufferSize + (BufferSize - b.free) = n
  /\ \A j \in 1..b.count, o \in 1..BufferSize :
       j < b.count \/ o <= BufferSize - b.free =>
         b.physical[j][o] = [epoch |-> e, at |-> (j - 1) * BufferSize + o]

Collected ==
  saving \in {"clients", "awake"} \/ beginAllowed \/ dump \in {"disallow", "open", "write"}

File == worldFile[index + 1]

BuffersFilled ==
  Collected =>
    /\ world.bytes = <<>> /\ world.size # 0 /\ world.epoch # 0
    /\ Filled(buffers, world.size, world.epoch)

FileWritten ==
  /\ dump = "write" =>
       LET k == IF manager THEN (next - 1) * BufferSize ELSE 0
       IN /\ File = [world EXCEPT !.bytes = Bytes(world.epoch, k)]
          /\ manager => next \in 1..buffers.count
  /\ WorldOpen /\ dump # "write" => File # NoFile /\ Whole(File)

OldErased ==
  /\ Collected \/ (manager /\ dump = "close") => {index, index + 1} \cap erase = {}
  /\ manager /\ dump \in {"client", "fill", "erase"} => index \notin erase

LastIs(i) ==
  IF history.last = 0 THEN i = 0
  ELSE i # 0 /\ worldFile[i] # NoFile /\ Whole(worldFile[i]) /\ worldFile[i].epoch = history.last

LastKnown ==
  ~history.wrapped =>
    IF server = "off"
    THEN /\ worldFile[MaxIndex + 1] = NoFile
         /\ (Newest # 0 => Whole(worldFile[Newest])) => LastIs(Newest)
    ELSE /\ index < MaxIndex
         /\ \A i \in 1..MaxIndex + 1 : worldFile[i] # NoFile =>
              i <= index \/ (WorldOpen /\ i = index + 1)
         /\ IF WorldOpen /\ Whole(File) THEN LastIs(index + 1) ELSE LastIs(index)

World ==
  /\ WorldTypes
  /\ BuffersFilled
  /\ FileWritten
  /\ OldErased
  /\ FilesWhole
  /\ LastKnown

IInv == Turns /\ Flags /\ Clients /\ World

-----------------------------------------------------------------------------
LEMMA TurnsInitially == Init => Turns
BY DEF Init, Turns, Alone, Idle

LEMMA TurnsKept == Turns /\ [Next]_vars => Turns'
<1> SUFFICES ASSUME Turns, [Next]_vars PROVE Turns'
  OBVIOUS
<1> USE DEF Turns, Idle, Collecting, Woken, Writing, Alone
<1>1. ASSUME NEW c \in Client,
             Play(c) \/ DeleteAccount(c) \/ Login(c) \/ Reconnect(c) \/ DisconnectClient(c)
               \/ RemoveClient(c)
      PROVE Turns'
  <2>1. UNCHANGED Game
    BY <1>1, Zenon DEF Play, DeleteAccount, Login, Reconnect, DisconnectClient, RemoveClient
  <2> QED
    BY <2>1 DEF Game, events, writer
<1>2. CASE StartSave
  BY <1>2 DEF StartSave, Running, Saver, events, writer
<1>3. CASE StopServer
  BY <1>3 DEF StopServer, Running, Saver, events, writer
<1>4. CASE WaitDump
  BY <1>4 DEF WaitDump, writer
<1>5. CASE CollectWorld
  BY <1>5 DEF CollectWorld, events, writer
<1>6. CASE CollectClients
  BY <1>6 DEF CollectClients, events
<1>7. CASE AwakeDump
  BY <1>7 DEF AwakeDump, writer
<1>8. CASE Finish
  BY <1>8 DEF Finish, Forget
<1>9. CASE DumpBegin \/ DumpDisallow \/ OpenWorld \/ CloseWorld \/ OpenWorldFails
  BY <1>9 DEF DumpBegin, DumpDisallow, OpenWorld, CloseWorld, OpenWorldFails, Rest, events
<1>10. CASE WriteWorld
  BY <1>10 DEF WriteWorld, Rest, events
<1>11. CASE OpenClient \/ WriteClient \/ ClientsWritten
  BY <1>11 DEF OpenClient, WriteClient, ClientsWritten, Rest, events
<1>12. CASE EraseOld
  BY <1>12 DEF EraseOld, events
<1>13. CASE DumpFileFails
  BY <1>13 DEF DumpFileFails, events, writer
<1>14. CASE Crash
  BY <1>14 DEF Crash, Forget
<1>15. CASE Start
  BY <1>15 DEF Start, events
<1>16. CASE UNCHANGED vars
  BY <1>16 DEF vars, events, writer
<1> QED
  BY <1>1, <1>2, <1>3, <1>4, <1>5, <1>6, <1>7, <1>8, <1>9, <1>10, <1>11, <1>12, <1>13,
     <1>14, <1>15, <1>16 DEF Next, SaverStep, WriterStep

-----------------------------------------------------------------------------
(***************************************************************************)
(* SetToSeq lists every element of a finite set once.                      *)
(***************************************************************************)
LEMMA SetToSeqLists ==
  ASSUME NEW S, IsFiniteSet(S)
  PROVE  /\ SetToSeq(S) \in Seq(S)
         /\ \A i, j \in DOMAIN SetToSeq(S) : SetToSeq(S)[i] = SetToSeq(S)[j] => i = j
         /\ \A x \in S : \E i \in DOMAIN SetToSeq(S) : SetToSeq(S)[i] = x
<1> DEFINE n == Cardinality(S)
           f == SetToSeq(S)
<1>1. n \in Nat /\ ExistsBijection(1..n, S)
  BY FS_CardinalityType
<1>2. f \in Injection(1..n, S)
  BY <1>1 DEF SetToSeq, ExistsBijection, Bijection, Injection
<1>3. Cardinality(1..n) = n
  BY <1>1, FS_Interval
<1>4. f \in Surjection(1..n, S)
  BY <1>2, <1>3, FS_Injection
<1>5. f \in [1..n -> S] /\ DOMAIN f = 1..n
  BY <1>2 DEF Injection
<1>6. f \in Seq(S)
  BY <1>1, <1>5, SeqDef
<1>7. \A i, j \in DOMAIN f : f[i] = f[j] => i = j
  BY <1>2 DEF Injection, IsInjective
<1>8. \A x \in S : \E i \in DOMAIN f : f[i] = x
  BY <1>4, <1>5 DEF Surjection
<1> QED
  BY <1>6, <1>7, <1>8

-----------------------------------------------------------------------------
(***************************************************************************)
(* An entry is written when Dump_Work has passed it.                       *)
(***************************************************************************)
Queued ==
  \/ saving = "awake" \/ beginAllowed
  \/ dump \in {"disallow", "open", "write"}
  \/ manager /\ dump = "close"

Unwritten(i) == Queued \/ (dump \in {"client", "fill"} /\ i >= next)

LEMMA PendingSame ==
  ASSUME NEW c, clientBuffer' = clientBuffer,
         \A i \in DOMAIN clientBuffer : Unwritten(i)' = Unwritten(i)
  PROVE  Pending(c)' = Pending(c)
<1>1. Pending(c) = {i \in DOMAIN clientBuffer : clientBuffer[i].client = c /\ Unwritten(i)}
  BY Zenon DEF Pending, Unwritten, Queued
<1>2. Pending(c)' = {i \in DOMAIN clientBuffer' : clientBuffer'[i].client = c /\ Unwritten(i)'}
  BY Zenon DEF Pending, Unwritten, Queued
<1> QED
  BY <1>1, <1>2, Zenon

(***************************************************************************)
(* Steps that do not concern the clients.                                  *)
(***************************************************************************)
LEMMA ClientsQuiet ==
  ASSUME Clients,
         UNCHANGED <<place, data, saveClients, clientBuffer, clientFile, history.left>>,
         history' \in History, next' \in Nat, crashes' \in Nat, Cursor',
         \A i \in DOMAIN clientBuffer : Unwritten(i)' = Unwritten(i),
         server' = "off" <=> server = "off",
         LastCollected' => LastCollected
  PROVE  Clients'
<1>1. ClientTypes'
  BY DEF Clients, ClientTypes
<1>2. \A c \in Client : Pending(c)' = Pending(c)
  BY PendingSame
<1>3. \A c \in Client : \A v : Saved(c, v)' <=> Saved(c, v)
  BY <1>2, Zenon DEF Saved
<1>4. \A c \in Client : Kept(c)'
  <2> SUFFICES ASSUME NEW c \in Client, server' # "off", place'[c] = "out"
      PROVE IF c \in saveClients' THEN data'[c] = history'.left[c] ELSE Saved(c, history.left[c])'
    BY DEF Kept
  <2>1. Kept(c)
    BY DEF Clients
  <2> QED
    BY <2>1, <1>3 DEF Kept
<1>5. LastCollected' => saveClients' = {} /\ \A c \in Client : place'[c] = "online" => Saved(c, data[c])'
  BY <1>3 DEF Clients
<1> QED
  BY <1>1, <1>4, <1>5 DEF Clients

-----------------------------------------------------------------------------
LEMMA ClientsInitially == Init => Clients
<1> SUFFICES ASSUME Init PROVE Clients
  OBVIOUS
<1>1. New \in DataRecord
  BY DEF New, DataRecord
<1>2. clientFile \in [Client -> FileData] /\ \A c \in Client : clientFile[c] = New
  BY <1>1 DEF Init, FileData
<1>3. history \in History
  BY <1>2 DEF Init, History
<1>4. ClientTypes
  BY <1>1, <1>2, <1>3 DEF Init, ClientTypes
<1>5. Cursor
  BY DEF Init, Cursor
<1>6. \A c \in Client : Pending(c) = {}
  BY DEF Init, Pending
<1>7. \A c \in Client : Kept(c)
  BY <1>2, <1>6 DEF Init, Kept, Saved
<1> QED
  BY <1>4, <1>5, <1>7 DEF Init, Clients, LastCollected

(***************************************************************************)
(* SaveWorld, up to the clients.                                           *)
(***************************************************************************)
LEMMA SaverKeepsClients ==
  ASSUME Turns, Clients,
         StartSave \/ WaitDump \/ DumpFileFails \/ CollectWorld \/ AwakeDump
  PROVE  Clients'
<1> USE DEF Turns, Idle, Collecting, Woken, Writing, Alone
<1> history \in History /\ next \in Nat /\ crashes \in Nat /\ Cursor
  BY DEF Clients, ClientTypes
<1>1. CASE StartSave
  <2>1. /\ UNCHANGED <<place, data, saveClients, clientBuffer, clientFile, history, next, crashes,
                       manager, server, dump, beginAllowed>>
        /\ saving = "no" /\ saving' \in {"wait", "world"} /\ server = "run"
    BY <1>1 DEF StartSave, Running, Saver, memory, collected, events, writer, files
  <2>2. \A i \in DOMAIN clientBuffer : Unwritten(i)' = Unwritten(i)
    BY <2>1 DEF Unwritten, Queued
  <2>3. Cursor' /\ (LastCollected' => LastCollected)
    BY <2>1 DEF Cursor, LastCollected
  <2> QED
    BY <2>1, <2>2, <2>3, ClientsQuiet
<1>2. CASE WaitDump
  <2>1. /\ UNCHANGED <<place, data, saveClients, clientBuffer, clientFile, history, next, crashes,
                       manager, server, dump, beginAllowed>>
        /\ saving = "wait" /\ saving' = "world"
    BY <1>2 DEF WaitDump, memory, collected, events, writer, files
  <2>2. \A i \in DOMAIN clientBuffer : Unwritten(i)' = Unwritten(i)
    BY <2>1 DEF Unwritten, Queued
  <2>3. Cursor' /\ (LastCollected' => LastCollected)
    BY <2>1 DEF Cursor, LastCollected
  <2> QED
    BY <2>1, <2>2, <2>3, ClientsQuiet
<1>3. CASE DumpFileFails
  <2>1. /\ UNCHANGED <<place, data, saveClients, clientBuffer, clientFile, next, crashes,
                       manager, server, dump, beginAllowed>>
        /\ saving = "world" /\ saving' = "no"
        /\ history' = [history EXCEPT !.failed = TRUE]
    BY <1>3 DEF DumpFileFails, memory, collected, events, writer, files
  <2>2. \A i \in DOMAIN clientBuffer : Unwritten(i)' = Unwritten(i)
    BY <2>1 DEF Unwritten, Queued
  <2>3. history' \in History /\ history'.left = history.left /\ history'.failed
    BY <2>1 DEF History
  <2>4. Cursor' /\ (LastCollected' => LastCollected)
    BY <2>1, <2>3 DEF Cursor, LastCollected
  <2> QED
    BY <2>1, <2>2, <2>3, <2>4, ClientsQuiet
<1>4. CASE CollectWorld
  <2>1. /\ UNCHANGED <<place, data, saveClients, clientBuffer, clientFile, next, crashes,
                       manager, server, dump, beginAllowed>>
        /\ saving = "world" /\ saving' = "clients"
        /\ history' = [history EXCEPT !.failed = FALSE]
    BY <1>4 DEF CollectWorld, memory, events, writer, files
  <2>2. \A i \in DOMAIN clientBuffer : Unwritten(i)' = Unwritten(i)
    BY <2>1 DEF Unwritten, Queued
  <2>3. history' \in History /\ history'.left = history.left
    BY <2>1 DEF History
  <2>4. Cursor' /\ ~LastCollected'
    BY <2>1 DEF Cursor, LastCollected
  <2> QED
    BY <2>1, <2>2, <2>3, <2>4, ClientsQuiet
<1>5. CASE AwakeDump
  <2>1. /\ UNCHANGED <<place, data, saveClients, clientBuffer, clientFile, history, next, crashes,
                       manager, server, dump>>
        /\ saving = "awake" /\ saving' = "no" /\ beginAllowed'
    BY <1>5 DEF AwakeDump, memory, collected, writer, files
  <2>2. \A i \in DOMAIN clientBuffer : Unwritten(i)' = Unwritten(i)
    BY <2>1 DEF Unwritten, Queued
  <2>3. Cursor' /\ (LastCollected' => LastCollected)
    BY <2>1 DEF Cursor, LastCollected
  <2> QED
    BY <2>1, <2>2, <2>3, ClientsQuiet
<1> QED
  BY <1>1, <1>2, <1>3, <1>4, <1>5

(***************************************************************************)
(* Dump_Work, but for the files of the clients.                            *)
(***************************************************************************)
LEMMA DumpKeepsClients ==
  ASSUME Turns, Clients, WorldTypes,
         \/ DumpBegin \/ DumpDisallow \/ OpenWorld \/ OpenWorldFails \/ WriteWorld \/ CloseWorld
         \/ ClientsWritten \/ EraseOld
  PROVE  Clients'
<1> USE DEF Turns, Idle, Collecting, Woken, Writing, Alone
<1>1. history \in History /\ next \in Nat /\ crashes \in Nat /\ Cursor
      /\ clientBuffer \in Seq(Entry)
  BY DEF Clients, ClientTypes
<1>2. DOMAIN clientBuffer = 1..Len(clientBuffer) /\ Len(clientBuffer) \in Nat
  BY <1>1
<1>3. /\ UNCHANGED <<place, data, saveClients, clientBuffer, clientFile, crashes, manager, server>>
      /\ history' \in History
      /\ history'.left = history.left /\ history'.failed = history.failed
  <2>1. CASE DumpBegin \/ DumpDisallow \/ OpenWorld \/ OpenWorldFails \/ ClientsWritten
    BY <1>1, <2>1 DEF DumpBegin, DumpDisallow, OpenWorld, OpenWorldFails, ClientsWritten, Rest,
                      memory, collected, files
  <2>2. CASE EraseOld
    BY <1>1, <2>2 DEF EraseOld, memory
  <2>3. CASE CloseWorld
    BY <1>1, <2>3 DEF CloseWorld, Rest, memory, collected, files, History
  <2>4. CASE WriteWorld
    <3>1. /\ UNCHANGED <<Rest, clientFile>>
          /\ \/ history' = [history EXCEPT !.last = @]
             \/ history' = [history EXCEPT !.last = world.epoch]
      BY <2>4 DEF WriteWorld
    <3>2. world.epoch \in Nat
      BY DEF WorldTypes, WorldRecord
    <3>3. UNCHANGED <<place, data, saveClients, clientBuffer, clientFile, crashes, manager, server>>
      BY <3>1 DEF Rest, memory, collected
    <3>4. history' \in History /\ history'.left = history.left /\ history'.failed = history.failed
      BY <1>1, <3>1, <3>2 DEF History
    <3> QED
      BY <3>3, <3>4
  <2> QED
    BY <2>1, <2>2, <2>3, <2>4
<1>4. /\ next' \in Nat
      /\ Cursor'
      /\ \A i \in DOMAIN clientBuffer : Unwritten(i)' = Unwritten(i)
      /\ saving' = saving \/ (saving = "write" /\ saving' = "no")
  <2>1. CASE DumpBegin
    <3>1. /\ dump = "wait" /\ dump' = "disallow" /\ beginAllowed
          /\ UNCHANGED <<next, saving, beginAllowed>>
      BY <2>1 DEF DumpBegin, events
    <3> QED
      BY <3>1, <1>1, <1>3 DEF Cursor, Unwritten, Queued
  <2>2. CASE DumpDisallow
    <3>1. /\ dump = "disallow" /\ dump' = "open"
          /\ UNCHANGED <<next, saving>>
      BY <2>2 DEF DumpDisallow
    <3> QED
      BY <3>1, <1>1, <1>3 DEF Cursor, Unwritten, Queued
  <2>3. CASE OpenWorld
    <3>1. /\ dump = "open" /\ dump' = "write" /\ next' = 1
          /\ UNCHANGED <<saving, beginAllowed>>
      BY <2>3 DEF OpenWorld, events
    <3> QED
      BY <3>1, <1>1, <1>3 DEF Cursor, Unwritten, Queued
  <2>4. CASE OpenWorldFails
    <3>1. /\ dump = "open" /\ dump' = "client" /\ next' = 1
          /\ UNCHANGED <<saving, beginAllowed>>
      BY <2>4 DEF OpenWorldFails, events
    <3> QED
      BY <3>1, <1>1, <1>2, <1>3 DEF Cursor, Unwritten, Queued
  <2>5. CASE WriteWorld
    <3>1. /\ dump = "write"
          /\ \/ manager /\ next' = next + 1 /\ dump' = "write"
             \/ next' = 1 /\ dump' = IF manager THEN "close" ELSE "client"
          /\ UNCHANGED <<saving, beginAllowed>>
      BY <2>5 DEF WriteWorld, events
    <3> QED
      BY <3>1, <1>1, <1>2, <1>3 DEF Cursor, Unwritten, Queued
  <2>6. CASE CloseWorld
    <3>1. /\ dump = "close"
          /\ dump' = IF manager THEN "client" ELSE "wait"
          /\ saving' = IF manager THEN saving ELSE "no"
          /\ UNCHANGED <<next, beginAllowed>>
      BY <2>6 DEF CloseWorld, events
    <3> QED
      BY <3>1, <1>1, <1>2, <1>3 DEF Cursor, Unwritten, Queued
  <2>7. CASE ClientsWritten
    <3>1. /\ dump = "client" /\ next > Len(clientBuffer)
          /\ dump' = IF manager THEN "erase" ELSE "close"
          /\ UNCHANGED <<saving, next, beginAllowed>>
      BY <2>7 DEF ClientsWritten, events
    <3> QED
      BY <3>1, <1>1, <1>2, <1>3 DEF Cursor, Unwritten, Queued
  <2>8. CASE EraseOld
    <3>1. /\ dump = "erase" /\ dump' = "wait" /\ next' = 0
          /\ UNCHANGED <<saving, beginAllowed>>
      BY <2>8 DEF EraseOld
    <3> QED
      BY <3>1, <1>1, <1>2, <1>3 DEF Cursor, Unwritten, Queued
  <2> QED
    BY <2>1, <2>2, <2>3, <2>4, <2>5, <2>6, <2>7, <2>8
<1>5. LastCollected' => LastCollected
  BY <1>3, <1>4 DEF LastCollected
<1> QED
  BY <1>1, <1>3, <1>4, <1>5, ClientsQuiet

(***************************************************************************)
(* Dump_Work opens the file of a client: what has been collected of it is  *)
(* still to be written.                                                    *)
(***************************************************************************)
LEMMA OpenClientKeepsClients ==
  ASSUME Turns, Clients, OpenClient
  PROVE  Clients'
<1>0. PICK o : o = clientBuffer[next].client
  OBVIOUS
<1>1. ClientTypes /\ Cursor
  BY DEF Clients
<1>2. DOMAIN clientBuffer = 1..Len(clientBuffer) /\ Len(clientBuffer) \in Nat /\ next \in Nat
      /\ \A i \in DOMAIN clientBuffer : clientBuffer[i] \in Entry
  BY <1>1 DEF ClientTypes
<1>3. /\ dump = "client" /\ dump' = "fill" /\ next \in DOMAIN clientBuffer
      /\ clientFile' = [clientFile EXCEPT ![o] = Torn]
      /\ UNCHANGED <<place, data, saveClients, clientBuffer, history, crashes, manager, server,
                     next, saving, beginAllowed>>
  BY <1>0, <1>1, <1>2 DEF OpenClient, Rest, memory, collected, events, Cursor
<1>4. o \in Client
  BY <1>0, <1>2, <1>3 DEF Entry
<1>5. clientFile \in [Client -> FileData] /\ Torn \in FileData
  BY <1>1 DEF ClientTypes, FileData
<1>6. \A i \in DOMAIN clientBuffer : Unwritten(i)' = Unwritten(i)
  BY <1>3 DEF Unwritten, Queued
<1>7. \A c \in Client : Pending(c)' = Pending(c)
  BY <1>3, <1>6, PendingSame
<1>8. next \in Pending(o)
  BY <1>0, <1>2, <1>3 DEF Pending
<1>9. \A c \in Client : \A v : Saved(c, v) => Saved(c, v)'
  BY <1>3, <1>4, <1>5, <1>7, <1>8 DEF Saved
<1>10. ClientTypes'
  <2>1. clientFile' \in [Client -> FileData]
    BY <1>3, <1>4, <1>5
  <2> QED
    BY <1>1, <1>3, <2>1 DEF ClientTypes
<1>11. Cursor'
  BY <1>1, <1>2, <1>3 DEF Cursor
<1>12. \A c \in Client : Kept(c)'
  <2> SUFFICES ASSUME NEW c \in Client PROVE Kept(c)'
    OBVIOUS
  <2>1. Kept(c)
    BY DEF Clients
  <2> QED
    BY <2>1, <1>3, <1>9 DEF Kept
<1>13. LastCollected' => saveClients' = {} /\ \A c \in Client : place'[c] = "online" => Saved(c, data[c])'
  BY <1>3, <1>9 DEF Clients, LastCollected
<1> QED
  BY <1>3, <1>10, <1>11, <1>12, <1>13 DEF Clients

(***************************************************************************)
(* Dump_Work writes the file: it was collected once.                       *)
(***************************************************************************)
LEMMA WriteClientKeepsClients ==
  ASSUME Turns, Clients, WriteClient
  PROVE  Clients'
<1>0. PICK o : o = clientBuffer[next].client
  OBVIOUS
<1>1. ClientTypes /\ Cursor
  BY DEF Clients
<1>2. DOMAIN clientBuffer = 1..Len(clientBuffer) /\ Len(clientBuffer) \in Nat /\ next \in Nat
      /\ \A i \in DOMAIN clientBuffer : clientBuffer[i] \in Entry
  BY <1>1 DEF ClientTypes
<1>3. /\ dump = "fill" /\ dump' = "client" /\ next \in DOMAIN clientBuffer
      /\ clientFile' = [clientFile EXCEPT ![o] = clientBuffer[next].data]
      /\ next' = next + 1
      /\ UNCHANGED <<place, data, saveClients, clientBuffer, history, crashes, manager, server,
                     saving, beginAllowed>>
  BY <1>0, <1>1, <1>2 DEF WriteClient, Rest, memory, collected, events, Cursor
<1>4. o \in Client /\ clientBuffer[next].data \in DataRecord
  BY <1>0, <1>2, <1>3 DEF Entry
<1>5. clientFile \in [Client -> FileData] /\ clientBuffer[next].data \in FileData
  BY <1>1, <1>4 DEF ClientTypes, FileData
<1>6. ~Queued /\ ~Queued'
  BY <1>3 DEF Turns, Idle, Collecting, Woken, Writing, Alone, Queued
<1>7. \A c \in Client : Pending(c)' = Pending(c) \ {next}
  <2> SUFFICES ASSUME NEW c \in Client PROVE Pending(c)' = Pending(c) \ {next}
    OBVIOUS
  <2>1. Pending(c) = {i \in DOMAIN clientBuffer : clientBuffer[i].client = c /\ i >= next}
    BY <1>3, <1>6 DEF Pending, Queued
  <2>2. Pending(c)' = {i \in DOMAIN clientBuffer : clientBuffer[i].client = c /\ i >= next + 1}
    BY <1>3, <1>6 DEF Pending, Queued
  <2> QED
    BY <2>1, <2>2, <1>2
<1>8. Pending(o) = {next} /\ \A c \in Client : c # o => next \notin Pending(c)
  BY <1>0, <1>1, <1>2, <1>3, <1>6 DEF Pending, Cursor
<1>9. \A c \in Client : \A v : Saved(c, v) => Saved(c, v)'
  <2>1. \A c \in Client : \A v : c # o /\ Saved(c, v) => Saved(c, v)'
    BY <1>3, <1>4, <1>5, <1>7, <1>8 DEF Saved
  <2>2. ASSUME NEW v, Saved(o, v) PROVE Saved(o, v)'
    <3>1. clientBuffer[next].data = v
      BY <2>2, <1>8 DEF Saved
    <3>2. Pending(o)' = {}
      BY <1>4, <1>7, <1>8
    <3>3. clientFile'[o] = v
      BY <3>1, <1>3, <1>4, <1>5
    <3> QED
      BY <3>2, <3>3 DEF Saved
  <2> QED
    BY <2>1, <2>2
<1>10. ClientTypes'
  <2>1. clientFile' \in [Client -> FileData]
    BY <1>3, <1>4, <1>5
  <2> QED
    BY <1>1, <1>2, <1>3, <2>1 DEF ClientTypes
<1>11. Cursor'
  BY <1>1, <1>2, <1>3 DEF Cursor
<1>12. \A c \in Client : Kept(c)'
  <2> SUFFICES ASSUME NEW c \in Client PROVE Kept(c)'
    OBVIOUS
  <2>1. Kept(c)
    BY DEF Clients
  <2> QED
    BY <2>1, <1>3, <1>9 DEF Kept
<1>13. LastCollected' => saveClients' = {} /\ \A c \in Client : place'[c] = "online" => Saved(c, data[c])'
  BY <1>3, <1>9 DEF Clients, LastCollected
<1> QED
  BY <1>3, <1>10, <1>11, <1>12, <1>13 DEF Clients

(***************************************************************************)
(* SaveWorld collects the clients: everybody who is connected or listed.   *)
(***************************************************************************)
LEMMA CollectClientsKeepsClients ==
  ASSUME Turns, Clients, CollectClients
  PROVE  Clients'
<1> DEFINE online == {c \in Client : place[c] = "online"}
           a == SetToSeq(online)
           b == SetToSeq(saveClients)
           clients == a \o b
<1>1. ClientTypes /\ Cursor
  BY DEF Clients
<1>2. /\ saving = "clients" /\ saving' = IF manager THEN "awake" ELSE "write"
      /\ clientBuffer' = [i \in DOMAIN clients |-> [client |-> clients[i], data |-> data[clients[i]]]]
      /\ saveClients' = {}
      /\ data' = [c \in Client |-> IF place[c] = "out" THEN New ELSE data[c]]
      /\ dump' = IF manager THEN dump ELSE "open"
      /\ UNCHANGED <<manager, server, place, beginAllowed, next, clientFile, history, crashes>>
  BY DEF CollectClients, events, files
<1>3. IsFiniteSet(online) /\ IsFiniteSet(saveClients)
  BY <1>1, FS_Subset DEF ClientTypes
<1>4. /\ a \in Seq(online)
      /\ \A i, j \in DOMAIN a : a[i] = a[j] => i = j
      /\ \A c \in online : \E i \in DOMAIN a : a[i] = c
  BY <1>3, SetToSeqLists
<1>5. /\ b \in Seq(saveClients)
      /\ \A i, j \in DOMAIN b : b[i] = b[j] => i = j
      /\ \A c \in saveClients : \E i \in DOMAIN b : b[i] = c
  BY <1>3, SetToSeqLists
<1>6. online \cap saveClients = {} /\ online \subseteq Client /\ saveClients \subseteq Client
  BY <1>1 DEF Clients, ClientTypes
<1>7. \A c \in online : place[c] = "online"
  OBVIOUS
<1> HIDE DEF online, a, b
<1>8. /\ clients \in Seq(Client)
      /\ Len(clients) = Len(a) + Len(b)
      /\ \A i \in 1..Len(a) : clients[i] = a[i]
      /\ \A i \in 1..Len(b) : clients[Len(a) + i] = b[i]
  BY <1>4, <1>5, <1>6
<1>9. \A i, j \in DOMAIN clients : clients[i] = clients[j] => i = j
  <2>1. \A i \in 1..Len(a) + Len(b) : i \in 1..Len(a) \/ (i - Len(a) \in 1..Len(b) /\ i = Len(a) + (i - Len(a)))
    BY <1>4, <1>5
  <2>2. DOMAIN a = 1..Len(a) /\ DOMAIN b = 1..Len(b) /\ DOMAIN clients = 1..Len(a) + Len(b)
    BY <1>4, <1>5, <1>8
  <2>3. \A i \in 1..Len(a) : clients[i] \in online
    BY <1>4, <1>8
  <2>4. \A i \in 1..Len(b) : clients[Len(a) + i] \in saveClients
    BY <1>5, <1>8
  <2> HIDE DEF clients
  <2> SUFFICES ASSUME NEW i \in DOMAIN clients, NEW j \in DOMAIN clients, clients[i] = clients[j]
      PROVE i = j
    OBVIOUS
  <2>5. CASE i \in 1..Len(a) /\ j \in 1..Len(a)
    BY <2>2, <2>5, <1>4, <1>8
  <2>6. CASE i - Len(a) \in 1..Len(b) /\ j - Len(a) \in 1..Len(b)
    <3>1. b[i - Len(a)] = b[j - Len(a)]
      BY <2>1, <2>2, <2>6, <1>8
    <3>2. i - Len(a) = j - Len(a)
      BY <3>1, <2>2, <2>6, <1>5
    <3> QED
      BY <3>2, <2>2, <1>4
  <2> QED
    BY <2>1, <2>2, <2>3, <2>4, <2>5, <2>6, <1>6
<1>10. \A c \in online \cup saveClients : \E i \in DOMAIN clients : clients[i] = c
  <2>1. DOMAIN a = 1..Len(a) /\ DOMAIN b = 1..Len(b) /\ DOMAIN clients = 1..Len(a) + Len(b)
        /\ Len(a) \in Nat /\ Len(b) \in Nat
    BY <1>4, <1>5, <1>8
  <2> HIDE DEF clients
  <2>2. ASSUME NEW c \in online PROVE \E i \in DOMAIN clients : clients[i] = c
    <3>1. PICK i \in 1..Len(a) : a[i] = c
      BY <1>4, <2>1
    <3> QED
      BY <3>1, <2>1, <1>8
  <2>3. ASSUME NEW c \in saveClients PROVE \E i \in DOMAIN clients : clients[i] = c
    <3>1. PICK i \in 1..Len(b) : b[i] = c
      BY <1>5, <2>1
    <3>2. Len(a) + i \in DOMAIN clients /\ clients[Len(a) + i] = c
      BY <3>1, <2>1, <1>8
    <3> QED
      BY <3>2
  <2> QED
    BY <2>2, <2>3
<1>11. \A i \in DOMAIN clients : clients[i] \in online \cup saveClients
  <2>1. clients \in Seq(online \cup saveClients)
    BY <1>4, <1>5
  <2> QED
    BY <2>1
<1> HIDE DEF clients
<1>12. data \in [Client -> DataRecord] /\ New \in DataRecord
  BY <1>1 DEF ClientTypes, New, DataRecord
<1>13. clientBuffer' \in Seq(Entry) /\ DOMAIN clientBuffer' = DOMAIN clients
       /\ \A i \in DOMAIN clients :
            clientBuffer'[i].client = clients[i] /\ clientBuffer'[i].data = data[clients[i]]
  BY <1>2, <1>8, <1>12, SeqDef DEF Entry
<1>14. Queued' /\ ~LastCollected /\ \A c \in Client : Pending(c) = {}
  BY <1>2 DEF Turns, Idle, Collecting, Woken, Writing, Alone, Queued, LastCollected, Pending
<1>15. \A c \in Client : Pending(c)' = {i \in DOMAIN clients : clients[i] = c}
  BY <1>13, <1>14 DEF Pending, Queued
<1>16. ASSUME NEW c \in online \cup saveClients, NEW v, v = data[c] PROVE Saved(c, v)'
  <2>1. PICK i \in DOMAIN clients : clients[i] = c
    BY <1>10
  <2>2. i \in Pending(c)' /\ clientBuffer'[i].data = v
    BY <2>1, <1>6, <1>13, <1>15, <1>16
  <2> QED
    BY <2>2, Zenon DEF Saved
<1>17. ASSUME NEW c \in Client, NEW v, c \notin online \cup saveClients, clientFile[c] = v
       PROVE  Saved(c, v)'
  <2>1. Pending(c)' = {}
    BY <1>11, <1>15, <1>17
  <2> QED
    BY <2>1, <1>2, <1>17 DEF Saved
<1>18. ClientTypes'
  <2>1. data' \in [Client -> DataRecord]
    BY <1>2, <1>12
  <2> QED
    BY <1>1, <1>2, <1>13, <2>1 DEF ClientTypes
<1>19. Cursor'
  <2>1. dump' \notin {"close", "client", "fill"}
    BY <1>2 DEF Turns, Idle, Collecting, Woken, Writing, Alone
  <2> QED
    BY <2>1, <1>9, <1>13 DEF Cursor
<1>20. \A c \in Client : Kept(c)'
  <2> SUFFICES ASSUME NEW c \in Client, server # "off", place[c] = "out"
      PROVE Saved(c, history.left[c])'
    BY <1>2 DEF Kept
  <2>1. Kept(c) /\ Pending(c) = {} /\ history' = history
    BY <1>2, <1>14 DEF Clients
  <2>2. CASE c \in saveClients
    BY <2>1, <2>2, <1>16 DEF Kept
  <2>3. CASE c \notin saveClients
    <3>1. clientFile[c] = history.left[c] /\ c \notin online
      BY <2>1, <2>3, <1>7 DEF Kept, Saved
    <3> QED
      BY <3>1, <2>1, <2>3, <1>17
  <2> QED
    BY <2>2, <2>3
<1>21. ASSUME NEW c \in Client, place'[c] = "online" PROVE Saved(c, data[c])'
  <2>1. c \in online /\ data'[c] = data[c]
    BY <1>21, <1>2 DEF online
  <2> QED
    BY <2>1, <1>16
<1> QED
  BY <1>2, <1>18, <1>19, <1>20, <1>21 DEF Clients

(***************************************************************************)
(* The clients play, come and leave.  What has been collected and what is  *)
(* being written stays as it is.                                           *)
(***************************************************************************)
LEMMA GameKeepsPending ==
  ASSUME UNCHANGED Game
  PROVE  /\ \A c \in Client : Pending(c)' = Pending(c)
         /\ Cursor' <=> Cursor
<1>1. /\ UNCHANGED <<manager, server, saving, clientBuffer, beginAllowed, dump, next>>
  BY DEF Game, collected, events, writer
<1>2. \A i \in DOMAIN clientBuffer : Unwritten(i)' = Unwritten(i)
  BY <1>1 DEF Unwritten, Queued
<1>3. \A c \in Client : Pending(c)' = Pending(c)
  BY <1>1, <1>2, PendingSame
<1>4. Cursor' <=> Cursor
  BY <1>1 DEF Cursor
<1> QED
  BY <1>3, <1>4

LEMMA GameKeepsClients ==
  ASSUME Clients, Turns, NEW o \in Client, UNCHANGED Game, server = "run", ClientTypes',
         \A c \in Client \ {o} :
           /\ place'[c] = place[c] /\ data'[c] = data[c] /\ clientFile'[c] = clientFile[c]
           /\ c \in saveClients' <=> c \in saveClients
           /\ history'.left[c] = history.left[c],
         place'[o] = "online" => o \notin saveClients',
         place'[o] = "out" => o \in saveClients' /\ data'[o] = history'.left[o]
  PROVE  Clients'
<1>1. /\ UNCHANGED <<manager, server, saving, clientBuffer, beginAllowed, dump, next>>
  BY DEF Game, collected, events, writer
<1>2. Cursor' /\ \A c \in Client : Pending(c)' = Pending(c)
  BY GameKeepsPending DEF Clients
<1>3. \A c \in Client \ {o} : \A v : Saved(c, v) => Saved(c, v)'
  BY <1>1, <1>2 DEF Saved
<1>4. \A c \in Client : Kept(c)'
  <2> SUFFICES ASSUME NEW c \in Client PROVE Kept(c)'
    OBVIOUS
  <2>1. CASE c = o
    BY <2>1 DEF Kept
  <2>2. CASE c # o
    <3>1. Kept(c)
      BY DEF Clients
    <3> QED
      BY <3>1, <2>2, <1>1, <1>3 DEF Kept
  <2> QED
    BY <2>1, <2>2
<1>5. ~LastCollected'
  BY <1>1 DEF LastCollected
<1>6. \A c \in Client : place'[c] = "online" => c \notin saveClients'
  BY DEF Clients
<1> QED
  BY <1>1, <1>2, <1>4, <1>5, <1>6 DEF Clients

LEMMA ClientStepsKeepClients ==
  ASSUME Turns, Clients, NEW c \in Client,
         \/ Play(c) \/ DeleteAccount(c) \/ Login(c) \/ Reconnect(c) \/ DisconnectClient(c)
         \/ RemoveClient(c)
  PROVE  Clients'
<1>1. ClientTypes
  BY DEF Clients
<1>2. /\ place \in [Client -> {"online", "offline", "out", "gone"}]
      /\ data \in [Client -> DataRecord] /\ saveClients \subseteq Client
      /\ clientBuffer \in Seq(Entry) /\ next \in Nat
      /\ clientFile \in [Client -> FileData] /\ history \in History /\ crashes \in Nat
  BY <1>1 DEF ClientTypes
<1>3. /\ history.left \in [Client -> FileData] /\ history.deleted \subseteq Client
      /\ New \in FileData /\ NoFile \in FileData /\ \A d \in DataRecord : d \in FileData
  BY <1>2 DEF History, New, DataRecord, FileData
<1>4. UNCHANGED Game => UNCHANGED <<clientBuffer, next, crashes>>
  BY DEF Game, collected, writer
<1>5. place[c] = "online" => c \notin saveClients
  BY DEF Clients
<1>6. CASE Play(c)
  <2>1. /\ UNCHANGED <<Game, place, saveClients, clientFile, history>> /\ server = "run"
        /\ place[c] \in {"online", "offline"}
        /\ data' = [data EXCEPT ![c].saved = epoch]
    BY <1>6, Zenon DEF Play, Running
  <2>2. epoch \in 0..MaxSaves + 1
    BY DEF Turns
  <2>3. data' = [data EXCEPT ![c] = [@ EXCEPT !.saved = epoch]]
    BY <2>1
  <2>4. [data[c] EXCEPT !.saved = epoch] \in DataRecord
    BY <1>2, <2>2 DEF DataRecord
  <2>5. data' \in [Client -> DataRecord] /\ \A d \in Client \ {c} : data'[d] = data[d]
    BY <1>2, <2>3, <2>4
  <2>6. ClientTypes'
    BY <1>2, <1>4, <2>1, <2>5 DEF ClientTypes
  <2> QED
    BY <2>1, <2>5, <2>6, <1>5, GameKeepsClients
<1>7. CASE DeleteAccount(c)
  <2>1. /\ UNCHANGED <<Game, place, saveClients, clientFile, history>> /\ server = "run"
        /\ place[c] = "online"
        /\ data' = [data EXCEPT ![c].toDelete = ~@]
    BY <1>7, Zenon DEF DeleteAccount, Running
  <2>2. data' = [data EXCEPT ![c] = [data[c] EXCEPT !.toDelete = ~data[c].toDelete]]
    BY <2>1, Zenon
  <2>3. [data[c] EXCEPT !.toDelete = ~data[c].toDelete] \in DataRecord
    BY <1>2 DEF DataRecord
  <2>4. data' \in [Client -> DataRecord] /\ \A d \in Client \ {c} : data'[d] = data[d]
    BY <1>2, <2>2, <2>3
  <2>5. ClientTypes'
    BY <1>2, <1>4, <2>1, <2>4 DEF ClientTypes
  <2> QED
    BY <2>1, <2>4, <2>5, <1>5, GameKeepsClients
<1>8. CASE Reconnect(c)
  <2>1. /\ UNCHANGED <<Game, data, clientFile, history>> /\ server = "run"
        /\ place' = [place EXCEPT ![c] = "online"]
        /\ saveClients' = saveClients \ {c}
    BY <1>8, Zenon DEF Reconnect, Running
  <2>2. ClientTypes'
    BY <1>2, <1>4, <2>1 DEF ClientTypes
  <2>3. place'[c] = "online" /\ \A d \in Client \ {c} : place'[d] = place[d]
    BY <1>2, <2>1
  <2> QED
    BY <2>1, <2>2, <2>3, GameKeepsClients
<1>9. CASE DisconnectClient(c)
  <2>1. /\ UNCHANGED <<Game, data, clientFile, history>> /\ server = "run"
        /\ place' = [place EXCEPT ![c] = "offline"]
        /\ saveClients' = saveClients \cup {c}
    BY <1>9, Zenon DEF DisconnectClient, Running
  <2>2. ClientTypes'
    BY <1>2, <1>4, <2>1 DEF ClientTypes
  <2>3. place'[c] = "offline" /\ \A d \in Client \ {c} : place'[d] = place[d]
    BY <1>2, <2>1
  <2> QED
    BY <2>1, <2>2, <2>3, GameKeepsClients
<1>10. CASE Login(c)
  <2>1. /\ UNCHANGED <<Game, clientFile>> /\ server = "run"
        /\ \/ UNCHANGED data
           \/ clientFile[c] \in DataRecord /\ data' = [data EXCEPT ![c] = clientFile[c]]
        /\ place' = [place EXCEPT ![c] = "online"]
        /\ saveClients' = saveClients \ {c}
        /\ history' = [history EXCEPT !.left = [@ EXCEPT ![c] = New]]
    BY <1>10 DEF Login, Running
  <2>2. data' \in [Client -> DataRecord] /\ \A d \in Client \ {c} : data'[d] = data[d]
    BY <1>2, <2>1
  <2>3. history' \in History /\ \A d \in Client \ {c} : history'.left[d] = history.left[d]
    BY <1>2, <1>3, <2>1 DEF History
  <2>4. place' \in [Client -> {"online", "offline", "out", "gone"}]
        /\ place'[c] = "online" /\ \A d \in Client \ {c} : place'[d] = place[d]
    BY <1>2, <2>1
  <2>5. ClientTypes'
    BY <1>2, <1>4, <2>1, <2>2, <2>3, <2>4 DEF ClientTypes
  <2> QED
    BY <2>1, <2>2, <2>3, <2>4, <2>5, GameKeepsClients
<1>11. CASE RemoveClient(c)
  <2>1. UNCHANGED <<Game, data>> /\ server = "run"
    BY <1>11, Zenon DEF RemoveClient, Running
  <2>2. CASE data[c].toDelete
    <3>1. /\ clientFile' = [d \in Client |-> IF d = c THEN NoFile ELSE clientFile[d]]
          /\ place' = [place EXCEPT ![c] = "gone"]
          /\ saveClients' = saveClients \ {c}
          /\ history' = [history EXCEPT !.deleted = @ \cup {c}]
      BY <1>11, <2>2 DEF RemoveClient, EraseAccounts
    <3>2. history' \in History /\ history'.left = history.left
      BY <1>2, <1>3, <3>1 DEF History
    <3>3. place' \in [Client -> {"online", "offline", "out", "gone"}]
          /\ place'[c] = "gone" /\ \A d \in Client \ {c} : place'[d] = place[d]
      BY <1>2, <3>1
    <3>4. clientFile' \in [Client -> FileData]
      BY <1>2, <1>3, <3>1
    <3>5. ClientTypes'
      BY <1>2, <1>4, <2>1, <3>1, <3>2, <3>3, <3>4 DEF ClientTypes
    <3> QED
      BY <2>1, <3>1, <3>2, <3>3, <3>5, GameKeepsClients
  <2>3. CASE ~data[c].toDelete
    <3>1. /\ UNCHANGED clientFile
          /\ place' = [place EXCEPT ![c] = "out"]
          /\ saveClients' = saveClients \cup {c}
          /\ history' = [history EXCEPT !.left = [@ EXCEPT ![c] = data[c]]]
      BY <1>11, <2>3 DEF RemoveClient
    <3>2. data[c] \in FileData
      BY <1>2, <1>3
    <3>3. /\ history' \in History /\ history'.left[c] = data[c]
          /\ \A d \in Client \ {c} : history'.left[d] = history.left[d]
      BY <1>2, <1>3, <3>1, <3>2 DEF History
    <3>4. place' \in [Client -> {"online", "offline", "out", "gone"}]
          /\ place'[c] = "out" /\ \A d \in Client \ {c} : place'[d] = place[d]
      BY <1>2, <3>1
    <3>5. ClientTypes'
      BY <1>2, <1>4, <2>1, <3>1, <3>3, <3>4 DEF ClientTypes
    <3> QED
      BY <2>1, <3>1, <3>3, <3>4, <3>5, GameKeepsClients
  <2> QED
    BY <2>2, <2>3
<1> QED
  BY <1>6, <1>7, <1>8, <1>9, <1>10, <1>11

(***************************************************************************)
(* The server stops, crashes and starts.                                   *)
(***************************************************************************)
LEMMA StopServerKeepsClients ==
  ASSUME Turns, Clients, StopServer
  PROVE  Clients'
<1>1. ClientTypes /\ Cursor
  BY DEF Clients
<1>2. PICK S \in SUBSET {c \in Client : place[c] \in {"online", "offline"}} :
        /\ clientFile' = [c \in Client |-> IF c \in S THEN NoFile ELSE clientFile[c]]
        /\ history' = [history EXCEPT !.deleted = @ \cup S]
  BY DEF StopServer, EraseAccounts
<1>3. /\ UNCHANGED <<place, data, saveClients, clientBuffer, beginAllowed, next, dump, crashes, manager>>
      /\ server' = "last" /\ server = "run" /\ saving = "no" /\ saving' \in {"wait", "world"}
  BY DEF StopServer, Running, Saver, collected, events, writer
<1>4. history' \in History /\ history'.left = history.left
  BY <1>1, <1>2 DEF ClientTypes, History
<1>5. clientFile' \in [Client -> FileData]
  BY <1>1, <1>2 DEF ClientTypes, FileData
<1>6. ClientTypes'
  BY <1>1, <1>3, <1>4, <1>5 DEF ClientTypes
<1>7. Cursor' /\ ~LastCollected'
  BY <1>1, <1>3 DEF Cursor, LastCollected
<1>8. \A i \in DOMAIN clientBuffer : Unwritten(i)' = Unwritten(i)
  BY <1>3 DEF Unwritten, Queued
<1>9. \A c \in Client : Pending(c)' = Pending(c)
  BY <1>3, <1>8, PendingSame
<1>10. \A c \in Client : Kept(c)'
  <2> SUFFICES ASSUME NEW c \in Client, place[c] = "out" PROVE Kept(c)'
    BY <1>3 DEF Kept
  <2>1. Kept(c) /\ clientFile'[c] = clientFile[c]
    BY <1>2 DEF Clients
  <2>2. \A v : Saved(c, v) => Saved(c, v)'
    BY <2>1, <1>3, <1>9 DEF Saved
  <2> QED
    BY <2>1, <2>2, <1>3, <1>4 DEF Kept
<1> QED
  BY <1>3, <1>6, <1>7, <1>10 DEF Clients

LEMMA ForgetKeepsClients ==
  ASSUME Clients, Forget, UNCHANGED clientFile, history' \in History, crashes' \in Nat
  PROVE  Clients'
<1>1. New \in DataRecord
  BY DEF New, DataRecord
<1>2. ClientTypes'
  BY <1>1 DEF Clients, ClientTypes, Forget
<1>3. Cursor'
  BY DEF Forget, Cursor
<1>4. \A c \in Client : Kept(c)'
  BY DEF Forget, Kept
<1> QED
  BY <1>2, <1>3, <1>4 DEF Forget, Clients, LastCollected

LEMMA OffKeepsClients ==
  ASSUME Turns, Clients, WorldTypes, Finish \/ Crash \/ Start
  PROVE  Clients'
<1>1. history \in History /\ crashes \in Nat /\ ClientTypes
  BY DEF Clients, ClientTypes
<1>2. CASE Finish
  BY <1>1, <1>2, ForgetKeepsClients DEF Finish, files
<1>3. CASE Crash
  <2>1. Open \subseteq [file : {"world", "client"}, of : Client \cup Nat]
    <3>1. index + 1 \in Nat
      BY DEF WorldTypes
    <3>2. dump = "fill" => clientBuffer[next].client \in Client
      <4>1. clientBuffer \in Seq(Entry) /\ (dump = "fill" => next \in 1..Len(clientBuffer))
        BY DEF Clients, Cursor, ClientTypes
      <4>2. dump = "fill" => clientBuffer[next] \in Entry
        BY <4>1
      <4> QED
        BY <4>2 DEF Entry
    <3> QED
      BY <3>1, <3>2 DEF Open
  <2>2. history' \in History
    BY <1>1, <1>3, <2>1 DEF Crash, History
  <2> QED
    BY <1>1, <1>3, <2>2, ForgetKeepsClients DEF Crash
<1>4. CASE Start
  <2>1. /\ server = "off" /\ dump = "wait" /\ ~beginAllowed /\ saving = "no" /\ saveClients = {}
        /\ server' = "run"
        /\ place' = [c \in Client |-> IF clientFile[c] = NoFile THEN "gone" ELSE "out"]
        /\ UNCHANGED <<saving, data, saveClients, clientBuffer, beginAllowed, dump, next,
                       clientFile, crashes>>
    BY <1>4 DEF Start, Turns, Idle, Collecting, Woken, Writing, Alone, Clients, collected, events,
                files
  <2>2. history' \in History /\ history'.left = clientFile
    BY <1>1, <1>4 DEF Start, History, ClientTypes
  <2>3. ClientTypes'
    BY <1>1, <2>1, <2>2 DEF ClientTypes
  <2>4. Cursor' /\ ~LastCollected'
    BY <2>1 DEF Clients, Cursor, LastCollected
  <2>5. \A c \in Client : Pending(c)' = {}
    BY <2>1 DEF Pending
  <2>6. \A c \in Client : Kept(c)'
    BY <2>1, <2>2, <2>5 DEF Kept, Saved
  <2> QED
    BY <2>1, <2>3, <2>4, <2>6 DEF Clients
<1> QED
  BY <1>2, <1>3, <1>4

LEMMA ClientsKept == Turns /\ Clients /\ WorldTypes /\ [Next]_vars => Clients'
<1> SUFFICES ASSUME Turns, Clients, WorldTypes, [Next]_vars PROVE Clients'
  OBVIOUS
<1>1. CASE UNCHANGED vars
  <2>1. /\ UNCHANGED <<place, data, saveClients, clientBuffer, clientFile, history, next, crashes,
                       manager, server, saving, dump, beginAllowed>>
    BY <1>1 DEF vars, memory, collected, events, writer, files
  <2>2. \A i \in DOMAIN clientBuffer : Unwritten(i)' = Unwritten(i)
    BY <2>1 DEF Unwritten, Queued
  <2>3. Cursor' /\ (LastCollected' => LastCollected)
    BY <2>1 DEF Clients, Cursor, LastCollected
  <2>4. history \in History /\ next \in Nat /\ crashes \in Nat
    BY DEF Clients, ClientTypes
  <2> QED
    BY <2>1, <2>2, <2>3, <2>4, ClientsQuiet
<1> QED
  BY <1>1, ClientStepsKeepClients, SaverKeepsClients, DumpKeepsClients, OpenClientKeepsClients,
     WriteClientKeepsClients, CollectClientsKeepsClients, StopServerKeepsClients, OffKeepsClients
     DEF Next, SaverStep, WriterStep

-----------------------------------------------------------------------------
(***************************************************************************)
(* A set of numbers that is not empty has a least element, and if it is    *)
(* bounded a greatest one.                                                 *)
(***************************************************************************)
LEMMA LeastExists ==
  ASSUME NEW I \in SUBSET Nat, I # {}
  PROVE  \E x \in I : \A y \in I : x <= y
<1> DEFINE Less == {p \in Nat \X Nat : p[1] < p[2]}
<1>1. IsWellFoundedOn(Less, Nat)
  BY NatLessThanWellFounded DEF OpToRel
<1>2. PICK x \in I : \A y \in I : <<y, x>> \notin Less
  <2>1. I \subseteq Nat
    OBVIOUS
  <2> HIDE DEF Less
  <2> QED
    BY <1>1, <2>1, WFMin
<1>3. ASSUME NEW y \in I PROVE x <= y
  <2>1. x \in Nat /\ y \in Nat
    OBVIOUS
  <2>2. y < x => <<y, x>> \in Less
    BY <2>1
  <2> QED
    BY <1>2, <2>1, <2>2
<1> QED
  BY <1>3

LEMMA MaxIs ==
  ASSUME NEW n \in Nat, NEW I \in SUBSET (1..n), I # {}
  PROVE  Max(I) \in I /\ \A i \in I : i <= Max(I)
<1> DEFINE U == {u \in Nat : \A i \in I : i <= u}
<1>1. n \in U /\ U \in SUBSET Nat
  OBVIOUS
<1>2. PICK u \in U : \A v \in U : u <= v
  BY <1>1, LeastExists
<1>3. u \in I
  <2> SUFFICES ASSUME u \notin I PROVE FALSE
    OBVIOUS
  <2>1. u \in Nat /\ \A i \in I : i \in Nat /\ i < u
    BY <1>2
  <2>2. u - 1 \in Nat
    <3>1. PICK i \in I : TRUE
      OBVIOUS
    <3> QED
      BY <2>1
  <2>3. u - 1 \in U
    BY <2>1, <2>2
  <2> QED
    BY <1>2, <2>1, <2>3
<1>4. \A i \in I : u >= i
  BY <1>2
<1>5. Max(I) \in I /\ \A i \in I : Max(I) >= i
  BY <1>3, <1>4 DEF Max
<1> QED
  BY <1>5

(***************************************************************************)
(* The fold of a sequence applies AddByte to its elements one by one.      *)
(***************************************************************************)
FoldTable(g, n, s, b) ==
  g = [t \in SUBSET (1..n) |-> IF t = {} THEN b ELSE AddByte(g[t \ {Max(t)}], s[Max(t)])]

LEMMA FoldTableExists ==
  ASSUME NEW s, NEW b, NEW n \in Nat
  PROVE  \E g : FoldTable(g, n, s, b)
<1> DEFINE Table(m, g) == FoldTable(g, m, s, b)
           Bad == {m \in Nat : ~\E g : Table(m, g)}
<1>1. SUFFICES ASSUME Bad # {} PROVE FALSE
  OBVIOUS
<1>2. PICK m \in Bad : \A k \in Bad : m <= k
  BY <1>1, LeastExists
<1>3. CASE m = 0
  <2> DEFINE g == [t \in SUBSET (1..0) |-> b]
  <2>1. \A t \in SUBSET (1..0) : t = {}
    OBVIOUS
  <2>2. Table(0, g)
    BY <2>1, Zenon DEF FoldTable
  <2> QED
    BY <1>2, <1>3, <2>2
<1>4. CASE m # 0
  <2>1. m \in Nat /\ m - 1 \in Nat /\ m - 1 \notin Bad
    <3>1. m \in Nat
      OBVIOUS
    <3> HIDE DEF Bad
    <3> QED
      BY <3>1, <1>2, <1>4
  <2>2. PICK h : Table(m - 1, h)
    BY <2>1
  <2>3. \A t \in SUBSET (1..m - 1) :
          h[t] = IF t = {} THEN b ELSE AddByte(h[t \ {Max(t)}], s[Max(t)])
    BY <2>2, Zenon DEF FoldTable
  <2> DEFINE g == [t \in SUBSET (1..m) |->
                     IF t = {} THEN b
                     ELSE AddByte(h[t \ {Max(t)}], s[Max(t)])]
  <2>4. \A t \in SUBSET (1..m - 1) : t \in SUBSET (1..m) /\ g[t] = h[t]
    <3>1. \A t \in SUBSET (1..m - 1) : t \in SUBSET (1..m)
      BY <2>1
    <3> QED
      BY <3>1, <2>3, Zenon
  <2>5. \A t \in SUBSET (1..m) : t # {} => t \ {Max(t)} \in SUBSET (1..m - 1)
    <3> SUFFICES ASSUME NEW t \in SUBSET (1..m), t # {}, NEW i \in t \ {Max(t)}
        PROVE i \in 1..m - 1
      OBVIOUS
    <3>1. Max(t) \in 1..m /\ i <= Max(t) /\ i \in 1..m
      BY <2>1, MaxIs
    <3> QED
      BY <2>1, <3>1
  <2>6. Table(m, g)
    <3>1. \A t \in SUBSET (1..m) :
            g[t] = IF t = {} THEN b ELSE AddByte(g[t \ {Max(t)}], s[Max(t)])
      BY <2>4, <2>5
    <3> QED
      BY <3>1, Zenon DEF FoldTable
  <2> QED
    BY <1>2, <2>6
<1> QED
  BY <1>3, <1>4

AddBytes(b, bytes) == FoldLeft(AddByte, b, bytes)

FoldStates(f, n, s, b) ==
  /\ f[0] = b
  /\ \A k \in 1..n : f[k] = AddByte(f[k - 1], s[k])
  /\ AddBytes(b, s) = f[n]

LEMMA FoldSteps ==
  ASSUME NEW n \in Nat, NEW s, DOMAIN s = 1..n, NEW b
  PROVE  \E f : FoldStates(f, n, s, b)
<1> DEFINE T == CHOOSE g : FoldTable(g, n, s, b)
<1>1. AddBytes(b, s) = T[1..n]
  BY Zenon DEF AddBytes, FoldLeft, MapThenFoldSet, FoldTable
<1>2. FoldTable(T, n, s, b)
  BY FoldTableExists
<1> HIDE DEF T
<1>3. \A t \in SUBSET (1..n) :
        T[t] = IF t = {} THEN b ELSE AddByte(T[t \ {Max(t)}], s[Max(t)])
  BY <1>2, Zenon DEF FoldTable
<1> DEFINE f == [k \in 0..n |-> T[1..k]]
<1>4. f[0] = b
  <2>1. 1..0 = {} /\ 0 \in 0..n
    OBVIOUS
  <2>2. T[{}] = b
    BY <1>3
  <2> QED
    BY <2>1, <2>2
<1>5. ASSUME NEW k \in 1..n PROVE f[k] = AddByte(f[k - 1], s[k])
  <2>0. k \in Nat /\ 1 <= k /\ k <= n /\ k - 1 \in 0..n /\ k \in 0..n
    OBVIOUS
  <2>1. 1..k \in SUBSET (1..n) /\ 1..k # {}
    BY <2>0
  <2>2. Max(1..k) = k
    <3>1. Max(1..k) \in 1..k /\ k <= Max(1..k)
      <4>1. Max(1..k) \in 1..k /\ \A i \in 1..k : i <= Max(1..k)
        BY <2>1, MaxIs, Zenon
      <4>2. k \in 1..k
        BY <2>0
      <4> QED
        BY <4>1, <4>2
    <3> QED
      BY <2>0, <3>1
  <2>3. (1..k) \ {k} = 1..k - 1
    BY <2>0
  <2>4. T[1..k] = AddByte(T[1..k - 1], s[k])
    BY <1>3, <2>1, <2>2, <2>3
  <2> QED
    BY <2>0, <2>4
<1>6. AddBytes(b, s) = f[n]
  BY <1>1
<1> HIDE DEF f
<1>7. FoldStates(f, n, s, b)
  BY <1>4, <1>5, <1>6 DEF FoldStates
<1> QED
  BY <1>7

-----------------------------------------------------------------------------
(***************************************************************************)
(* AddWorldSaveData fills the buffers with all the bytes in their order.   *)
(***************************************************************************)
LEMMA Times == \A a \in Int : a * BufferSize \in Int /\ (a + 1) * BufferSize = a * BufferSize + BufferSize
OBVIOUS

LEMMA AppendKeeps ==
  ASSUME NEW P, NEW s \in Seq(P), NEW x \in P
  PROVE  /\ Append(s, x) \in Seq(P) /\ Len(Append(s, x)) = Len(s) + 1
         /\ \A j \in 1..Len(s) : Append(s, x)[j] = s[j]
OBVIOUS

LEMMA AddByteFills ==
  ASSUME NEW b, NEW n \in Nat, NEW e \in 0..MaxSaves + 1, Filled(b, n, e), b.free # 0
  PROVE  /\ Filled(AddByte(b, [epoch |-> e, at |-> n + 1]), n + 1, e)
         /\ AddByte(b, [epoch |-> e, at |-> n + 1]).free # 0
<1> DEFINE x == [epoch |-> e, at |-> n + 1]
           p == BufferSize - b.free + 1
           full == [b EXCEPT !.physical[b.count][p] = x, !.free = @ - 1]
<1> SUFFICES Filled(AddByte(b, x), n + 1, e) /\ AddByte(b, x).free # 0
  OBVIOUS
<1>1. /\ b.physical \in Seq([1..BufferSize -> Byte]) /\ b.count \in Nat /\ b.free \in 1..BufferSize
      /\ b = [physical |-> b.physical, count |-> b.count, free |-> b.free]
      /\ b.count \in 1..Len(b.physical) /\ b.count \in DOMAIN b.physical
      /\ BufferSize \in Nat /\ p \in 1..BufferSize
  BY DEF Filled, BufferRecord
<1>2. (b.count - 1) * BufferSize + p = n + 1 /\ (b.count - 1) * BufferSize \in Int
  <2>1. (b.count - 1) * BufferSize + (BufferSize - b.free) = n
    BY DEF Filled
  <2>2. (b.count - 1) * BufferSize \in Int /\ BufferSize \in Int /\ b.free \in Int /\ n \in Int
    BY <1>1, Times
  <2> PICK c : c = (b.count - 1) * BufferSize
    OBVIOUS
  <2>3. c \in Int /\ c + (BufferSize - b.free) = n
    BY <2>1, <2>2
  <2> HIDE DEF x, full
  <2>4. c + p = n + 1
    BY <2>2, <2>3
  <2> QED
    BY <2>2, <2>4
<1>3. x \in Byte
  BY DEF Byte
<1> DEFINE q == [b.physical EXCEPT ![b.count] = [@ EXCEPT ![p] = x]]
<1>4. /\ q \in Seq([1..BufferSize -> Byte]) /\ Len(q) = Len(b.physical)
      /\ \A j \in 1..Len(q), o \in 1..BufferSize :
           q[j][o] = IF j = b.count /\ o = p THEN x ELSE b.physical[j][o]
  <2>1. b.physical[b.count] \in [1..BufferSize -> Byte]
    BY <1>1
  <2>2. [b.physical[b.count] EXCEPT ![p] = x] \in [1..BufferSize -> Byte]
    BY <2>1, <1>1, <1>3
  <2>3. q \in Seq([1..BufferSize -> Byte]) /\ Len(q) = Len(b.physical)
    BY <1>1, <2>2
  <2>4. ASSUME NEW j \in 1..Len(q), NEW o \in 1..BufferSize
        PROVE  q[j][o] = IF j = b.count /\ o = p THEN x ELSE b.physical[j][o]
    BY <1>1, <2>1, <2>3
  <2> QED
    BY <2>3, <2>4
<1> HIDE DEF q
<1>5. full = [physical |-> q, count |-> b.count, free |-> b.free - 1]
  <2>1. full = [b EXCEPT !.physical = q, !.free = b.free - 1]
    BY Zenon DEF q
  <2> HIDE DEF full
  <2> QED
    BY <1>1, <2>1
<1> HIDE DEF full, p
<1>6. \A j \in 1..b.count, o \in 1..BufferSize :
        j < b.count \/ o <= p => q[j][o] = [epoch |-> e, at |-> (j - 1) * BufferSize + o]
  <2> SUFFICES ASSUME NEW j \in 1..b.count, NEW o \in 1..BufferSize, j < b.count \/ o <= p
      PROVE  q[j][o] = [epoch |-> e, at |-> (j - 1) * BufferSize + o]
    OBVIOUS
  <2>1. j \in 1..Len(q)
    BY <1>1, <1>4
  <2>2. CASE j = b.count /\ o = p
    BY <2>1, <2>2, <1>2, <1>4
  <2>3. CASE ~(j = b.count /\ o = p)
    <3>1. j < b.count \/ o <= BufferSize - b.free
      BY <2>3, <1>1 DEF p
    <3>2. b.physical[j][o] = [epoch |-> e, at |-> (j - 1) * BufferSize + o]
      BY <3>1 DEF Filled
    <3> QED
      BY <2>1, <2>3, <3>2, <1>4
  <2> QED
    BY <2>2, <2>3
<1> HIDE DEF x
<1>7. CASE b.free - 1 # 0
  <2>1. AddByte(b, x) = full
    BY <1>5, <1>7 DEF AddByte, full, p
  <2>2. full \in BufferRecord
    BY <1>1, <1>4, <1>5, <1>7 DEF BufferRecord
  <2>3. BufferSize - (b.free - 1) = p
    BY <1>1 DEF p
  <2>4. Filled(full, n + 1, e)
    BY <1>1, <1>2, <1>4, <1>5, <1>6, <2>2, <2>3 DEF Filled
  <2> QED
    BY <1>5, <1>7, <2>1, <2>4
<1>8. CASE b.free - 1 = 0
  <2> DEFINE open == OpenBuffer(full)
             r == IF b.count + 1 >= Len(q) THEN Append(q, [i \in 1..BufferSize |-> Garbage]) ELSE q
  <2>1. AddByte(b, x) = open
    BY <1>5, <1>8 DEF AddByte, full, p
  <2>2. open = [physical |-> r, count |-> b.count + 1, free |-> BufferSize]
    BY <1>5 DEF OpenBuffer
  <2>3. [i \in 1..BufferSize |-> Garbage] \in [1..BufferSize -> Byte]
    BY DEF Garbage, Byte
  <2>4. /\ r \in Seq([1..BufferSize -> Byte]) /\ b.count + 1 \in 1..Len(r)
        /\ \A j \in 1..b.count : r[j] = q[j]
    BY <1>1, <1>4, <2>3, AppendKeeps
  <2> HIDE DEF open, r
  <2>5. open \in BufferRecord
    BY <1>1, <2>2, <2>4 DEF BufferRecord
  <2>6. p = BufferSize
    BY <1>1, <1>8 DEF p
  <2>7. (b.count + 1 - 1) * BufferSize + (BufferSize - BufferSize) = n + 1
    <3>1. b.count * BufferSize = (b.count - 1) * BufferSize + BufferSize
      <4>1. b.count - 1 \in Int /\ (b.count - 1) + 1 = b.count
        BY <1>1
      <4> QED
        BY <4>1, Times
    <3>2. b.count + 1 - 1 = b.count
      BY <1>1
    <3> QED
      BY <1>1, <1>2, <2>6, <3>1, <3>2
  <2>8. \A j \in 1..b.count + 1, o \in 1..BufferSize :
          j < b.count + 1 \/ o <= BufferSize - BufferSize =>
            r[j][o] = [epoch |-> e, at |-> (j - 1) * BufferSize + o]
    <3> SUFFICES ASSUME NEW j \in 1..b.count + 1, NEW o \in 1..BufferSize,
                        j < b.count + 1 \/ o <= BufferSize - BufferSize
        PROVE  r[j][o] = [epoch |-> e, at |-> (j - 1) * BufferSize + o]
      OBVIOUS
    <3>1. j \in 1..b.count /\ o <= p
      BY <1>1, <2>6
    <3> QED
      BY <3>1, <1>6, <2>4
  <2>9. Filled(open, n + 1, e)
    BY <2>2, <2>4, <2>5, <2>7, <2>8 DEF Filled
  <2> QED
    BY <1>1, <2>1, <2>2, <2>9
<1> QED
  BY <1>7, <1>8

LEMMA CollectFills ==
  ASSUME NEW b \in BufferRecord, NEW e \in 0..MaxSaves + 1, NEW size \in Nat
  PROVE  Filled(AddWorldSaveData([b EXCEPT !.count = 0, !.free = 0], Bytes(e, size)), size, e)
<1> DEFINE none == [b EXCEPT !.count = 0, !.free = 0]
           open == OpenBuffer(none)
           r == IF 1 >= Len(b.physical) THEN Append(b.physical, [i \in 1..BufferSize |-> Garbage])
                ELSE b.physical
<1>1. none = [physical |-> b.physical, count |-> 0, free |-> 0]
  <2> HIDE DEF open, r
  <2>1. DOMAIN b = {"physical", "count", "free"}
    BY DEF BufferRecord
  <2>2. DOMAIN none = {"physical", "count", "free"}
    BY <2>1
  <2>3. none.physical = b.physical /\ none.count = 0 /\ none.free = 0
    BY <2>1
  <2>4. none = [k \in DOMAIN b |-> none[k]]
    BY <2>1
  <2> HIDE DEF none
  <2> QED
    BY <2>1, <2>2, <2>3, <2>4
<1>2. open = [physical |-> r, count |-> 1, free |-> BufferSize]
  BY <1>1 DEF OpenBuffer
<1>3. [i \in 1..BufferSize |-> Garbage] \in [1..BufferSize -> Byte]
  BY DEF Garbage, Byte
<1>4. r \in Seq([1..BufferSize -> Byte]) /\ 1 \in 1..Len(r)
  <2>1. b.physical \in Seq([1..BufferSize -> Byte])
    BY DEF BufferRecord
  <2>2. CASE 1 >= Len(b.physical)
    <3>1. r = Append(b.physical, [i \in 1..BufferSize |-> Garbage])
      BY <2>2
    <3> HIDE DEF none, open, r
    <3>2. Append(b.physical, [i \in 1..BufferSize |-> Garbage]) \in Seq([1..BufferSize -> Byte])
          /\ Len(Append(b.physical, [i \in 1..BufferSize |-> Garbage])) = Len(b.physical) + 1
      BY <1>3, <2>1, AppendKeeps
    <3>3. Len(b.physical) \in Nat
      BY <2>1
    <3>4. r \in Seq([1..BufferSize -> Byte]) /\ Len(r) = Len(b.physical) + 1
      BY <3>1, <3>2, Zenon
    <3> QED
      BY <3>3, <3>4
  <2>3. CASE ~(1 >= Len(b.physical))
    BY <2>1, <2>3
  <2> QED
    BY <2>2, <2>3
<1> HIDE DEF r
<1>5. Filled(open, 0, e) /\ open.free # 0
  <2>1. (1 - 1) * BufferSize + (BufferSize - BufferSize) = 0
    OBVIOUS
  <2>2. open \in BufferRecord
    BY <1>2, <1>4 DEF BufferRecord
  <2>3. \A j \in 1..1, o \in 1..BufferSize : ~(j < 1 \/ o <= BufferSize - BufferSize)
    OBVIOUS
  <2> HIDE DEF open
  <2> QED
    BY <1>2, <1>4, <2>1, <2>2, <2>3 DEF Filled
<1>6. DOMAIN Bytes(e, size) = 1..size
      /\ \A k \in 1..size : Bytes(e, size)[k] = [epoch |-> e, at |-> k]
  BY DEF Bytes
<1>7. AddWorldSaveData(none, Bytes(e, size)) = AddBytes(open, Bytes(e, size))
  BY <1>1 DEF AddWorldSaveData, AddBytes
<1> HIDE DEF none, open
<1> PICK f : FoldStates(f, size, Bytes(e, size), open)
  BY <1>6, FoldSteps
<1>8. /\ f[0] = open
      /\ \A k \in 1..size : f[k] = AddByte(f[k - 1], Bytes(e, size)[k])
      /\ AddBytes(open, Bytes(e, size)) = f[size]
  BY DEF FoldStates
<1> DEFINE Bad == {k \in 0..size : ~(Filled(f[k], k, e) /\ f[k].free # 0)}
<1>9. Bad = {}
  <2> SUFFICES ASSUME Bad # {} PROVE FALSE
    OBVIOUS
  <2>1. PICK k \in Bad : \A m \in Bad : k <= m
    <3>1. Bad \in SUBSET Nat
      OBVIOUS
    <3> QED
      BY <3>1, LeastExists
  <2>2. k \in 0..size /\ k # 0
    BY <1>5, <1>8
  <2>3. k - 1 \in 0..size /\ k - 1 \notin Bad /\ k \in 1..size
    <3>1. k - 1 \in 0..size /\ k \in 1..size /\ ~(k <= k - 1)
      BY <2>2
    <3> HIDE DEF Bad
    <3> QED
      BY <2>1, <3>1
  <2>4. Filled(f[k - 1], k - 1, e) /\ f[k - 1].free # 0
    BY <2>3
  <2>5. f[k] = AddByte(f[k - 1], [epoch |-> e, at |-> (k - 1) + 1])
    <3>1. (k - 1) + 1 = k
      BY <2>3
    <3> QED
      BY <1>6, <1>8, <2>3, <3>1
  <2>6. Filled(f[k], (k - 1) + 1, e) /\ f[k].free # 0
    <3>1. k - 1 \in Nat
      BY <2>3
    <3> QED
      BY <2>4, <2>5, <3>1, AddByteFills
  <2>7. (k - 1) + 1 = k
    BY <2>2
  <2> QED
    BY <2>6, <2>7
<1>10. Filled(f[size], size, e)
  <2>1. size \in 0..size /\ size \notin Bad
    BY <1>9
  <2> QED
    BY <2>1
<1> QED
  BY <1>7, <1>8, <1>10 DEF none

-----------------------------------------------------------------------------
(***************************************************************************)
(* The bytes of a world, and what a buffer holds of them.                  *)
(***************************************************************************)
LEMMA BytesAre ==
  ASSUME NEW e \in 0..MaxSaves + 1, NEW n \in Nat
  PROVE  /\ Bytes(e, n) \in Seq(Byte) /\ Len(Bytes(e, n)) = n
         /\ \A o \in 1..n : Bytes(e, n)[o] = [epoch |-> e, at |-> o]
<1>1. \A o \in 1..n : [epoch |-> e, at |-> o] \in Byte
  BY DEF Byte
<1>2. Bytes(e, n) \in [1..n -> Byte]
  BY <1>1 DEF Bytes
<1>3. Bytes(e, n) \in Seq(Byte) /\ Len(Bytes(e, n)) = n
  BY <1>2, SeqDef
<1> QED
  BY <1>3 DEF Bytes

LEMMA BytesFollow ==
  ASSUME NEW e \in 0..MaxSaves + 1, NEW k \in Nat, NEW s \in Seq(Byte),
         \A o \in 1..Len(s) : s[o] = [epoch |-> e, at |-> k + o]
  PROVE  Bytes(e, k) \o s = Bytes(e, k + Len(s))
<1> DEFINE a == Bytes(e, k)
           c == Bytes(e, k + Len(s))
<1>1. /\ a \in Seq(Byte) /\ Len(a) = k
      /\ \A o \in 1..k : a[o] = [epoch |-> e, at |-> o]
  BY BytesAre
<1>2. /\ c \in Seq(Byte) /\ Len(c) = k + Len(s)
      /\ \A o \in 1..k + Len(s) : c[o] = [epoch |-> e, at |-> o]
  <2>1. k + Len(s) \in Nat
    OBVIOUS
  <2> QED
    BY <2>1, BytesAre
<1> HIDE DEF a, c
<1>3. /\ a \o s \in Seq(Byte) /\ Len(a \o s) = k + Len(s)
      /\ \A o \in 1..k + Len(s) : (a \o s)[o] = IF o <= k THEN a[o] ELSE s[o - k]
  <2>1. \A p \in Seq(Byte), q \in Seq(Byte) :
          /\ p \o q \in Seq(Byte) /\ Len(p \o q) = Len(p) + Len(q)
          /\ \A o \in 1..Len(p) + Len(q) :
               (p \o q)[o] = IF o <= Len(p) THEN p[o] ELSE q[o - Len(p)]
    OBVIOUS
  <2> QED
    BY <1>1, <2>1
<1>4. ASSUME NEW o \in 1..k + Len(s) PROVE (a \o s)[o] = c[o]
  <2>1. CASE o <= k
    BY <2>1, <1>1, <1>2, <1>3
  <2>2. CASE ~(o <= k)
    <3>1. o - k \in 1..Len(s) /\ k + (o - k) = o
      BY <2>2
    <3>2. s[o - k] = [epoch |-> e, at |-> o]
      BY <3>1
    <3> QED
      BY <2>2, <3>2, <1>2, <1>3
  <2> QED
    BY <2>1, <2>2
<1>5. a \o s = c
  BY <1>2, <1>3, <1>4
<1> QED
  BY <1>5 DEF a, c

LEMMA TimesGrows == \A a, b \in Int : a <= b => a * BufferSize <= b * BufferSize
<1> SUFFICES ASSUME NEW a \in Int, NEW b \in Int, a <= b PROVE a * BufferSize <= b * BufferSize
  OBVIOUS
<1>1. (b - a) * BufferSize >= 0
  BY SMTT(30)
<1>2. b * BufferSize = a * BufferSize + (b - a) * BufferSize
  BY SMTT(30)
<1> QED
  BY <1>1, <1>2, Times

LEMMA BufferHolds ==
  ASSUME NEW n \in Nat, NEW e \in 0..MaxSaves + 1, Filled(buffers, n, e),
         NEW i \in 1..buffers.count
  PROVE  /\ Buffer(i) \in Seq(Byte)
         /\ (i - 1) * BufferSize \in Nat
         /\ \A o \in 1..Len(Buffer(i)) : Buffer(i)[o] = [epoch |-> e, at |-> (i - 1) * BufferSize + o]
         /\ i = buffers.count => (i - 1) * BufferSize + Len(Buffer(i)) = n
         /\ i < buffers.count => Len(Buffer(i)) = BufferSize /\ i * BufferSize <= n
<1>1. /\ buffers.count \in 1..Len(buffers.physical) /\ buffers.free \in 0..BufferSize
      /\ buffers.physical \in Seq([1..BufferSize -> Byte])
      /\ (buffers.count - 1) * BufferSize + (BufferSize - buffers.free) = n
      /\ buffers.count \in Nat
  BY DEF Filled, BufferRecord
<1>2. (i - 1) * BufferSize \in Nat
  <2>1. 0 * BufferSize <= (i - 1) * BufferSize
    BY <1>1, TimesGrows
  <2>2. 0 * BufferSize = 0 /\ (i - 1) * BufferSize \in Int
    BY <1>1, Times
  <2> QED
    BY <2>1, <2>2
<1>3. buffers.physical[i] \in [1..BufferSize -> Byte]
  <2>1. i \in 1..Len(buffers.physical)
    BY <1>1
  <2> QED
    BY <1>1, <2>1
<1>4. \A o \in 1..BufferSize : i < buffers.count \/ o <= BufferSize - buffers.free =>
        buffers.physical[i][o] = [epoch |-> e, at |-> (i - 1) * BufferSize + o]
  BY DEF Filled
<1>5. CASE i = buffers.count
  <2> DEFINE m == BufferSize - buffers.free
  <2>1. m \in 0..BufferSize
    BY <1>1
  <2>2. PICK p \in [1..BufferSize -> Byte] : p = buffers.physical[i]
    BY <1>3
  <2>3. p \in Seq(Byte) /\ Len(p) = BufferSize
    BY SeqDef
  <2>4. /\ SubSeq(p, 1, m) \in Seq(Byte) /\ Len(SubSeq(p, 1, m)) = m
        /\ \A o \in 1..m : SubSeq(p, 1, m)[o] = p[o]
    BY <2>1, <2>3
  <2>5. Buffer(i) = SubSeq(p, 1, m)
    BY <1>5, <2>2 DEF Buffer
  <2>6. \A o \in 1..m : p[o] = [epoch |-> e, at |-> (i - 1) * BufferSize + o]
    BY <1>4, <2>1, <2>2
  <2> HIDE DEF m
  <2>7. /\ Buffer(i) \in Seq(Byte) /\ Len(Buffer(i)) = m
        /\ \A o \in 1..m : Buffer(i)[o] = [epoch |-> e, at |-> (i - 1) * BufferSize + o]
    BY <2>4, <2>5, <2>6
  <2>8. (i - 1) * BufferSize + m = n
    BY <1>1, <1>5 DEF m
  <2> QED
    BY <1>2, <1>5, <2>7, <2>8
<1>6. CASE i < buffers.count
  <2>1. Buffer(i) = buffers.physical[i]
    BY <1>1, <1>6 DEF Buffer
  <2>2. Buffer(i) \in Seq(Byte) /\ Len(Buffer(i)) = BufferSize
    BY <1>3, <2>1, SeqDef
  <2>3. i * BufferSize <= n
    <3>1. i * BufferSize <= (buffers.count - 1) * BufferSize
      <4>1. i \in Int /\ buffers.count - 1 \in Int /\ i <= buffers.count - 1
        BY <1>1, <1>6
      <4> QED
        BY <4>1, TimesGrows
    <3>2. i * BufferSize \in Int /\ (buffers.count - 1) * BufferSize \in Int
      BY <1>1, Times
    <3> QED
      BY <1>1, <3>1, <3>2
  <2> QED
    BY <1>2, <1>4, <1>6, <2>1, <2>2, <2>3
<1> QED
  BY <1>1, <1>5, <1>6

(***************************************************************************)
(* LoadWorld finds the highest number there is.                            *)
(***************************************************************************)
NewestIn(f) ==
  LET saves == {i \in 1..MaxIndex : f[i] # NoFile}
  IN IF saves = {} THEN 0 ELSE Max(saves)

LEMMA NewestIs ==
  ASSUME NEW f
  PROVE  IF \A i \in 1..MaxIndex : f[i] = NoFile
         THEN NewestIn(f) = 0
         ELSE /\ NewestIn(f) \in 1..MaxIndex /\ f[NewestIn(f)] # NoFile
              /\ \A i \in 1..MaxIndex : f[i] # NoFile => i <= NewestIn(f)
<1> DEFINE saves == {i \in 1..MaxIndex : f[i] # NoFile}
<1>1. NewestIn(f) = IF saves = {} THEN 0 ELSE Max(saves)
  BY DEF NewestIn
<1>2. saves # {} => Max(saves) \in saves /\ \A i \in saves : i <= Max(saves)
  <2>1. saves \in SUBSET (1..MaxIndex)
    OBVIOUS
  <2> HIDE DEF saves
  <2> QED
    BY <2>1, MaxIs
<1> QED
  BY <1>1, <1>2

LEMMA NewestWithin == Newest = NewestIn(worldFile) /\ Newest' = NewestIn(worldFile')
BY Zenon DEF Newest, NewestIn

-----------------------------------------------------------------------------
LEMMA LastQuiet ==
  ASSUME LastKnown, UNCHANGED <<index, worldFile>>,
         history'.last = history.last, history'.wrapped = history.wrapped,
         server' = "off" <=> server = "off", WorldOpen' <=> WorldOpen
  PROVE  LastKnown'
<1>1. Newest' = Newest
  BY NewestWithin
<1>2. \A i : LastIs(i)' <=> LastIs(i)
  BY DEF LastIs
<1>3. File' = File
  BY DEF File
<1> QED
  BY <1>1, <1>2, <1>3 DEF LastKnown

LEMMA FilesQuiet ==
  ASSUME FilesWhole, UNCHANGED worldFile, Open' = Open, history'.cut = history.cut,
         \A c \in Client : clientFile'[c] = Torn => clientFile[c] = Torn
  PROVE  FilesWhole'
BY DEF FilesWhole

(***************************************************************************)
(* Steps that concern neither the buffers nor the files of the world.      *)
(***************************************************************************)
LEMMA WorldQuiet ==
  ASSUME World, items' \in [Client -> 0..MaxSaves + 1],
         UNCHANGED <<manager, buffers, world, erase, index, dump, next, worldFile, clientBuffer>>,
         history'.last = history.last, history'.wrapped = history.wrapped,
         history'.cut = history.cut,
         server' = "off" <=> server = "off",
         Collected' => Collected,
         \A c \in Client : clientFile'[c] = Torn => clientFile[c] = Torn
  PROVE  World'
<1>1. WorldOpen' <=> WorldOpen
  BY DEF WorldOpen
<1>2. Open' = Open
  BY <1>1 DEF Open
<1>3. WorldTypes'
  BY DEF World, WorldTypes
<1>4. BuffersFilled'
  BY DEF World, BuffersFilled
<1>5. FileWritten'
  <2>1. File' = File
    BY DEF File
  <2> QED
    BY <1>1, <2>1 DEF World, FileWritten
<1>6. OldErased'
  BY DEF World, OldErased
<1>7. FilesWhole'
  BY <1>2, FilesQuiet DEF World
<1>8. LastKnown'
  BY <1>1, LastQuiet DEF World
<1> QED
  BY <1>3, <1>4, <1>5, <1>6, <1>7, <1>8 DEF World

LEMMA WorldInitially == Init => World
<1> SUFFICES ASSUME Init PROVE World
  OBVIOUS
<1>1. ~Collected /\ ~WorldOpen /\ dump = "wait" /\ server = "run"
  BY DEF Init, Collected, WorldOpen
<1>2. WorldTypes
  <2>1. NoBuffers \in BufferRecord
    BY DEF NoBuffers, BufferRecord
  <2>2. NoWorld \in WorldRecord
    BY DEF NoWorld, WorldRecord
  <2> QED
    BY <2>1, <2>2 DEF Init, WorldTypes
<1>3. BuffersFilled /\ FileWritten /\ OldErased
  BY <1>1 DEF BuffersFilled, FileWritten, OldErased
<1>4. FilesWhole
  <2>1. New \in DataRecord
    BY DEF New, DataRecord
  <2> QED
    BY <2>1, FileAssumption DEF Init, FilesWhole
<1>5. LastKnown
  BY <1>1 DEF Init, LastKnown, LastIs
<1> QED
  BY <1>2, <1>3, <1>4, <1>5 DEF World

(***************************************************************************)
(* The clients, the start and the end of a save.                           *)
(***************************************************************************)
LEMMA GameKeepsWorld ==
  ASSUME Turns, Clients, World, NEW c \in Client,
         \/ Play(c) \/ DeleteAccount(c) \/ Login(c) \/ Reconnect(c) \/ DisconnectClient(c)
         \/ RemoveClient(c)
  PROVE  World'
<1>1. items \in [Client -> 0..MaxSaves + 1] /\ epoch \in 0..MaxSaves + 1 /\ history \in History
  BY DEF World, WorldTypes, Turns, Clients, ClientTypes
<1>2. UNCHANGED Game
  BY Zenon DEF Play, DeleteAccount, Login, Reconnect, DisconnectClient, RemoveClient
<1>3. UNCHANGED <<manager, server, saving, buffers, world, erase, index, dump, next, worldFile,
                  clientBuffer, beginAllowed>>
  BY <1>2 DEF Game, collected, writer, events
<1>4. Collected' <=> Collected
  BY <1>3 DEF Collected
<1>5. items' \in [Client -> 0..MaxSaves + 1]
  <2>1. CASE Play(c)
    BY <1>1, <2>1 DEF Play
  <2>2. CASE RemoveClient(c)
    BY <1>1, <2>2 DEF RemoveClient, EraseAccounts
  <2> QED
    BY <1>1, <2>1, <2>2 DEF DeleteAccount, Login, Reconnect, DisconnectClient
<1>6. history'.last = history.last /\ history'.wrapped = history.wrapped /\ history'.cut = history.cut
  <2>1. CASE Login(c)
    BY <1>1, <2>1 DEF Login, History
  <2>2. CASE RemoveClient(c)
    BY <1>1, <2>2 DEF RemoveClient, History
  <2> QED
    BY <2>1, <2>2 DEF Play, DeleteAccount, Reconnect, DisconnectClient
<1>7. \A d \in Client : clientFile'[d] = Torn => clientFile[d] = Torn
  <2>1. CASE RemoveClient(c)
    BY <2>1, FileAssumption DEF RemoveClient, EraseAccounts
  <2> QED
    BY <2>1 DEF Play, DeleteAccount, Login, Reconnect, DisconnectClient
<1> QED
  BY <1>3, <1>4, <1>5, <1>6, <1>7, WorldQuiet

LEMMA SaverKeepsWorld ==
  ASSUME Turns, Clients, World,
         StartSave \/ WaitDump \/ DumpFileFails \/ AwakeDump \/ StopServer \/ UNCHANGED vars
  PROVE  World'
<1>1. items \in [Client -> 0..MaxSaves + 1] /\ history \in History
  BY DEF World, WorldTypes, Clients, ClientTypes
<1>2. /\ UNCHANGED <<manager, buffers, world, erase, index, dump, next, worldFile, clientBuffer>>
      /\ server' = "off" <=> server = "off"
  BY DEF StartSave, WaitDump, DumpFileFails, AwakeDump, StopServer, Running, vars, collected,
         writer, files
<1>3. Collected' => Collected
  BY <1>2 DEF StartSave, WaitDump, DumpFileFails, AwakeDump, StopServer, Running, Saver, vars,
              events, Collected
<1>4. items' \in [Client -> 0..MaxSaves + 1]
  <2>1. CASE StopServer
    BY <1>1, <2>1 DEF StopServer, EraseAccounts
  <2> QED
    BY <1>1, <2>1 DEF StartSave, WaitDump, DumpFileFails, AwakeDump, vars, memory
<1>5. history'.last = history.last /\ history'.wrapped = history.wrapped /\ history'.cut = history.cut
  <2>1. CASE StopServer
    BY <1>1, <2>1 DEF StopServer, History
  <2>2. CASE DumpFileFails
    BY <1>1, <2>2 DEF DumpFileFails, History
  <2> QED
    BY <2>1, <2>2 DEF StartSave, WaitDump, AwakeDump, vars
<1>6. \A d \in Client : clientFile'[d] = Torn => clientFile[d] = Torn
  <2>1. CASE StopServer
    BY <2>1, FileAssumption DEF StopServer, EraseAccounts
  <2> QED
    BY <2>1 DEF StartSave, WaitDump, DumpFileFails, AwakeDump, vars, files
<1> QED
  BY <1>2, <1>3, <1>4, <1>5, <1>6, WorldQuiet

(***************************************************************************)
(* SaveWorld collects the world, then the clients.                         *)
(***************************************************************************)
LEMMA CollectWorldKeepsWorld ==
  ASSUME Turns, Clients, World, CollectWorld
  PROVE  World'
<1>1. PICK size \in WorldSizes, old \in SUBSET (1..MaxIndex) :
        /\ old \cap {index, index + 1} = {}
        /\ erase' = old
        /\ world' = [epoch |-> epoch, items |-> items, bytes |-> <<>>, size |-> size]
        /\ buffers' = AddWorldSaveData([buffers EXCEPT !.count = 0, !.free = 0], Bytes(epoch, size))
  BY DEF CollectWorld
<1>2. /\ UNCHANGED <<manager, server, epoch, items, clientBuffer, beginAllowed, index, dump, next,
                     worldFile, clientFile>>
      /\ history' = [history EXCEPT !.failed = FALSE]
      /\ dump = "wait" /\ ~beginAllowed /\ saving' = "clients"
  BY DEF CollectWorld, memory, events, writer, files, Turns, Idle, Collecting, Woken, Writing, Alone
<1>3. /\ size \in Nat /\ size # 0
      /\ epoch \in 0..MaxSaves + 1 /\ epoch # 0 /\ buffers \in BufferRecord
      /\ items \in [Client -> 0..MaxSaves + 1] /\ index \in Nat
  BY DEF Turns, World, WorldTypes
<1>4. Filled(buffers', size, epoch)
  BY <1>1, <1>3, CollectFills
<1>5. world' \in WorldRecord /\ world'.bytes = <<>> /\ world'.size = size /\ world'.epoch = epoch
  BY <1>1, <1>3 DEF WorldRecord
<1>6. WorldTypes'
  <2>1. buffers' \in BufferRecord
    BY <1>4 DEF Filled
  <2> QED
    BY <1>1, <1>2, <1>5, <2>1 DEF World, WorldTypes
<1>7. BuffersFilled'
  BY <1>3, <1>4, <1>5 DEF BuffersFilled
<1>8. ~WorldOpen /\ ~WorldOpen' /\ Open' = Open
  BY <1>2 DEF WorldOpen, Open
<1>9. FileWritten'
  BY <1>2, <1>8 DEF FileWritten
<1>10. OldErased'
  BY <1>1, <1>2 DEF OldErased
<1>11. history'.last = history.last /\ history'.wrapped = history.wrapped /\ history'.cut = history.cut
  BY <1>2 DEF Clients, ClientTypes, History
<1>12. FilesWhole'
  BY <1>2, <1>8, <1>11, FilesQuiet DEF World
<1>13. LastKnown'
  BY <1>2, <1>8, <1>11, LastQuiet DEF World
<1> QED
  BY <1>6, <1>7, <1>9, <1>10, <1>12, <1>13 DEF World

LEMMA CollectClientsKeepsWorld ==
  ASSUME Turns, World, CollectClients
  PROVE  World'
<1>1. /\ UNCHANGED <<manager, server, items, buffers, world, erase, beginAllowed, index, next,
                     worldFile, clientFile, history>>
      /\ saving = "clients" /\ dump = "wait" /\ dump' \in {"wait", "open"}
  BY DEF CollectClients, events, files, Turns, Idle, Collecting, Woken, Writing, Alone
<1>2. ~WorldOpen /\ ~WorldOpen' /\ Open = {} /\ Open' = {}
  BY <1>1 DEF WorldOpen, Open
<1>3. WorldTypes' /\ BuffersFilled' /\ FileWritten' /\ OldErased'
  BY <1>1, <1>2 DEF World, WorldTypes, BuffersFilled, Collected, FileWritten, OldErased
<1>4. FilesWhole'
  BY <1>1, <1>2, FilesQuiet DEF World
<1>5. LastKnown'
  BY <1>1, <1>2, LastQuiet DEF World
<1> QED
  BY <1>3, <1>4, <1>5 DEF World

(***************************************************************************)
(* Dump_Work, between the files.                                           *)
(***************************************************************************)
LEMMA DumpKeepsWorld ==
  ASSUME Turns, World, DumpBegin \/ DumpDisallow \/ OpenWorldFails \/ ClientsWritten
  PROVE  World'
<1>1. UNCHANGED <<manager, server, items, buffers, world, erase, clientBuffer, index, worldFile,
                  clientFile, history>>
  BY DEF DumpBegin, DumpDisallow, OpenWorldFails, ClientsWritten, Rest, memory, collected, files
<1>2. WorldOpen' <=> WorldOpen
  BY <1>1 DEF DumpBegin, DumpDisallow, OpenWorldFails, ClientsWritten, WorldOpen
<1>3. Open' = Open
  BY <1>1, <1>2 DEF DumpBegin, DumpDisallow, OpenWorldFails, ClientsWritten, Open
<1>4. Collected' => Collected
  BY DEF DumpBegin, DumpDisallow, OpenWorldFails, ClientsWritten, Collected, events
<1>5. WorldTypes' /\ BuffersFilled'
  BY <1>1, <1>4 DEF World, WorldTypes, BuffersFilled
<1>6. FileWritten'
  <2>1. File' = File /\ dump' # "write" /\ (WorldOpen => dump # "write")
    BY <1>1 DEF File, DumpBegin, DumpDisallow, OpenWorldFails, ClientsWritten
  <2> QED
    BY <1>1, <1>2, <2>1 DEF World, FileWritten
<1>7. OldErased'
  <2>1. CASE DumpBegin
    BY <1>1, <1>4, <2>1 DEF World, OldErased, DumpBegin
  <2>2. CASE DumpDisallow
    BY <1>1, <1>4, <2>2 DEF World, OldErased, DumpDisallow
  <2>3. CASE OpenWorldFails
    BY <1>1, <2>3 DEF World, OldErased, OpenWorldFails, Collected, events, Turns, Idle, Collecting,
                      Woken, Writing
  <2>4. CASE ClientsWritten
    BY <1>1, <1>4, <2>4 DEF World, OldErased, ClientsWritten
  <2> QED
    BY <2>1, <2>2, <2>3, <2>4
<1>8. FilesWhole'
  BY <1>1, <1>3, FilesQuiet DEF World
<1>9. LastKnown'
  BY <1>1, <1>2, LastQuiet DEF World
<1> QED
  BY <1>5, <1>6, <1>7, <1>8, <1>9 DEF World

(***************************************************************************)
(* Dump_Work opens the file of the world ...                               *)
(***************************************************************************)
LEMMA OpenWorldKeepsWorld ==
  ASSUME Turns, Clients, World, OpenWorld
  PROVE  World'
<1>1. /\ UNCHANGED <<manager, server, items, buffers, world, erase, clientBuffer, index,
                     saving, beginAllowed, clientFile, history>>
      /\ dump = "open" /\ dump' = "write" /\ next' = 1 /\ Collected
      /\ worldFile' = [worldFile EXCEPT ![index + 1] = world]
      /\ server # "off"
  BY DEF OpenWorld, Rest, memory, collected, events, Turns, Idle, Collecting, Woken, Writing,
         Alone, Collected
<1>2. /\ worldFile \in [1..MaxIndex + 1 -> {NoFile} \cup WorldRecord] /\ world \in WorldRecord
      /\ index \in Nat /\ index + 1 \in 1..MaxIndex + 1 /\ MaxIndex \in Nat
  BY DEF World, WorldTypes
<1>3. /\ world.bytes = <<>> /\ world.size # 0 /\ world.epoch # 0
      /\ Filled(buffers, world.size, world.epoch)
      /\ world.epoch \in 0..MaxSaves + 1 /\ world.size \in Nat
  BY <1>1, <1>2 DEF World, BuffersFilled, WorldRecord
<1>4. WorldTypes'
  BY <1>1, <1>2 DEF World, WorldTypes
<1>5. BuffersFilled'
  BY <1>1, <1>3 DEF BuffersFilled
<1>6. File' = world /\ WorldOpen' /\ ~WorldOpen
  BY <1>1, <1>2 DEF File, WorldOpen
<1>7. FileWritten'
  <2>1. Bytes(world.epoch, 0) = <<>>
    <3>1. Bytes(world.epoch, 0) \in Seq(Byte) /\ Len(Bytes(world.epoch, 0)) = 0
      BY <1>3, BytesAre
    <3> QED
      BY <3>1
  <2>2. world = [world EXCEPT !.bytes = <<>>]
    BY <1>2, <1>3 DEF WorldRecord
  <2>3. (1 - 1) * BufferSize = 0
    OBVIOUS
  <2>4. buffers.count \in Nat /\ 1 <= buffers.count
    BY <1>3 DEF Filled, BufferRecord
  <2> QED
    BY <1>1, <1>6, <2>1, <2>2, <2>3, <2>4 DEF FileWritten
<1>8. OldErased'
  BY <1>1 DEF World, OldErased, Collected
<1>9. FilesWhole'
  <2>1. Open = {} /\ Open' = {[file |-> "world", of |-> index + 1]}
    BY <1>1, <1>6 DEF Open
  <2>2. \A i \in 1..MaxIndex + 1 : i # index + 1 => worldFile'[i] = worldFile[i]
    BY <1>1, <1>2
  <2> QED
    BY <1>1, <1>2, <2>1, <2>2 DEF World, FilesWhole
<1>10. LastKnown'
  <2>1. ~Whole(world)
    <3>1. Len(Bytes(world.epoch, world.size)) = world.size
      BY <1>3, BytesAre
    <3> QED
      BY <1>3, <3>1 DEF Whole
  <2>2. ~history.wrapped => LastIs(index)' <=> LastIs(index)
    BY <1>1, <1>2 DEF LastIs
  <2>3. \A i \in 1..MaxIndex + 1 : i # index + 1 => worldFile'[i] = worldFile[i]
    BY <1>1, <1>2
  <2> QED
    BY <1>1, <1>6, <2>1, <2>2, <2>3 DEF World, LastKnown
<1> QED
  BY <1>4, <1>5, <1>7, <1>8, <1>9, <1>10 DEF World

(***************************************************************************)
(* ... writes the next buffer ...                                          *)
(***************************************************************************)
LEMMA WriteWorldWrites ==
  ASSUME Turns, Clients, World, WriteWorld
  PROVE  \E k \in Nat, l \in Nat :
           /\ File = [world EXCEPT !.bytes = Bytes(world.epoch, k)]
           /\ worldFile' = [worldFile EXCEPT ![index + 1] =
                              [world EXCEPT !.bytes = Bytes(world.epoch, l)]]
           /\ k <= l /\ l <= world.size
           /\ \/ /\ manager /\ dump' = "write" /\ next' \in 1..buffers.count
                 /\ l = (next' - 1) * BufferSize /\ k < l
              \/ l = world.size /\ dump' = IF manager THEN "close" ELSE "client"
<1>1. /\ dump = "write" /\ Collected
      /\ worldFile' = [worldFile EXCEPT ![index + 1].bytes =
           @ \o IF manager THEN Buffer(next) ELSE Bytes(world.epoch, world.size)]
      /\ IF manager /\ next < buffers.count
         THEN next' = next + 1 /\ UNCHANGED dump
         ELSE next' = 1 /\ dump' = IF manager THEN "close" ELSE "client"
  BY DEF WriteWorld, Collected
<1>2. /\ worldFile \in [1..MaxIndex + 1 -> {NoFile} \cup WorldRecord] /\ world \in WorldRecord
      /\ index \in Nat /\ index + 1 \in 1..MaxIndex + 1 /\ MaxIndex \in Nat
  BY DEF World, WorldTypes
<1>3. /\ Filled(buffers, world.size, world.epoch)
      /\ world.epoch \in 0..MaxSaves + 1 /\ world.size \in Nat /\ manager \in BOOLEAN
  BY <1>1, <1>2 DEF World, BuffersFilled, WorldRecord, Turns
<1>4. PICK k : /\ k = IF manager THEN (next - 1) * BufferSize ELSE 0
               /\ File = [world EXCEPT !.bytes = Bytes(world.epoch, k)]
               /\ manager => next \in 1..buffers.count
  BY <1>1 DEF World, FileWritten
<1>5. PICK s : s = IF manager THEN Buffer(next) ELSE Bytes(world.epoch, world.size)
  OBVIOUS
<1>6. /\ k \in Nat /\ s \in Seq(Byte)
      /\ \A o \in 1..Len(s) : s[o] = [epoch |-> world.epoch, at |-> k + o]
      /\ k + Len(s) <= world.size
      /\ \/ manager /\ next < buffers.count /\ Len(s) = BufferSize
         \/ ~(manager /\ next < buffers.count) /\ k + Len(s) = world.size
  <2>1. CASE manager
    <3>1. next \in 1..buffers.count /\ k = (next - 1) * BufferSize /\ s = Buffer(next)
      BY <1>4, <1>5, <2>1
    <3>2. buffers.count \in Nat
      BY <1>3 DEF Filled, BufferRecord
    <3>3. /\ Buffer(next) \in Seq(Byte)
          /\ (next - 1) * BufferSize \in Nat
          /\ \A o \in 1..Len(Buffer(next)) :
               Buffer(next)[o] = [epoch |-> world.epoch, at |-> (next - 1) * BufferSize + o]
          /\ next = buffers.count => (next - 1) * BufferSize + Len(Buffer(next)) = world.size
          /\ next < buffers.count => Len(Buffer(next)) = BufferSize /\ next * BufferSize <= world.size
      BY <1>3, <3>1, BufferHolds
    <3>4. next * BufferSize = (next - 1) * BufferSize + BufferSize
      <4>1. next - 1 \in Int /\ next = (next - 1) + 1
        BY <3>1, <3>2
      <4> QED
        BY <4>1, Times
    <3> QED
      BY <2>1, <3>1, <3>2, <3>3, <3>4, <1>3
  <2>2. CASE ~manager
    <3>1. k = 0 /\ s = Bytes(world.epoch, world.size)
      BY <1>4, <1>5, <2>2
    <3> QED
      BY <2>2, <3>1, <1>3, BytesAre
  <2> QED
    BY <2>1, <2>2
<1>7. Bytes(world.epoch, k) \o s = Bytes(world.epoch, k + Len(s))
  BY <1>3, <1>6, BytesFollow
<1>8. PICK l : l = k + Len(s)
  OBVIOUS
<1>9. worldFile' = [worldFile EXCEPT ![index + 1] = [world EXCEPT !.bytes = Bytes(world.epoch, l)]]
  <2>1. worldFile' = [worldFile EXCEPT ![index + 1] = [File EXCEPT !.bytes = File.bytes \o s]]
    BY <1>1, <1>5, Zenon DEF File
  <2>2. DOMAIN world = {"epoch", "items", "bytes", "size"}
    BY <1>2 DEF WorldRecord
  <2>3. File.bytes = Bytes(world.epoch, k)
    BY <1>4, <2>2
  <2>4. [File EXCEPT !.bytes = Bytes(world.epoch, l)] = [world EXCEPT !.bytes = Bytes(world.epoch, l)]
    BY <1>4, <2>2
  <2> QED
    BY <1>7, <1>8, <2>1, <2>3, <2>4
<1>10. k \in Nat /\ l \in Nat /\ k <= l /\ l <= world.size
  BY <1>6, <1>8
<1>11. CASE manager /\ next < buffers.count
  <2>1. dump' = "write" /\ next' = next + 1 /\ next \in 1..buffers.count /\ buffers.count \in Nat
    BY <1>1, <1>3, <1>4, <1>11 DEF Filled, BufferRecord
  <2>2. l = (next' - 1) * BufferSize /\ k < l
    <3>1. next * BufferSize = (next - 1) * BufferSize + BufferSize
      <4>1. next - 1 \in Int /\ next = (next - 1) + 1
        BY <2>1
      <4> QED
        BY <4>1, Times
    <3>2. next' - 1 = next
      BY <2>1
    <3>3. l = k + BufferSize /\ k = (next - 1) * BufferSize
      BY <1>4, <1>6, <1>8, <1>11
    <3> QED
      BY <1>10, <3>1, <3>2, <3>3
  <2>3. next' \in 1..buffers.count
    BY <1>11, <2>1
  <2>4. /\ File = [world EXCEPT !.bytes = Bytes(world.epoch, k)]
        /\ k \in Nat /\ l \in Nat /\ k <= l /\ l <= world.size
    BY <1>4, <1>10
  <2> QED
    BY <1>9, <1>11, <2>1, <2>2, <2>3, <2>4, Zenon
<1>12. CASE ~(manager /\ next < buffers.count)
  <2>1. l = world.size /\ dump' = IF manager THEN "close" ELSE "client"
    BY <1>1, <1>6, <1>8, <1>12
  <2> QED
    BY <1>4, <1>9, <1>10, <2>1
<1> QED
  BY <1>11, <1>12

LEMMA WriteWorldKeepsWorld ==
  ASSUME Turns, Clients, World, WriteWorld
  PROVE  World'
<1>1. PICK k \in Nat, l \in Nat :
           /\ File = [world EXCEPT !.bytes = Bytes(world.epoch, k)]
           /\ worldFile' = [worldFile EXCEPT ![index + 1] =
                              [world EXCEPT !.bytes = Bytes(world.epoch, l)]]
           /\ k <= l /\ l <= world.size
           /\ \/ /\ manager /\ dump' = "write" /\ next' \in 1..buffers.count
                 /\ l = (next' - 1) * BufferSize /\ k < l
              \/ l = world.size /\ dump' = IF manager THEN "close" ELSE "client"
  BY WriteWorldWrites
<1>2. PICK f, g : /\ f = [world EXCEPT !.bytes = Bytes(world.epoch, k)]
                  /\ g = [world EXCEPT !.bytes = Bytes(world.epoch, l)]
  OBVIOUS
<1>3. /\ UNCHANGED <<manager, server, items, buffers, world, erase, clientBuffer, index,
                     saving, beginAllowed, clientFile>>
      /\ dump = "write" /\ Collected /\ server # "off"
      /\ history' = [history EXCEPT !.last = IF Whole(worldFile'[index + 1]) THEN world.epoch ELSE @]
  BY DEF WriteWorld, Rest, memory, collected, events, Turns, Idle, Collecting, Woken, Writing,
         Alone, Collected
<1>4. /\ worldFile \in [1..MaxIndex + 1 -> {NoFile} \cup WorldRecord] /\ world \in WorldRecord
      /\ index \in Nat /\ index + 1 \in 1..MaxIndex + 1 /\ MaxIndex \in Nat /\ manager \in BOOLEAN
  BY DEF World, WorldTypes, Turns
<1>5. /\ world.epoch # 0 /\ Filled(buffers, world.size, world.epoch)
      /\ world.epoch \in 0..MaxSaves + 1 /\ world.size \in Nat
      /\ world.bytes = <<>> /\ world.size # 0
  BY <1>3, <1>4 DEF World, BuffersFilled, WorldRecord
<1>6. \A n \in Nat : Bytes(world.epoch, n) \in Seq(Byte) /\ Len(Bytes(world.epoch, n)) = n
  BY <1>5, BytesAre
<1>7. /\ g \in WorldRecord /\ g.epoch = world.epoch /\ g.size = world.size
      /\ f.epoch = world.epoch /\ f.size = world.size
      /\ f.bytes = Bytes(world.epoch, k) /\ g.bytes = Bytes(world.epoch, l)
  BY <1>2, <1>4, <1>6 DEF WorldRecord
<1>8. (Whole(f) <=> k = world.size) /\ (Whole(g) <=> l = world.size) /\ g # NoFile
  BY <1>5, <1>6, <1>7, FileAssumption DEF Whole
<1>9. /\ File = f /\ File' = g /\ worldFile'[index + 1] = g
      /\ \A i \in 1..MaxIndex + 1 : i # index + 1 => worldFile'[i] = worldFile[i]
      /\ worldFile' \in [1..MaxIndex + 1 -> {NoFile} \cup WorldRecord]
  BY <1>1, <1>2, <1>3, <1>4, <1>7 DEF File
<1>10. WorldOpen /\ WorldOpen'
  BY <1>1, <1>3, <1>4 DEF WorldOpen
<1>11. /\ history'.last = IF l = world.size THEN world.epoch ELSE history.last
       /\ history'.wrapped = history.wrapped /\ history'.cut = history.cut
  BY <1>3, <1>8, <1>9 DEF Clients, ClientTypes, History
<1>12. WorldTypes'
  BY <1>3, <1>9 DEF World, WorldTypes
<1>13. BuffersFilled'
  BY <1>3, <1>5 DEF BuffersFilled
<1>14. FileWritten'
  <2>1. CASE manager /\ dump' = "write" /\ next' \in 1..buffers.count
             /\ l = (next' - 1) * BufferSize
    BY <2>1, <1>2, <1>3, <1>9 DEF FileWritten
  <2>2. CASE l = world.size /\ dump' = IF manager THEN "close" ELSE "client"
    BY <2>2, <1>8, <1>9 DEF FileWritten
  <2> QED
    BY <1>1, <2>1, <2>2
<1>15. OldErased'
  BY <1>1, <1>3 DEF World, OldErased, Collected
<1>16. FilesWhole'
  <2>1. Open = {[file |-> "world", of |-> index + 1]} /\ Open' = Open
    BY <1>1, <1>3, <1>10 DEF Open
  <2> QED
    BY <1>3, <1>4, <1>9, <1>11, <2>1 DEF World, FilesWhole
<1>17. LastKnown'
  <2> SUFFICES ASSUME ~history.wrapped PROVE LastKnown'
    BY <1>11 DEF LastKnown
  <2>1. /\ index < MaxIndex
        /\ \A i \in 1..MaxIndex + 1 : worldFile[i] # NoFile => i <= index \/ i = index + 1
        /\ IF Whole(f) THEN LastIs(index + 1) ELSE LastIs(index)
    BY <1>3, <1>9, <1>10 DEF World, LastKnown
  <2>2. \A i \in 1..MaxIndex + 1 : worldFile'[i] # NoFile => i <= index \/ i = index + 1
    BY <1>9, <2>1
  <2>3. CASE l = world.size
    <3>1. LastIs(index + 1)'
      BY <1>3, <1>4, <1>5, <1>7, <1>8, <1>9, <1>11, <2>3 DEF LastIs
    <3> QED
      BY <3>1, <1>3, <1>8, <1>9, <1>10, <2>1, <2>2, <2>3 DEF LastKnown
  <2>4. CASE l # world.size
    <3>1. ~Whole(f) /\ ~Whole(g)
      BY <2>4, <1>1, <1>5, <1>8
    <3>2. LastIs(index)'
      <4>1. index # 0 => worldFile'[index] = worldFile[index]
        <5>1. index # 0 => index \in 1..MaxIndex + 1 /\ index # index + 1
          BY <1>4
        <5> QED
          BY <5>1, <1>9
      <4>2. history'.last = history.last /\ index' = index
        BY <1>3, <1>11, <2>4
      <4>3. LastIs(index)
        BY <3>1, <2>1
      <4> QED
        BY <4>1, <4>2, <4>3 DEF LastIs
    <3> QED
      BY <3>1, <3>2, <1>3, <1>9, <1>10, <2>1, <2>2 DEF LastKnown
  <2> QED
    BY <2>3, <2>4
<1> QED
  BY <1>12, <1>13, <1>14, <1>15, <1>16, <1>17 DEF World

(***************************************************************************)
(* ... and closes it.                                                      *)
(***************************************************************************)
LEMMA CloseWorldKeepsWorld ==
  ASSUME Turns, Clients, World, CloseWorld
  PROVE  World'
<1>1. /\ UNCHANGED <<manager, server, items, buffers, world, erase, clientBuffer, next,
                     beginAllowed, worldFile, clientFile>>
      /\ dump = "close" /\ dump' = IF manager THEN "client" ELSE "wait"
      /\ index' = IF index + 1 >= MaxIndex THEN 0 ELSE index + 1
      /\ history' = [history EXCEPT !.wrapped = @ \/ index' = 0]
      /\ saving' \notin {"clients", "awake"} /\ ~beginAllowed /\ server # "off" /\ manager \in BOOLEAN
  BY DEF CloseWorld, Rest, memory, collected, events, files, Turns, Idle, Collecting, Woken,
         Writing, Alone
<1>2. /\ index \in Nat /\ index + 1 \in 1..MaxIndex + 1 /\ MaxIndex \in Nat /\ MaxIndex # 0
      /\ erase \subseteq 1..MaxIndex
  BY DEF World, WorldTypes
<1>3. WorldOpen /\ ~WorldOpen' /\ File # NoFile /\ Whole(File)
  BY <1>1 DEF WorldOpen, World, FileWritten
<1>4. /\ history'.last = history.last /\ history'.cut = history.cut
      /\ history'.wrapped <=> history.wrapped \/ index' = 0
  BY <1>1 DEF Clients, ClientTypes, History
<1>5. WorldTypes'
  <2>1. index' \in 0..MaxIndex
    BY <1>1, <1>2
  <2> QED
    BY <1>1, <2>1 DEF World, WorldTypes
<1>6. ~Collected'
  BY <1>1 DEF Collected
<1>7. FileWritten'
  BY <1>1, <1>3 DEF FileWritten
<1>8. OldErased'
  <2>1. manager => index' \notin erase
    BY <1>1, <1>2 DEF World, OldErased
  <2> QED
    BY <2>1, <1>1, <1>6 DEF OldErased
<1>9. FilesWhole'
  <2>1. Open = {[file |-> "world", of |-> index + 1]} /\ Open' = {}
    BY <1>1, <1>3 DEF Open
  <2> QED
    BY <1>1, <1>3, <1>4, <2>1 DEF World, FilesWhole, File
<1>10. LastKnown'
  <2> SUFFICES ASSUME ~history'.wrapped PROVE LastKnown'
    BY DEF LastKnown
  <2>1. ~history.wrapped /\ index' = index + 1 /\ index' < MaxIndex
    BY <1>1, <1>2, <1>4
  <2>2. LastIs(index + 1) /\ \A i \in 1..MaxIndex + 1 : worldFile[i] # NoFile => i <= index \/ i = index + 1
    BY <1>1, <1>3, <2>1 DEF World, LastKnown
  <2>3. LastIs(index)'
    BY <1>1, <1>4, <2>1, <2>2 DEF LastIs
  <2> QED
    BY <1>1, <1>2, <1>3, <2>1, <2>2, <2>3 DEF LastKnown
<1> QED
  BY <1>5, <1>6, <1>7, <1>8, <1>9, <1>10 DEF World, BuffersFilled

(***************************************************************************)
(* The files of the clients, and the old worlds.                           *)
(***************************************************************************)
LEMMA ClientFilesKeepWorld ==
  ASSUME Turns, Clients, World, OpenClient \/ WriteClient
  PROVE  World'
<1>1. /\ UNCHANGED <<manager, server, items, buffers, world, erase, clientBuffer, saving,
                     beginAllowed, index, worldFile, history>>
      /\ dump \in {"client", "fill"} /\ dump' \in {"client", "fill"}
  BY DEF OpenClient, WriteClient, Rest, memory, collected, events
<1>2. WorldOpen' <=> WorldOpen
  BY <1>1 DEF WorldOpen
<1>3. WorldTypes' /\ BuffersFilled' /\ FileWritten' /\ OldErased'
  BY <1>1, <1>2 DEF World, WorldTypes, BuffersFilled, Collected, FileWritten, File, OldErased
<1>4. LastKnown'
  BY <1>1, <1>2, LastQuiet DEF World
<1>5. /\ clientFile \in [Client -> FileData] /\ DOMAIN clientBuffer = 1..Len(clientBuffer)
      /\ \A i \in DOMAIN clientBuffer : clientBuffer[i].data # Torn
  <2>1. clientFile \in [Client -> FileData] /\ clientBuffer \in Seq(Entry)
    BY DEF Clients, ClientTypes
  <2>2. \A i \in DOMAIN clientBuffer : clientBuffer[i] \in Entry
    BY <2>1
  <2>3. \A i \in DOMAIN clientBuffer : clientBuffer[i].data \in DataRecord
    BY <2>2 DEF Entry
  <2> QED
    BY <2>1, <2>3, FileAssumption
<1>6. FilesWhole'
  <2> DEFINE W == {[file |-> "world", of |-> i] : i \in {j \in {index + 1} : WorldOpen}}
  <2>1. CASE OpenClient
    <3>1. PICK o : o = clientBuffer[next].client
      OBVIOUS
    <3>2. /\ dump = "client" /\ dump' = "fill" /\ next' = next
          /\ clientFile' = [clientFile EXCEPT ![o] = Torn]
      BY <2>1, <3>1 DEF OpenClient
    <3>3. Open = W /\ Open' = W \cup {[file |-> "client", of |-> o]}
      BY <1>1, <1>2, <3>1, <3>2 DEF Open
    <3>4. \A c \in Client : clientFile'[c] = Torn => c = o \/ clientFile[c] = Torn
      BY <1>5, <3>2
    <3> QED
      BY <1>1, <3>3, <3>4 DEF World, FilesWhole
  <2>2. CASE WriteClient
    <3>1. PICK o : o = clientBuffer[next].client
      OBVIOUS
    <3>2. /\ dump = "fill" /\ dump' = "client" /\ next \in DOMAIN clientBuffer
          /\ clientFile' = [clientFile EXCEPT ![o] = clientBuffer[next].data]
      BY <2>2, <3>1, <1>5 DEF WriteClient, Clients, Cursor
    <3>3. Open = W \cup {[file |-> "client", of |-> o]} /\ Open' = W
      BY <1>1, <1>2, <3>1, <3>2 DEF Open
    <3>4. \A c \in Client : clientFile'[c] = Torn => c # o /\ clientFile[c] = Torn
      BY <1>5, <3>2
    <3>5. \A i : [file |-> "world", of |-> i] # [file |-> "client", of |-> o]
      OBVIOUS
    <3>6. \A c : c # o => [file |-> "client", of |-> c] # [file |-> "client", of |-> o]
      OBVIOUS
    <3> HIDE DEF W
    <3> QED
      BY <1>1, <3>3, <3>4, <3>5, <3>6 DEF World, FilesWhole
  <2> QED
    BY <2>1, <2>2
<1> QED
  BY <1>3, <1>4, <1>6 DEF World

LEMMA EraseOldKeepsWorld ==
  ASSUME Turns, Clients, World, EraseOld
  PROVE  World'
<1>1. /\ UNCHANGED <<manager, server, items, buffers, erase, clientBuffer, saving,
                     beginAllowed, index, clientFile, history>>
      /\ dump = "erase" /\ dump' = "wait" /\ manager /\ server # "off"
      /\ saving \notin {"clients", "awake"} /\ ~beginAllowed
      /\ worldFile' = [i \in DOMAIN worldFile |-> IF i \in erase THEN NoFile ELSE worldFile[i]]
      /\ world' = NoWorld
  BY DEF EraseOld, memory, Turns, Idle, Collecting, Woken, Writing, Alone
<1>2. /\ ~Collected' /\ ~WorldOpen /\ ~WorldOpen' /\ Open = {} /\ Open' = {}
  BY <1>1 DEF Collected, WorldOpen, Open
<1>3. /\ worldFile \in [1..MaxIndex + 1 -> {NoFile} \cup WorldRecord] /\ index \in 0..MaxIndex
      /\ MaxIndex \in Nat /\ index \notin erase
  BY <1>1 DEF World, WorldTypes, OldErased
<1>4. WorldTypes'
  <2>1. NoWorld \in WorldRecord
    BY DEF NoWorld, WorldRecord
  <2>2. worldFile' \in [1..MaxIndex + 1 -> {NoFile} \cup WorldRecord]
    BY <1>1, <1>3
  <2> QED
    BY <1>1, <2>1, <2>2 DEF World, WorldTypes
<1>5. BuffersFilled' /\ FileWritten' /\ OldErased'
  BY <1>1, <1>2 DEF BuffersFilled, FileWritten, OldErased
<1>6. FilesWhole'
  BY <1>1, <1>2 DEF World, FilesWhole
<1>7. LastKnown'
  <2> SUFFICES ASSUME ~history.wrapped PROVE LastKnown'
    BY <1>1 DEF LastKnown
  <2>1. /\ index < MaxIndex /\ LastIs(index)
        /\ \A i \in 1..MaxIndex + 1 : worldFile[i] # NoFile => i <= index
    BY <1>1, <1>2 DEF World, LastKnown
  <2>2. index # 0 => worldFile'[index] = worldFile[index]
    BY <1>1, <1>3
  <2>3. LastIs(index)'
    BY <1>1, <2>1, <2>2 DEF LastIs
  <2>4. \A i \in 1..MaxIndex + 1 : worldFile'[i] # NoFile => i <= index
    BY <1>1, <1>3, <2>1
  <2> QED
    BY <1>1, <1>2, <2>1, <2>3, <2>4 DEF LastKnown
<1> QED
  BY <1>4, <1>5, <1>6, <1>7 DEF World

(***************************************************************************)
(* The server ends, crashes and starts.                                    *)
(***************************************************************************)
LEMMA FinishKeepsWorld ==
  ASSUME Turns, Clients, World, Finish
  PROVE  World'
<1>1. /\ UNCHANGED <<worldFile, clientFile, history>>
      /\ dump = "wait" /\ dump' = "wait" /\ server # "off" /\ server' = "off"
      /\ Forget
  BY DEF Finish, Forget, files, Turns, Idle, Collecting, Woken, Writing, Alone
<1>2. /\ ~Collected' /\ ~WorldOpen /\ ~WorldOpen' /\ Open = {} /\ Open' = {}
  BY <1>1 DEF Forget, Collected, WorldOpen, Open
<1>3. index \in 0..MaxIndex /\ MaxIndex \in Nat
  BY DEF World, WorldTypes
<1>4. WorldTypes'
  <2>1. NoWorld \in WorldRecord /\ NoBuffers \in BufferRecord
    BY DEF NoWorld, WorldRecord, NoBuffers, BufferRecord
  <2> QED
    BY <1>1, <2>1 DEF Forget, World, WorldTypes
<1>5. BuffersFilled' /\ FileWritten' /\ OldErased'
  BY <1>1, <1>2 DEF BuffersFilled, FileWritten, OldErased
<1>6. FilesWhole'
  BY <1>1, <1>2, FilesQuiet DEF World
<1>7. LastKnown'
  <2> SUFFICES ASSUME ~history.wrapped PROVE LastKnown'
    BY <1>1 DEF LastKnown
  <2>1. /\ index < MaxIndex /\ LastIs(index)
        /\ \A i \in 1..MaxIndex + 1 : worldFile[i] # NoFile => i <= index
    BY <1>1, <1>2 DEF World, LastKnown
  <2>2. Newest' = index
    <3>1. IF \A i \in 1..MaxIndex : worldFile'[i] = NoFile
          THEN Newest' = 0
          ELSE /\ Newest' \in 1..MaxIndex /\ worldFile'[Newest'] # NoFile
               /\ \A i \in 1..MaxIndex : worldFile'[i] # NoFile => i <= Newest'
      BY NewestIs, NewestWithin
    <3>2. index # 0 => worldFile[index] # NoFile
      BY <2>1, <1>3 DEF LastIs
    <3> QED
      BY <1>1, <1>3, <2>1, <3>1, <3>2
  <2>3. worldFile'[MaxIndex + 1] = NoFile
    BY <1>1, <1>3, <2>1
  <2>4. \A i : LastIs(i)' <=> LastIs(i)
    BY <1>1 DEF LastIs
  <2> QED
    BY <1>1, <2>1, <2>2, <2>3, <2>4 DEF LastKnown
<1> QED
  BY <1>4, <1>5, <1>6, <1>7 DEF World

LEMMA FrontIs ==
  ASSUME NEW P, NEW s \in Seq(P), s # <<>>
  PROVE  Front(s) \in Seq(P) /\ Len(Front(s)) = Len(s) - 1
<1>1. Len(s) \in Nat \ {0}
  OBVIOUS
<1>2. PICK n : n = Len(s) - 1
  OBVIOUS
<1>3. n \in Nat /\ \A i \in 1..n : s[i] \in P
  BY <1>1, <1>2
<1>4. /\ SubSeq(s, 1, n) \in Seq(P)
      /\ Len(SubSeq(s, 1, n)) = IF 1 <= n THEN n - 1 + 1 ELSE 0
  BY <1>3, SubSeqProperties
<1>5. Len(SubSeq(s, 1, n)) = n
  BY <1>3, <1>4
<1> QED
  BY <1>2, <1>4, <1>5 DEF Front

LEMMA CrashKeepsWorld ==
  ASSUME Turns, Clients, World, Crash
  PROVE  World'
<1>1. /\ Forget /\ server # "off" /\ UNCHANGED clientFile
      /\ history' = [history EXCEPT !.cut = @ \cup Open]
      /\ server' = "off" /\ dump' = "wait"
  BY DEF Crash, Forget
<1>2. /\ worldFile \in [1..MaxIndex + 1 -> {NoFile} \cup WorldRecord]
      /\ index \in Nat /\ index + 1 \in 1..MaxIndex + 1 /\ MaxIndex \in Nat /\ manager \in BOOLEAN
  BY DEF World, WorldTypes, Turns
<1>3. ~Collected' /\ ~WorldOpen' /\ Open' = {}
  BY <1>1 DEF Forget, Collected, WorldOpen, Open, Turns, Crash
<1>4. /\ history'.last = history.last /\ history'.wrapped = history.wrapped
      /\ history'.cut = history.cut \cup Open
  BY <1>1 DEF Clients, ClientTypes, History
<1>5. WorldOpen => File \in WorldRecord /\ Len(File.bytes) <= File.size
  <2> SUFFICES ASSUME WorldOpen PROVE File \in WorldRecord /\ Len(File.bytes) <= File.size
    OBVIOUS
  <2>1. CASE dump = "write"
    <3>1. /\ world \in WorldRecord /\ world.size \in Nat /\ world.epoch \in 0..MaxSaves + 1
      BY DEF World, WorldTypes, WorldRecord
    <3>2. Filled(buffers, world.size, world.epoch)
      BY <2>1 DEF World, BuffersFilled, Collected
    <3>3. PICK k : /\ k = IF manager THEN (next - 1) * BufferSize ELSE 0
                   /\ File = [world EXCEPT !.bytes = Bytes(world.epoch, k)]
                   /\ manager => next \in 1..buffers.count
      BY <2>1 DEF World, FileWritten
    <3>4. k \in Nat /\ k <= world.size
      <4>1. CASE manager
        <5>1. /\ Buffer(next) \in Seq(Byte)
              /\ (next - 1) * BufferSize \in Nat
              /\ next = buffers.count => (next - 1) * BufferSize + Len(Buffer(next)) = world.size
              /\ next < buffers.count => Len(Buffer(next)) = BufferSize /\ next * BufferSize <= world.size
          BY <3>1, <3>2, <3>3, <4>1, BufferHolds
        <5>2. next \in 1..buffers.count /\ buffers.count \in Nat
          BY <3>2, <3>3, <4>1 DEF Filled, BufferRecord
        <5>3. next * BufferSize = (next - 1) * BufferSize + BufferSize
          <6>1. next - 1 \in Int /\ next = (next - 1) + 1
            BY <5>2
          <6> QED
            BY <6>1, Times
        <5>4. Len(Buffer(next)) \in Nat
          BY <5>1
        <5>5. k = (next - 1) * BufferSize
          BY <3>3, <4>1
        <5>6. k \in Nat
          BY <5>1, <5>5
        <5>7. CASE next = buffers.count
          <6>1. k + Len(Buffer(next)) = world.size
            BY <5>1, <5>5, <5>7
          <6> QED
            BY <3>1, <5>4, <5>6, <6>1
        <5>8. CASE next < buffers.count
          <6>1. k + BufferSize <= world.size
            BY <5>1, <5>3, <5>5, <5>8
          <6> QED
            BY <3>1, <5>6, <6>1
        <5> QED
          BY <5>2, <5>7, <5>8
      <4>2. CASE ~manager
        BY <4>2, <3>1, <3>3
      <4> QED
        BY <4>1, <4>2
    <3>5. Bytes(world.epoch, k) \in Seq(Byte) /\ Len(Bytes(world.epoch, k)) = k
      BY <3>1, <3>4, BytesAre
    <3> QED
      BY <3>1, <3>3, <3>4, <3>5 DEF WorldRecord
  <2>2. CASE dump # "write"
    <3>1. File # NoFile /\ Whole(File)
      BY <2>2 DEF World, FileWritten
    <3>2. File \in WorldRecord
      BY <1>2, <3>1 DEF File
    <3>3. File.epoch \in 0..MaxSaves + 1 /\ File.size \in Nat
      BY <3>2 DEF WorldRecord
    <3>4. Len(Bytes(File.epoch, File.size)) = File.size
      BY <3>3, BytesAre
    <3>5. Len(File.bytes) = File.size
      BY <3>1, <3>4 DEF Whole
    <3> QED
      BY <3>2, <3>3, <3>5
  <2> QED
    BY <2>1, <2>2
<1>6. \/ worldFile' = worldFile
      \/ /\ WorldOpen
         /\ \E f \in WorldRecord : worldFile' = [worldFile EXCEPT ![index + 1] = f] /\ ~Whole(f)
  <2> SUFFICES ASSUME WorldOpen, File.bytes # <<>>,
                      worldFile' = [worldFile EXCEPT
                                      ![index + 1] = [File EXCEPT !.bytes = Front(File.bytes)]]
      PROVE  \E f \in WorldRecord : worldFile' = [worldFile EXCEPT ![index + 1] = f] /\ ~Whole(f)
    BY Zenon DEF Crash, File
  <2>1. PICK f : f = [File EXCEPT !.bytes = Front(File.bytes)]
    OBVIOUS
  <2>2. worldFile' = [worldFile EXCEPT ![index + 1] = f]
    BY <2>1
  <2>3. /\ File \in WorldRecord /\ File.bytes \in Seq(Byte) /\ File.size \in Nat
        /\ File.epoch \in 0..MaxSaves + 1
    BY <1>5 DEF WorldRecord
  <2>4. Front(File.bytes) \in Seq(Byte) /\ Len(Front(File.bytes)) = Len(File.bytes) - 1
    BY <2>3, FrontIs
  <2>5. f \in WorldRecord /\ f.bytes = Front(File.bytes) /\ f.size = File.size /\ f.epoch = File.epoch
    BY <2>1, <2>3, <2>4 DEF WorldRecord
  <2>6. Len(Bytes(f.epoch, f.size)) = File.size
    BY <2>3, <2>5, BytesAre
  <2>7. ~Whole(f)
    BY <1>5, <2>3, <2>4, <2>5, <2>6 DEF Whole
  <2> QED
    BY <2>2, <2>5, <2>7
<1>7. /\ worldFile' \in [1..MaxIndex + 1 -> {NoFile} \cup WorldRecord]
      /\ \A i \in 1..MaxIndex + 1 :
           worldFile'[i] = worldFile[i] \/ (WorldOpen /\ i = index + 1 /\ ~Whole(worldFile'[i])
                                             /\ worldFile'[i] # NoFile)
  BY <1>2, <1>6, FileAssumption
<1>8. WorldTypes'
  <2>1. NoWorld \in WorldRecord /\ NoBuffers \in BufferRecord
    BY DEF NoWorld, WorldRecord, NoBuffers, BufferRecord
  <2> QED
    BY <1>1, <1>7, <2>1 DEF Forget, World, WorldTypes
<1>9. BuffersFilled' /\ FileWritten' /\ OldErased'
  BY <1>1, <1>3 DEF BuffersFilled, FileWritten, OldErased
<1>10. FilesWhole'
  <2>1. WorldOpen => [file |-> "world", of |-> index + 1] \in Open
    BY DEF Open
  <2> QED
    BY <1>1, <1>2, <1>3, <1>4, <1>7, <2>1 DEF World, FilesWhole
<1>11. LastKnown'
  <2> SUFFICES ASSUME ~history.wrapped PROVE LastKnown'
    BY <1>4 DEF LastKnown
  <2> PICK n : n = Newest'
    OBVIOUS
  <2>1. /\ index < MaxIndex
        /\ \A i \in 1..MaxIndex + 1 : worldFile[i] # NoFile => i <= index \/ (WorldOpen /\ i = index + 1)
        /\ IF WorldOpen /\ Whole(File) THEN LastIs(index + 1) ELSE LastIs(index)
    BY <1>1 DEF World, LastKnown
  <2>2. worldFile'[MaxIndex + 1] = NoFile
    BY <1>2, <1>7, <2>1
  <2>3. IF \A i \in 1..MaxIndex : worldFile'[i] = NoFile
        THEN Newest' = 0
        ELSE /\ Newest' \in 1..MaxIndex /\ worldFile'[Newest'] # NoFile
             /\ \A i \in 1..MaxIndex : worldFile'[i] # NoFile => i <= Newest'
    BY NewestIs, NewestWithin
  <2>4. ASSUME n # 0 => Whole(worldFile'[n])
        PROVE  LastIs(n)'
    <3>1. CASE WorldOpen
      <4>1. File # NoFile
        BY <1>5, <3>1, FileAssumption
      <4>2. worldFile'[index + 1] # NoFile
        BY <1>2, <1>7, <4>1 DEF File
      <4>3. \A i \in 1..MaxIndex : worldFile'[i] # NoFile => i <= index + 1
        BY <1>2, <1>7, <2>1
      <4>4. n = index + 1
        BY <1>2, <2>1, <2>3, <4>2, <4>3
      <4>5. worldFile'[index + 1] = File
        BY <1>2, <1>7, <2>4, <4>4 DEF File
      <4>6. LastIs(index + 1)
        BY <1>2, <2>1, <2>4, <3>1, <4>4, <4>5
      <4> QED
        BY <1>2, <1>4, <4>4, <4>5, <4>6 DEF LastIs, File
    <3>2. CASE ~WorldOpen
      <4>1. LastIs(index) /\ \A i \in 1..MaxIndex + 1 : worldFile'[i] = worldFile[i]
        BY <1>7, <2>1, <3>2
      <4>2. index # 0 => worldFile[index] # NoFile
        BY <1>2, <2>1, <3>2, <4>1 DEF LastIs
      <4>3. n = index
        BY <1>2, <2>1, <2>3, <3>2, <4>1, <4>2
      <4>4. index # 0 => worldFile'[index] = worldFile[index]
        BY <1>2, <4>1
      <4> QED
        BY <1>4, <4>1, <4>3, <4>4 DEF LastIs
    <3> QED
      BY <3>1, <3>2
  <2> QED
    BY <1>1, <2>2, <2>4 DEF LastKnown
<1> QED
  BY <1>3, <1>8, <1>9, <1>10, <1>11 DEF World, BuffersFilled

LEMMA StartKeepsWorld ==
  ASSUME Turns, Clients, World, Start
  PROVE  World'
<1>1. /\ UNCHANGED <<worldFile, clientFile, buffers, world, erase, saving, dump, beginAllowed>>
      /\ server = "off" /\ server' = "run" /\ dump = "wait" /\ saving = "no" /\ ~beginAllowed
      /\ index' = Newest
      /\ items' = IF Newest = 0 THEN [c \in Client |-> 0] ELSE worldFile[Newest].items
      /\ history' = [history EXCEPT !.left = clientFile, !.wrapped = @ \/ Newest = MaxIndex]
      /\ Newest # 0 => Whole(worldFile[Newest])
  BY DEF Start, files, collected, events, Turns, Idle, Collecting, Woken, Writing, Alone
<1>2. /\ ~Collected' /\ ~WorldOpen /\ ~WorldOpen' /\ Open = {} /\ Open' = {}
  BY <1>1 DEF Collected, WorldOpen, Open
<1>3. worldFile \in [1..MaxIndex + 1 -> {NoFile} \cup WorldRecord] /\ MaxIndex \in Nat
  BY DEF World, WorldTypes
<1>4. IF \A i \in 1..MaxIndex : worldFile[i] = NoFile
      THEN Newest = 0
      ELSE /\ Newest \in 1..MaxIndex /\ worldFile[Newest] # NoFile
           /\ \A i \in 1..MaxIndex : worldFile[i] # NoFile => i <= Newest
  BY NewestIs, NewestWithin
<1>5. /\ history'.last = history.last /\ history'.cut = history.cut
      /\ history'.wrapped <=> history.wrapped \/ Newest = MaxIndex
  BY <1>1 DEF Clients, ClientTypes, History
<1>6. WorldTypes'
  <2>1. Newest # 0 => worldFile[Newest] \in WorldRecord
    BY <1>3, <1>4
  <2>2. items' \in [Client -> 0..MaxSaves + 1]
    BY <1>1, <2>1 DEF WorldRecord
  <2>3. index' \in 0..MaxIndex
    BY <1>1, <1>3, <1>4
  <2> QED
    BY <1>1, <2>2, <2>3 DEF World, WorldTypes
<1>7. BuffersFilled' /\ FileWritten' /\ OldErased'
  BY <1>1, <1>2 DEF BuffersFilled, FileWritten, OldErased
<1>8. FilesWhole'
  BY <1>1, <1>2, <1>5, FilesQuiet DEF World
<1>9. LastKnown'
  <2> SUFFICES ASSUME ~history.wrapped, Newest # MaxIndex PROVE LastKnown'
    BY <1>5 DEF LastKnown
  <2>1. worldFile[MaxIndex + 1] = NoFile /\ LastIs(Newest)
    BY <1>1 DEF World, LastKnown
  <2>2. LastIs(index)'
    BY <1>1, <1>5, <2>1 DEF LastIs
  <2>3. index' < MaxIndex
    BY <1>1, <1>3, <1>4
  <2>4. \A i \in 1..MaxIndex + 1 : worldFile'[i] # NoFile => i <= index'
    BY <1>1, <1>3, <1>4, <2>1
  <2> QED
    BY <1>1, <1>2, <2>2, <2>3, <2>4 DEF LastKnown
<1> QED
  BY <1>2, <1>6, <1>7, <1>8, <1>9 DEF World, BuffersFilled

-----------------------------------------------------------------------------
(***************************************************************************)
(* The invariant, and what follows from it.                                *)
(***************************************************************************)
LEMMA WorldKept == Turns /\ Clients /\ World /\ [Next]_vars => World'
<1> SUFFICES ASSUME Turns, Clients, World, [Next]_vars PROVE World'
  OBVIOUS
<1>1. CASE \E c \in Client :
             \/ Play(c) \/ DeleteAccount(c) \/ Login(c) \/ Reconnect(c) \/ DisconnectClient(c)
             \/ RemoveClient(c)
  BY <1>1, GameKeepsWorld
<1>2. CASE StartSave \/ WaitDump \/ DumpFileFails \/ AwakeDump \/ StopServer \/ UNCHANGED vars
  BY <1>2, SaverKeepsWorld
<1>3. CASE CollectWorld \/ CollectClients \/ Finish
  BY <1>3, CollectWorldKeepsWorld, CollectClientsKeepsWorld, FinishKeepsWorld
<1>4. CASE DumpBegin \/ DumpDisallow \/ OpenWorldFails \/ ClientsWritten
  BY <1>4, DumpKeepsWorld
<1>5. CASE OpenWorld \/ WriteWorld \/ CloseWorld
  BY <1>5, OpenWorldKeepsWorld, WriteWorldKeepsWorld, CloseWorldKeepsWorld
<1>6. CASE OpenClient \/ WriteClient \/ EraseOld
  BY <1>6, ClientFilesKeepWorld, EraseOldKeepsWorld
<1>7. CASE Crash \/ Start
  BY <1>7, CrashKeepsWorld, StartKeepsWorld
<1> QED
  BY <1>1, <1>2, <1>3, <1>4, <1>5, <1>6, <1>7, Zenon DEF Next, SaverStep, WriterStep

LEMMA FlagsKept == Flags /\ [Next]_vars => Flags'
<1> SUFFICES ASSUME Flags, [Next]_vars PROVE Flags'
  OBVIOUS
<1>1. CASE AwakeDump \/ DumpDisallow
  BY <1>1 DEF AwakeDump, DumpDisallow, Flags
<1>2. CASE WaitDump \/ EraseOld
  BY <1>2 DEF WaitDump, EraseOld, Flags
<1>3. CASE Finish \/ Crash
  BY <1>3 DEF Finish, Crash, Forget, Flags
<1>4. CASE UNCHANGED vars
  BY <1>4 DEF vars, events, Flags
<1>5. ASSUME ~(AwakeDump \/ DumpDisallow), ~(WaitDump \/ EraseOld), ~(Finish \/ Crash), Next
      PROVE  UNCHANGED <<beginAllowed, endAllowed>>
  BY <1>5, Zenon DEF Next, SaverStep, WriterStep, Play, DeleteAccount, Login, Reconnect,
         DisconnectClient, RemoveClient, Game, events, StartSave, StopServer, CollectWorld,
         CollectClients, DumpBegin, OpenWorld, WriteWorld, CloseWorld, OpenClient, WriteClient,
         ClientsWritten, DumpFileFails, OpenWorldFails, Start
<1> QED
  BY <1>1, <1>2, <1>3, <1>4, <1>5 DEF Flags

LEMMA InvHolds == Spec => []IInv
<1>1. Init => IInv
  BY TurnsInitially, ClientsInitially, WorldInitially DEF IInv, Init, Flags
<1>2. IInv /\ [Next]_vars => IInv'
  BY TurnsKept, FlagsKept, ClientsKept, WorldKept DEF IInv, World
<1> QED
  BY <1>1, <1>2, PTL DEF Spec

(***************************************************************************)
(* Every variable has its type: SaveWorld and Dump_Work keep to their      *)
(* steps, and the numbers of the saves and files stay in their range.      *)
(***************************************************************************)
THEOREM TypesKept == Spec => []TypeOK
<1>1. IInv => TypeOK
  <2> SUFFICES ASSUME IInv PROVE TypeOK
    OBVIOUS
  <2>1. /\ manager \in BOOLEAN /\ server \in {"run", "last", "off"} /\ epoch \in 1..MaxSaves + 1
        /\ saving \in {"no", "wait", "world", "clients", "awake", "write"}
        /\ dump \in {"wait", "disallow", "open", "write", "close", "client", "fill", "erase"}
    BY DEF IInv, Turns, Idle, Collecting, Woken, Writing, Alone
  <2>2. /\ place \in [Client -> {"online", "offline", "out", "gone"}]
        /\ data \in [Client -> DataRecord] /\ saveClients \subseteq Client /\ next \in Nat
        /\ clientBuffer \in Seq([client : Client, data : DataRecord])
        /\ clientFile \in [Client -> {NoFile, Torn} \cup DataRecord]
        /\ history.left \in [Client -> {NoFile, Torn} \cup DataRecord]
    BY DEF IInv, Clients, ClientTypes, Entry, FileData, History
  <2> QED
    BY <2>1, <2>2 DEF IInv, Flags, World, WorldTypes, TypeOK
<1> QED
  BY <1>1, InvHolds, PTL

(***************************************************************************)
(* AddWorldSaveData, Dump_Work and the files: a file that is neither open  *)
(* nor was at a crash is whole, whatever the sizes of the worlds and of    *)
(* the buffers.                                                            *)
(***************************************************************************)
THEOREM FilesAreWhole == Spec => []FilesWhole
<1>1. IInv => FilesWhole
  BY DEF IInv, World
<1> QED
  BY <1>1, InvHolds, PTL

(***************************************************************************)
(* SaveClients, the buffer of Dump_Work and the files: the state of a      *)
(* client who has left the game is in one of them.                         *)
(***************************************************************************)
THEOREM LeaversAreKept == Spec => []LeaversKept
<1>1. IInv => LeaversKept
  <2> SUFFICES ASSUME IInv, NEW c \in Client, server = "run", place[c] = "out"
      PROVE  \/ c \in saveClients /\ data[c] = history.left[c]
             \/ \E i \in Pending(c) : clientBuffer[i].data = history.left[c]
             \/ clientFile[c] = history.left[c]
    BY DEF LeaversKept
  <2>1. Kept(c)
    BY DEF IInv, Clients
  <2> QED
    BY <2>1 DEF Kept, Saved
<1> QED
  BY <1>1, InvHolds, PTL

(***************************************************************************)
(* LoadWorld starts from the last world that was written to its end, while *)
(* the numbers of the saves last.                                          *)
(***************************************************************************)
THEOREM LastIsLoaded == Spec => LoadsLast
<1>1. IInv /\ [Next]_vars =>
        [server = "off" /\ server' = "run" /\ ~history.wrapped =>
           IF history.last = 0 THEN index' = 0 ELSE worldFile[index'].epoch = history.last]_vars
  <2> SUFFICES ASSUME IInv, Next, server = "off", server' = "run", ~history.wrapped
      PROVE  IF history.last = 0 THEN index' = 0 ELSE worldFile[index'].epoch = history.last
    OBVIOUS
  <2>1. Start
    BY DEF Next, SaverStep, WriterStep, Play, DeleteAccount, Login, Reconnect, DisconnectClient,
           RemoveClient, Running, Game, StartSave, StopServer, WaitDump, CollectWorld,
           CollectClients, AwakeDump, Finish, Forget, DumpBegin, DumpDisallow, OpenWorld,
           WriteWorld, CloseWorld, OpenClient, WriteClient, ClientsWritten, EraseOld, Rest,
           DumpFileFails, OpenWorldFails, Crash
  <2>2. index' = Newest /\ (Newest # 0 => Whole(worldFile[Newest]))
    BY <2>1 DEF Start
  <2>3. LastIs(Newest)
    BY <2>2 DEF IInv, World, LastKnown
  <2> QED
    BY <2>2, <2>3 DEF LastIs
<1> QED
  BY <1>1, InvHolds, PTL DEF Spec, LoadsLast

(***************************************************************************)
(* LoadClient: who logs in comes back as he left, unless Dump_Work has     *)
(* still to write his file.                                                *)
(***************************************************************************)
THEOREM LeaversReturn == Spec => ReturnsAsLeft
<1>1. IInv /\ [Next]_vars =>
        [\A c \in Client : place[c] = "out" /\ place'[c] = "online" =>
           data'[c] = history.left[c] \/ Pending(c) # {}]_vars
  <2> SUFFICES ASSUME IInv, Next, NEW c \in Client, place[c] = "out", place'[c] = "online",
                      Pending(c) = {}
      PROVE  data'[c] = history.left[c]
    OBVIOUS
  <2>1. /\ place \in [Client -> {"online", "offline", "out", "gone"}]
        /\ data \in [Client -> DataRecord] /\ Kept(c)
    BY DEF IInv, Clients, ClientTypes
  <2>2. ASSUME NEW d \in Client,
               Play(d) \/ DeleteAccount(d) \/ Reconnect(d) \/ DisconnectClient(d) \/ RemoveClient(d)
        PROVE  FALSE
    BY <2>1, <2>2 DEF Play, DeleteAccount, Reconnect, DisconnectClient, RemoveClient
  <2>3. ~(Crash \/ Start \/ Finish)
    BY DEF Crash, Start, Finish, Forget
  <2>4. ~(StartSave \/ StopServer \/ WaitDump \/ CollectWorld \/ CollectClients \/ AwakeDump
            \/ DumpFileFails)
    BY <2>1 DEF StartSave, StopServer, WaitDump, CollectWorld, CollectClients, AwakeDump,
                DumpFileFails, memory
  <2>5. ~(WriterStep \/ OpenWorldFails)
    BY <2>1 DEF WriterStep, OpenWorldFails, DumpBegin, DumpDisallow, OpenWorld, WriteWorld,
                CloseWorld, OpenClient, WriteClient, ClientsWritten, EraseOld, Rest, memory
  <2>6. PICK d \in Client : Login(d)
    BY <2>2, <2>3, <2>4, <2>5 DEF Next, SaverStep
  <2>7. d = c
    BY <2>1, <2>6 DEF Login
  <2>8. CASE c \in saveClients
    BY <2>1, <2>6, <2>7, <2>8 DEF Login, Running, Kept
  <2>9. CASE c \notin saveClients
    <3>1. clientFile[c] = history.left[c]
      BY <2>1, <2>6, <2>9 DEF Login, Running, Kept, Saved
    <3> QED
      BY <2>1, <2>6, <2>7, <2>9, <3>1 DEF Login
  <2> QED
    BY <2>8, <2>9
<1> QED
  BY <1>1, InvHolds, PTL DEF Spec, ReturnsAsLeft

(***************************************************************************)
(* The last SaveWorld and the end of the server: the files hold everybody  *)
(* who is connected or has left as they are.                               *)
(***************************************************************************)
THEOREM StopSaves == Spec => StopSavesAll
<1>1. IInv /\ [Next]_vars =>
        [server = "last" /\ server' = "off" /\ crashes' = crashes /\ ~history.failed =>
           \A c \in Client :
             /\ place[c] = "online" => clientFile[c] = data[c]
             /\ place[c] = "out" => clientFile[c] = history.left[c]]_vars
  <2> SUFFICES ASSUME IInv, Next, server = "last", server' = "off", crashes' = crashes,
                      ~history.failed, NEW c \in Client
      PROVE  /\ place[c] = "online" => clientFile[c] = data[c]
             /\ place[c] = "out" => clientFile[c] = history.left[c]
    OBVIOUS
  <2>1. crashes \in Nat
    BY DEF IInv, Clients, ClientTypes
  <2>2. ~Crash /\ ~Start
    BY <2>1 DEF Crash, Start
  <2>3. Finish
    BY <2>2 DEF Next, SaverStep, WriterStep, Play, DeleteAccount, Login, Reconnect,
           DisconnectClient, RemoveClient, Running, Game, StartSave, StopServer, WaitDump,
           CollectWorld, CollectClients, AwakeDump, DumpBegin, DumpDisallow, OpenWorld,
           WriteWorld, CloseWorld, OpenClient, WriteClient, ClientsWritten, EraseOld, Rest,
           DumpFileFails, OpenWorldFails
  <2>4. dump = "wait" /\ saving = "no" /\ ~beginAllowed
    <3>1. saving = "no" /\ (manager => endAllowed)
      BY <2>3 DEF Finish
    <3>2. IF manager THEN Idle \/ Collecting \/ Woken \/ Writing ELSE Alone
      BY DEF IInv, Turns
    <3> QED
      BY <3>1, <3>2 DEF Idle, Collecting, Woken, Writing, Alone
  <2>5. Pending(c) = {}
    BY <2>4 DEF Pending
  <2>6. /\ saveClients = {} /\ Kept(c)
        /\ place[c] = "online" => Saved(c, data[c])
    BY <2>4 DEF IInv, Clients, LastCollected
  <2> QED
    BY <2>5, <2>6 DEF Kept, Saved
<1> QED
  BY <1>1, InvHolds, PTL DEF Spec, StopSavesAll
=============================================================================
