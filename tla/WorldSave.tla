------------------------------ MODULE WorldSave ------------------------------
(***************************************************************************)
(* Saving the world and the clients, and starting again from what was      *)
(* saved: SaveWorld, Dump_Work, LoadWorld and SaveClients of Server.cpp.   *)
(*                                                                         *)
(* A save is one world file, worldNNNN.fo, with everything that is not a   *)
(* client's own data (the items of the clients included), and one file per *)
(* client.  SaveWorld runs alone (see LogicSync) and, with the             *)
(* WorldSaveManager, only copies the data to buffers that the thread       *)
(* Dump_Work writes while the game goes on; without it, it writes them     *)
(* itself.  Between two saves the clients that disconnect or leave the     *)
(* game are listed in SaveClients; who leaves and comes back is taken from *)
(* there or, if not listed, from the file.                                 *)
(*                                                                         *)
(* The state of the world and of a client is the number of the save it     *)
(* belongs to: what changes now belongs to the next one.                   *)
(***************************************************************************)
EXTENDS Naturals, Sequences, FiniteSets, SequencesExt

CONSTANTS Client,      \* the accounts
          Deleter,     \* those whose player asks to delete the account
          MaxIndex,    \* WORLD_SAVE_MAX_INDEX
          WorldSizes,  \* how long a saved world may be
          BufferSize,  \* WORLD_SAVE_DATA_BUFFER_SIZE
          NoFile,      \* a file that does not exist
          Torn,        \* a file that is open for writing, or was at a crash
          MaxSaves,    \* bound: saves
          MaxCrashes   \* bound: crashes

ASSUME ClientAssumption == IsFiniteSet(Client) /\ Deleter \subseteq Client
ASSUME SizeAssumption ==
  /\ MaxIndex \in Nat \ {0} /\ BufferSize \in Nat \ {0}
  /\ WorldSizes \subseteq Nat \ {0}
  /\ MaxSaves \in Nat /\ MaxCrashes \in Nat

VARIABLES
  manager,      \* WorldSaveManager, read from the configuration
  server,       \* "run", "last": after the main loop, "off"
  saving,       \* where SaveWorld is, see below
  epoch,        \* the save that what changes now belongs to
  items,        \* the world in memory: what it holds of each client
  place,        \* the avatar: "online", "offline", "out" of the game,
                \* "gone": there is no such account
  data,         \* the client's own data, in the avatar or in SaveClients
  saveClients,  \* SaveClients
  buffers,      \* WorldSaveData, WorldSaveDataBufCount and -FreeSize
  world,        \* history: what the buffers are filled with
  clientBuffer, \* ClientsSaveData
  erase,        \* SaveWorldDeleteIndexes
  index,        \* SaveWorldIndex
  beginAllowed, \* the flag of DumpBeginEvent
  endAllowed,   \* the flag of DumpEndEvent
  dump,         \* where the writing of the files is, see below
  next,         \* the next buffer or client to write
  worldFile,    \* worldNNNN.fo by number
  clientFile,   \* the client files
  crashes,      \* the crashes so far
  history       \* left: the data of clients out of the game as they left it;
                \* cut: files a crash left torn; last: the last world saved;
                \* wrapped: the numbers of the saves have come to their end;
                \* deleted: the accounts; failed: the last save has returned
                \* at once

memory  == <<items, place, data, saveClients>>
collected == <<buffers, world, clientBuffer, erase>>
events  == <<beginAllowed, endAllowed>>
writer  == <<index, dump, next>>
files   == <<worldFile, clientFile>>
vars == <<manager, server, saving, epoch, memory, collected, events, writer,
          files, crashes, history>>

(***************************************************************************)
(* saving  "no"      the game runs           "wait"    for DumpEndEvent    *)
(*         "world"   collects the world      "clients" collects the clients*)
(*         "awake"   before DumpBeginEvent.Allow                           *)
(*         "write"   writes the files itself, without the manager          *)
(* dump    "wait"    for DumpBeginEvent      "disallow" before Disallow    *)
(*         "open"    opens the world file    "write"   writes the buffers  *)
(*         "close"   closes it               "client"  opens a client file *)
(*         "fill"    writes it               "erase"   deletes old worlds  *)
(***************************************************************************)
Running == server = "run" /\ saving = "no"

DataRecord == [saved : 0..MaxSaves + 1, toDelete : BOOLEAN]

Byte == [epoch : 0..MaxSaves + 1, at : Nat]
WorldRecord == [epoch : 0..MaxSaves + 1, items : [Client -> 0..MaxSaves + 1],
                bytes : Seq(Byte), size : Nat]
BufferRecord == [physical : Seq([1..BufferSize -> Byte]), count : Nat,
                 free : 0..BufferSize]

ASSUME FileAssumption ==
  NoFile # Torn /\ NoFile \notin WorldRecord \cup DataRecord /\ Torn \notin DataRecord

TypeOK ==
  /\ manager      \in BOOLEAN
  /\ server       \in {"run", "last", "off"}
  /\ saving       \in {"no", "wait", "world", "clients", "awake", "write"}
  /\ epoch        \in 1..MaxSaves + 1
  /\ items        \in [Client -> 0..MaxSaves + 1]
  /\ place        \in [Client -> {"online", "offline", "out", "gone"}]
  /\ data         \in [Client -> DataRecord]
  /\ saveClients  \subseteq Client
  /\ buffers      \in BufferRecord
  /\ world        \in WorldRecord
  /\ clientBuffer \in Seq([client : Client, data : DataRecord])
  /\ erase        \subseteq 1..MaxIndex
  /\ index        \in 0..MaxIndex
  /\ beginAllowed \in BOOLEAN
  /\ endAllowed   \in BOOLEAN
  /\ dump         \in {"wait", "disallow", "open", "write", "close", "client",
                       "fill", "erase"}
  /\ next         \in Nat
  /\ worldFile    \in [1..MaxIndex + 1 -> {NoFile} \cup WorldRecord]
  /\ clientFile   \in [Client -> {NoFile, Torn} \cup DataRecord]
  /\ history.left \in [Client -> {NoFile, Torn} \cup DataRecord]

New == [saved |-> 0, toDelete |-> FALSE]
NoWorld == [epoch |-> 0, items |-> [c \in Client |-> 0], bytes |-> <<>>, size |-> 0]
NoBuffers == [physical |-> <<>>, count |-> 0, free |-> 0]

(***************************************************************************)
(* A server that has just been installed, with the accounts registered:    *)
(* Register saves a new client at once.                                    *)
(***************************************************************************)
Init ==
  /\ manager      \in BOOLEAN
  /\ server       = "run"
  /\ saving       = "no"
  /\ epoch        = 1
  /\ items        = [c \in Client |-> 0]
  /\ place        = [c \in Client |-> "out"]
  /\ data         = [c \in Client |-> New]
  /\ saveClients  = {}
  /\ buffers      = NoBuffers
  /\ world        = NoWorld
  /\ clientBuffer = <<>>
  /\ erase        = {}
  /\ index        = 0
  /\ beginAllowed = FALSE
  /\ endAllowed   = TRUE
  /\ dump         = "wait"
  /\ next         = 0
  /\ worldFile    = [i \in 1..MaxIndex + 1 |-> NoFile]
  /\ clientFile   = [c \in Client |-> New]
  /\ crashes      = 0
  /\ history      = [left |-> clientFile, cut |-> {}, last |-> 0,
                     wrapped |-> FALSE, deleted |-> {}, failed |-> FALSE]

-----------------------------------------------------------------------------
(***************************************************************************)
(* The clients in the game.  An avatar stays in the game for a while after *)
(* its player has disconnected, and changes.                               *)
(***************************************************************************)
Game == <<manager, server, saving, epoch, collected, events, writer, worldFile, crashes>>

Play(c) ==
  /\ Running
  /\ place[c] \in {"online", "offline"}
  /\ items' = [items EXCEPT ![c] = epoch]
  /\ data' = [data EXCEPT ![c].saved = epoch]
  /\ UNCHANGED <<Game, place, saveClients, clientFile, history>>

(***************************************************************************)
(* The player asks for the deletion of the account, or cancels it.         *)
(***************************************************************************)
DeleteAccount(c) ==
  /\ Running
  /\ c \in Deleter /\ place[c] = "online"
  /\ data' = [data EXCEPT ![c].toDelete = ~@]
  /\ UNCHANGED <<Game, items, place, saveClients, clientFile, history>>

Reconnect(c) ==
  /\ Running
  /\ place[c] = "offline"
  /\ place' = [place EXCEPT ![c] = "online"]
  /\ saveClients' = saveClients \ {c}
  /\ UNCHANGED <<Game, items, data, clientFile, history>>

\* Faulty: the file is read although the client is listed.
LoginFromFile(c) ==
  /\ Running
  /\ place[c] = "out"
  /\ clientFile[c] \in DataRecord
  /\ data' = [data EXCEPT ![c] = clientFile[c]]
  /\ place' = [place EXCEPT ![c] = "online"]
  /\ saveClients' = saveClients \ {c}
  /\ history' = [history EXCEPT !.left[c] = New]
  /\ UNCHANGED <<Game, items, clientFile>>

(***************************************************************************)
(* The avatar is not in the game: the data are those of SaveClients or     *)
(* else of the file; the login is refused if it is not whole.              *)
(***************************************************************************)
Login(c) ==
  /\ Running
  /\ place[c] = "out"
  /\ \/ c \in saveClients /\ UNCHANGED data
     \/ /\ c \notin saveClients
        /\ clientFile[c] \in DataRecord
        /\ data' = [data EXCEPT ![c] = clientFile[c]]
  /\ place' = [place EXCEPT ![c] = "online"]
  /\ saveClients' = saveClients \ {c}
  /\ history' = [history EXCEPT !.left[c] = New]
  /\ UNCHANGED <<Game, items, clientFile>>

DisconnectClient(c) ==
  /\ Running
  /\ place[c] = "online"
  /\ place' = [place EXCEPT ![c] = "offline"]
  /\ saveClients' = saveClients \cup {c}
  /\ UNCHANGED <<Game, items, data, clientFile, history>>

EraseAccounts(S) ==
  /\ clientFile' = [c \in Client |-> IF c \in S THEN NoFile ELSE clientFile[c]]
  /\ items' = [c \in Client |-> IF c \in S THEN 0 ELSE items[c]]

\* Faulty: the client is not listed again.
RemoveClientSilent(c) ==
  /\ Running
  /\ place[c] = "offline"
  /\ IF data[c].toDelete
     THEN /\ EraseAccounts({c})
          /\ place' = [place EXCEPT ![c] = "gone"]
          /\ saveClients' = saveClients \ {c}
          /\ history' = [history EXCEPT !.deleted = @ \cup {c}]
     ELSE /\ place' = [place EXCEPT ![c] = "out"]
          /\ history' = [history EXCEPT !.left[c] = data[c]]
          /\ UNCHANGED <<items, clientFile, saveClients>>
  /\ UNCHANGED <<Game, data>>

(***************************************************************************)
(* The avatar leaves the game: the client is saved with the next save, or  *)
(* deleted with its file and its items.                                    *)
(***************************************************************************)
RemoveClient(c) ==
  /\ Running
  /\ place[c] = "offline"
  /\ IF data[c].toDelete
     THEN /\ EraseAccounts({c})
          /\ place' = [place EXCEPT ![c] = "gone"]
          /\ saveClients' = saveClients \ {c}
          /\ history' = [history EXCEPT !.deleted = @ \cup {c}]
     ELSE /\ place' = [place EXCEPT ![c] = "out"]
          /\ saveClients' = saveClients \cup {c}
          /\ history' = [history EXCEPT !.left[c] = data[c]]
          /\ UNCHANGED <<items, clientFile>>
  /\ UNCHANGED <<Game, data>>

-----------------------------------------------------------------------------
(***************************************************************************)
(* SaveWorld, in the main loop, which is alone meanwhile ...               *)
(***************************************************************************)
Saver == IF manager THEN "wait" ELSE "world"

StartSave ==
  /\ Running /\ epoch <= MaxSaves
  /\ saving' = Saver
  /\ UNCHANGED <<manager, server, epoch, memory, collected, events, writer,
                 files, crashes, history>>

(***************************************************************************)
(* ... or after it, when the logic threads have finished.  Before, the     *)
(* accounts to delete whose avatars are still in the game are deleted.     *)
(***************************************************************************)
StopServer ==
  LET doomed == {c \in Client : place[c] \in {"online", "offline"} /\ data[c].toDelete}
  IN /\ Running /\ epoch <= MaxSaves
     /\ server' = "last"
     /\ saving' = Saver
     /\ EraseAccounts(doomed)
     /\ history' = [history EXCEPT !.deleted = @ \cup doomed]
     /\ UNCHANGED <<manager, epoch, place, data, saveClients, collected, events,
                    writer, worldFile, crashes>>

(***************************************************************************)
(* With the manager SaveWorld waits until Dump_Work has nothing to write.  *)
(***************************************************************************)
WaitDump ==
  /\ saving = "wait"
  /\ endAllowed
  /\ endAllowed' = FALSE
  /\ saving' = "world"
  /\ UNCHANGED <<manager, server, epoch, memory, collected, beginAllowed, writer,
                 files, crashes, history>>

(***************************************************************************)
(* Without it SaveWorld returns at once if the file cannot be created.     *)
(***************************************************************************)
DumpFileFails ==
  /\ saving = "world" /\ ~manager
  /\ saving' = "no"
  /\ history' = [history EXCEPT !.failed = TRUE]
  /\ UNCHANGED <<manager, server, epoch, memory, collected, events, writer,
                 files, crashes>>

-----------------------------------------------------------------------------
(***************************************************************************)
(* AddWorldSaveData.  A buffer is opened when there is none and as soon as *)
(* one is full; buffers of earlier saves are used again.                   *)
(***************************************************************************)
Garbage == [epoch |-> 0, at |-> 0]

OpenBuffer(b) ==
  [physical |-> IF b.count + 1 >= Len(b.physical)
                THEN Append(b.physical, [i \in 1..BufferSize |-> Garbage])
                ELSE b.physical,
   count    |-> b.count + 1,
   free     |-> BufferSize]

AddByte(b, byte) ==
  LET full == [b EXCEPT !.physical[b.count][BufferSize - b.free + 1] = byte,
                        !.free = @ - 1]
  IN IF full.free = 0 THEN OpenBuffer(full) ELSE full

AddWorldSaveData(b, bytes) ==
  FoldLeft(AddByte, IF b.free = 0 THEN OpenBuffer(b) ELSE b, bytes)

Bytes(e, size) == [i \in 1..size |-> [epoch |-> e, at |-> i]]

\* Faulty: the counters are not reset.
CollectWorldMore ==
  /\ saving = "world"
  /\ \E size \in WorldSizes, old \in SUBSET (1..MaxIndex) :
       /\ Cardinality(old) <= 1 /\ old \cap {index, index + 1} = {}
       /\ erase' = old
       /\ world' = [epoch |-> epoch, items |-> items, bytes |-> <<>>, size |-> size]
       /\ buffers' = AddWorldSaveData(buffers, Bytes(epoch, size))
  /\ history' = [history EXCEPT !.failed = FALSE]
  /\ saving' = "clients"
  /\ UNCHANGED <<manager, server, epoch, memory, clientBuffer, events, writer,
                 files, crashes>>

(***************************************************************************)
(* The counters are reset, the script names old saves to delete, and the   *)
(* world is collected.                                                     *)
(***************************************************************************)
CollectWorld ==
  /\ saving = "world"
  /\ \E size \in WorldSizes, old \in SUBSET (1..MaxIndex) :
       /\ Cardinality(old) <= 1 /\ old \cap {index, index + 1} = {}
       /\ erase' = old
       /\ world' = [epoch |-> epoch, items |-> items, bytes |-> <<>>, size |-> size]
       /\ buffers' = AddWorldSaveData([buffers EXCEPT !.count = 0, !.free = 0],
                                      Bytes(epoch, size))
  /\ history' = [history EXCEPT !.failed = FALSE]
  /\ saving' = "clients"
  /\ UNCHANGED <<manager, server, epoch, memory, clientBuffer, events, writer,
                 files, crashes>>

\* Faulty: the clients that have left are forgotten.
CollectClientsOnline ==
  /\ saving = "clients"
  /\ LET online == {c \in Client : place[c] = "online"}
     IN clientBuffer' = [i \in 1..Cardinality(online) |->
          [client |-> SetToSeq(online)[i], data |-> data[SetToSeq(online)[i]]]]
  /\ saveClients' = {}
  /\ data' = [c \in Client |-> IF place[c] = "out" THEN New ELSE data[c]]
  /\ epoch' = epoch + 1
  /\ saving' = IF manager THEN "awake" ELSE "write"
  /\ dump' = IF manager THEN dump ELSE "open"
  /\ UNCHANGED <<manager, server, items, place, buffers, world, erase,
                 events, index, next, files, crashes, history>>

(***************************************************************************)
(* The clients that are connected and those of SaveClients, which are      *)
(* released.                                                               *)
(***************************************************************************)
CollectClients ==
  /\ saving = "clients"
  /\ LET clients == SetToSeq({c \in Client : place[c] = "online"}) \o SetToSeq(saveClients)
     IN clientBuffer' = [i \in DOMAIN clients |->
          [client |-> clients[i], data |-> data[clients[i]]]]
  /\ saveClients' = {}
  /\ data' = [c \in Client |-> IF place[c] = "out" THEN New ELSE data[c]]
  /\ epoch' = epoch + 1
  /\ saving' = IF manager THEN "awake" ELSE "write"
  /\ dump' = IF manager THEN dump ELSE "open"
  /\ UNCHANGED <<manager, server, items, place, buffers, world, erase,
                 events, index, next, files, crashes, history>>

AwakeDump ==
  /\ saving = "awake"
  /\ beginAllowed' = TRUE
  /\ saving' = "no"
  /\ UNCHANGED <<manager, server, epoch, memory, collected, endAllowed, writer,
                 files, crashes, history>>

-----------------------------------------------------------------------------
(***************************************************************************)
(* Dump_Work; without the manager SaveWorld itself writes the files, and   *)
(* closes that of the world last.                                          *)
(***************************************************************************)
Rest == <<manager, server, epoch, memory, collected, crashes>>

DumpBegin ==
  /\ dump = "wait"
  /\ beginAllowed
  /\ dump' = "disallow"
  /\ UNCHANGED <<Rest, saving, events, index, next, files, history>>

DumpDisallow ==
  /\ dump = "disallow"
  /\ beginAllowed' = FALSE
  /\ dump' = "open"
  /\ UNCHANGED <<Rest, saving, endAllowed, index, next, files, history>>

OpenWorld ==
  /\ dump = "open"
  /\ worldFile' = [worldFile EXCEPT ![index + 1] = world]
  /\ dump' = "write"
  /\ next' = 1
  /\ UNCHANGED <<Rest, saving, events, index, clientFile, history>>

(***************************************************************************)
(* The file cannot be opened: the clients are saved nevertheless.          *)
(***************************************************************************)
OpenWorldFails ==
  /\ dump = "open" /\ manager
  /\ dump' = "client"
  /\ next' = 1
  /\ UNCHANGED <<Rest, saving, events, index, files, history>>

Whole(file) == file.bytes = Bytes(file.epoch, file.size)

Buffer(i) ==
  IF i = buffers.count
  THEN SubSeq(buffers.physical[i], 1, BufferSize - buffers.free)
  ELSE buffers.physical[i]

WriteWorld ==
  /\ dump = "write"
  /\ worldFile' = [worldFile EXCEPT ![index + 1].bytes =
       @ \o IF manager THEN Buffer(next) ELSE Bytes(world.epoch, world.size)]
  /\ IF manager /\ next < buffers.count
     THEN next' = next + 1 /\ UNCHANGED dump
     ELSE next' = 1 /\ dump' = IF manager THEN "close" ELSE "client"
  /\ history' = [history EXCEPT !.last =
       IF Whole(worldFile'[index + 1]) THEN world.epoch ELSE @]
  /\ UNCHANGED <<Rest, saving, events, index, clientFile>>

(***************************************************************************)
(* The number goes from 0 to MaxIndex - 1; the file has the next one.      *)
(***************************************************************************)
CloseWorld ==
  /\ dump = "close"
  /\ index' = IF index + 1 >= MaxIndex THEN 0 ELSE index + 1
  /\ dump' = IF manager THEN "client" ELSE "wait"
  /\ saving' = IF manager THEN saving ELSE "no"
  /\ history' = [history EXCEPT !.wrapped = @ \/ index' = 0]
  /\ UNCHANGED <<Rest, events, next, files>>

OpenClient ==
  /\ dump = "client" /\ next <= Len(clientBuffer)
  /\ clientFile' = [clientFile EXCEPT ![clientBuffer[next].client] = Torn]
  /\ dump' = "fill"
  /\ UNCHANGED <<Rest, saving, events, index, next, worldFile, history>>

WriteClient ==
  /\ dump = "fill"
  /\ clientFile' = [clientFile EXCEPT ![clientBuffer[next].client] = clientBuffer[next].data]
  /\ dump' = "client"
  /\ next' = next + 1
  /\ UNCHANGED <<Rest, saving, events, index, worldFile, history>>

ClientsWritten ==
  /\ dump = "client" /\ next > Len(clientBuffer)
  /\ dump' = IF manager THEN "erase" ELSE "close"
  /\ UNCHANGED <<Rest, saving, events, index, next, files, history>>

\* Faulty: DumpEndEvent is not allowed again.
EraseOldSilent ==
  /\ dump = "erase"
  /\ worldFile' = [i \in DOMAIN worldFile |->
                     IF i \in erase THEN NoFile ELSE worldFile[i]]
  /\ dump' = "wait" /\ next' = 0
  /\ world' = NoWorld
  /\ UNCHANGED <<manager, saving, server, epoch, memory, buffers, clientBuffer, erase,
                 crashes, events, index, clientFile, history>>

(***************************************************************************)
(* Each old file is opened for writing and then deleted.                   *)
(***************************************************************************)
EraseOld ==
  /\ dump = "erase"
  /\ worldFile' = [i \in DOMAIN worldFile |->
                     IF i \in erase THEN NoFile ELSE worldFile[i]]
  /\ endAllowed' = TRUE
  /\ dump' = "wait" /\ next' = 0
  /\ world' = NoWorld
  /\ UNCHANGED <<manager, saving, server, epoch, memory, buffers, clientBuffer, erase,
                 crashes, beginAllowed, index, clientFile, history>>

WriterStep ==
  \/ DumpBegin \/ DumpDisallow \/ OpenWorld \/ WriteWorld \/ CloseWorld
  \/ OpenClient \/ WriteClient \/ ClientsWritten \/ EraseOld

-----------------------------------------------------------------------------
(***************************************************************************)
(* What is in memory is lost when the server ends or crashes.              *)
(***************************************************************************)
Forget ==
  /\ server' = "off" /\ saving' = "no"
  /\ items' = [c \in Client |-> 0]
  /\ place' = [c \in Client |-> "out"]
  /\ data' = [c \in Client |-> New]
  /\ saveClients' = {}
  /\ buffers' = NoBuffers /\ world' = NoWorld /\ clientBuffer' = <<>> /\ erase' = {}
  /\ beginAllowed' = FALSE /\ endAllowed' = TRUE
  /\ index' = 0 /\ dump' = "wait" /\ next' = 0

(***************************************************************************)
(* The end of the server waits for Dump_Work.                              *)
(***************************************************************************)
Finish ==
  /\ server = "last" /\ saving = "no"
  /\ manager => endAllowed
  /\ Forget
  /\ UNCHANGED <<manager, epoch, files, crashes, history>>

(***************************************************************************)
(* The files that are open for writing.  A crash may cut what was written  *)
(* to that of the world last.                                              *)
(***************************************************************************)
WorldOpen == dump \in {"write", "close"} \/ (~manager /\ dump \in {"client", "fill"})

Open ==
  {[file |-> "world", of |-> i] : i \in {j \in {index + 1} : WorldOpen}}
    \cup {[file |-> "client", of |-> clientBuffer[i].client] :
           i \in {j \in {next} : dump = "fill"}}

Crash ==
  /\ server # "off" /\ crashes < MaxCrashes
  /\ Forget
  /\ crashes' = crashes + 1
  /\ \/ UNCHANGED worldFile
     \/ /\ WorldOpen /\ worldFile[index + 1].bytes # <<>>
        /\ worldFile' = [worldFile EXCEPT ![index + 1].bytes = Front(@)]
  /\ history' = [history EXCEPT !.cut = @ \cup Open]
  /\ UNCHANGED <<manager, epoch, clientFile>>

\* Faulty: the first save found is loaded.
NewestLowest ==
  LET saves == {i \in 1..MaxIndex : worldFile[i] # NoFile}
  IN IF saves = {} THEN 0 ELSE CHOOSE i \in saves : \A j \in saves : i <= j

(***************************************************************************)
(* LoadWorld looks for the highest number there is.                        *)
(***************************************************************************)
Newest ==
  LET saves == {i \in 1..MaxIndex : worldFile[i] # NoFile}
  IN IF saves = {} THEN 0 ELSE Max(saves)

\* Faulty: the number is that of the next file already.
StartNext ==
  /\ server = "off"
  /\ Newest # 0 => Whole(worldFile[Newest])
  /\ server' = "run"
  /\ manager' \in BOOLEAN
  /\ index' = Newest + 1
  /\ items' = IF Newest = 0 THEN [c \in Client |-> 0] ELSE worldFile[Newest].items
  /\ place' = [c \in Client |-> IF clientFile[c] = NoFile THEN "gone" ELSE "out"]
  /\ history' = [history EXCEPT !.left = clientFile, !.wrapped = @ \/ Newest = MaxIndex]
  /\ UNCHANGED <<saving, epoch, data, saveClients, collected, events, dump, next,
                 files, crashes>>

(***************************************************************************)
(* The start of the server: LoadClientsData lists the client files,        *)
(* LoadWorld loads a world or generates the first one.  A world file that  *)
(* is not whole is refused and with it the start.                          *)
(***************************************************************************)
Start ==
  /\ server = "off"
  /\ Newest # 0 => Whole(worldFile[Newest])
  /\ server' = "run"
  /\ manager' \in BOOLEAN
  /\ index' = Newest
  /\ items' = IF Newest = 0 THEN [c \in Client |-> 0] ELSE worldFile[Newest].items
  /\ place' = [c \in Client |-> IF clientFile[c] = NoFile THEN "gone" ELSE "out"]
  /\ history' = [history EXCEPT !.left = clientFile, !.wrapped = @ \/ Newest = MaxIndex]
  /\ UNCHANGED <<saving, epoch, data, saveClients, collected, events, dump, next,
                 files, crashes>>

-----------------------------------------------------------------------------
SaverStep == WaitDump \/ CollectWorld \/ CollectClients \/ AwakeDump \/ Finish

Next ==
  \/ \E c \in Client :
       \/ Play(c) \/ DeleteAccount(c) \/ Login(c) \/ Reconnect(c)
       \/ DisconnectClient(c) \/ RemoveClient(c)
  \/ StartSave \/ StopServer \/ SaverStep \/ WriterStep
  \/ DumpFileFails \/ OpenWorldFails
  \/ Crash \/ Start

Spec == Init /\ [][Next]_vars

(***************************************************************************)
(* Fairness: the main thread and the thread Dump_Work run.                 *)
(***************************************************************************)
FairSpec ==
  /\ Spec
  /\ WF_vars(SaverStep)
  /\ WF_vars(WriterStep)

-----------------------------------------------------------------------------
(***************************************************************************)
(* Every file is what it was written to be: the one that is open and those *)
(* that a crash has cut are the only ones that are not whole, whatever the *)
(* sizes of the worlds saved before with the same buffers.                 *)
(***************************************************************************)
FilesWhole ==
  /\ \A i \in DOMAIN worldFile :
       worldFile[i] = NoFile \/ Whole(worldFile[i])
         \/ [file |-> "world", of |-> i] \in Open \cup history.cut
  /\ \A c \in Client :
       clientFile[c] # Torn \/ [file |-> "client", of |-> c] \in Open \cup history.cut

(***************************************************************************)
(* The server goes on from the last world whose file is whole, until the   *)
(* numbers of the saves have come to their end: then they begin again, or, *)
(* if a crash lets the server start from the highest one, the next save is *)
(* written to a file that LoadWorld does not look for.                     *)
(***************************************************************************)
LoadsLast ==
  [][server = "off" /\ server' = "run" /\ ~history.wrapped =>
       IF history.last = 0 THEN index' = 0 ELSE worldFile[index'].epoch = history.last]_vars

(***************************************************************************)
(* Where Dump_Work has still to write a client.                            *)
(***************************************************************************)
Pending(c) ==
  {i \in DOMAIN clientBuffer :
     /\ clientBuffer[i].client = c
     /\ \/ saving = "awake" \/ beginAllowed
        \/ dump \in {"disallow", "open", "write"}
        \/ manager /\ dump = "close"
        \/ dump \in {"client", "fill"} /\ i >= next}

(***************************************************************************)
(* While the server runs the state of a client who has left the game is    *)
(* never forgotten: it is in SaveClients, in the buffer of Dump_Work or in *)
(* the file.                                                               *)
(***************************************************************************)
LeaversKept ==
  \A c \in Client : server = "run" /\ place[c] = "out" =>
    \/ c \in saveClients /\ data[c] = history.left[c]
    \/ \E i \in Pending(c) : clientBuffer[i].data = history.left[c]
    \/ clientFile[c] = history.left[c]

(***************************************************************************)
(* A client comes back as it left, unless Dump_Work has taken it off       *)
(* SaveClients and not yet written its file.                               *)
(***************************************************************************)
ReturnsAsLeft ==
  [][\A c \in Client :
       place[c] = "out" /\ place'[c] = "online" =>
         data'[c] = history.left[c] \/ Pending(c) # {}]_vars

(***************************************************************************)
(* An orderly stop saves everybody who is connected or has left as they    *)
(* are, unless SaveWorld could not create its file.  Of an avatar whose    *)
(* player has disconnected it saves what an earlier save has not: those    *)
(* are in SaveClients once.                                                *)
(***************************************************************************)
StopSavesAll ==
  [][server = "last" /\ server' = "off" /\ crashes' = crashes /\ ~history.failed =>
       \A c \in Client :
         /\ place[c] = "online" => clientFile[c] = data[c]
         /\ place[c] = "out" => clientFile[c] = history.left[c]]_vars

(***************************************************************************)
(* A save ends, the wait for the previous one included, and so does the    *)
(* server: the two events of SaveWorld and Dump_Work lose no wake-up.      *)
(***************************************************************************)
SavesEnd ==
  saving # "no" \/ server = "last" ~> saving = "no" /\ server # "last"

(***************************************************************************)
(* "Your account will be deleted after character exit from game": once the *)
(* server has stopped there is no file of a deleted account.               *)
(***************************************************************************)
DeletedForGood ==
  server = "off" /\ crashes = 0 => \A c \in history.deleted : clientFile[c] = NoFile
=============================================================================
