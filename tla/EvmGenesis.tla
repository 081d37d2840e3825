----------------------------- MODULE EvmGenesis -----------------------------
(***************************************************************************)
(* Export and import of the state of the evm module (evm/genesis.go and    *)
(* evm/export_operation.go).  The chain of EvmExecution stops between two  *)
(* transactions and is exported in one of three modes: into the genesis    *)
(* document itself, into one file of code and one of storage per account,  *)
(* or into two databases.  In the last two the goroutine of ExportGenesis  *)
(* hands work to others, of which a buffered channel admits a bounded      *)
(* number, and waits for them at the end; so does InitGenesis when it      *)
(* reads files.  The directory of an export may hold an earlier one.       *)
(***************************************************************************)
EXTENDS EvmExecution

CONSTANTS
  Modes,        \* of {"default", "files", "db"}
  Goroutines,   \* capacities of the channel
  MaxExports    \* bound on the exports of a behaviour

VARIABLE gen
  \* stage: "off", "export", "exported", "import", "imported" or "panic"
  \* mode, capacity, blocked: the flags, and the contracts of the enabled blocked list
  \* todo, calls: accounts the loop has still to visit, goroutines it has still to start
  \* running, tokens: the goroutines the WaitGroup counts, what is in the channel
  \* genesis, listed: the accounts and the blocked list of the document
  \* disk: files, or the databases
  \* fresh: the store of the new chain; set: the code that waits in its StateDB

NoStorage == [k \in Keys |-> 0]
NoWork == [a \in Addresses |-> {}]

NoDisk == [codes  |-> [a \in Addresses |-> NoCode], storage |-> [a \in Addresses |-> NoStorage],
           byHash |-> {}]

NoGenesis ==
  [stage |-> "off", exports |-> 0, mode |-> "default", capacity |-> 1, blocked |-> {},
   todo |-> {}, calls |-> <<>>, running |-> {}, tokens |-> 0,
   genesis |-> NoWork, listed |-> {}, disk |-> NoDisk,
   fresh |-> [codes |-> {}, storage |-> NoDisk.storage, blocked |-> {}], set |-> {}]

GenInit == gen = NoGenesis

Accounts == {a \in Addresses : store.accounts[a].found}

----------------------------------------------------------------------------
(* The goroutines *)

goCall(job, a) == [job |-> job, address |-> a, at |-> "work"]

\* addGoroutine and the go statement behind it: the send waits for room in the channel.
addGoroutine ==
  /\ gen.calls # <<>> /\ gen.tokens < gen.capacity
  /\ gen' = [gen EXCEPT !.tokens = @ + 1, !.running = @ \cup {Head(gen.calls)}, !.calls = Tail(@)]

Moved(g, at) == [gen EXCEPT !.running = (@ \ {g}) \cup {[g EXCEPT !.at = at]}]

\* finishGoroutine: the receive, then wg.Done.
finishGoroutine(g) ==
  \/ g.at = "finish" /\ gen' = [Moved(g, "done") EXCEPT !.tokens = @ - 1]
  \/ g.at = "done" /\ gen' = [gen EXCEPT !.running = @ \ {g}]

Panic == gen' = [gen EXCEPT !.stage = "panic"]

\* GetCode of the StateDB: it refuses a contract of the blocked list.
CodeOf(a) == Code(newStateObject(store.accounts[a]))
Refused(a) == a \in gen.blocked

GetAccountStorage(a) == ForEachStorage(CreateEmptyCommitStateDB, a)

\* syncWriteAccountCode: no file for an account without code.
syncWriteAccountCode(g) ==
  /\ g.at = "work" /\ g.job = "writeCode"
  /\ \/ Refused(g.address) /\ Panic
     \/ ~Refused(g.address) /\ CodeOf(g.address) # NoCode
        /\ gen' = [Moved(g, "finish") EXCEPT !.disk.codes[g.address] = CodeOf(g.address)]
     \/ ~Refused(g.address) /\ CodeOf(g.address) = NoCode /\ gen' = Moved(g, "finish")

\* syncWriteAccountStorage: the file is truncated, written, and removed if nothing was.
syncWriteAccountStorage(g) ==
  /\ g.at = "work" /\ g.job = "writeStorage"
  /\ gen' = [Moved(g, "finish") EXCEPT !.disk.storage[g.address] = GetAccountStorage(g.address)]

\* exportStorage sets every key in the database, and deletes none.
exportStorage(g) ==
  /\ g.at = "work" /\ g.job = "exportStorage"
  /\ gen' = [Moved(g, "finish") EXCEPT !.disk.storage[g.address] =
               LET written == GetAccountStorage(g.address)
               IN  [k \in Keys |-> IF written[k] # 0 THEN written[k] ELSE @[k]]]

\* The code a store keeps under a hash; an import that finds no code sets none.
SetCodeDirectly(codes, hash, code) ==
  IF code = NoCode THEN codes ELSE {c \in codes : c.hash # hash} \cup {[hash |-> hash, code |-> code]}

\* syncReadCodeFromFile stores what the file holds under the code hash of the account,
\* under the hash of no code too, where nobody looks for it.
syncReadCodeFromFile(g) ==
  /\ g.at = "work" /\ g.job = "readCode"
  /\ gen' = [Moved(g, "finish") EXCEPT !.fresh.codes =
               SetCodeDirectly(@, store.accounts[g.address].codeHash, gen.disk.codes[g.address])]

syncReadStorageFromFile(g) ==
  /\ g.at = "work" /\ g.job = "readStorage"
  /\ gen' = [Moved(g, "finish") EXCEPT !.fresh.storage[g.address] = gen.disk.storage[g.address]]

Goroutine(g) ==
  \/ syncWriteAccountCode(g) \/ syncWriteAccountStorage(g) \/ exportStorage(g)
  \/ syncReadCodeFromFile(g) \/ syncReadStorageFromFile(g) \/ finishGoroutine(g)

----------------------------------------------------------------------------
(* ExportGenesis *)

\* initExportEnv and initGoroutinePool.  A directory that was used is not cleared; only an
\* export into databases is given a new one.
initExportEnv(mode, capacity, blocked) ==
  /\ gen.stage \in {"off", "exported"} /\ gen.exports < MaxExports
  /\ db = CreateEmptyCommitStateDB /\ saved = <<>>
  /\ gen' = [gen EXCEPT !.stage = "export", !.exports = @ + 1, !.mode = mode,
                        !.capacity = capacity, !.blocked = blocked,
                        !.todo = Accounts, !.genesis = NoWork,
                        !.disk = IF mode = "db" THEN NoDisk ELSE @]

Visited(a) == [gen EXCEPT !.todo = @ \ {a}, !.genesis[a] = {[code |-> NoCode, storage |-> NoStorage]}]

exportToGenesis(a) ==
  /\ gen.mode = "default"
  /\ \/ Refused(a) /\ Panic
     \/ ~Refused(a) /\ gen' = [Visited(a) EXCEPT !.genesis[a] =
                                 {[code |-> CodeOf(a), storage |-> GetAccountStorage(a)]}]

exportToFile(a) ==
  gen.mode = "files" /\ gen' = [Visited(a) EXCEPT !.calls = <<goCall("writeCode", a), goCall("writeStorage", a)>>]

exportToDB(a) ==
  /\ gen.mode = "db"
  /\ \/ Refused(a) /\ Panic
     \/ ~Refused(a) /\ gen' = [Visited(a) EXCEPT !.disk.byHash = @ \cup ({CodeOf(a)} \ {NoCode}),
                                               !.calls = <<goCall("exportStorage", a)>>]

GetContractBlockedList == gen.blocked


\* The end of the loop over the accounts, and wg.Wait.
Waited == gen.todo = {} /\ gen.calls = <<>> /\ gen.running = {}

ExportGenesis ==
  /\ gen.stage = "export"
  /\ \/ gen.calls = <<>> /\ \E a \in gen.todo : exportToGenesis(a) \/ exportToFile(a) \/ exportToDB(a)
     \/ addGoroutine
     \/ Waited /\ gen' = [gen EXCEPT !.stage = "exported", !.listed = GetContractBlockedList]

----------------------------------------------------------------------------
(* InitGenesis, after the accounts were imported by the auth module *)

initImportEnv ==
  /\ gen.stage = "exported" /\ db = CreateEmptyCommitStateDB /\ saved = <<>>
  /\ gen' = [gen EXCEPT !.stage = "import", !.todo = {a \in Addresses : gen.genesis[a] # {}}]

importFromGenesis(a) ==
  /\ gen.mode = "default"
  /\ \E account \in gen.genesis[a] :
       gen' = [gen EXCEPT !.todo = @ \ {a}, !.fresh.storage[a] = account.storage,
                          !.set = @ \cup ({account.code} \ {NoCode})]

importFromFile(a) ==
  /\ gen.mode = "files"
  /\ gen' = [gen EXCEPT !.todo = @ \ {a},
                        !.calls = <<goCall("readCode", a), goCall("readStorage", a)>>]

\* isEmptyState: a database without any key has no tables.
isEmptyState == gen.disk.byHash = {} \/ gen.disk.storage = NoDisk.storage

importFromDB(a) ==
  /\ gen.mode = "db"
  /\ \/ isEmptyState /\ Panic
     \/ ~isEmptyState
        /\ gen' = [gen EXCEPT !.todo = @ \ {a}, !.fresh.storage[a] = gen.disk.storage[a],
                              !.fresh.codes = SetCodeDirectly(@, store.accounts[a].codeHash,
                                IF store.accounts[a].codeHash \in gen.disk.byHash
                                  THEN store.accounts[a].codeHash ELSE NoCode)]

SetContractBlockedList(blocked, list) == blocked \cup list

\* Commit writes the code that was set; it fails on an account the bank keeper refuses.
InitGenesis ==
  /\ gen.stage = "import"
  /\ \/ gen.calls = <<>> /\ \E a \in gen.todo : importFromGenesis(a) \/ importFromFile(a) \/ importFromDB(a)
     \/ addGoroutine
     \/ Waited /\ IF Accounts \cap store.blacklist # {} THEN Panic
                  ELSE gen' = [gen EXCEPT !.stage = "imported",
                                           !.fresh.blocked = SetContractBlockedList(@, gen.listed),
                                           !.fresh.codes = @ \cup {[hash |-> c, code |-> c] : c \in gen.set}]

----------------------------------------------------------------------------

GenNext ==
  /\ \/ \E mode \in Modes, capacity \in Goroutines, blocked \in SUBSET ActiveContracts :
          Does("export") /\ initExportEnv(mode, capacity, blocked)
     \/ ExportGenesis \/ initImportEnv \/ InitGenesis
     \/ \E g \in gen.running : gen.stage # "panic" /\ Goroutine(g)
     \/ gen.stage \in {"imported", "panic"} /\ UNCHANGED gen
  /\ UNCHANGED vars

=============================================================================
