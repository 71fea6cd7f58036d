------------------------- MODULE SnapshotProofs -------------------------
(***************************************************************************)
(* Proofs about the market snapshot.  First about SnapshotWorker, for any   *)
(* set of symbols and clients and any number of commands and ticks: clicks  *)
(* merge, a command says what became of it, and ok means that the client    *)
(* was shown its data.  Then about SnapshotSources, for any rows, panels,   *)
(* lifetimes, batches and faults: ages are true, the account has its dates, *)
(* and histories stay.                                                      *)
(***************************************************************************)
EXTENDS SnapshotWorker, SnapshotSources, TLAPS, SequenceTheorems

-----------------------------------------------------------------------------
USE CacheAssumption, BoundsAssumption

Shown == {"ok", "partial"}
Status == Shown \cup {"none", "timeout", "published", "unpublished"}
InCommand == {"entry", "fetch", "assemble", "validate", "commit"}
Places == InCommand \cup {"idle", "cycle", "tell", "done", "release", "dead"}

CommandRow ==
  [key : Key, expired : BOOLEAN, status : Status, version : Nat, done : BOOLEAN]
WorkerRow(number) == [pc : Places, cmd : number, say : Status]
ClientRow(number) ==
  [pc : {"idle", "symbol", "symbol read", "cache"}, cmd : number, seen : Nat,
   answer : Status \cup {"queued"}, late : BOOLEAN]

(* Commands so far, and 0 for none of them.                                *)
Made == 1..Len(commands)
MadeOrNone == 0..Len(commands)

Typed ==
  /\ commands \in Seq(CommandRow) /\ Len(commands) <= MaxCommands
  /\ queue \in Seq(MadeOrNone)
  /\ slot \in [Key -> MadeOrNone]
  /\ worker \in WorkerRow(MadeOrNone)
  /\ stopping \in BOOLEAN /\ version \in Nat
  /\ author \in Seq(MadeOrNone) /\ Len(author) = version

(* Nothing of the command was published or said.                           *)
Published(n) == {v \in 1..version : author[v] = n}
Untouched(n) == commands[n].status = "none" /\ Published(n) = {}

(* A command stands in the queue once and is untouched until it leaves;    *)
(* the sentinel comes after the flag.                                      *)
Queued ==
  /\ \A i \in 1..Len(queue) :
       IF queue[i] = 0 THEN stopping ELSE queue[i] # worker.cmd /\ Untouched(queue[i])
  /\ \A i, j \in 1..Len(queue) : queue[i] = queue[j] /\ queue[i] # 0 => i = j

(* How far the thread is with its command.                                 *)
AtWork ==
  /\ worker.pc \in {"idle", "dead"} => worker.cmd = 0
  /\ worker.pc \notin {"idle", "dead", "cycle"} => worker.cmd # 0
  /\ worker.pc \in InCommand \cup {"cycle"} /\ worker.cmd # 0 => Untouched(worker.cmd)
  /\ worker.pc \in InCommand => commands[worker.cmd].key # Cache
  /\ worker.pc \in {"assemble", "validate", "commit"} => worker.say \in Shown
  /\ worker.pc = "tell" =>
       /\ worker.say # "none" /\ commands[worker.cmd].status = "none"
       /\ worker.say \in Shown => commands[worker.cmd].key # Cache
       /\ Published(worker.cmd) =
            IF worker.say \in {"timeout", "unpublished"} THEN {} ELSE {version}
  /\ worker.pc = "done" => commands[worker.cmd].status # "none"
  /\ worker.pc = "release" => commands[worker.cmd].done

Slots == \A k \in Key : slot[k] # 0 => commands[slot[k]].key = k

(* A command says something before it is done, and what it published.      *)
Told ==
  \A n \in Made :
    /\ commands[n].status = "none" => ~commands[n].done
    /\ commands[n].version <= version
    /\ commands[n].status \in Shown => commands[n].key # Cache
    /\ commands[n].status # "none" =>
         Published(n) = IF commands[n].status \in {"timeout", "unpublished"} THEN {}
                        ELSE {commands[n].version}

Merged == \A n \in Made : ~commands[n].done /\ commands[n].key # Cache => slot[commands[n].key] = n

(* What a client has of its command.                                       *)
Has(c) == commands[client[c].cmd].done /\ client[c].seen >= commands[client[c].cmd].version
Waiting ==
  /\ client \in [Client -> ClientRow(MadeOrNone)]
  /\ \A c \in Client :
       /\ client[c].pc # "idle" => client[c].cmd # 0
       /\ client[c].pc = "cache" => commands[client[c].cmd].key = Cache
       /\ client[c].pc = "symbol read" => client[c].late \/ Has(c)
       /\ client[c].pc = "idle" /\ client[c].answer \in Shown =>
            client[c].cmd # 0 /\ (client[c].late \/ Has(c))

(* Without the clients, and with them.                                     *)
Inside == Typed /\ Queued /\ AtWork /\ Slots /\ Told /\ Merged
Inv == Inside /\ Waiting
-------------------------------------------------------------------------------
(* Sequences.                                                              *)

LEMMA Rows ==
  ASSUME Typed
  PROVE  /\ Len(commands) \in Nat /\ DOMAIN commands = Made
         /\ \A n \in Made : commands[n] \in CommandRow
         /\ Len(queue) \in Nat /\ \A i \in 1..Len(queue) : queue[i] \in MadeOrNone
         /\ DOMAIN author = 1..version /\ \A v \in 1..version : author[v] \in MadeOrNone
BY LenProperties, ElementOfSeq DEF Typed, Made

(* A command's row is written.                                             *)
LEMMA RowWritten ==
  ASSUME Typed, NEW n \in Made, NEW row \in CommandRow,
         commands' = [commands EXCEPT ![n] = row]
  PROVE  /\ commands' \in Seq(CommandRow) /\ Len(commands') = Len(commands)
         /\ Made' = Made /\ MadeOrNone' = MadeOrNone
         /\ commands'[n] = row
         /\ \A m \in Made \ {n} : commands'[m] = commands[m]
BY ExceptSeq DEF Typed, Made, MadeOrNone

(* A command is made.                                                      *)
LEMMA Appended ==
  ASSUME Typed, NEW k \in Key, commands' = Append(commands, Command(k))
  PROVE  /\ commands' \in Seq(CommandRow) /\ Len(commands') = Len(commands) + 1
         /\ Made' = Made \cup {Len(commands) + 1} /\ MadeOrNone \subseteq MadeOrNone'
         /\ commands'[Len(commands) + 1] = Command(k)
         /\ \A m \in Made : commands'[m] = commands[m]
<1>1. Command(k) \in CommandRow
  BY DEF Command, CommandRow, Status, Shown
<1> QED BY <1>1, AppendProperties, LenProperties DEF Typed, Made, MadeOrNone

(* A publication is the worker's command's own.                            *)
LEMMA PublishStep ==
  ASSUME Typed, Publish
  PROVE  /\ version' = version + 1 /\ version' \in Nat
         /\ author' \in Seq(MadeOrNone) /\ Len(author') = version'
         /\ \A n : Published(n)' =
               IF n = worker.cmd THEN Published(n) \cup {version'} ELSE Published(n)
<1>1. worker.cmd \in MadeOrNone
  BY DEF Typed, WorkerRow
<1>2. /\ author' \in Seq(MadeOrNone) /\ Len(author') = Len(author) + 1
      /\ author'[Len(author) + 1] = worker.cmd
      /\ \A v \in 1..Len(author) : author'[v] = author[v]
  BY <1>1, AppendProperties DEF Typed, Publish
<1> QED BY <1>2 DEF Typed, Publish, Published
-------------------------------------------------------------------------------
(* What a step leaves alone.                                               *)

LEMMA InitInv == Init => Inv
<1> SUFFICES ASSUME Init PROVE Inv
  OBVIOUS
<1>1. Made = {} /\ MadeOrNone = {0}
  BY DEF Init, Made, MadeOrNone
<1>2. worker \in WorkerRow(MadeOrNone)
  BY <1>1 DEF Init, WorkerRow, Places, Status, Shown, At
<1>3. Typed
  <2>1. /\ commands \in Seq(CommandRow) /\ Len(commands) = 0
        /\ queue \in Seq(MadeOrNone) /\ author \in Seq(MadeOrNone) /\ Len(author) = 0
    BY EmptySeq DEF Init
  <2>2. slot \in [Key -> MadeOrNone] /\ stopping \in BOOLEAN /\ version = 0
    BY <1>1 DEF Init
  <2> QED BY <1>2, <2>1, <2>2 DEF Typed
<1>4. AtWork
  BY <1>1 DEF Init, AtWork, At, InCommand
<1>5. Queued /\ Slots /\ Told /\ Merged
  BY <1>1 DEF Init, Queued, Slots, Told, Merged
<1>6. IdleClient \in ClientRow(MadeOrNone)
  BY <1>1 DEF IdleClient, ClientRow, Status, Shown
<1>7. Waiting
  BY <1>6 DEF Init, Waiting, IdleClient, Shown
<1> QED BY <1>3, <1>4, <1>5, <1>7 DEF Inv, Inside

(* A client keeps what it has: rows stay, and a done command is final.     *)
Kept ==
  /\ Len(commands') \in Nat /\ Len(commands') >= Len(commands)
  /\ \A n \in Made : /\ commands'[n].key = commands[n].key
                     /\ commands[n].done =>
                          commands'[n].done /\ commands'[n].version = commands[n].version

LEMMA NumbersGrow ==
  ASSUME Typed, Kept
  PROVE  MadeOrNone \subseteq MadeOrNone' /\ Len(commands) \in Nat
BY Rows DEF Kept, MadeOrNone

LEMMA ClientsKept ==
  ASSUME Typed, Waiting, Kept, UNCHANGED client
  PROVE  Waiting'
<1>1. MadeOrNone \subseteq MadeOrNone' /\ Len(commands) \in Nat
  BY NumbersGrow
<1>2. client' \in [Client -> ClientRow(MadeOrNone')]
  BY <1>1 DEF Waiting, ClientRow
<1>3. ASSUME NEW c \in Client, client[c].cmd # 0
      PROVE  /\ commands'[client[c].cmd].key = commands[client[c].cmd].key
             /\ Has(c) => Has(c)'
  <2>1. client[c] \in ClientRow(MadeOrNone)
    BY DEF Waiting
  <2>2. client[c].cmd \in MadeOrNone /\ client[c].seen \in Nat
    BY <2>1 DEF ClientRow
  <2>3. client[c].cmd \in Made
    BY <1>1, <1>3, <2>2 DEF Made, MadeOrNone
  <2> QED BY <2>3 DEF Kept, Has
<1> QED BY <1>2, <1>3 DEF Waiting

LEMMA SubmitStep ==
  ASSUME Inside, NEW k \in Key, NEW number \in 1..MaxCommands, Submit(k, number),
         UNCHANGED <<worker, stopping, version, author>>
  PROVE  Inside' /\ Kept /\ number \in Made' /\ commands'[number].key = k
<1>0. /\ Len(commands) \in Nat /\ Len(queue) \in Nat
      /\ \A n \in Made : commands[n] \in CommandRow
      /\ \A i \in 1..Len(queue) : queue[i] \in MadeOrNone
      /\ \A v \in 1..version : author[v] \in MadeOrNone
  BY Rows DEF Inside
<1> USE <1>0 DEF Inside
<1>1. CASE Joinable(k)
  <2>1. UNCHANGED <<commands, queue, slot>> /\ number = slot[k]
    BY <1>1 DEF Submit
  <2>2. number \in Made /\ commands[number].key = k
    BY <1>1, <2>1 DEF Joinable, Typed, Slots, Made, MadeOrNone
  <2>3. Inside'
    BY <2>1 DEF Typed, Queued, AtWork, Slots, Told, Merged, Made, MadeOrNone, Published, Untouched
  <2> QED BY <2>1, <2>2, <2>3 DEF Kept, Made
<1>2. CASE ~Joinable(k)
  <2>1. /\ Len(commands) < MaxCommands /\ number = Len(commands) + 1
        /\ commands' = Append(commands, Command(k))
        /\ slot' = [slot EXCEPT ![k] = number] /\ queue' = Append(queue, number)
    BY <1>2 DEF Submit
  <2>2. /\ commands' \in Seq(CommandRow) /\ Len(commands') = Len(commands) + 1
        /\ Made' = Made \cup {number} /\ MadeOrNone \subseteq MadeOrNone'
        /\ commands'[number] = Command(k)
        /\ \A m \in Made : commands'[m] = commands[m]
    BY <2>1, Appended
  <2>3. number \in MadeOrNone' /\ number \notin MadeOrNone /\ number # 0
    BY <2>1, <2>2 DEF MadeOrNone, Made
  <2>4. queue \in Seq(MadeOrNone') /\ author \in Seq(MadeOrNone')
    BY <2>2, SeqMonotonic DEF Typed
  <2>5. /\ queue' \in Seq(MadeOrNone') /\ Len(queue') = Len(queue) + 1
        /\ \A i \in 1..Len(queue) : queue'[i] = queue[i]
        /\ queue'[Len(queue) + 1] = number
    BY <2>1, <2>3, <2>4, AppendProperties
  <2>6. Typed'
    <3>1. slot' \in [Key -> MadeOrNone'] /\ worker' \in WorkerRow(MadeOrNone')
      BY <2>1, <2>2, <2>3 DEF Typed, WorkerRow
    <3>2. version' \in Nat /\ stopping' \in BOOLEAN /\ Len(author') = version'
      BY DEF Typed
    <3>3. Len(commands') <= MaxCommands
      BY <2>1, <2>2
    <3> QED BY <2>2, <2>4, <2>5, <3>1, <3>2, <3>3 DEF Typed
  <2>7. /\ \A n : Published(n)' = Published(n)
        /\ Published(number) = {}
    BY <2>3 DEF Published
  <2>8. Untouched(number)' /\ \A n \in Made : Untouched(n)' = Untouched(n)
    BY <2>2, <2>7 DEF Untouched, Command
  <2>9. worker.cmd \in MadeOrNone /\ (worker.cmd # 0 => worker.cmd \in Made)
    BY DEF Typed, WorkerRow, Made, MadeOrNone
  <2>10. Queued'
    <3>1. ASSUME NEW i \in 1..Len(queue), NEW n, n = queue[i]
          PROVE  IF n = 0 THEN stopping ELSE n # worker.cmd /\ Untouched(n)'
      <4>1. n \in MadeOrNone
        BY <3>1
      <4> QED BY <2>8, <3>1, <4>1 DEF Queued, Made, MadeOrNone
    <3>2. ASSUME NEW i \in 1..Len(queue')
          PROVE  IF queue'[i] = 0 THEN stopping'
                 ELSE queue'[i] # worker'.cmd /\ Untouched(queue[i])'
      <4>1. CASE i \in 1..Len(queue)
        BY <2>5, <3>1, <4>1
      <4>2. CASE i = Len(queue) + 1
        BY <2>3, <2>5, <2>8, <2>9, <4>2
      <4> QED BY <2>5, <4>1, <4>2
    <3>3. \A i, j \in 1..Len(queue') : queue'[i] = queue'[j] /\ queue'[i] # 0 => i = j
      BY <2>3, <2>5 DEF Queued
    <3> QED BY <3>2, <3>3 DEF Queued
  <2>11. AtWork'
    BY <2>2, <2>7, <2>8, <2>9 DEF AtWork, InCommand
  <2>12. Slots'
    BY <2>1, <2>2, <2>3 DEF Slots, Typed, Command, Made, MadeOrNone
  <2>13. Told'
    <3>1. ASSUME NEW n \in Made
          PROVE  /\ commands'[n] = commands[n] /\ Published(n)' = Published(n)
      BY <2>2, <2>7
    <3>2. /\ commands'[number].status = "none" /\ ~commands'[number].done
          /\ commands'[number].version = 0
      BY <2>2 DEF Command
    <3>3. version' = version /\ version \in Nat
      BY DEF Typed
    <3> QED BY <2>2, <3>1, <3>2, <3>3 DEF Told, Shown
  <2>14. Merged'
    <3>1. ASSUME NEW n \in Made, ~commands[n].done, commands[n].key # Cache
          PROVE  slot'[commands[n].key] = n
      <4>1. slot[commands[n].key] = n /\ n # 0
        BY <3>1 DEF Merged, Made
      <4>2. commands[n].key \in Key
        BY DEF CommandRow
      <4>3. commands[n].key # k
        BY <1>2, <3>1, <4>1 DEF Joinable
      <4> QED BY <2>1, <4>1, <4>2, <4>3 DEF Typed
    <3>2. slot'[k] = number
      BY <2>1 DEF Typed
    <3> QED BY <2>2, <3>1, <3>2 DEF Merged, Command
  <2>15. Kept
    BY <2>2 DEF Kept
  <2> QED BY <2>2, <2>6, <2>10, <2>11, <2>12, <2>13, <2>14, <2>15 DEF Command
<1> QED BY <1>1, <1>2
-------------------------------------------------------------------------------
(* The worker.                                                             *)

LEMMA WorkerTyped ==
  ASSUME Inside
  PROVE  /\ worker.pc \in Places /\ worker.cmd \in MadeOrNone /\ worker.say \in Status
         /\ worker = At(worker.pc, worker.cmd, worker.say)
         /\ worker.cmd # 0 => worker.cmd \in Made /\ commands[worker.cmd] \in CommandRow
         /\ Len(commands) \in Nat
<1>1. worker \in WorkerRow(MadeOrNone) /\ Len(commands) \in Nat
  BY Rows DEF Inside, Typed
<1>2. worker.pc \in Places /\ worker.cmd \in MadeOrNone /\ worker.say \in Status
  BY <1>1 DEF WorkerRow
<1>3. worker = At(worker.pc, worker.cmd, worker.say)
  BY <1>1 DEF WorkerRow, At
<1>4. worker.cmd # 0 => worker.cmd \in Made
  BY <1>1, <1>2 DEF Made, MadeOrNone
<1> QED BY <1>1, <1>2, <1>3, <1>4, Rows DEF Inside

(* A step of the thread within a command or a tick.                        *)
LEMMA MoveStep ==
  ASSUME Inside, UNCHANGED <<commands, queue, slot, stopping>>,
         \/ Publish /\ (worker.cmd # 0 => Untouched(worker.cmd))
         \/ UNCHANGED <<version, author>>,
         NEW pc \in Places, NEW say \in Status, worker' = At(pc, worker.cmd, say),
         AtWork'
  PROVE  Inside'
<1> USE DEF Inside
<1>1. /\ version' \in Nat /\ version' >= version /\ version \in Nat
      /\ author' \in Seq(MadeOrNone) /\ Len(author') = version'
      /\ \A n : n # worker.cmd => Published(n)' = Published(n)
      /\ \A n \in Made : commands[n].status # "none" => Published(n)' = Published(n)
  <2>1. CASE UNCHANGED <<version, author>>
    BY <2>1 DEF Typed, Published
  <2>2. CASE Publish /\ (worker.cmd # 0 => Untouched(worker.cmd))
    <3>1. \A n \in Made : commands[n].status # "none" => n # worker.cmd
      BY <2>2 DEF Untouched, Made
    <3> QED BY <2>2, <3>1, PublishStep DEF Typed
  <2> QED BY <2>1, <2>2
<1>2. worker'.cmd = worker.cmd /\ worker' \in WorkerRow(MadeOrNone)
  BY WorkerTyped DEF At, WorkerRow
<1>3. Typed'
  BY <1>1, <1>2 DEF Typed, Made, MadeOrNone
<1>4. Queued'
  <2>1. ASSUME NEW i \in 1..Len(queue), NEW n, n = queue[i], n # 0
        PROVE  n # worker.cmd /\ Untouched(n)'
    BY <1>1, <2>1 DEF Queued, Untouched
  <2> QED BY <1>2, <2>1 DEF Queued
<1>5. Told'
  <2>1. ASSUME NEW n \in Made
        PROVE  /\ commands[n].version \in Nat
               /\ commands[n].status # "none" => Published(n)' = Published(n)
    BY <1>1, Rows DEF CommandRow
  <2> QED BY <1>1, <2>1 DEF Told, Made
<1>6. Slots' /\ Merged'
  BY DEF Slots, Merged, Made
<1> QED BY <1>3, <1>4, <1>5, <1>6

LEMMA CycleStep ==
  ASSUME Inside, NEW publishes \in BOOLEAN, Cycle(publishes)
  PROVE  Inside'
<1> USE DEF Inside
<1>1. /\ UNCHANGED <<commands, queue, slot, stopping>> /\ worker.pc = "cycle"
      /\ IF publishes THEN Publish ELSE UNCHANGED <<version, author>>
  BY DEF Cycle
<1>2. worker.cmd # 0 => Untouched(worker.cmd)
  BY <1>1 DEF AtWork, InCommand
<1>3. CASE worker.cmd = 0
  <2>1. worker' = At("idle", worker.cmd, "none")
    BY <1>3 DEF Cycle
  <2>2. AtWork'
    BY <1>3, <2>1 DEF AtWork, At, InCommand
  <2>3. "idle" \in Places /\ "none" \in Status
    BY DEF Places, Status
  <2> QED BY <1>1, <1>2, <2>1, <2>2, <2>3, MoveStep
<1>4. CASE worker.cmd # 0
  <2> DEFINE say == IF publishes THEN "published" ELSE "unpublished"
  <2>1. worker' = At("tell", worker.cmd, say)
    BY <1>4 DEF Cycle
  <2>2. "tell" \in Places /\ say \in Status
    BY DEF Places, Status
  <2>3. \A n : n = worker.cmd => Published(n)' = IF publishes THEN {version'} ELSE {}
    <3>1. CASE publishes
      BY <1>1, <1>2, <1>4, <3>1, PublishStep DEF Untouched
    <3>2. CASE ~publishes
      BY <1>1, <1>2, <1>4, <3>2 DEF Untouched, Published
    <3> QED BY <3>1, <3>2
  <2>4. /\ worker'.pc = "tell" /\ worker'.cmd = worker.cmd /\ worker'.say = say
        /\ say \notin Shown /\ say # "none"
    BY <2>1 DEF At, Shown
  <2>5. Published(worker.cmd)' = IF publishes THEN {version'} ELSE {}
    BY <2>3, <2>4 DEF Published
  <2>6. AtWork'
    BY <1>1, <1>2, <1>4, <2>4, <2>5 DEF AtWork, InCommand, Untouched
  <2> HIDE DEF say
  <2> QED BY <1>1, <1>2, <2>1, <2>2, <2>6, MoveStep
<1> QED BY <1>3, <1>4

(* Each gate either says timeout, of an untouched command, or goes on.     *)
LEMMA GateStep ==
  ASSUME Inside, NEW b \in BOOLEAN, NEW status \in Shown,
         Enter(b) \/ Fetch(status) \/ Assemble(b) \/ Validate(b)
  PROVE  Inside'
<1> USE DEF Inside
<1>1. /\ UNCHANGED <<commands, queue, slot, stopping, version, author>>
      /\ worker.pc \in {"entry", "fetch", "assemble", "validate"}
      /\ worker.pc \notin {"entry", "fetch"} => worker.say \in Shown
  BY DEF Enter, Fetch, Assemble, Validate, AtWork
<1>2. worker.cmd # 0 /\ Untouched(worker.cmd) /\ commands[worker.cmd].key # Cache
  BY <1>1 DEF AtWork, InCommand
<1>3. \A n : Published(n)' = Published(n)
  BY <1>1 DEF Published
<1>4. CASE worker' = At("tell", worker.cmd, "timeout")
  <2>1. worker'.pc = "tell" /\ worker'.cmd = worker.cmd /\ worker'.say = "timeout"
    BY <1>4 DEF At
  <2>2. Published(worker.cmd)' = {}
    BY <1>2, <1>3, <2>1 DEF Untouched, Published
  <2>3. AtWork'
    BY <1>1, <1>2, <2>1, <2>2 DEF AtWork, InCommand, Untouched, Shown
  <2>4. "tell" \in Places /\ "timeout" \in Status
    BY DEF Places, Status
  <2> QED BY <1>1, <1>4, <2>3, <2>4, MoveStep
<1>5. CASE \/ worker' = At("fetch", worker.cmd, worker.say)
           \/ worker' = At("assemble", worker.cmd, status)
           \/ worker.say \in Shown /\ worker' = At("validate", worker.cmd, worker.say)
           \/ worker.say \in Shown /\ worker' = At("commit", worker.cmd, worker.say)
  <2>1. /\ worker'.pc \in {"fetch", "assemble", "validate", "commit"}
        /\ worker'.cmd = worker.cmd /\ worker'.say \in Status
        /\ worker'.pc # "fetch" => worker'.say \in Shown
        /\ worker' = At(worker'.pc, worker.cmd, worker'.say)
    BY <1>5, WorkerTyped DEF At, Status
  <2>2. Untouched(worker.cmd)'
    BY <1>1, <1>2, <1>3, <2>1 DEF Untouched, Published
  <2>3. AtWork'
    BY <1>1, <1>2, <2>1, <2>2 DEF AtWork, InCommand
  <2>4. worker'.pc \in Places
    BY <2>1 DEF Places, InCommand
  <2> QED BY <1>1, <2>1, <2>3, <2>4, MoveStep
<1>6. \A pc : Goto(pc) => worker' = At(pc, worker.cmd, worker.say)
  BY WorkerTyped DEF Goto, At
<1>7. CASE Enter(b)
  BY <1>4, <1>5, <1>6, <1>7 DEF Enter, Say
<1>8. CASE Fetch(status)
  BY <1>4, <1>5, <1>8 DEF Fetch, Say
<1>9. CASE Assemble(b)
  BY <1>1, <1>4, <1>5, <1>6, <1>9 DEF Assemble, Say
<1>10. CASE Validate(b)
  BY <1>1, <1>4, <1>5, <1>6, <1>10 DEF Validate, Say
<1> QED BY <1>7, <1>8, <1>9, <1>10

LEMMA CommitStep ==
  ASSUME Inside, Commit
  PROVE  Inside'
<1> USE DEF Inside
<1>1. /\ UNCHANGED <<commands, queue, slot, stopping>> /\ worker.pc = "commit"
      /\ Publish /\ worker' = At("tell", worker.cmd, worker.say)
  BY WorkerTyped DEF Commit, Goto, At
<1>2. /\ worker.cmd # 0 /\ Untouched(worker.cmd) /\ commands[worker.cmd].key # Cache
      /\ worker.say \in Shown
  BY <1>1 DEF AtWork, InCommand
<1>3. worker'.pc = "tell" /\ worker'.cmd = worker.cmd /\ worker'.say = worker.say
  BY <1>1 DEF At
<1>4. \A n : n = worker.cmd => Published(n)' = {version'}
  BY <1>1, <1>2, PublishStep DEF Untouched
<1>5. Published(worker.cmd)' = {version'}
  BY <1>3, <1>4 DEF Published
<1>6. AtWork'
  BY <1>1, <1>2, <1>3, <1>5 DEF AtWork, InCommand, Untouched, Shown
<1>7. "tell" \in Places
  BY DEF Places
<1> QED BY <1>1, <1>2, <1>6, <1>7, WorkerTyped, MoveStep
-------------------------------------------------------------------------------
(* Rows.                                                                   *)

LEMMA RowStep ==
  ASSUME Inside, NEW n \in Made, NEW row \in CommandRow,
         commands' = [commands EXCEPT ![n] = row],
         UNCHANGED <<queue, slot, stopping, version, author>>,
         worker' \in WorkerRow(MadeOrNone), worker'.cmd = worker.cmd,
         row.key = commands[n].key, commands[n].done => row.done,
         row.status = commands[n].status \/ n = worker.cmd,
         row.status = "none" => ~row.done, row.version <= version,
         row.status \in Shown => row.key # Cache,
         row.status # "none" =>
           Published(n) = IF row.status \in {"timeout", "unpublished"} THEN {} ELSE {row.version},
         AtWork'
  PROVE  Inside'
<1> USE DEF Inside
<1>1. /\ commands' \in Seq(CommandRow) /\ Len(commands') = Len(commands)
      /\ Made' = Made /\ MadeOrNone' = MadeOrNone
      /\ commands'[n] = row /\ \A m \in Made \ {n} : commands'[m] = commands[m]
  BY RowWritten
<1>2. \A m : Published(m)' = Published(m)
  BY DEF Published
<1>3. Typed'
  BY <1>1 DEF Typed
<1>4. Queued'
  <2>1. ASSUME NEW i \in 1..Len(queue), NEW m, m = queue[i], m # 0
        PROVE  m # worker.cmd /\ Untouched(m)'
    <3>1. m # worker.cmd /\ Untouched(m)
      BY <2>1 DEF Queued
    <3>2. m \in Made /\ Len(commands) \in Nat
      BY <2>1, Rows DEF Made, MadeOrNone
    <3>3. commands'[m].status = commands[m].status
      BY <1>1, <3>1, <3>2
    <3> QED BY <1>2, <3>1, <3>3 DEF Untouched
  <2> QED BY <2>1 DEF Queued
<1>5. Slots'
  <2>1. \A m \in Made : commands'[m].key = commands[m].key
    BY <1>1
  <2>2. \A k \in Key : slot[k] # 0 => slot[k] \in Made
    BY Rows DEF Typed, Made, MadeOrNone
  <2> QED BY <2>1, <2>2 DEF Slots
<1>6. Told'
  <2>1. ASSUME NEW m \in Made, m # n
        PROVE  commands'[m] = commands[m] /\ Published(m)' = Published(m)
    BY <1>1, <1>2, <2>1
  <2> QED BY <1>1, <1>2, <2>1 DEF Told
<1>7. Merged'
  <2>1. \A m \in Made : /\ commands'[m].key = commands[m].key
                        /\ commands[m].done => commands'[m].done
    BY <1>1
  <2> QED BY <1>1, <2>1 DEF Merged
<1> QED BY <1>3, <1>4, <1>5, <1>6, <1>7

LEMMA ExpireStep ==
  ASSUME Inside, NEW n \in 1..MaxCommands, Expire(n)
  PROVE  Inside' /\ Kept
<1> USE DEF Inside
<1> DEFINE row == [commands[n] EXCEPT !.expired = TRUE]
<1>1. n \in Made /\ commands[n] \in CommandRow /\ Len(commands) \in Nat
  BY Rows DEF Expire, Made
<1>2. commands' = [commands EXCEPT ![n] = row]
  BY <1>1, Rows DEF Expire
<1>3. UNCHANGED <<queue, slot, stopping, version, author, worker>>
  BY DEF Expire
<1>4. /\ row \in CommandRow /\ row.key = commands[n].key /\ row.status = commands[n].status
      /\ row.done = commands[n].done /\ row.version = commands[n].version
  BY <1>1 DEF CommandRow
<1>5. /\ Made' = Made /\ Len(commands') = Len(commands) /\ commands'[n] = row
      /\ \A m \in Made \ {n} : commands'[m] = commands[m]
  BY <1>1, <1>2, <1>4, RowWritten
<1>6. ASSUME NEW m \in Made
      PROVE  /\ commands'[m].key = commands[m].key /\ commands'[m].status = commands[m].status
             /\ commands'[m].done = commands[m].done
             /\ commands'[m].version = commands[m].version
  BY <1>4, <1>5
<1>7. AtWork'
  <2>1. UNCHANGED worker /\ (worker.cmd # 0 => worker.cmd \in Made)
    BY <1>3, WorkerTyped
  <2>2. Published(worker.cmd)' = Published(worker.cmd)
    BY <1>3 DEF Published
  <2>3. worker.cmd # 0 => Untouched(worker.cmd)' = Untouched(worker.cmd)
    BY <1>6, <2>1, <2>2 DEF Untouched
  <2> QED BY <1>3, <1>6, <2>1, <2>2, <2>3 DEF AtWork, InCommand
<1>8. worker' \in WorkerRow(MadeOrNone)
  BY <1>3 DEF Typed
<1>9. /\ row.status = "none" => ~row.done
      /\ row.version <= version /\ (row.status \in Shown => row.key # Cache)
      /\ row.status # "none" =>
           Published(n) = IF row.status \in {"timeout", "unpublished"} THEN {} ELSE {row.version}
  BY <1>1, <1>4 DEF Told
<1>10. Kept
  BY <1>1, <1>5, <1>6 DEF Kept
<1> HIDE DEF row
<1> QED BY <1>1, <1>2, <1>3, <1>4, <1>7, <1>8, <1>9, <1>10, RowStep

LEMMA TellStep ==
  ASSUME Inside, Tell
  PROVE  Inside' /\ Kept
<1> USE DEF Inside
<1> DEFINE n == worker.cmd
           row == [commands[n] EXCEPT !.status = worker.say,
                     !.version = IF worker.say \in {"ok", "partial", "published"}
                                 THEN version ELSE 0]
<1>1. /\ worker.pc = "tell" /\ n \in Made /\ commands[n] \in CommandRow
      /\ worker.say \in Status /\ Len(commands) \in Nat /\ version \in Nat
  BY WorkerTyped DEF Tell, AtWork, Typed
<1>2. commands' = [commands EXCEPT ![n] = row]
  BY <1>1, Rows DEF Tell
<1>3. /\ UNCHANGED <<queue, slot, stopping, version, author>>
      /\ worker' = At("done", n, worker.say)
  BY WorkerTyped DEF Tell, Goto, At
<1>4. /\ row \in CommandRow /\ row.key = commands[n].key /\ row.status = worker.say
      /\ row.done = commands[n].done
      /\ row.version = IF worker.say \in {"ok", "partial", "published"} THEN version ELSE 0
  BY <1>1 DEF CommandRow
<1>5. /\ worker.say # "none" /\ (worker.say \in Shown => commands[n].key # Cache)
      /\ Published(n) = IF worker.say \in {"timeout", "unpublished"} THEN {} ELSE {version}
      /\ ~commands[n].done
  BY <1>1 DEF AtWork, Told
<1>6. /\ Made' = Made /\ Len(commands') = Len(commands) /\ commands'[n] = row
      /\ \A m \in Made \ {n} : commands'[m] = commands[m]
  BY <1>1, <1>2, <1>4, RowWritten
<1>7. worker'.pc = "done" /\ worker'.cmd = n /\ n # 0 /\ commands'[n].status # "none"
  BY <1>1, <1>3, <1>4, <1>5, <1>6 DEF At, Made
<1>8. AtWork'
  BY <1>7 DEF AtWork, InCommand
<1>9. worker' \in WorkerRow(MadeOrNone)
  BY <1>1, <1>3, WorkerTyped DEF At, WorkerRow, Places
<1>10. row.version <= version
  BY <1>1, <1>4
<1>11. row.status # "none" =>
         Published(n) = IF row.status \in {"timeout", "unpublished"} THEN {} ELSE {row.version}
  BY <1>1, <1>4, <1>5 DEF Status, Shown
<1>12. Kept
  <2>1. commands'[n].key = commands[n].key
    BY <1>4, <1>6
  <2> HIDE DEF n, row
  <2> QED BY <1>1, <1>5, <1>6, <2>1 DEF Kept
<1> HIDE DEF n, row
<1>13. row.key = commands[n].key /\ (commands[n].done => row.done) /\ (row.status = "none" => ~row.done)
       /\ (row.status \in Shown => row.key # Cache)
  BY <1>4, <1>5
<1>14. n = worker.cmd
  BY DEF n
<1> QED BY <1>1, <1>2, <1>3, <1>4, <1>7, <1>8, <1>9, <1>10, <1>11, <1>12, <1>13, <1>14, RowStep

LEMMA SetDoneStep ==
  ASSUME Inside, SetDone
  PROVE  Inside' /\ Kept
<1> USE DEF Inside
<1> DEFINE n == worker.cmd
           row == [commands[n] EXCEPT !.done = TRUE]
<1>1. /\ worker.pc = "done" /\ n \in Made /\ commands[n] \in CommandRow
      /\ Len(commands) \in Nat
  BY WorkerTyped DEF SetDone, AtWork
<1>2. commands' = [commands EXCEPT ![n] = row]
  BY <1>1, Rows DEF SetDone
<1>3. /\ UNCHANGED <<queue, slot, stopping, version, author>>
      /\ worker' = At("release", n, worker.say)
  BY WorkerTyped DEF SetDone, Goto, At
<1>4. /\ row \in CommandRow /\ row.key = commands[n].key /\ row.status = commands[n].status
      /\ row.done /\ row.version = commands[n].version
  BY <1>1 DEF CommandRow
<1>5. commands[n].status # "none"
  BY <1>1 DEF AtWork
<1>6. /\ Made' = Made /\ Len(commands') = Len(commands) /\ commands'[n] = row
      /\ \A m \in Made \ {n} : commands'[m] = commands[m]
  BY <1>1, <1>2, <1>4, RowWritten
<1>7. worker'.pc = "release" /\ worker'.cmd = n /\ n # 0 /\ commands'[n].done
  BY <1>1, <1>3, <1>4, <1>6 DEF At, Made
<1>8. AtWork'
  BY <1>7 DEF AtWork, InCommand
<1>9. worker' \in WorkerRow(MadeOrNone)
  BY <1>1, <1>3, WorkerTyped DEF At, WorkerRow, Places
<1>10. /\ row.version <= version /\ (row.status \in Shown => row.key # Cache)
       /\ row.status # "none" =>
            Published(n) = IF row.status \in {"timeout", "unpublished"} THEN {} ELSE {row.version}
  BY <1>1, <1>4 DEF Told
<1>11. Kept
  <2>1. /\ commands'[n].key = commands[n].key /\ commands'[n].done
        /\ commands'[n].version = commands[n].version
    BY <1>4, <1>6
  <2> HIDE DEF n, row
  <2> QED BY <1>1, <1>6, <2>1 DEF Kept
<1> HIDE DEF n, row
<1>12. n = worker.cmd
  BY DEF n
<1> QED BY <1>1, <1>2, <1>3, <1>4, <1>5, <1>7, <1>8, <1>9, <1>10, <1>11, <1>12, RowStep
LEMMA ReleaseStep ==
  ASSUME Inside, Release
  PROVE  Inside'
<1> USE DEF Inside
<1>1. /\ worker.pc = "release" /\ worker.cmd \in Made /\ commands[worker.cmd].key \in Key
      /\ commands[worker.cmd].done
      /\ UNCHANGED <<commands, queue, stopping, version, author>>
      /\ worker' = At("idle", 0, "none")
  BY WorkerTyped DEF Release, AtWork, CommandRow, InCommand
<1> DEFINE k == commands[worker.cmd].key
           number == IF k = Cache \/ slot[k] = worker.cmd THEN 0 ELSE slot[k]
<1>2. slot' = [slot EXCEPT ![k] = number]
  BY DEF Release, Mine
<1>3. worker'.pc = "idle" /\ worker'.cmd = 0 /\ worker' \in WorkerRow(MadeOrNone)
  BY <1>1, WorkerTyped DEF At, WorkerRow, Places, Status, MadeOrNone
<1>4. /\ Made' = Made /\ MadeOrNone' = MadeOrNone
      /\ \A n : Published(n)' = Published(n) /\ Untouched(n)' = Untouched(n)
  BY <1>1 DEF Made, MadeOrNone, Published, Untouched
<1>5. number \in MadeOrNone
  BY <1>1, WorkerTyped DEF Typed, MadeOrNone
<1>6. Typed'
  BY <1>1, <1>2, <1>3, <1>4, <1>5 DEF Typed
<1>7. Queued'
  <2>1. ASSUME NEW i \in 1..Len(queue), NEW n, n = queue[i], n # 0
        PROVE  Untouched(n)'
    BY <1>4, <2>1 DEF Queued
  <2> QED BY <1>1, <1>3, <2>1 DEF Queued
<1>8. AtWork'
  BY <1>3 DEF AtWork, InCommand
<1>9. \A j \in Key : slot'[j] \in {0, slot[j]}
  BY <1>1, <1>2 DEF Typed
<1>10. Slots'
  BY <1>1, <1>9 DEF Slots
<1>11. Told'
  BY <1>1, <1>4 DEF Told
<1>12. Merged'
  <2>1. ASSUME NEW n \in Made, ~commands[n].done, commands[n].key # Cache
        PROVE  slot'[commands[n].key] = n
    <3>1. slot[commands[n].key] = n /\ commands[n].key \in Key /\ n # worker.cmd
      BY <1>1, <2>1, Rows DEF Merged, CommandRow
    <3> QED BY <1>1, <1>2, <2>1, <3>1 DEF Typed
  <2> QED BY <1>1, <1>4, <2>1 DEF Merged
<1> QED BY <1>6, <1>7, <1>8, <1>10, <1>11, <1>12

LEMMA StopStep ==
  ASSUME Inside, Stop
  PROVE  Inside'
<1> USE DEF Inside
<1>1. /\ UNCHANGED <<commands, slot, worker, version, author>> /\ stopping'
      /\ queue' = Append(queue, 0) /\ stopping' \in BOOLEAN
  BY DEF Stop
<1>2. /\ queue' \in Seq(MadeOrNone) /\ Len(queue') = Len(queue) + 1
      /\ \A i \in 1..Len(queue) : queue'[i] = queue[i]
      /\ queue'[Len(queue) + 1] = 0 /\ Len(queue) \in Nat
  BY <1>1, Rows, AppendProperties DEF Typed, MadeOrNone
<1>3. /\ Made' = Made /\ MadeOrNone' = MadeOrNone
      /\ \A n : Published(n)' = Published(n) /\ Untouched(n)' = Untouched(n)
  BY <1>1 DEF Made, MadeOrNone, Published, Untouched
<1>4. Typed'
  BY <1>1, <1>2, <1>3 DEF Typed
<1>5. Queued'
  <2>1. ASSUME NEW i \in 1..Len(queue'), NEW n, n = queue'[i], n # 0
        PROVE  n # worker.cmd /\ Untouched(n)'
    <3>1. i \in 1..Len(queue) /\ n = queue[i]
      BY <1>2, <2>1
    <3> QED BY <1>3, <2>1, <3>1 DEF Queued
  <2>2. \A i, j \in 1..Len(queue') : queue'[i] = queue'[j] /\ queue'[i] # 0 => i = j
    BY <1>2 DEF Queued
  <2> QED BY <1>1, <2>1, <2>2 DEF Queued
<1>6. AtWork' /\ Slots' /\ Merged'
  BY <1>1, <1>3 DEF AtWork, Slots, Merged, InCommand, Untouched, Published
<1>7. Told'
  BY <1>1, <1>3 DEF Told
<1> QED BY <1>4, <1>5, <1>6, <1>7

(* What is taken from the queue is untouched, and stands there no more.    *)
LEMMA LoopStep ==
  ASSUME Inside, Loop
  PROVE  Inside'
<1> USE DEF Inside
<1>1. /\ UNCHANGED <<commands, slot, stopping, version, author>>
      /\ worker.pc = "idle" /\ worker.cmd = 0
  BY DEF Loop, AtWork
<1>2. /\ Made' = Made /\ MadeOrNone' = MadeOrNone
      /\ \A n : Published(n)' = Published(n) /\ Untouched(n)' = Untouched(n)
  BY <1>1 DEF Made, MadeOrNone, Published, Untouched
<1>3. Slots' /\ Told' /\ Merged'
  BY <1>1, <1>2 DEF Slots, Told, Merged
<1>4. CASE UNCHANGED queue /\ worker' = At("cycle", 0, "none")
  <2>1. worker'.pc = "cycle" /\ worker'.cmd = 0 /\ worker' \in WorkerRow(MadeOrNone)
    BY <1>1, <1>4, WorkerTyped DEF At, WorkerRow, Places, Status, MadeOrNone
  <2>2. Typed' /\ AtWork'
    BY <1>1, <1>2, <1>4, <2>1 DEF Typed, AtWork, InCommand
  <2>3. Queued'
    <3>1. ASSUME NEW i \in 1..Len(queue), NEW n, n = queue[i], n # 0
          PROVE  Untouched(n)'
      BY <1>2, <3>1 DEF Queued
    <3> QED BY <1>1, <1>4, <2>1, <3>1 DEF Queued
  <2> QED BY <1>3, <2>2, <2>3
<1>5. CASE queue # <<>> /\ queue' = Tail(queue) /\ UNCHANGED ticks
  <2> DEFINE n == Head(queue)
  <2>1. /\ n \in MadeOrNone /\ queue' \in Seq(MadeOrNone) /\ Len(queue') = Len(queue) - 1
        /\ \A i \in 1..Len(queue') : queue'[i] = queue[i + 1]
        /\ Len(queue) \in Nat \ {0} /\ n = queue[1]
    BY <1>5, Rows, HeadTailProperties, EmptySeq DEF Typed
  <2>2. /\ n = 0 => stopping
        /\ n # 0 => n \in Made /\ Untouched(n) /\ commands[n] \in CommandRow
    BY <2>1, Rows DEF Queued, Made, MadeOrNone
  <2>3. /\ \A i \in 1..Len(queue') : queue'[i] = n => n = 0
        /\ \A i, j \in 1..Len(queue') : queue'[i] = queue'[j] /\ queue'[i] # 0 => i = j
    <3>1. \A i \in 1..Len(queue') : i + 1 \in 1..Len(queue) /\ i + 1 # 1
      BY <2>1
    <3>2. \A i, j \in 1..Len(queue') : i + 1 = j + 1 => i = j
      BY <2>1
    <3>3. 1 \in 1..Len(queue)
      BY <2>1
    <3> HIDE DEF n
    <3> QED BY <2>1, <3>1, <3>2, <3>3 DEF Queued
  <2>4. worker' = IF stopping THEN At("dead", 0, "none")
                  ELSE IF commands[n].key = Cache THEN At("cycle", n, "none")
                  ELSE At("entry", n, "none")
    BY <1>5 DEF Loop
  <2>5. /\ worker' \in WorkerRow(MadeOrNone) /\ worker'.cmd \in {0, n}
        /\ \/ worker'.pc = "dead" /\ worker'.cmd = 0
           \/ worker'.pc = "cycle" /\ worker'.cmd = n
           \/ worker'.pc = "entry" /\ worker'.cmd = n /\ n # 0 /\ commands[n].key # Cache
    <3>1. 0 \in MadeOrNone
      BY <1>1, WorkerTyped
    <3>2. ~stopping => n # 0
      BY <2>2
    <3> HIDE DEF n
    <3> QED BY <2>1, <2>4, <3>1, <3>2 DEF At, WorkerRow, Places, InCommand, Status
  <2>6. Typed'
    BY <1>1, <1>2, <2>1, <2>5 DEF Typed
  <2> HIDE DEF n
  <2>7. worker'.cmd # 0 => Untouched(worker.cmd)'
    BY <1>1, <2>2, <2>5 DEF Untouched, Published
  <2>8. AtWork'
    BY <1>1, <2>5, <2>7 DEF AtWork, InCommand
  <2>9. Queued'
    <3>1. ASSUME NEW i \in 1..Len(queue'), NEW m, m = queue'[i]
          PROVE  IF m = 0 THEN stopping ELSE m # worker'.cmd /\ Untouched(m)'
      <4>1. i + 1 \in 1..Len(queue) /\ m = queue[i + 1]
        BY <2>1, <3>1
      <4>2. IF m = 0 THEN stopping ELSE Untouched(m)
        BY <4>1 DEF Queued
      <4> QED BY <1>2, <2>3, <2>5, <3>1, <4>2
    <3> QED BY <1>1, <2>3, <3>1 DEF Queued
  <2> QED BY <1>3, <2>6, <2>8, <2>9
<1> QED BY <1>4, <1>5 DEF Loop
-------------------------------------------------------------------------------
(* The clients.                                                            *)

LEMMA InsideAlone ==
  ASSUME Inside, UNCHANGED <<commands, queue, slot, worker, stopping, version, author>>
  PROVE  Inside' /\ Kept
<1>1. Inside'
  BY DEF Inside, Typed, Queued, AtWork, Slots, Told, Merged, Made, MadeOrNone, Published, Untouched
<1> QED BY <1>1, Rows DEF Kept, Inside, Made

LEMMA NumberMade ==
  ASSUME Inside, NEW n \in MadeOrNone, n # 0
  PROVE  n \in Made /\ commands[n] \in CommandRow
<1>1. n \in Made
  BY Rows DEF Inside, Made, MadeOrNone
<1> QED BY <1>1, Rows DEF Inside

(* One client's request moves on.                                          *)
LEMMA ClientStep ==
  ASSUME Inside, Waiting, Kept, NEW c \in Client, NEW row,
         client' = [client EXCEPT ![c] = row],
         row \in ClientRow(MadeOrNone'),
         row.pc # "idle" => row.cmd # 0,
         row.pc = "cache" => commands'[row.cmd].key = Cache,
         row.pc = "symbol read" =>
           row.late \/ (commands'[row.cmd].done /\ row.seen >= commands'[row.cmd].version),
         row.pc = "idle" /\ row.answer \in Shown =>
           /\ row.cmd # 0
           /\ row.late \/ (commands'[row.cmd].done /\ row.seen >= commands'[row.cmd].version)
  PROVE  Waiting'
<1>1. MadeOrNone \subseteq MadeOrNone'
  BY NumbersGrow DEF Inside
<1>2. client \in [Client -> ClientRow(MadeOrNone')]
  BY <1>1 DEF Waiting, ClientRow
<1>3. client' \in [Client -> ClientRow(MadeOrNone')]
  BY <1>2
<1>4. client'[c] = row /\ \A d \in Client \ {c} : client'[d] = client[d]
  BY <1>2
<1>5. ASSUME NEW d \in Client \ {c}
      PROVE  /\ client[d].pc # "idle" => client[d].cmd # 0
             /\ client[d].pc = "cache" => commands'[client[d].cmd].key = Cache
             /\ client[d].pc = "symbol read" =>
                  client[d].late \/ /\ commands'[client[d].cmd].done
                                    /\ client[d].seen >= commands'[client[d].cmd].version
             /\ client[d].pc = "idle" /\ client[d].answer \in Shown =>
                  /\ client[d].cmd # 0
                  /\ client[d].late \/ /\ commands'[client[d].cmd].done
                                       /\ client[d].seen >= commands'[client[d].cmd].version
  <2>1. client[d] \in ClientRow(MadeOrNone)
    BY DEF Waiting
  <2>2. client[d].cmd \in MadeOrNone /\ client[d].seen \in Nat
    BY <2>1 DEF ClientRow
  <2>3. client[d].cmd # 0 => client[d].cmd \in Made
    BY <2>2, NumberMade
  <2> QED BY <2>3 DEF Kept, Waiting, Has
<1> QED BY <1>3, <1>4, <1>5 DEF Waiting, Has

LEMMA IdleTyped == IdleClient \in ClientRow(Nat)
BY DEF IdleClient, ClientRow, Status

LEMMA SubmitClientStep ==
  ASSUME Inv, NEW c \in Client, NEW k \in Key, NEW number \in 1..MaxCommands, NEW row,
         Submit(k, number), UNCHANGED <<worker, stopping, version, author>>,
         client' = [client EXCEPT ![c] = row],
         row \in ClientRow(Nat), row.cmd = number, row.answer = "none",
         row.pc = "symbol" \/ (row.pc = "cache" /\ k = Cache)
  PROVE  Inv'
<1> USE DEF Inv
<1>1. Inside' /\ Kept /\ number \in Made' /\ commands'[number].key = k
  BY SubmitStep
<1>2. number \in MadeOrNone' /\ number # 0
  BY <1>1 DEF Made, MadeOrNone
<1>3. row \in ClientRow(MadeOrNone')
  BY <1>2 DEF ClientRow
<1> QED BY <1>1, <1>2, <1>3, ClientStep DEF Shown

LEMMA RequestStep ==
  ASSUME Inv, NEW c \in Client, Press(c) \/ \E s \in Symbol : Click(c, s)
  PROVE  Inv'
<1>1. CASE Press(c)
  <2>1. PICK n \in 1..MaxCommands :
          /\ Submit(Cache, n)
          /\ client' = [client EXCEPT ![c] = [IdleClient EXCEPT !.pc = "cache", !.cmd = n]]
    BY <1>1 DEF Press
  <2> DEFINE row == [IdleClient EXCEPT !.pc = "cache", !.cmd = n]
  <2>2. row \in ClientRow(Nat) /\ row.cmd = n /\ row.pc = "cache"
    <3>1. IdleClient \in ClientRow(Nat) /\ n \in Nat
      BY IdleTyped
    <3>2. row \in ClientRow(Nat)
      BY <3>1 DEF ClientRow
    <3> QED BY <3>1, <3>2 DEF ClientRow
  <2>3. row.answer = "none"
    BY DEF IdleClient
  <2>4. Cache \in Key /\ UNCHANGED <<worker, stopping, version, author>>
    BY <1>1 DEF Press, Key
  <2>5. client' = [client EXCEPT ![c] = row]
    BY <2>1
  <2> HIDE DEF row
  <2> QED BY <2>1, <2>2, <2>3, <2>4, <2>5, SubmitClientStep
<1>2. ASSUME NEW s \in Symbol, Click(c, s)
      PROVE  Inv'
  <2>1. PICK n \in 1..MaxCommands :
          /\ Submit(s, n)
          /\ client' = [client EXCEPT ![c] =
               [IdleClient EXCEPT !.pc = "symbol", !.cmd = n, !.seen = version]]
    BY <1>2 DEF Click
  <2> DEFINE row == [IdleClient EXCEPT !.pc = "symbol", !.cmd = n, !.seen = version]
  <2>2. s \in Key /\ UNCHANGED <<worker, stopping, version, author>> /\ version \in Nat
    BY <1>2 DEF Click, Key, Inv, Inside, Typed
  <2>3. row \in ClientRow(Nat) /\ row.cmd = n /\ row.pc = "symbol"
    <3>1. IdleClient \in ClientRow(Nat) /\ n \in Nat
      BY IdleTyped
    <3>2. row \in ClientRow(Nat)
      BY <2>2, <3>1 DEF ClientRow
    <3> QED BY <3>1, <3>2 DEF ClientRow
  <2>4. row.answer = "none"
    BY DEF IdleClient
  <2>5. client' = [client EXCEPT ![c] = row]
    BY <2>1
  <2> HIDE DEF row
  <2> QED BY <2>1, <2>2, <2>3, <2>4, <2>5, SubmitClientStep
<1> QED BY <1>1, <1>2

LEMMA AnswerStep ==
  ASSUME Inv, NEW c \in Client, Finish(c)
  PROVE  Inv'
<1> USE DEF Inv
<1>1. UNCHANGED <<commands, queue, slot, worker, stopping, version, author>>
  BY DEF Finish, ReadState, AnswerClick, AnswerPress
<1>2. Inside' /\ Kept /\ MadeOrNone' = MadeOrNone
  BY <1>1, InsideAlone DEF MadeOrNone
<1>3. client[c] \in ClientRow(MadeOrNone)
  BY DEF Waiting
<1>4. /\ client[c].cmd \in MadeOrNone /\ client[c].seen \in Nat /\ client[c].late \in BOOLEAN
      /\ Len(commands) \in Nat /\ version \in Nat
  BY <1>3, Rows DEF ClientRow, Inside, Typed
<1>5. client[c].pc # "idle" => /\ client[c].cmd # 0 /\ client[c].cmd \in Made
                               /\ commands[client[c].cmd] \in CommandRow
  BY <1>4, NumberMade DEF Waiting
<1>0. IdleClient \in ClientRow(MadeOrNone)
  BY <1>4 DEF IdleClient, ClientRow, Status, MadeOrNone
<1>6. CASE ReadState(c)
  <2> DEFINE row == [client[c] EXCEPT !.pc = "symbol read", !.seen = version,
                                      !.late = ~commands[client[c].cmd].done]
  <2>1. client' = [client EXCEPT ![c] = row]
    BY <1>6 DEF ReadState, Waiting
  <2>2. client[c].pc = "symbol" /\ commands[client[c].cmd].done \in BOOLEAN
    BY <1>5, <1>6 DEF ReadState, CommandRow
  <2>3. /\ row \in ClientRow(MadeOrNone) /\ row.pc = "symbol read" /\ row.cmd = client[c].cmd
        /\ row.seen = version /\ row.late = ~commands[client[c].cmd].done
    BY <1>3, <1>4, <2>2 DEF ClientRow
  <2>4. commands[client[c].cmd].version <= version
    BY <1>5, <2>2 DEF Inside, Told
  <2>5. commands[client[c].cmd].version \in Nat
    BY <1>5, <2>2 DEF CommandRow
  <2> HIDE DEF row
  <2>6. row.late \/ (commands'[row.cmd].done /\ row.seen >= commands'[row.cmd].version)
    BY <1>1, <1>4, <2>2, <2>3, <2>4, <2>5
  <2> QED BY <1>2, <1>5, <2>1, <2>2, <2>3, <2>6, ClientStep
<1>7. CASE AnswerClick(c)
  <2> DEFINE status == commands[client[c].cmd].status
             told == [client[c] EXCEPT !.pc = "idle", !.answer = status]
             other == [IdleClient EXCEPT !.answer = "timeout"]
  <2>1. client[c].pc = "symbol read" /\ status \in Status
    BY <1>5, <1>7 DEF AnswerClick, CommandRow
  <2>2. client[c].late \/ Has(c)
    BY <2>1 DEF Waiting
  <2>3. CASE status \in Shown
    <3>1. client' = [client EXCEPT ![c] = told]
      BY <1>7, <2>3 DEF AnswerClick, Shown
    <3>2. /\ told \in ClientRow(MadeOrNone) /\ told.pc = "idle" /\ told.cmd = client[c].cmd
          /\ told.seen = client[c].seen /\ told.late = client[c].late
      BY <1>3, <2>1 DEF ClientRow
    <3> HIDE DEF told
    <3>3. told.late \/ (commands'[told.cmd].done /\ told.seen >= commands'[told.cmd].version)
      <4>1. CASE client[c].late
        BY <3>2, <4>1
      <4>2. CASE Has(c)
        BY <1>1, <3>2, <4>2 DEF Has
      <4> QED BY <2>2, <4>1, <4>2
    <3> QED BY <1>2, <1>5, <2>1, <3>1, <3>2, <3>3, ClientStep
  <2>4. CASE status \notin Shown
    <3>1. client' = [client EXCEPT ![c] = other]
      BY <1>7, <2>4 DEF AnswerClick, Shown
    <3>2. other \in ClientRow(MadeOrNone) /\ other.pc = "idle" /\ other.answer \notin Shown
      BY <1>0 DEF ClientRow, IdleClient, Status, Shown
    <3> HIDE DEF other
    <3> QED BY <1>2, <3>1, <3>2, ClientStep
  <2> QED BY <2>3, <2>4
<1>8. ASSUME NEW waited \in BOOLEAN, AnswerPress(c, waited)
      PROVE  Waiting'
  <2> DEFINE answer == IF waited THEN commands[client[c].cmd].status ELSE "queued"
             row == [IdleClient EXCEPT !.answer = answer]
  <2>1. client[c].pc = "cache" /\ client' = [client EXCEPT ![c] = row]
    BY <1>8 DEF AnswerPress
  <2>2. commands[client[c].cmd].status \notin Shown /\ commands[client[c].cmd].status \in Status
    BY <1>5, <2>1 DEF Inside, Told, Waiting, CommandRow
  <2>3. answer \in (Status \cup {"queued"}) \ Shown
    BY <2>2 DEF Shown
  <2> HIDE DEF answer
  <2>4. row \in ClientRow(MadeOrNone) /\ row.pc = "idle" /\ row.answer \notin Shown
    BY <1>0, <2>3 DEF ClientRow, IdleClient
  <2> HIDE DEF row
  <2> QED BY <1>2, <2>1, <2>4, ClientStep
<1> QED BY <1>2, <1>6, <1>7, <1>8 DEF Finish

LEMMA StepInv == Inv /\ [Next]_vars => Inv'
<1> SUFFICES ASSUME Inv, [Next]_vars PROVE Inv'
  OBVIOUS
<1> USE DEF Inv
<1>1. CASE UNCHANGED <<commands, client>> /\ Inside'
  <2>1. Kept
    BY <1>1, Rows DEF Kept, Inside
  <2> QED BY <1>1, <2>1, ClientsKept DEF Inside
<1>2. CASE UNCHANGED client /\ Inside' /\ Kept
  BY <1>2, ClientsKept DEF Inside
<1>3. CASE Work
  <2>1. CASE Loop
    BY <1>1, <2>1, LoopStep DEF Loop
  <2>2. ASSUME NEW b \in BOOLEAN, NEW status \in Shown,
               Cycle(b) \/ Enter(b) \/ Assemble(b) \/ Validate(b) \/ Fetch(status)
        PROVE  Inv'
    BY <1>1, <2>2, CycleStep, GateStep DEF Cycle, Enter, Assemble, Validate, Fetch
  <2>3. CASE Commit \/ Release
    BY <1>1, <2>3, CommitStep, ReleaseStep DEF Commit, Release
  <2>4. CASE Tell \/ SetDone
    BY <1>2, <2>4, TellStep, SetDoneStep DEF Tell, SetDone
  <2> QED BY <1>3, <2>1, <2>2, <2>3, <2>4 DEF Work, Shown
<1>4. CASE \E c \in Client : Finish(c)
  BY <1>4, AnswerStep
<1>5. CASE \E c \in Client : Press(c) \/ \E s \in Symbol : Click(c, s)
  BY <1>5, RequestStep
<1>6. CASE Hook
  BY <1>2, <1>6, SubmitStep DEF Hook, Key
<1>7. CASE \E n \in 1..MaxCommands : Expire(n)
  BY <1>2, <1>7, ExpireStep DEF Expire
<1>8. CASE Stop
  BY <1>1, <1>8, StopStep DEF Stop
<1>9. CASE UNCHANGED vars
  BY <1>1, <1>9, InsideAlone DEF vars
<1> QED BY <1>3, <1>4, <1>5, <1>6, <1>7, <1>8, <1>9 DEF Next

THEOREM WorkerInvariant == Spec => []Inv
BY InitInv, StepInv, PTL DEF Spec
-------------------------------------------------------------------------------
(* What it says.                                                           *)

\* Whatever is unfinished of a symbol is in the symbol's slot, so a click joins it
\* (submit_refresh, _release_inflight).
THEOREM ClicksShareACommand == Spec => []ClicksMerge
<1>1. Inv => TypeOK
  <2> SUFFICES ASSUME Inv PROVE TypeOK
    OBVIOUS
  <2>1. \A n \in DOMAIN commands :
          /\ commands[n].key \in Key
          /\ \/ commands[n].status \in {"ok", "partial", "timeout", "published", "unpublished"}
             \/ commands[n].status = "none" /\ ~commands[n].done
    BY Rows DEF Inv, Inside, Told, CommandRow, Status, Shown
  <2>2. queue \in Seq(Number) /\ slot \in [Key -> Number]
    <3>1. MadeOrNone \subseteq Number
      BY Rows DEF Inv, Inside, Typed, MadeOrNone, Number
    <3> QED BY <3>1, SeqMonotonic DEF Inv, Inside, Typed
  <2>3. /\ worker.pc \in {"idle", "cycle", "entry", "fetch", "assemble", "validate", "commit",
                           "tell", "done", "release", "dead"}
        /\ worker.cmd = 0 => worker.pc \in {"idle", "cycle", "dead"}
    BY WorkerTyped DEF Inv, Inside, AtWork, Places, InCommand
  <2>4. \A c \in Client : client[c].pc \in {"idle", "symbol", "symbol read", "cache"}
    BY DEF Inv, Waiting, ClientRow
  <2>5. Len(commands) <= MaxCommands /\ Len(author) = version
    BY DEF Inv, Inside, Typed
  <2> QED BY <2>1, <2>2, <2>3, <2>4, <2>5 DEF TypeOK
<1>2. Inv => ClicksMerge
  BY <1>1, Rows DEF Inv, Inside, Merged, ClicksMerge, Unfinished, Key
<1> QED BY <1>2, WorkerInvariant, PTL

\* A command says timeout only if nothing of it was published, and the version it
\* published otherwise (_handle_refresh_command).
THEOREM CommandsTellTheTruth == Spec => []SaysWhatHappened
<1>1. Inv => SaysWhatHappened
  BY Rows DEF Inv, Inside, Told, SaysWhatHappened, Published
<1> QED BY <1>1, WorkerInvariant, PTL

\* A click answered ok or partial in time shows what its command published, or
\* something newer (get_symbol_snapshot).
THEOREM ClicksShowTheirData == Spec => []OkIsShown
<1>1. Inv => OkIsShown
  BY DEF Inv, Waiting, Has, OkIsShown, Shown
<1> QED BY <1>1, WorkerInvariant, PTL
-----------------------------------------------------------------------------
(* What SnapshotSources assumes of the settings.                           *)

Held == [until : Maybe \cup Nat, read : Maybe]
Dates == [Panel -> Maybe]
Accounts == [Panel -> Entry]
Instants == [Row -> Maybe]

SourcesTyped ==
  /\ now \in 0..MaxTime /\ woken \in 0..now
  /\ source \in [Source -> Entry]
  /\ transport \in [Transported -> Held]
  /\ checked \in Dates
  /\ history \in Instants
  /\ limit \in [Row -> Entry] /\ limitHeld \in [Row -> Held]
  /\ cursor \in 0..(Symbols - 1)
  /\ inputs \in [account : Accounts, limit : Instants, reference : BOOLEAN]
  /\ shown \in [account : Accounts, dated : Dates, limit : Instants, history : Instants]
  /\ clicked \subseteq Row
  /\ lost \in BOOLEAN
  /\ missed \subseteq Row
  /\ count \in [trouble : 0..MaxTrouble, asked : 0..MaxAsked]

(* What the slow transport holds, it holds for one lifetime.               *)
Lasting(h) == h = NotHeld \/ h.until = h.read + SlowTtl

(* Read when it was stamped, or less than a lifetime before.               *)
Young(e) == e.read >= e.at \/ e.at - e.read < SlowTtl

(* What the transport holds of a source was put there with the source, so  *)
(* it is gone when the source is due.                                      *)
Paired(s) ==
  \/ transport[s] = NotHeld
  \/ Present(s) /\ transport[s].until = source[s].at + Lifetime(s)

(* A source is as old as it says, unless a click shares its read or its    *)
(* reads may end half way: these are less than a lifetime older.           *)
Aged ==
  /\ \A s \in Source : source[s].at <= now
  /\ \A s \in Source \ Shared : source[s].read = source[s].at
  /\ \A s \in Private : Paired(s)
  /\ clicked = {} => source["info"].read = source["info"].at /\ Paired("info")
  /\ \A s \in Shared : Lasting(transport[s]) /\ Young(source[s])
  /\ \A s \in Row : Lasting(limitHeld[s]) /\ Young(limit[s])
  /\ \A s \in Row \ clicked :
       /\ limit[s].read = limit[s].at
       /\ \/ limitHeld[s] = NotHeld
          \/ limit[s].at # Never /\ limitHeld[s].until = limit[s].at + SlowTtl

(* The dates of the panels are those of their entries; what was published  *)
(* last is what the entries were then.                                     *)
Dated ==
  /\ \A p \in Panel : checked[p] = source[p].at
  /\ ~Present("cross") => \A p \in Panel : ~Present(p)
  /\ \A p \in Panel : inputs.account[p].at <= checked[p]
  /\ ~lost => \A p \in Panel : inputs.account[p].at = checked[p]
  /\ \A p \in Panel : shown.account[p].at <= shown.dated[p]
  /\ AccountDated

Started == Present("premium") /\ Present("group_b")

(* How far the sweep is from a symbol.                                     *)
Turn(s) == IF s - 1 >= cursor THEN s - 1 - cursor ELSE s - 1 - cursor + Symbols

(* The delays still to come.                                               *)
Room == (MaxTrouble - count.trouble) + (MaxAsked - count.asked) * Cadence

(* A history lives until the sweep is there, at one batch in a cadence and *)
(* with every delay that may still come.                                   *)
Paced(s) == Batch * (history[s] + HistoryTtl - woken - Room) > Cadence * Turn(s)

Swept ==
  /\ now <= woken + Cadence
  /\ ~Started => shown = Unpublished /\ \A s \in Row : history[s] = Never
  /\ \A s \in Row : shown.history[s] # Never => history[s] # Never
  /\ \A s \in Row \ missed : history[s] # Never => Paced(s)

SourcesInv == SourcesTyped /\ Aged /\ Dated /\ Swept
-----------------------------------------------------------------------------
LEMMA Numbers ==
  /\ MaxTime \in Nat /\ MaxTrouble \in Nat /\ MaxAsked \in Nat /\ Cadence \in Nat
  /\ CacheTtl \in Nat /\ FastTtl \in Nat /\ GroupB \in Nat /\ SlowTtl \in Nat
  /\ HistoryTtl \in Nat /\ Ahead \in Nat
  /\ Symbols \in Nat \ {0} /\ Batch \in 1..Symbols
  /\ SlowTtl <= GroupB /\ FastTtl <= CacheTtl /\ SlowTtl <= HistoryTtl
BY TtlAssumption, LifetimeAssumption, AheadAssumption

LEMMA Names ==
  /\ Panel \subseteq Source /\ Transported \subseteq Source
  /\ Private \subseteq Panel /\ Private \subseteq Transported
  /\ Private \subseteq {"unified", "um", "spot", "pm"}
  /\ "premium" \in Source /\ "group_b" \in Source
  /\ Shared \subseteq Transported /\ Reference \subseteq Shared
  /\ "info" \in Shared \ Reference /\ "cross" \in Reference
  /\ Shared \cap Private = {} /\ Shared \cap (Panel \cup {"restricted"}) = {}
  /\ Transported = Private \cup Shared
  /\ "hyperliquid" \notin Panel \cup Transported
  /\ "premium" \notin Transported /\ "group_b" \notin Transported
BY TtlAssumption DEF Panel, Transported, Source, Shared, Reference

(* A step around the circle of the rows.                                   *)
LEMMA Around ==
  ASSUME NEW n \in Nat \ {0}, NEW x \in Nat, x < 2 * n
  PROVE  x % n = IF x < n THEN x ELSE x - n
<1>1. CASE x < n
  BY <1>1
<1>2. CASE ~(x < n)
  BY <1>2
<1> QED BY <1>1, <1>2

LEMMA BatchedIsNear ==
  ASSUME cursor \in 0..(Symbols - 1), NEW s \in Row
  PROVE  /\ NextCursor = IF cursor + Batch < Symbols THEN cursor + Batch ELSE cursor + Batch - Symbols
         /\ Turn(s) \in 0..(Symbols - 1)
         /\ s \in Batched <=> Turn(s) < Batch
<1> USE Numbers DEF Turn, Row
<1>1. \A i \in 0..Batch :
        (cursor + i) % Symbols = IF cursor + i < Symbols THEN cursor + i ELSE cursor + i - Symbols
  <2> TAKE i \in 0..Batch
  <2> DEFINE x == cursor + i
  <2>1. x \in Nat /\ x < 2 * Symbols
    OBVIOUS
  <2> HIDE DEF x
  <2>2. x % Symbols = IF x < Symbols THEN x ELSE x - Symbols
    BY <2>1, Around
  <2> QED BY <2>2 DEF x
<1>3. NextCursor = IF cursor + Batch < Symbols THEN cursor + Batch ELSE cursor + Batch - Symbols
  BY <1>1 DEF NextCursor
<1>2. Turn(s) \in 0..(Symbols - 1)
  OBVIOUS
<1>4. ASSUME s \in Batched PROVE Turn(s) < Batch
  <2>1. PICK i \in 0..(Batch - 1) : s = ((cursor + i) % Symbols) + 1
    BY <1>4 DEF Batched
  <2>2. Turn(s) = i
    BY <2>1, <1>1
  <2> QED BY <2>2
<1>5. ASSUME Turn(s) < Batch PROVE s \in Batched
  <2>1. Turn(s) \in 0..(Batch - 1) /\ s = ((cursor + Turn(s)) % Symbols) + 1
    BY <1>5, <1>2, <1>1
  <2> QED BY <2>1 DEF Batched
<1> QED BY <1>2, <1>3, <1>4, <1>5
-----------------------------------------------------------------------------
(* What a source that is due asks of the transport, the transport has      *)
(* forgotten if it was put there with the source.                          *)
LEMMA DueIsForgotten ==
  ASSUME SourcesTyped, NEW end \in now..(now + 1),
         NEW s \in Transported, Due(s, Ttl(s)), Paired(s)
  PROVE  ~Hit(transport[s], end)
<1> USE Numbers, Names
<1>1. s \in Source /\ source[s] \in Entry /\ now \in Nat
  BY DEF SourcesTyped
<1>2. CASE transport[s] = NotHeld
  BY <1>1, <1>2 DEF Hit, NotHeld, Never
<1>3. CASE Present(s) /\ transport[s].until = source[s].at + Lifetime(s)
  <2>1. now - source[s].at >= Ttl(s)
    BY <1>3 DEF Due
  <2>2. Lifetime(s) \in Nat /\ Ttl(s) \in Nat /\ Lifetime(s) <= Ttl(s)
    <3>1. CASE s \in Private
      <4>1. s \notin {"group_b", "restricted", "info"} \cup Reference
        BY <3>1
      <4>2. Ttl(s) = CacheTtl /\ Lifetime(s) = FastTtl
        BY <3>1, <4>1 DEF Ttl, Lifetime
      <4> QED BY <4>2
    <3>2. CASE s \in Shared
      <4>1. s \notin Private /\ s \in {"info"} \cup Reference
        BY <3>2 DEF Shared
      <4>2. Ttl(s) = GroupB /\ Lifetime(s) = SlowTtl
        BY <4>1 DEF Ttl, Lifetime
      <4> QED BY <4>2
    <3> QED BY <3>1, <3>2
  <2>3. source[s].at \in Int
    BY <1>1 DEF Entry, Maybe, Instant, Never
  <2> HIDE DEF Lifetime, Ttl
  <2> QED BY <1>1, <1>3, <2>1, <2>2, <2>3 DEF Hit
<1> QED BY <1>2, <1>3 DEF Paired

(* What a cycle has from the transport, reads at the exchange, and stamps. *)
FromBelow(force, end, down) ==
  {s \in Attempts(force, end, down) : Served(s, force, end)}
Fetched(force, end, down) ==
  Answered(Attempts(force, end, down) \ FromBelow(force, end, down), down)
Got(force, end, down) ==
  {s \in FromBelow(force, end, down) \cup Fetched(force, end, down) :
     s \in Reference => Reference \subseteq FromBelow(force, end, down) \cup Fetched(force, end, down)}

(* A source that no click touches is read at the exchange.                 *)
LEMMA TriedIsNotServed ==
  ASSUME SourcesTyped, Aged, NEW force \in BOOLEAN, NEW end \in now..(now + 1),
         NEW down, NEW s \in Attempts(force, end, down),
         s \in Source \ Shared \/ (s = "info" /\ clicked = {})
  PROVE  s \notin FromBelow(force, end, down)
<1> SUFFICES ASSUME Served(s, force, end) PROVE FALSE
  BY DEF FromBelow
<1>1. s \in Transported /\ Due(s, Ttl(s)) /\ Hit(transport[s], end)
  BY DEF Attempts, Served
<1>2. Paired(s)
  BY <1>1, Names DEF Aged
<1> QED BY <1>1, <1>2, DueIsForgotten

(* A panel is tried only when the private channel answers.                 *)
LEMMA PanelsNeedTheChannel ==
  ASSUME NEW force \in BOOLEAN, NEW end \in now..(now + 1),
         NEW down, NEW p \in Panel, p \in Attempts(force, end, down)
  PROVE  Present("cross") \/ "cross" \in Got(force, end, down)
<1> USE Names
<1>1. SUFFICES ASSUME ~Present("cross") PROVE "cross" \in Got(force, end, down)
  OBVIOUS
<1> DEFINE below == FromBelow(force, end, down)
           fetched == Fetched(force, end, down)
<1>2. \A x \in Reference :
        /\ Forced(x, force) \/ Due(x, Ttl(x))
        /\ Hit(transport[x], end) \/ x \notin down
  BY <1>1 DEF Attempts
<1>3. \A x \in Reference :
        /\ x \in Source /\ x \in Transported /\ x \notin Panel \cup {"info"} /\ ~Forced(x, force)
  BY DEF Forced
<1>4. \A x \in Reference : x \in Attempts(force, end, down)
  BY <1>2, <1>3 DEF Attempts
<1>5. \A x \in Reference : x \in below \/ x \notin down
  BY <1>2, <1>3, <1>4 DEF FromBelow, Served
<1>6. \A x \in Reference : x \in below \/ x \in fetched
  <2> DEFINE missing == Attempts(force, end, down) \ below
  <2>1. \A x \in Reference : Earlier[x] \subseteq Reference
    BY DEF Earlier, Reference
  <2>2. \A x \in Reference : Earlier[x] \cap missing \cap down = {}
    BY <1>5, <2>1
  <2>3. fetched = Answered(missing, down)
    BY DEF Fetched
  <2> HIDE DEF missing, below, fetched
  <2>4. \A x \in Reference : x \in missing /\ x \notin down => x \in fetched
    BY <2>2, <2>3 DEF Answered
  <2> QED BY <1>4, <1>5, <2>4 DEF missing
<1> HIDE DEF below, fetched
<1>7. Reference \subseteq below \cup fetched
  BY <1>6
<1> QED BY <1>7 DEF Got, below, fetched

LEMMA Refreshed ==
  ASSUME NEW force \in BOOLEAN, NEW end \in now..(now + 1),
         NEW down, RefreshSources(force, end, down)
  PROVE  LET tried == Attempts(force, end, down)
             below == FromBelow(force, end, down)
             fetched == Fetched(force, end, down)
             got == Got(force, end, down)
         IN
         /\ source' = [s \in Source |->
              IF s \in got THEN [at |-> end, read |-> IF s \in below THEN transport[s].read ELSE end]
              ELSE IF s = "hyperliquid" /\ s \in tried THEN Nothing ELSE source[s]]
         /\ transport' = [s \in Transported |->
              IF s \in fetched THEN [until |-> end + Lifetime(s), read |-> end]
              ELSE IF s \in tried /\ Forced(s, force) THEN NotHeld ELSE transport[s]]
         /\ checked' = [p \in Panel |-> IF p \in got THEN end ELSE checked[p]]
BY DEF RefreshSources, CheckedAt, FromBelow, Fetched, Got

(* What a cycle does to one source.                                        *)
LEMMA OneSource ==
  ASSUME NEW force \in BOOLEAN, NEW end \in now..(now + 1),
         NEW down, RefreshSources(force, end, down), NEW s \in Source
  PROVE  \/ source'[s] = source[s] /\ s \notin Got(force, end, down)
         \/ source'[s] = Nothing /\ s = "hyperliquid"
         \/ /\ source'[s] = [at |-> end, read |-> end]
            /\ s \in Got(force, end, down) /\ s \in Fetched(force, end, down)
         \/ /\ source'[s] = [at |-> end, read |-> transport[s].read]
            /\ s \in FromBelow(force, end, down)
            /\ s \in Transported /\ s \in Attempts(force, end, down) /\ Hit(transport[s], end)
<1> DEFINE below == FromBelow(force, end, down)
           fetched == Fetched(force, end, down)
           got == Got(force, end, down)
           tried == Attempts(force, end, down)
<1>1. source' = [x \in Source |->
           IF x \in got THEN [at |-> end, read |-> IF x \in below THEN transport[x].read ELSE end]
           ELSE IF x = "hyperliquid" /\ x \in tried THEN Nothing ELSE source[x]]
  BY Refreshed
<1>2. got \subseteq below \cup fetched
  BY DEF Got
<1>3. \A x \in below : x \in tried /\ x \in Transported /\ Hit(transport[x], end)
  BY DEF FromBelow, Served
<1> HIDE DEF below, fetched, got, tried
<1>4. CASE s \in got /\ s \in below
  BY <1>1, <1>3, <1>4 DEF below, tried
<1>5. CASE s \in got /\ s \notin below
  <2>1. s \in fetched
    BY <1>2, <1>5
  <2> QED BY <1>1, <1>5, <2>1 DEF got, fetched
<1>6. CASE s \notin got
  <2>1. source'[s] = source[s] \/ (source'[s] = Nothing /\ s = "hyperliquid")
    BY <1>1, <1>6
  <2> QED BY <1>6, <2>1 DEF got
<1> QED BY <1>4, <1>5, <1>6
-----------------------------------------------------------------------------
(* The types.                                                              *)
LEMMA Instances ==
  /\ Never \in Maybe /\ Maybe \subseteq Int
  /\ Nothing \in Entry /\ NotHeld \in Held
  /\ \A t \in Instant : t \in Maybe /\ t \in Int /\ t >= 0 /\ t # Never
  /\ \A t, u \in Maybe : [at |-> t, read |-> u] \in Entry
  /\ \A t \in Instant, u \in Nat : [until |-> t + u, read |-> t] \in Held
  /\ \A s : Lifetime(s) \in Nat
  /\ Never < 0
<1> USE Numbers DEF Never, Maybe, Instant, Entry, Held, Nothing, NotHeld
<1>1. \A s : Lifetime(s) \in Nat
  BY DEF Lifetime
<1>2. \A t \in Instant : t \in Maybe /\ t \in Int /\ t >= 0 /\ t # Never
  OBVIOUS
<1>3. \A t \in Instant, u \in Nat : [until |-> t + u, read |-> t] \in Held
  OBVIOUS
<1>4. Nothing \in Entry /\ NotHeld \in Held
  OBVIOUS
<1> QED BY <1>1, <1>2, <1>3, <1>4

LEMMA SweepTyped ==
  ASSUME SourcesTyped, NEW end \in Instant, NEW down, Sweep(end, down)
  PROVE  /\ history' \in Instants /\ limit' \in [Row -> Entry]
         /\ limitHeld' \in [Row -> Held]
         /\ cursor' \in 0..(Symbols - 1) /\ missed' \subseteq Row
<1> USE Instances
<1>1. history' \in Instants
  BY DEF Sweep, FetchHistories, SourcesTyped, Instants
<1>2. missed' \subseteq Row
  <2>1. Batched \subseteq Row
    <3> SUFFICES ASSUME NEW i \in 0..(Batch - 1)
                 PROVE  ((cursor + i) % Symbols) + 1 \in Row
      BY DEF Batched
    <3>1. Symbols \in Nat \ {0} /\ cursor + i \in Nat
      BY Numbers DEF SourcesTyped
    <3>2. (cursor + i) % Symbols \in 0..(Symbols - 1)
      BY <3>1
    <3> QED BY <3>1, <3>2 DEF Row
  <2> QED BY <2>1 DEF Sweep, FetchHistories, SourcesTyped
<1>3. cursor' \in 0..(Symbols - 1)
  <2>1. cursor \in 0..(Symbols - 1) /\ Symbols \in Nat \ {0} /\ Batch \in 1..Symbols
    BY Numbers DEF SourcesTyped
  <2>2. 1 \in Row
    BY <2>1 DEF Row
  <2> QED BY <2>1, <2>2, BatchedIsNear DEF Sweep
<1>4. limit' \in [Row -> Entry] /\ limitHeld' \in [Row -> Held]
  <2> DEFINE due == {s \in Batched : source'["cross"].at # Never /\ LimitDue(s)}
             held == {s \in due : Hit(limitHeld[s], end)}
             fetched == IF "limit" \in down THEN {} ELSE due \ held
  <2>1. /\ limit' = [s \in Row |->
             CASE s \in held -> [at |-> end, read |-> limitHeld[s].read]
               [] s \in fetched -> [at |-> end, read |-> end]
               [] OTHER -> limit[s]]
        /\ limitHeld' = [s \in Row |->
             IF s \in fetched THEN [until |-> end + SlowTtl, read |-> end] ELSE limitHeld[s]]
    BY DEF Sweep, ReadLimits
  <2> HIDE DEF fetched, held, due
  <2>2. \A s \in Row : limitHeld[s].read \in Maybe /\ limit[s] \in Entry /\ limitHeld[s] \in Held
    BY DEF SourcesTyped, Held
  <2>3. limit' \in [Row -> Entry]
    BY <2>1, <2>2
  <2>4. limitHeld' \in [Row -> Held]
    BY <2>1, <2>2, Numbers
  <2> QED BY <2>3, <2>4
<1> QED BY <1>1, <1>2, <1>3, <1>4

(* Counting keeps within the bounds and takes from what may still come.    *)
LEMMA CountedTakes ==
  ASSUME count \in [trouble : 0..MaxTrouble, asked : 0..MaxAsked],
         NEW t \in 0..1, NEW a \in 0..1, Counted(t, a)
  PROVE  /\ count' \in [trouble : 0..MaxTrouble, asked : 0..MaxAsked]
         /\ Room \in Nat /\ Room' \in Nat
         /\ Room' = Room - t - a * Cadence
         /\ Room' <= MaxTrouble + MaxAsked * Cadence
<1> USE Numbers
<1>1. /\ count.trouble \in 0..MaxTrouble /\ count.asked \in 0..MaxAsked
      /\ count.trouble + t <= MaxTrouble /\ count.asked + a <= MaxAsked
      /\ count' = [trouble |-> count.trouble + t, asked |-> count.asked + a]
  BY DEF Counted
<1>2. \A n, m \in Nat : n * m \in Nat
  OBVIOUS
<1>3. (MaxAsked - count.asked) * Cadence \in Nat /\ (MaxAsked - (count.asked + a)) * Cadence \in Nat
  <2>1. MaxAsked - count.asked \in Nat /\ MaxAsked - (count.asked + a) \in Nat
    BY <1>1
  <2> QED BY <2>1, <1>2
<1>4. (MaxAsked - (count.asked + a)) * Cadence = (MaxAsked - count.asked) * Cadence - a * Cadence
  BY <1>1
<1>5. Room = (MaxTrouble - count.trouble) + (MaxAsked - count.asked) * Cadence
  BY DEF Room
<1>6. Room' = (MaxTrouble - (count.trouble + t)) + (MaxAsked - (count.asked + a)) * Cadence
  BY <1>1 DEF Room
<1>7. count' \in [trouble : 0..MaxTrouble, asked : 0..MaxAsked]
  BY <1>1
<1>8. a * Cadence \in Nat
  BY <1>2
<1> DEFINE x == (MaxAsked - count.asked) * Cadence
           y == (MaxAsked - (count.asked + a)) * Cadence
           z == a * Cadence
<1> HIDE DEF x, y, z
<1>9. Room \in Nat /\ Room' \in Nat /\ Room' = Room - t - z
  <2>1. /\ Room = (MaxTrouble - count.trouble) + x /\ Room' = (MaxTrouble - (count.trouble + t)) + y
        /\ x \in Nat /\ y \in Nat /\ z \in Nat /\ y = x - z
    BY <1>3, <1>4, <1>5, <1>6, <1>8 DEF x, y, z
  <2> HIDE DEF Room
  <2> QED BY <1>1, <2>1
<1>10. Room' <= MaxTrouble + MaxAsked * Cadence
  <2> DEFINE w == MaxAsked * Cadence
             v == (count.asked + a) * Cadence
  <2>1. y = w - v
    BY <1>1 DEF y
  <2>2. w \in Nat /\ v \in Nat
    BY <1>1, <1>2
  <2>3. Room' = (MaxTrouble - (count.trouble + t)) + y
    BY <1>6 DEF y
  <2> HIDE DEF w, v, Room
  <2>4. Room' <= MaxTrouble + w
    BY <1>1, <2>1, <2>2, <2>3
  <2> QED BY <2>4 DEF w
<1> QED BY <1>7, <1>9, <1>10 DEF z

LEMMA ValidIsHistory ==
  ASSUME NEW h \in Instants, NEW at
  PROVE  /\ Valid(h, at) \in Instants
         /\ \A s \in Row : Valid(h, at)[s] =
              IF at - h[s] < HistoryTtl THEN h[s] ELSE Never
BY Instances DEF Valid, Instants

LEMMA CycleTyped ==
  ASSUME SourcesTyped, Aged, NEW force \in BOOLEAN, NEW end \in now..(now + 1),
         end <= MaxTime, NEW down, NEW raises \in BOOLEAN, RefreshCycle(force, end, down, raises)
  PROVE  SourcesTyped'
<1> USE Instances, Numbers
<1>1. end \in Instant /\ end \in 0..MaxTime /\ now' = end /\ woken' = end
  BY DEF Instant, RefreshCycle, SourcesTyped
<1>2. /\ source' \in [Source -> Entry] /\ transport' \in [Transported -> Held]
      /\ checked' \in Dates
  <2> DEFINE tried == Attempts(force, end, down)
             below == FromBelow(force, end, down)
             fetched == Fetched(force, end, down)
             got == Got(force, end, down)
  <2>1. /\ source' = [s \in Source |->
              IF s \in got THEN [at |-> end, read |-> IF s \in below THEN transport[s].read ELSE end]
              ELSE IF s = "hyperliquid" /\ s \in tried THEN Nothing ELSE source[s]]
         /\ transport' = [s \in Transported |->
              IF s \in fetched THEN [until |-> end + Lifetime(s), read |-> end]
              ELSE IF s \in tried /\ Forced(s, force) THEN NotHeld ELSE transport[s]]
         /\ checked' = [p \in Panel |-> IF p \in got THEN end ELSE checked[p]]
    BY Refreshed DEF RefreshCycle
  <2>2. \A s \in Source : source'[s] \in Entry
    <3> TAKE s \in Source
    <3>1. source[s] \in Entry /\ (s \in Transported => transport[s].read \in Maybe)
      BY DEF SourcesTyped, Held
    <3>2. \/ source'[s] \in {source[s], Nothing, [at |-> end, read |-> end]}
          \/ s \in Transported /\ source'[s] = [at |-> end, read |-> transport[s].read]
      <4>1. RefreshSources(force, end, down)
        BY DEF RefreshCycle
      <4> HIDE DEF tried, below, fetched, got
      <4> QED BY <4>1, OneSource
    <3> QED BY <1>1, <3>1, <3>2
  <2> HIDE DEF tried, below, fetched, got
  <2>3. source' \in [Source -> Entry]
    BY <2>1, <2>2
  <2>4. transport' \in [Transported -> Held]
    BY <1>1, <2>1 DEF SourcesTyped
  <2>5. checked' \in Dates
    BY <1>1, <2>1 DEF SourcesTyped, Dates
  <2> QED BY <2>3, <2>4, <2>5
<1>3. /\ history' \in Instants /\ limit' \in [Row -> Entry]
      /\ limitHeld' \in [Row -> Held]
      /\ cursor' \in 0..(Symbols - 1) /\ missed' \subseteq Row
  <2>1. CASE base'
    BY <1>1, <2>1, SweepTyped DEF RefreshCycle
  <2>2. CASE ~base'
    BY <2>2 DEF RefreshCycle, SourcesTyped
  <2> QED BY <2>1, <2>2
<1>4. count' \in [trouble : 0..MaxTrouble, asked : 0..MaxAsked]
  BY CountedTakes DEF RefreshCycle, SourcesTyped
<1>5. /\ inputs' \in [account : Accounts, limit : Instants, reference : BOOLEAN]
      /\ shown' \in [account : Accounts, dated : Dates, limit : Instants, history : Instants]
      /\ lost' \in BOOLEAN
  <2>1. CASE base' /\ ~raises
    <3>1. PublishRows(Gathered, Valid(history', end))
      BY <2>1 DEF RefreshCycle
    <3>2. Gathered \in [account : Accounts, limit : Instants, reference : BOOLEAN]
      <4>1. \A p \in Panel : source'[p] \in Entry
        BY <1>2, Names
      <4>2. \A s \in Row : limit'[s].read \in Maybe
        BY <1>3 DEF Entry
      <4> QED BY <4>1, <4>2 DEF Gathered, Accounts, Instants
    <3> HIDE DEF Gathered
    <3>3. Valid(history', end) \in Instants
      BY <1>3, ValidIsHistory
    <3> QED BY <3>1, <3>2, <3>3, <1>2 DEF PublishRows
  <2>2. CASE ~(base' /\ ~raises)
    BY <2>2 DEF RefreshCycle, SourcesTyped
  <2> QED BY <2>1, <2>2
<1>6. clicked' \subseteq Row
  BY DEF RefreshCycle, SourcesTyped
<1> QED BY <1>1, <1>2, <1>3, <1>4, <1>5, <1>6 DEF SourcesTyped

LEMMA ClickTyped ==
  ASSUME SourcesTyped, NEW s \in Row, NEW down, NEW expires,
         RefreshRow(s, down, expires)
  PROVE  SourcesTyped'
<1> USE Instances, Numbers
<1> DEFINE read == "limit" \notin down
<1>1. now \in Instant
  BY DEF Instant, SourcesTyped
<1>2. transport' \in [Transported -> Held]
  <2>1. \A x \in Transported :
          transport'[x] = [until |-> now + Lifetime(x), read |-> now] \/ transport'[x] = transport[x]
    BY DEF RefreshRow
  <2>2. transport' = [x \in Transported |-> transport'[x]]
    BY DEF RefreshRow
  <2>3. \A x \in Transported : transport'[x] \in Held
    <3> TAKE x \in Transported
    <3>1. [until |-> now + Lifetime(x), read |-> now] \in Held /\ transport[x] \in Held
      BY <1>1 DEF SourcesTyped
    <3> QED BY <2>1, <3>1
  <2> HIDE DEF Held
  <2> QED BY <2>2, <2>3
<1>3. limitHeld' \in [Row -> Held]
  <2>1. limitHeld' = [limitHeld EXCEPT ![s] =
                        IF read THEN [until |-> now + SlowTtl, read |-> now] ELSE NotHeld]
    BY DEF RefreshRow
  <2>2. [until |-> now + SlowTtl, read |-> now] \in Held
    BY <1>1
  <2> QED BY <2>1, <2>2 DEF SourcesTyped
<1>4. history' \in Instants
  BY <1>1 DEF RefreshRow, SourcesTyped, Instants
<1>5. /\ inputs' \in [account : Accounts, limit : Instants, reference : BOOLEAN]
      /\ shown' \in [account : Accounts, dated : Dates, limit : Instants, history : Instants]
  <2>1. CASE expires # "not"
    BY <2>1 DEF RefreshRow, SourcesTyped
  <2>2. CASE expires = "not"
    <3>1. PICK b \in BOOLEAN :
            inputs' = [inputs EXCEPT !.limit[s] = IF read THEN now ELSE Never, !.reference = b]
      <4> DEFINE lacks(x) == ~Hit(transport[x], now)
                 chain == Answered({x \in {"info", "cross"} : lacks(x)}, down)
                 assembles == expires # "reading" /\ ~inputs.reference
                 missing == {x \in Reference \ chain : assembles /\ lacks(x)}
                 renewed == chain \cup Answered(missing, down)
      <4>1. inputs' = [inputs EXCEPT !.limit[s] = IF read THEN now ELSE Never,
                                     !.reference = @ \/ missing \subseteq renewed]
        BY <2>2 DEF RefreshRow
      <4> HIDE DEF missing, renewed
      <4>2. (inputs.reference \/ missing \subseteq renewed) \in BOOLEAN
        BY DEF SourcesTyped
      <4> QED BY <4>1, <4>2
    <3>2. inputs' \in [account : Accounts, limit : Instants, reference : BOOLEAN]
      BY <1>1, <3>1 DEF SourcesTyped, Instants
    <3>3. shown' = [account |-> inputs'.account, dated |-> checked, limit |-> inputs'.limit,
                    history |-> Valid(history', now)]
      BY <2>2 DEF RefreshRow
    <3>4. Valid(history', now) \in Instants
      BY <1>4, ValidIsHistory
    <3> QED BY <3>2, <3>3, <3>4 DEF SourcesTyped
  <2> QED BY <2>1, <2>2
<1>6. count' \in [trouble : 0..MaxTrouble, asked : 0..MaxAsked]
  BY CountedTakes DEF RefreshRow, SourcesTyped
<1>7. /\ now' = now /\ woken' = now /\ source' = source /\ checked' = checked /\ limit' = limit
      /\ cursor' = cursor /\ lost' = lost /\ missed' = missed /\ clicked' = clicked \cup {s}
  BY DEF RefreshRow
<1>8. now \in 0..MaxTime /\ woken' \in 0..now'
  BY <1>7 DEF SourcesTyped
<1> QED BY <1>2, <1>3, <1>4, <1>5, <1>6, <1>7, <1>8 DEF SourcesTyped
-----------------------------------------------------------------------------
(* The ages and the dates.                                                 *)
LEMMA CycleAged ==
  ASSUME SourcesTyped, Aged, NEW force \in BOOLEAN, NEW end \in now..(now + 1),
         end <= MaxTime, NEW down, NEW raises \in BOOLEAN, RefreshCycle(force, end, down, raises)
  PROVE  Aged'
<1> USE Instances, Numbers, Names
<1> DEFINE tried == Attempts(force, end, down)
           fetched == Fetched(force, end, down)
           got == Got(force, end, down)
<1>1. /\ end \in Instant /\ now' = end /\ now <= end /\ now \in Nat
      /\ clicked' = clicked /\ RefreshSources(force, end, down)
  BY DEF Instant, RefreshCycle, SourcesTyped
<1>2. \A s \in Transported :
        transport'[s] = IF s \in fetched THEN [until |-> end + Lifetime(s), read |-> end]
                        ELSE IF s \in tried /\ Forced(s, force) THEN NotHeld ELSE transport[s]
  <2> HIDE DEF tried, fetched
  <2> QED BY <1>1, Refreshed DEF tried, fetched
<1>3. \A s \in Source : source'[s].at <= now'
  <2> TAKE s \in Source
  <2>1. source[s].at \in Int /\ source[s].at <= now
    BY DEF Aged, SourcesTyped, Entry
  <2>2. source'[s] \in {source[s], Nothing} \/ source'[s].at = end
    <3> HIDE DEF tried, fetched, got
    <3>1. \/ source'[s] \in {source[s], Nothing, [at |-> end, read |-> end]}
          \/ source'[s] = [at |-> end, read |-> transport[s].read]
      <4> HIDE Instances, Numbers, Names
      <4> QED BY <1>1, OneSource
    <3> QED BY <3>1
  <2> QED BY <1>1, <2>1, <2>2 DEF Nothing
<1>4. ASSUME NEW s \in Source, s \in Source \ Shared \/ (s = "info" /\ clicked = {})
      PROVE  /\ source'[s].read = source'[s].at
             /\ s \in Transported => Paired(s)'
  <2>1. source[s].read = source[s].at /\ (s \in Transported => Paired(s))
    BY <1>4, Names DEF Aged
  <2>2. \/ source'[s] = source[s] /\ s \notin got
        \/ source'[s] = Nothing /\ s = "hyperliquid"
        \/ source'[s] = [at |-> end, read |-> end] /\ s \in fetched
    <3>1. s \in tried => s \notin FromBelow(force, end, down)
      BY <1>4, TriedIsNotServed
    <3>2. FromBelow(force, end, down) \subseteq tried
      BY DEF FromBelow
    <3> HIDE DEF tried
    <3> QED BY <1>1, <3>1, <3>2, OneSource
  <2>3. s \in fetched => s \in got
    BY <1>4, Names DEF Got
  <2> HIDE DEF tried, fetched, got
  <2>4. source'[s].read = source'[s].at
    BY <2>1, <2>2 DEF Nothing
  <2>5. s \in Transported => Paired(s)'
    <3> SUFFICES ASSUME s \in Transported PROVE Paired(s)'
      OBVIOUS
    <3>1. CASE s \in fetched
      <4>1. source'[s].at = end /\ transport'[s].until = end + Lifetime(s)
        <5>1. s # "hyperliquid" /\ s \in got
          BY <2>3, <3>1, Names
        <5>2. source'[s] = [at |-> end, read |-> end]
          BY <2>2, <5>1
        <5>3. transport'[s] = [until |-> end + Lifetime(s), read |-> end]
          BY <1>2, <3>1
        <5> QED BY <5>2, <5>3
      <4> QED BY <1>1, <4>1 DEF Paired, Present
    <3>2. CASE s \notin fetched
      <4>1. source'[s] = source[s] /\ transport'[s] \in {NotHeld, transport[s]}
        BY <1>2, <2>2, <3>2
      <4> QED BY <2>1, <4>1 DEF Paired, Present
    <3> QED BY <3>1, <3>2
  <2> QED BY <2>4, <2>5
<1>6. \A s \in Shared : Lasting(transport[s])' /\ Young(source[s])'
  <2> TAKE s \in Shared
  <2>1. /\ s \in Transported /\ s \in Source /\ ~Forced(s, force) /\ Lifetime(s) = SlowTtl
        /\ Lasting(transport[s]) /\ Young(source[s]) /\ transport[s].read \in Int
        /\ s # "hyperliquid" /\ transport[s] \in Held
    BY DEF Forced, Lifetime, Aged, SourcesTyped, Held
  <2>2. Lasting(transport'[s])
    <3>1. transport'[s] \in {transport[s], [until |-> end + SlowTtl, read |-> end]}
      <4> HIDE DEF tried, fetched
      <4> QED BY <1>2, <2>1
    <3> QED BY <2>1, <3>1 DEF Lasting
  <2>3. Young(source'[s])
    <3>1. CASE source'[s] = source[s]
      BY <2>1, <3>1
    <3>2. CASE source'[s] = [at |-> end, read |-> end]
      BY <1>1, <3>2 DEF Young
    <3>3. CASE source'[s] = [at |-> end, read |-> transport[s].read] /\ Hit(transport[s], end)
      <4>1. transport[s].read + SlowTtl > end
        BY <1>1, <2>1, <3>3 DEF Hit, Lasting, NotHeld
      <4> QED BY <1>1, <2>1, <3>3, <4>1 DEF Young
    <3> QED BY <1>1, <2>1, <3>1, <3>2, <3>3, OneSource
  <2> QED BY <2>2, <2>3 DEF Lasting, Young
<1>7. \A s \in Row : Lasting(limitHeld[s])' /\ Young(limit[s])'
  <2> TAKE s \in Row
  <2>1. /\ Lasting(limitHeld[s]) /\ Young(limit[s]) /\ limitHeld[s].read \in Int
    BY DEF Aged, SourcesTyped, Held
  <2>2. CASE base'
    <3> DEFINE due == {x \in Batched : source'["cross"].at # Never /\ LimitDue(x)}
               held == {x \in due : Hit(limitHeld[x], end)}
               taken == IF "limit" \in down THEN {} ELSE due \ held
    <3>1. /\ limit' = [x \in Row |->
             CASE x \in held -> [at |-> end, read |-> limitHeld[x].read]
               [] x \in taken -> [at |-> end, read |-> end]
               [] OTHER -> limit[x]]
          /\ limitHeld' = [x \in Row |->
             IF x \in taken THEN [until |-> end + SlowTtl, read |-> end] ELSE limitHeld[x]]
      BY <2>2 DEF RefreshCycle, Sweep, ReadLimits
    <3>2. s \in held => limitHeld[s].read + SlowTtl > end
      BY <1>1, <2>1 DEF Hit, Lasting, NotHeld
    <3> HIDE DEF due, held, taken
    <3>3. Lasting(limitHeld'[s])
      BY <1>1, <2>1, <3>1 DEF Lasting
    <3>4. Young(limit'[s])
      <4>1. CASE s \in held
        BY <1>1, <2>1, <3>1, <3>2, <4>1 DEF Young
      <4>2. CASE s \notin held
        BY <1>1, <2>1, <3>1, <4>2 DEF Young
      <4> QED BY <4>1, <4>2
    <3> QED BY <3>3, <3>4 DEF Lasting, Young
  <2>3. CASE ~base'
    BY <2>1, <2>3 DEF RefreshCycle, Lasting, Young
  <2> QED BY <2>2, <2>3
<1>5. \A s \in Row \ clicked' :
        /\ limit'[s].read = limit'[s].at
        /\ \/ limitHeld'[s] = NotHeld
           \/ limit'[s].at # Never /\ limitHeld'[s].until = limit'[s].at + SlowTtl
  <2> TAKE s \in Row \ clicked'
  <2>1. s \in Row \ clicked
    BY DEF RefreshCycle
  <2>2. /\ limit[s].read = limit[s].at
        /\ \/ limitHeld[s] = NotHeld
           \/ limit[s].at # Never /\ limitHeld[s].until = limit[s].at + SlowTtl
    BY <2>1 DEF Aged
  <2>3. CASE base'
    <3> DEFINE due == {x \in Batched : source'["cross"].at # Never /\ LimitDue(x)}
               held == {x \in due : Hit(limitHeld[x], end)}
               taken == IF "limit" \in down THEN {} ELSE due \ held
    <3>1. /\ limit' = [x \in Row |->
             CASE x \in held -> [at |-> end, read |-> limitHeld[x].read]
               [] x \in taken -> [at |-> end, read |-> end]
               [] OTHER -> limit[x]]
          /\ limitHeld' = [x \in Row |->
             IF x \in taken THEN [until |-> end + SlowTtl, read |-> end] ELSE limitHeld[x]]
      BY <2>3 DEF RefreshCycle, Sweep, ReadLimits
    <3>2. s \notin held
      <4>1. SUFFICES ASSUME LimitDue(s) PROVE ~Hit(limitHeld[s], end)
        OBVIOUS
      <4>2. limit[s].at \in Int
        BY DEF SourcesTyped, Entry
      <4>3. CASE limitHeld[s] = NotHeld
        BY <1>1, <4>3 DEF Hit, NotHeld
      <4>4. CASE limit[s].at # Never /\ limitHeld[s].until = limit[s].at + SlowTtl
        BY <1>1, <4>1, <4>2, <4>4 DEF Hit, LimitDue
      <4> QED BY <2>2, <4>3, <4>4
    <3> HIDE DEF due, held, taken
    <3>3. CASE s \in taken
      BY <1>1, <3>1, <3>2, <3>3
    <3>4. CASE s \notin taken
      BY <2>2, <3>1, <3>2, <3>4
    <3> QED BY <3>3, <3>4
  <2>4. CASE ~base'
    BY <2>2, <2>4 DEF RefreshCycle
  <2> QED BY <2>3, <2>4
<1>8. clicked' = {} => source'["info"].read = source'["info"].at /\ Paired("info")'
  BY <1>1, <1>4
<1>9. /\ \A s \in Source \ Shared : source'[s].read = source'[s].at
      /\ \A s \in Private : Paired(s)'
  BY <1>4
<1> QED BY <1>3, <1>5, <1>6, <1>7, <1>8, <1>9 DEF Aged

LEMMA ClickAged ==
  ASSUME SourcesTyped, Aged, NEW s \in Row, NEW down, NEW expires,
         RefreshRow(s, down, expires)
  PROVE  Aged'
<1> USE Instances, Numbers, Names
<1>1. /\ now' = now /\ source' = source /\ limit' = limit /\ now \in Int
      /\ clicked' = clicked \cup {s}
  BY DEF RefreshRow, SourcesTyped
<1>2. \A x \in Row \ clicked' : x # s /\ limitHeld'[x] = limitHeld[x]
  BY DEF RefreshRow, SourcesTyped
<1>3. \A x \in Transported :
        \/ transport'[x] = transport[x]
        \/ x \in Shared /\ transport'[x] = [until |-> now + SlowTtl, read |-> now]
  <2> TAKE x \in Transported
  <2>1. \/ transport'[x] = transport[x]
        \/ /\ x \in {"info"} \cup Reference
           /\ transport'[x] = [until |-> now + Lifetime(x), read |-> now]
    BY DEF RefreshRow, Answered
  <2> QED BY <2>1 DEF Shared, Lifetime
<1>4. \A x \in Private : Paired(x)'
  BY <1>1, <1>3 DEF Aged, Paired, Present
<1>5. \A x \in Shared : Lasting(transport'[x]) /\ Young(source'[x])
  BY <1>1, <1>3 DEF Aged, Lasting
<1>6. \A x \in Row : Lasting(limitHeld'[x]) /\ Young(limit'[x])
  <2> TAKE x \in Row
  <2>1. limitHeld'[x] \in {limitHeld[x], NotHeld, [until |-> now + SlowTtl, read |-> now]}
    BY DEF RefreshRow, SourcesTyped
  <2> QED BY <1>1, <2>1 DEF Aged, Lasting
<1>7. /\ \A x \in Shared : Lasting(transport[x])' /\ Young(source[x])'
      /\ \A x \in Row : Lasting(limitHeld[x])' /\ Young(limit[x])'
  BY <1>5, <1>6 DEF Lasting, Young
<1>8. clicked' # {}
  BY <1>1
<1> QED BY <1>1, <1>2, <1>4, <1>7, <1>8 DEF Aged

LEMMA CycleDated ==
  ASSUME SourcesTyped, Aged, Dated, NEW force \in BOOLEAN,
         NEW end \in now..(now + 1), end <= MaxTime, NEW down, NEW raises \in BOOLEAN,
         RefreshCycle(force, end, down, raises)
  PROVE  Dated'
<1> USE Instances, Numbers, Names
<1> DEFINE tried == Attempts(force, end, down)
           got == Got(force, end, down)
<1>1. end \in Instant /\ now <= end /\ now \in Nat
  BY DEF Instant, RefreshCycle, SourcesTyped
<1>2. /\ \A s \in Source : s # "hyperliquid" =>
            source'[s].at = IF s \in got THEN end ELSE source[s].at
      /\ checked' = [p \in Panel |-> IF p \in got THEN end ELSE checked[p]]
  <2>1. RefreshSources(force, end, down)
    BY DEF RefreshCycle
  <2>2. \A s \in Source : s # "hyperliquid" =>
          source'[s].at = IF s \in got THEN end ELSE source[s].at
    <3> DEFINE below == FromBelow(force, end, down)
    <3>1. source' = [s \in Source |->
              IF s \in got THEN [at |-> end, read |-> IF s \in below THEN transport[s].read ELSE end]
              ELSE IF s = "hyperliquid" /\ s \in tried THEN Nothing ELSE source[s]]
      BY <2>1, Refreshed
    <3> HIDE DEF below, got, tried
    <3> QED BY <3>1
  <2> QED BY <2>1, <2>2, Refreshed
<1>3. \A p \in Panel : p \in got => Present("cross") \/ "cross" \in got
  <2>1. got \subseteq tried
    BY DEF Got, FromBelow, Fetched, Answered
  <2> QED BY <2>1, PanelsNeedTheChannel
<1> HIDE DEF tried, got
<1>4. \A p \in Panel : checked'[p] = source'[p].at
  BY <1>2 DEF Dated
<1>5. Present("cross") \/ "cross" \in got => Present("cross")'
  BY <1>1, <1>2 DEF Present
<1>6. ~Present("cross")' => \A p \in Panel : ~Present(p)'
  <2> SUFFICES ASSUME NEW p \in Panel, Present(p)'
               PROVE  Present("cross")'
    OBVIOUS
  <2>1. CASE p \in got
    BY <1>3, <1>5, <2>1
  <2>2. CASE p \notin got
    <3>1. source'[p].at = source[p].at
      BY <1>2, <2>2
    <3> QED BY <1>5, <3>1 DEF Dated, Present
  <2> QED BY <2>1, <2>2
<1>7. CASE base' /\ ~raises
  <2>1. /\ inputs' = Gathered /\ lost' = FALSE
        /\ shown'.account = inputs'.account /\ shown'.dated = checked'
    BY <1>7 DEF RefreshCycle, PublishRows
  <2>2. \A p \in Panel : inputs'.account[p].at = checked'[p]
    <3>1. CASE Present("cross")'
      BY <1>4, <2>1, <3>1 DEF Gathered, Present
    <3>2. CASE ~Present("cross")'
      BY <1>4, <1>6, <2>1, <3>2 DEF Gathered, Present, Nothing
    <3> QED BY <3>1, <3>2
  <2>3. \A p \in Panel : checked'[p] \in Int
    BY <1>1, <1>2 DEF SourcesTyped, Dates
  <2> QED BY <1>4, <1>6, <2>1, <2>2, <2>3 DEF Dated, AccountDated
<1>8. CASE ~(base' /\ ~raises)
  <2>1. lost' = TRUE /\ inputs' = inputs /\ shown' = shown
    BY <1>8 DEF RefreshCycle
  <2>2. \A p \in Panel : inputs'.account[p].at <= checked'[p]
    <3> TAKE p \in Panel
    <3>1. /\ inputs.account[p].at \in Int /\ checked[p] \in Int
          /\ inputs.account[p].at <= checked[p] /\ checked[p] <= now
      BY DEF SourcesTyped, Accounts, Dates, Entry, Dated, Aged
    <3> QED BY <1>1, <1>2, <2>1, <3>1
  <2> QED BY <1>4, <1>6, <2>1, <2>2 DEF Dated, AccountDated
<1> QED BY <1>7, <1>8

LEMMA ClickDated ==
  ASSUME SourcesTyped, Dated, NEW s \in Row, NEW down,
         NEW expires, RefreshRow(s, down, expires)
  PROVE  Dated'
<1>1. source' = source /\ checked' = checked /\ lost' = lost
  BY DEF RefreshRow
<1>2. inputs'.account = inputs.account
  BY DEF RefreshRow, SourcesTyped
<1>3. CASE expires # "not"
  BY <1>1, <1>2, <1>3 DEF RefreshRow, Dated, AccountDated, Present
<1>4. CASE expires = "not"
  <2>1. shown'.account = inputs.account /\ shown'.dated = checked
    BY <1>4 DEF RefreshRow, SourcesTyped
  <2> QED BY <1>1, <1>2, <2>1 DEF Dated, AccountDated, Present
<1> QED BY <1>3, <1>4
-----------------------------------------------------------------------------
(* The sweep.                                                              *)
LEMMA MoreTimes ==
  ASSUME NEW n \in Nat, NEW a \in Int, NEW b \in Int, a <= b
  PROVE  n * a <= n * b
<1>1. n * (b - a) = n * b - n * a /\ b - a \in Nat
  OBVIOUS
<1>2. \A i, j \in Nat : i * j \in Nat
  OBVIOUS
<1>3. n * (b - a) \in Nat /\ n * a \in Int /\ n * b \in Int
  BY <1>1, <1>2
<1> QED BY <1>1, <1>3

LEMMA AheadIsEnough ==
         /\ Ahead < HistoryTtl
         /\ Batch * (Ahead - MaxTrouble - MaxAsked * Cadence) >= (Symbols - 1) * Cadence
         /\ MaxAsked * Cadence \in Nat
<1>1. \A i, j \in Nat : i * j \in Nat
  OBVIOUS
<1> QED BY <1>1, Numbers, AheadAssumption

(* A history that is fresh when the sweep leaves it lives until the sweep  *)
(* is back, wherever it has to come from.                                  *)
LEMMA FreshLasts ==
  ASSUME NEW h \in Int, NEW w \in Int, NEW room \in Nat, NEW turn \in 0..(Symbols - 1),
         w - h < HistoryTtl - Ahead, room <= MaxTrouble + MaxAsked * Cadence
  PROVE  Batch * (h + HistoryTtl - w - room) > Cadence * turn
<1> USE Numbers, AheadIsEnough
<1> DEFINE k == MaxAsked * Cadence
           a == Ahead - MaxTrouble - k
           b == h + HistoryTtl - w - room
<1>1. k \in Nat
  OBVIOUS
<1>2. a \in Int /\ b \in Int /\ a + 1 <= b
  <2> HIDE AheadIsEnough DEF k
  <2>1. room <= MaxTrouble + k
    BY DEF k
  <2> QED BY <1>1, <2>1
<1>3. Batch * a >= (Symbols - 1) * Cadence
  BY DEF a, k
<1> HIDE DEF a, b, k
<1>4. Batch * (a + 1) <= Batch * b
  BY <1>2, MoreTimes
<1>5. Cadence * turn <= Cadence * (Symbols - 1)
  BY MoreTimes
<1>6. Batch * (a + 1) = Batch * a + Batch /\ Cadence * (Symbols - 1) = (Symbols - 1) * Cadence
  BY <1>2
<1>7. /\ Batch * a \in Int /\ Batch * b \in Int /\ Batch \in Int /\ Batch >= 1
      /\ Cadence * turn \in Int /\ (Symbols - 1) * Cadence \in Int
  BY <1>2
<1>8. Batch * b > Cadence * turn
  <2> HIDE Numbers, AheadIsEnough
  <2> QED BY <1>3, <1>4, <1>5, <1>6, <1>7
<1> QED BY <1>8 DEF b

(* The next cycle brings the sweep one batch nearer.                       *)
LEMMA NearerLasts ==
  ASSUME NEW b \in Int, NEW c \in Int, NEW turn \in Nat,
         b - Cadence <= c, Batch * b > Cadence * turn
  PROVE  Batch * c > Cadence * (turn - Batch)
<1> USE Numbers
<1>1. Batch * (b - Cadence) <= Batch * c
  BY MoreTimes
<1>2. Batch * (b - Cadence) = Batch * b - Batch * Cadence
  OBVIOUS
<1>3. Cadence * (turn - Batch) = Cadence * turn - Batch * Cadence
  OBVIOUS
<1>4. /\ Batch * b \in Int /\ Batch * c \in Int /\ Batch * Cadence \in Int /\ Cadence * turn \in Int
  OBVIOUS
<1> QED BY <1>1, <1>2, <1>3, <1>4

(* A click keeps the thread awake no longer than its share of the delays.  *)
LEMMA LaterLasts ==
  ASSUME NEW b \in Int, NEW c \in Int, NEW turn \in Nat,
         b <= c, Batch * b > Cadence * turn
  PROVE  Batch * c > Cadence * turn
<1> USE Numbers
<1>1. Batch * b <= Batch * c
  BY MoreTimes
<1>2. Batch * b \in Int /\ Batch * c \in Int /\ Cadence * turn \in Int
  OBVIOUS
<1> QED BY <1>1, <1>2

(* What lives until the sweep is there has not expired.                    *)
LEMMA LastingIsValid ==
  ASSUME NEW h \in Int, NEW w \in Int, NEW room \in Nat, NEW turn \in Nat,
         Batch * (h + HistoryTtl - w - room) > Cadence * turn
  PROVE  w - h < HistoryTtl
<1> USE Numbers
<1>1. SUFFICES ASSUME h + HistoryTtl - w - room <= 0 PROVE FALSE
  OBVIOUS
<1> DEFINE b == h + HistoryTtl - w - room
<1>2. b \in Int /\ b <= 0 /\ Batch * b > Cadence * turn
  BY <1>1
<1> HIDE DEF b
<1>3. Batch * b <= Batch * 0
  BY <1>2, MoreTimes
<1>4. \A i, j \in Nat : i * j \in Nat
  OBVIOUS
<1>5. Cadence * turn \in Nat /\ Batch * b \in Int /\ Batch * 0 = 0
  BY <1>2, <1>4
<1> QED BY <1>2, <1>3, <1>5

(* Before the first premium and group B nothing is swept or shown.         *)
LEMMA StartedStays ==
  ASSUME SourcesTyped, Aged, NEW force \in BOOLEAN, NEW end \in now..(now + 1),
         end <= MaxTime, NEW down, NEW raises \in BOOLEAN, RefreshCycle(force, end, down, raises)
  PROVE  base' = Started' /\ (Started => Started')
<1> USE Instances, Numbers, Names
<1>1. end \in Instant
  BY DEF Instant, RefreshCycle, SourcesTyped
<1>2. base' = Started'
  BY DEF RefreshCycle, Started, Present
<1>3. \A s \in {"premium", "group_b"} : Present(s) => Present(s)'
  <2> TAKE s \in {"premium", "group_b"}
  <2>1. \/ source'[s] = source[s]
        \/ source'[s].at = end
    <3>1. s \in Source /\ s # "hyperliquid" /\ RefreshSources(force, end, down)
      BY DEF RefreshCycle
    <3>2. \/ source'[s] \in {source[s], [at |-> end, read |-> end]}
          \/ source'[s] = [at |-> end, read |-> transport[s].read]
      <4> HIDE Instances, Numbers, Names
      <4> QED BY <3>1, OneSource
    <3> QED BY <3>2
  <2> QED BY <1>1, <2>1 DEF Present
<1> QED BY <1>2, <1>3 DEF Started

(* What the sweep does with one history.                                   *)
LEMMA SweptHistory ==
  ASSUME SourcesTyped, NEW end, NEW down, Sweep(end, down), NEW s \in Row
  PROVE  /\ missed \subseteq missed'
         /\ s \in Batched /\ ~HistoryFresh(s, end) => history'[s] = end \/ s \in missed'
         /\ ~(s \in Batched /\ ~HistoryFresh(s, end)) => history'[s] = history[s]
         /\ history'[s] \in {end, history[s]}
BY DEF Sweep, FetchHistories, SourcesTyped, Instants

LEMMA CyclePaces ==
  ASSUME SourcesTyped, SourcesTyped', Swept, NEW force \in BOOLEAN,
         NEW end \in now..(now + 1), NEW down, NEW raises \in BOOLEAN,
         RefreshCycle(force, end, down, raises), base',
         NEW s \in Row, s \notin missed', history'[s] # Never
  PROVE  Paced(s)'
<1> USE Numbers
<1>1. Sweep(end, down) /\ woken' = end /\ cursor' = NextCursor
  BY DEF RefreshCycle, Sweep
<1>2. PICK t \in 0..1, a \in 0..1 : Counted(t, a) /\ (end # now => t = 1)
  BY DEF RefreshCycle
<1>3. /\ Room \in Nat /\ Room' \in Nat /\ Room' = Room - t - a * Cadence /\ a * Cadence \in Nat
      /\ Room' <= MaxTrouble + MaxAsked * Cadence
  <2>1. \A i, j \in Nat : i * j \in Nat
    OBVIOUS
  <2> QED BY <1>2, <2>1, CountedTakes DEF SourcesTyped
<1>4. Turn(s)' \in 0..(Symbols - 1) /\ Turn(s) \in 0..(Symbols - 1)
  <2>1. cursor' \in 0..(Symbols - 1) /\ cursor \in 0..(Symbols - 1) /\ s \in 1..Symbols
    BY DEF SourcesTyped, Row
  <2>4. Symbols \in Nat
    OBVIOUS
  <2> HIDE Numbers
  <2> DEFINE far(x) == IF s - 1 >= x THEN s - 1 - x ELSE s - 1 - x + Symbols
  <2>5. \A x \in 0..(Symbols - 1) : far(x) \in 0..(Symbols - 1)
    BY <2>1, <2>4
  <2>6. Turn(s) = far(cursor) /\ Turn(s)' = far(cursor')
    BY DEF Turn
  <2> HIDE DEF far
  <2> QED BY <2>1, <2>5, <2>6
<1>5. /\ end \in Int /\ now \in Int /\ woken \in Int /\ now <= woken + Cadence
      /\ end <= now + 1
  BY DEF SourcesTyped, Swept
<1>6. history'[s] \in Int /\ history[s] \in Int
  BY Instances DEF SourcesTyped, Instants
<1>7. CASE end - history'[s] < HistoryTtl - Ahead
  <2>1. Room' <= MaxTrouble + MaxAsked * Cadence
    BY <1>3
  <2>2. Batch * (history'[s] + HistoryTtl - end - Room') > Cadence * Turn(s)'
    BY <1>3, <1>4, <1>5, <1>6, <1>7, <2>1, FreshLasts
  <2> QED BY <1>1, <2>2 DEF Paced
<1>8. CASE s \notin Batched
  <2>1. history'[s] = history[s] /\ s \notin missed
    BY <1>1, <1>8, SweptHistory
  <2>2. Batch * (history[s] + HistoryTtl - woken - Room) > Cadence * Turn(s)
    BY <2>1 DEF Swept, Paced
  <2> DEFINE b == history[s] + HistoryTtl - woken - Room
             d == history[s] + HistoryTtl - end - Room'
  <2>3. b \in Int /\ d \in Int /\ b - Cadence <= d
    <3>1. Room \in Nat /\ Room' \in Nat /\ Room' + t <= Room
      BY <1>3
    <3>2. end <= now + t /\ t \in Int /\ Cadence \in Nat /\ HistoryTtl \in Nat
      BY <1>2, <1>5
    <3>3. \A h, w, e, n, x, y, z \in Int :
            y + z <= x /\ e <= n + z /\ n <= w + Cadence =>
              /\ h + HistoryTtl - w - x \in Int /\ h + HistoryTtl - e - y \in Int
              /\ (h + HistoryTtl - w - x) - Cadence <= h + HistoryTtl - e - y
      BY <3>2
    <3> HIDE DEF Room
    <3>4. Room \in Int /\ Room' \in Int
      BY <3>1
    <3> QED BY <1>5, <1>6, <3>1, <3>2, <3>3, <3>4
  <2> HIDE DEF b, d
  <2>4. Batch * d > Cadence * (Turn(s) - Batch)
    <3>1. Batch * b > Cadence * Turn(s) /\ Turn(s) \in Nat
      BY <1>4, <2>2 DEF b
    <3> HIDE DEF Turn
    <3> QED BY <2>3, <3>1, NearerLasts
  <2>5. Turn(s)' = Turn(s) - Batch
    <3>1. cursor \in 0..(Symbols - 1) /\ s \in 1..Symbols
      BY DEF SourcesTyped, Row
    <3>2. /\ cursor' = IF cursor + Batch < Symbols THEN cursor + Batch ELSE cursor + Batch - Symbols
          /\ ~(Turn(s) < Batch)
      BY <1>1, <1>8, <3>1, BatchedIsNear
    <3> QED BY <3>1, <3>2 DEF Turn
  <2> USE DEF d
  <2> QED BY <1>1, <2>1, <2>4, <2>5 DEF Paced
<1>9. CASE s \in Batched
  <2>1. CASE HistoryFresh(s, end)
    <3>1. history'[s] = history[s]
      BY <1>1, <2>1, SweptHistory
    <3> QED BY <1>7, <2>1, <3>1 DEF HistoryFresh
  <2>2. CASE ~HistoryFresh(s, end)
    <3>1. history'[s] = end
      BY <1>1, <1>9, <2>2, SweptHistory
    <3>2. end - history'[s] < HistoryTtl - Ahead
      BY <1>5, <3>1, AheadIsEnough
    <3> QED BY <1>7, <3>2
  <2> QED BY <2>1, <2>2
<1> QED BY <1>8, <1>9

LEMMA CycleSwept ==
  ASSUME SourcesTyped, SourcesTyped', Aged, Swept, NEW force \in BOOLEAN,
         NEW end \in now..(now + 1), end <= MaxTime, NEW down, NEW raises \in BOOLEAN,
         RefreshCycle(force, end, down, raises)
  PROVE  Swept'
<1> USE Numbers
<1>1. end \in Instant /\ now' = end /\ woken' = end /\ now' <= woken' + Cadence
  BY DEF Instant, RefreshCycle, SourcesTyped
<1>2. CASE base'
  <2>1. Started' /\ Sweep(end, down)
    BY <1>2, StartedStays DEF RefreshCycle
  <2>2. \A s \in Row : history[s] # Never => history'[s] # Never
    BY <1>1, <2>1, SweptHistory, Instances
  <2>3. \A s \in Row : shown'.history[s] # Never => history'[s] # Never
    <3>1. CASE raises
      BY <2>2, <3>1 DEF RefreshCycle, Swept
    <3>2. CASE ~raises
      <4>1. shown'.history = Valid(history', end)
        BY <1>2, <3>2 DEF RefreshCycle, PublishRows
      <4> QED BY <4>1, ValidIsHistory DEF SourcesTyped
    <3> QED BY <3>1, <3>2
  <2>4. \A s \in Row \ missed' : history'[s] # Never => Paced(s)'
    BY <1>2, CyclePaces
  <2> QED BY <1>1, <2>1, <2>3, <2>4 DEF Swept
<1>3. CASE ~base'
  <2>1. ~Started /\ ~Started'
    BY <1>3, StartedStays
  <2>2. history' = history /\ shown' = shown
    BY <1>3 DEF RefreshCycle
  <2>3. Unpublished' = Unpublished
    BY DEF Unpublished
  <2> QED BY <1>1, <2>1, <2>2, <2>3 DEF Swept
<1> QED BY <1>2, <1>3

LEMMA ClickPaces ==
  ASSUME SourcesTyped, SourcesTyped', Swept, NEW c \in Row, NEW down,
         NEW expires, RefreshRow(c, down, expires),
         NEW s \in Row, s \notin missed', history'[s] # Never
  PROVE  Paced(s)'
<1> USE Numbers
<1>1. /\ woken' = now /\ cursor' = cursor /\ missed' = missed
      /\ history'[s] = history[s] \/ history'[s] = now
  BY DEF RefreshRow, SourcesTyped, Instants
<1>2. PICK t \in 0..1 : Counted(t, 1)
  BY DEF RefreshRow
<1>3. /\ Room \in Nat /\ Room' \in Nat /\ Room' = Room - t - 1 * Cadence
      /\ Room' <= MaxTrouble + MaxAsked * Cadence
  BY <1>2, CountedTakes DEF SourcesTyped
<1>4. Turn(s)' = Turn(s) /\ Turn(s) \in 0..(Symbols - 1)
  BY <1>1, BatchedIsNear DEF SourcesTyped, Turn
<1>5. now \in Int /\ woken \in Int /\ now <= woken + Cadence
  BY DEF SourcesTyped, Swept
<1>6. history[s] \in Int
  BY Instances DEF SourcesTyped, Instants
<1>7. CASE history'[s] = now
  <2>1. now - now < HistoryTtl - Ahead
    BY <1>5, AheadIsEnough
  <2>2. Room' <= MaxTrouble + MaxAsked * Cadence
    BY <1>3
  <2>3. Batch * (now + HistoryTtl - now - Room') > Cadence * Turn(s)
    BY <1>3, <1>4, <1>5, <2>1, <2>2, FreshLasts
  <2> QED BY <1>1, <1>4, <1>7, <2>3 DEF Paced
<1>8. CASE history'[s] = history[s]
  <2>1. Batch * (history[s] + HistoryTtl - woken - Room) > Cadence * Turn(s)
    BY <1>1, <1>8 DEF Swept, Paced
  <2> DEFINE b == history[s] + HistoryTtl - woken - Room
             d == history[s] + HistoryTtl - now - Room'
  <2>2. b \in Int /\ d \in Int /\ b <= d
    BY <1>3, <1>5, <1>6
  <2> HIDE DEF b, d
  <2>3. Batch * d > Cadence * Turn(s)
    <3>1. Batch * b > Cadence * Turn(s) /\ Turn(s) \in Nat
      BY <1>4, <2>1 DEF b
    <3> HIDE DEF Turn
    <3> QED BY <2>2, <3>1, LaterLasts
  <2> USE DEF d
  <2> QED BY <1>1, <1>4, <1>8, <2>3 DEF Paced
<1> QED BY <1>1, <1>7, <1>8

LEMMA ClickSwept ==
  ASSUME SourcesTyped, SourcesTyped', Swept, NEW c \in Row, NEW down,
         NEW expires, RefreshRow(c, down, expires)
  PROVE  Swept'
<1> USE Numbers
<1>1. now' = now /\ woken' = now /\ source' = source /\ shown # Unpublished
  BY DEF RefreshRow
<1>2. now' <= woken' + Cadence /\ Started'
  BY <1>1 DEF SourcesTyped, Swept, Started, Present
<1>3. \A s \in Row : history[s] # Never => history'[s] # Never
  <2>1. now # Never
    BY Instances DEF SourcesTyped, Instant
  <2> QED BY <2>1 DEF RefreshRow, SourcesTyped, Instants
<1>4. \A s \in Row : shown'.history[s] # Never => history'[s] # Never
  <2>1. CASE expires # "not"
    BY <1>3, <2>1 DEF RefreshRow, Swept
  <2>2. CASE expires = "not"
    <3>1. shown'.history = Valid(history', now)
      BY <2>2 DEF RefreshRow
    <3> QED BY <3>1, ValidIsHistory DEF SourcesTyped
  <2> QED BY <2>1, <2>2
<1>5. \A s \in Row \ missed' : history'[s] # Never => Paced(s)'
  BY ClickPaces
<1> QED BY <1>2, <1>4, <1>5 DEF Swept
-----------------------------------------------------------------------------
LEMMA SourcesStart == SourcesInit => SourcesInv
<1> SUFFICES ASSUME SourcesInit PROVE SourcesInv
  OBVIOUS
<1> USE Instances, Numbers, Names DEF SourcesInit
<1>1. SourcesTyped
  <2>1. /\ [p \in Panel |-> Nothing] \in Accounts /\ [p \in Panel |-> Never] \in Dates
        /\ [s \in Row |-> Never] \in Instants
    BY DEF Accounts, Dates, Instants
  <2>2. shown \in [account : Accounts, dated : Dates, limit : Instants, history : Instants]
    BY <2>1 DEF Unpublished
  <2>3. inputs \in [account : Accounts, limit : Instants, reference : BOOLEAN]
    BY <2>1
  <2>4. /\ source \in [Source -> Entry] /\ transport \in [Transported -> Held]
        /\ checked \in Dates /\ history \in Instants
        /\ limit \in [Row -> Entry] /\ limitHeld \in [Row -> Held]
    BY <2>1
  <2>5. /\ now \in 0..MaxTime /\ woken \in 0..now /\ cursor \in 0..(Symbols - 1)
        /\ count \in [trouble : 0..MaxTrouble, asked : 0..MaxAsked]
    OBVIOUS
  <2>6. clicked \subseteq Row /\ lost \in BOOLEAN /\ missed \subseteq Row
    OBVIOUS
  <2> QED BY <2>2, <2>3, <2>4, <2>5, <2>6 DEF SourcesTyped
<1>2. Aged
  BY DEF Aged, Nothing, Lasting, Young, Paired
<1>3. Dated
  BY DEF Dated, AccountDated, Unpublished, Present, Nothing
<1>4. Swept
  BY DEF Swept, Started, Present, Nothing, Unpublished
<1> QED BY <1>1, <1>2, <1>3, <1>4 DEF SourcesInv

LEMMA PassKeeps ==
  ASSUME SourcesInv, Pass
  PROVE  SourcesInv'
<1> USE Numbers DEF SourcesInv
<1>1. /\ now < MaxTime /\ now - woken < Cadence /\ now' = now + 1
      /\ woken' = woken /\ source' = source /\ transport' = transport /\ checked' = checked
      /\ history' = history /\ limit' = limit /\ limitHeld' = limitHeld /\ cursor' = cursor
      /\ inputs' = inputs /\ shown' = shown /\ lost' = lost /\ clicked' = clicked
      /\ missed' = missed /\ count' = count
  BY DEF Pass, caches, published
<1>2. now \in 0..MaxTime /\ woken \in 0..now
  BY DEF SourcesTyped
<1>3. SourcesTyped'
  BY <1>1, <1>2 DEF SourcesTyped
<1>4. Aged'
  <2>1. \A s \in Source : source[s].at <= now + 1
    <3> TAKE s \in Source
    <3>1. source[s].at \in Int /\ source[s].at <= now
      BY Instances DEF SourcesTyped, Aged, Entry
    <3> QED BY <1>2, <3>1
  <2>2. Aged' = (Aged /\ \A s \in Source : source[s].at <= now + 1)
    BY <1>1, <1>2, <2>1 DEF Aged, Paired, Lasting, Young, Present
  <2> QED BY <2>1, <2>2
<1>5. Dated'
  BY <1>1 DEF Dated, AccountDated, Present
<1>6. Swept'
  <2>1. Started' = Started /\ Unpublished' = Unpublished
    BY <1>1 DEF Started, Present, Unpublished
  <2>2. \A s : Paced(s)' = Paced(s)
    BY <1>1 DEF Paced, Room, Turn
  <2>3. now' <= woken' + Cadence
    BY <1>1, <1>2
  <2> QED BY <1>1, <2>1, <2>2, <2>3 DEF Swept
<1> QED BY <1>3, <1>4, <1>5, <1>6

LEMMA SourcesStep == SourcesInv /\ [SourcesNext]_(sourcesVars) => SourcesInv'
<1> SUFFICES ASSUME SourcesInv, [SourcesNext]_(sourcesVars) PROVE SourcesInv'
  OBVIOUS
<1> USE DEF SourcesInv
<1>1. ASSUME NEW force \in BOOLEAN, NEW end \in now..(now + 1), NEW down, NEW raises \in BOOLEAN,
             end <= MaxTime, RefreshCycle(force, end, down, raises)
      PROVE  SourcesInv'
  <2>1. SourcesTyped'
    BY <1>1, CycleTyped
  <2>2. Aged' /\ Dated' /\ Swept'
    BY <1>1, <2>1, CycleAged, CycleDated, CycleSwept
  <2> QED BY <2>1, <2>2
<1>2. ASSUME NEW s \in Row, NEW down, NEW expires, RefreshRow(s, down, expires)
      PROVE  SourcesInv'
  <2>1. SourcesTyped'
    BY <1>2, ClickTyped
  <2>2. Aged' /\ Dated' /\ Swept'
    BY <1>2, <2>1, ClickAged, ClickDated, ClickSwept
  <2> QED BY <2>1, <2>2
<1>3. CASE Pass
  BY <1>3, PassKeeps
<1>4. CASE UNCHANGED sourcesVars
  <2>1. SourcesTyped' /\ Aged'
    BY <1>4 DEF sourcesVars, caches, published, SourcesTyped, Aged, Paired, Lasting, Young, Present
  <2>2. Dated'
    BY <1>4 DEF sourcesVars, caches, published, Dated, AccountDated, Present
  <2>3. Swept'
    BY <1>4 DEF sourcesVars, caches, published, Swept, Started, Present, Unpublished,
                Paced, Room, Turn
  <2> QED BY <2>1, <2>2, <2>3
<1> QED BY <1>1, <1>2, <1>3, <1>4 DEF SourcesNext

(* A publication shows every history it showed before and could read.      *)
LEMMA HistoryStep ==
  ASSUME SourcesInv, SourcesInv', [SourcesNext]_(sourcesVars)
  PROVE  \A s \in Row :
           shown.history[s] # Never => shown'.history[s] # Never \/ s \in missed'
<1> USE DEF SourcesInv
<1>1. CASE shown' = shown
  BY <1>1
<1>2. CASE shown'.history = Valid(history', woken')
           /\ \A s \in Row : history[s] # Never => history'[s] # Never
  <2> SUFFICES ASSUME NEW s \in Row, shown.history[s] # Never, s \notin missed'
               PROVE  shown'.history[s] # Never
    OBVIOUS
  <2>1. history'[s] # Never
    BY <1>2 DEF Swept
  <2>2. Batch * (history'[s] + HistoryTtl - woken' - Room') > Cadence * Turn(s)'
    BY <2>1 DEF Swept, Paced
  <2>3. woken' \in Int /\ history'[s] \in Int /\ history' \in Instants
    <3>1. now' \in 0..MaxTime /\ woken' \in 0..now' /\ history' \in Instants
      BY DEF SourcesTyped
    <3>2. woken' \in Int
      BY <3>1
    <3>3. history'[s] \in Maybe
      BY <3>1 DEF Instants
    <3> QED BY <3>1, <3>2, <3>3, Instances
  <2>4. Room' \in Nat
    <3>1. MaxTrouble - count'.trouble \in Nat /\ MaxAsked - count'.asked \in Nat /\ Cadence \in Nat
      BY Numbers DEF SourcesTyped
    <3>2. \A i, j, k \in Nat : i + j * k \in Nat
      OBVIOUS
    <3> QED BY <3>1, <3>2 DEF Room
  <2>5. Turn(s)' \in Nat
    <3> DEFINE far(x) == IF s - 1 >= x THEN s - 1 - x ELSE s - 1 - x + Symbols
    <3>1. \A x \in 0..(Symbols - 1) : far(x) \in Nat
      BY Numbers DEF Row
    <3>2. Turn(s)' = far(cursor') /\ cursor' \in 0..(Symbols - 1)
      BY DEF Turn, SourcesTyped
    <3> HIDE DEF far
    <3> QED BY <3>1, <3>2
  <2>6. woken' - history'[s] < HistoryTtl
    BY <2>2, <2>3, <2>4, <2>5, LastingIsValid
  <2> QED BY <1>2, <2>1, <2>3, <2>6, ValidIsHistory
<1>3. ASSUME NEW force \in BOOLEAN, NEW end \in now..(now + 1), NEW down, NEW raises \in BOOLEAN,
             end <= MaxTime, RefreshCycle(force, end, down, raises)
      PROVE  \/ shown' = shown
             \/ /\ shown'.history = Valid(history', woken')
                /\ \A s \in Row : history[s] # Never => history'[s] # Never
  <2>1. CASE base' /\ ~raises
    <3>1. Sweep(end, down) /\ shown'.history = Valid(history', end) /\ woken' = end
      BY <1>3, <2>1 DEF RefreshCycle, PublishRows
    <3>2. end \in Instant
      BY <1>3, Numbers DEF Instant, SourcesTyped
    <3> QED BY <3>1, <3>2, SweptHistory, Instances
  <2>2. CASE ~(base' /\ ~raises)
    BY <1>3, <2>2 DEF RefreshCycle
  <2> QED BY <2>1, <2>2
<1>4. ASSUME NEW s \in Row, NEW down, NEW expires, RefreshRow(s, down, expires)
      PROVE  \/ shown' = shown
             \/ /\ shown'.history = Valid(history', woken')
                /\ \A x \in Row : history[x] # Never => history'[x] # Never
  <2>1. now # Never
    BY Instances DEF SourcesTyped, Instant
  <2> QED BY <1>4, <2>1 DEF RefreshRow, SourcesTyped, Instants
<1>5. CASE Pass \/ UNCHANGED sourcesVars
  BY <1>1, <1>5 DEF Pass, sourcesVars, published
<1> QED BY <1>1, <1>2, <1>3, <1>4, <1>5 DEF SourcesNext

(* The invariant of the caches: what one holds is as old as it says, or    *)
(* less than a lifetime of the slow transport older where a click shares   *)
(* its read or its reads may end half way; the dates are those of reads;   *)
(* every history lasts until the sweep comes back (snapshot_service.py     *)
(* _refresh_due_sources, _sweep_group_c).                                  *)
THEOREM SourcesInvariant ==
  SourcesSpec => []SourcesInv
<1>1. SourcesInit => SourcesInv
  BY SourcesStart
<1>2. SourcesInv /\ [SourcesNext]_(sourcesVars) => SourcesInv'
  BY SourcesStep
<1> QED BY <1>1, <1>2, PTL DEF SourcesSpec

(* For any rows, panels, lifetimes and faults: what a cache says was       *)
(* refreshed at an instant was read then, but what a click reads too and a *)
(* reference read half may be one lifetime of the slow transport older     *)
(* (snapshot_service.py _refresh_due_sources, config.py from_env).         *)
THEOREM AgesAreTrue ==
  SourcesSpec => []RefreshedIsRead
<1>1. SourcesInv => RefreshedIsRead
  <2> SUFFICES ASSUME SourcesInv PROVE RefreshedIsRead
    OBVIOUS
  <2> USE Instances, Numbers DEF SourcesInv
  <2>1. SourcesTypeOK
    <3>1. now \in Instant
      BY DEF SourcesTyped, Instant
    <3> QED BY <3>1 DEF SourcesTypeOK, SourcesTyped, Dated, Held, Dates, Instants
  <2> HIDE Numbers
  <2>2. \A e \in Entry : e.at \in Int /\ e.read \in Int
    BY DEF Entry
  <2>3. \A s \in Source \ Shared : source[s].read >= source[s].at
    BY <2>2 DEF Aged, SourcesTyped
  <2>4. \A s \in Row \ clicked : limit[s].read >= limit[s].at
    BY <2>2 DEF Aged, SourcesTyped
  <2>5. clicked = {} => source["info"].read >= source["info"].at
    <3>1. "info" \in Source
      BY Names
    <3> QED BY <2>2, <3>1 DEF Aged, SourcesTyped
  <2>6. \A e \in {source[s] : s \in Shared} \cup {limit[s] : s \in Row} : Young(e)
    BY DEF Aged
  <2> QED BY <2>1, <2>3, <2>4, <2>5, <2>6 DEF RefreshedIsRead, Young
<1> QED BY <1>1, SourcesInvariant, PTL

(* Unless the last cycle published nothing, the times printed beside the   *)
(* account are those of the account shown, also after clicks               *)
(* (snapshot_service.py _assemble).                                        *)
THEOREM AccountHasItsDates ==
  SourcesSpec => []AccountDated
<1>1. SourcesInv => AccountDated
  BY DEF SourcesInv, Dated
<1> QED BY <1>1, SourcesInvariant, PTL

(* For any batch, cadence and time ahead of the expiry that satisfy        *)
(* AheadAssumption, a history once shown stays while it can be read        *)
(* (snapshot_service.py _sweep_group_c, _history_refresh_ttl).             *)
THEOREM HistoriesStay ==
  SourcesSpec => HistoryStays
<1>1. SourcesInv /\ SourcesInv' /\ [SourcesNext]_(sourcesVars) =>
        [\A s \in Row :
           shown.history[s] # Never => shown'.history[s] # Never \/ s \in missed']_(sourcesVars)
  BY HistoryStep
<1> QED BY <1>1, SourcesInvariant, PTL DEF SourcesSpec, HistoryStays
=============================================================================
