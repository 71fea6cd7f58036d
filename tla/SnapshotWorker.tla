--------------------------- MODULE SnapshotWorker ---------------------------
(***************************************************************************)
(* The commands of the market snapshot worker (snapshot_service.py): clicks *)
(* on a symbol, the cache-refresh button and the hedge tasks' hook put      *)
(* commands into one queue, merge with a command that is in flight, and     *)
(* wait; one thread runs commands and scheduled ticks and publishes.  What  *)
(* a publication holds is the subject of SnapshotSources.                   *)
(***************************************************************************)
EXTENDS Naturals, Sequences, FiniteSets

CONSTANTS
  Symbol,       \* symbols of the published rows
  Client,       \* threads of the HTTP server
  MaxCommands,  \* bound: commands in a behaviour
  MaxTicks      \* bound: scheduled cycles

ASSUME BoundsAssumption == MaxCommands \in Nat /\ MaxTicks \in Nat

VARIABLES
  commands,     \* every command ever made, in order
  queue,        \* _command_queue: numbers of commands, 0 for the sentinel
  slot,         \* _inflight: [Key -> number of a command, 0 for none]
  worker,       \* the thread: where it stands, its command, what it will say
  stopping,     \* _stop_event
  version,      \* _published_version; 0 before the first publication
  author,       \* history: [version -> command that published it, 0 a tick]
  client,       \* [Client -> where its request stands]
  ticks         \* scheduled cycles so far, up to MaxTicks

vars == <<commands, queue, slot, worker, stopping, version, author, client, ticks>>

Cache == "cache"          \* _CACHE_INFLIGHT_KEY
Key == Symbol \cup {Cache}

(* A symbol is of letters and digits, the button's key is not.             *)
ASSUME CacheAssumption == Cache \notin Symbol

(* RefreshSymbolCommand and RefreshCacheCommand.  expired: its deadline    *)
(* has passed, which clients and worker read off the same clock.           *)
Command(k) ==
  [key |-> k, expired |-> FALSE, status |-> "none", version |-> 0, done |-> FALSE]

Running == worker.pc # "dead"

IdleClient == [pc |-> "idle", cmd |-> 0, seen |-> 0, answer |-> "none", late |-> FALSE]
At(pc, cmd, say) == [pc |-> pc, cmd |-> cmd, say |-> say]

Init ==
  /\ commands = <<>>
  /\ queue = <<>>
  /\ slot = [k \in Key |-> 0]
  /\ worker = At("cycle", 0, "none")
  /\ stopping = FALSE
  /\ version = 0
  /\ author = <<>>
  /\ client = [c \in Client |-> IdleClient]
  /\ ticks = 1
-----------------------------------------------------------------------------
(* Submitting.                                                             *)

(* Mutant: a click always makes a command of its own.                      *)
JoinableNever(k) == FALSE

(* A click joins what its slot holds; the button only what is unfinished.  *)
Joinable(k) ==
  /\ slot[k] # 0
  /\ k = Cache => ~commands[slot[k]].done

(* submit_refresh and submit_cache_refresh; number is the command to wait  *)
(* for afterwards.                                                         *)
Submit(k, number) ==
  IF Joinable(k)
  THEN /\ number = slot[k]
       /\ UNCHANGED <<commands, queue, slot>>
  ELSE /\ Len(commands) < MaxCommands
       /\ number = Len(commands) + 1
       /\ commands' = Append(commands, Command(k))
       /\ slot' = [slot EXCEPT ![k] = number]
       /\ queue' = Append(queue, number)

(* get_symbol_snapshot, as far as the wait: there is a publication, and    *)
(* the worker lives.                                                       *)
Click(c, s) ==
  /\ client[c].pc = "idle"
  /\ version > 0 /\ Running
  /\ \E n \in 1..MaxCommands :
       /\ Submit(s, n)
       /\ client' = [client EXCEPT ![c] =
            [IdleClient EXCEPT !.pc = "symbol", !.cmd = n, !.seen = version]]
  /\ UNCHANGED <<worker, stopping, version, author, ticks>>

(* Mutant: the row is taken from the state read before the command.        *)
ReadStateBefore(c) ==
  /\ client[c].pc = "symbol"
  /\ LET cmd == commands[client[c].cmd] IN
     /\ cmd.done \/ cmd.expired
     /\ client' = [client EXCEPT ![c].pc = "symbol read", ![c].late = ~cmd.done]
  /\ UNCHANGED <<commands, queue, slot, worker, stopping, version, author, ticks>>

(* The wait is over: the command is done, or its deadline has passed; the  *)
(* publication is read next ...                                            *)
ReadState(c) ==
  /\ client[c].pc = "symbol"
  /\ LET cmd == commands[client[c].cmd] IN
     /\ cmd.done \/ cmd.expired
     /\ client' = [client EXCEPT ![c].pc = "symbol read", ![c].seen = version,
                                 ![c].late = ~cmd.done]
  /\ UNCHANGED <<commands, queue, slot, worker, stopping, version, author, ticks>>

(* ... and what the command says of itself after that.                     *)
AnswerClick(c) ==
  /\ client[c].pc = "symbol read"
  /\ LET status == commands[client[c].cmd].status IN
     client' = [client EXCEPT ![c] =
       IF status \in {"ok", "partial"}
       THEN [client[c] EXCEPT !.pc = "idle", !.answer = status]
       ELSE [IdleClient EXCEPT !.answer = "timeout"]]
  /\ UNCHANGED <<commands, queue, slot, worker, stopping, version, author, ticks>>

(* _handle_cache_refresh, as far as its wait.                              *)
Press(c) ==
  /\ client[c].pc = "idle"
  /\ Running
  /\ \E n \in 1..MaxCommands :
       /\ Submit(Cache, n)
       /\ client' = [client EXCEPT ![c] = [IdleClient EXCEPT !.pc = "cache", !.cmd = n]]
  /\ UNCHANGED <<worker, stopping, version, author, ticks>>

(* The answer: 200 with the result, or 202 when the wait ran out first.    *)
AnswerPress(c, waited) ==
  /\ client[c].pc = "cache"
  /\ waited => commands[client[c].cmd].done
  /\ client' = [client EXCEPT ![c] =
       [IdleClient EXCEPT !.answer = IF waited THEN commands[client[c].cmd].status
                                     ELSE "queued"]]
  /\ UNCHANGED <<commands, queue, slot, worker, stopping, version, author, ticks>>

(* A hedge task left running: the hook submits and does not wait.          *)
Hook ==
  /\ \E n \in 1..MaxCommands : Submit(Cache, n)
  /\ UNCHANGED <<worker, stopping, version, author, client, ticks>>

(* The deadline of a symbol's command passes.                              *)
Expire(n) ==
  /\ n <= Len(commands)
  /\ commands[n].key \in Symbol /\ ~commands[n].expired
  /\ commands' = [commands EXCEPT ![n].expired = TRUE]
  /\ UNCHANGED <<queue, slot, worker, stopping, version, author, client, ticks>>

(* stop_worker: the flag, and the sentinel that wakes the loop.            *)
Stop ==
  /\ ~stopping
  /\ stopping' = TRUE
  /\ queue' = Append(queue, 0)
  /\ UNCHANGED <<commands, slot, worker, version, author, client, ticks>>
-----------------------------------------------------------------------------
(* The worker.                                                             *)

Mine == commands[worker.cmd]
Goto(pc) == worker' = [worker EXCEPT !.pc = pc]
Say(status) == worker' = At("tell", worker.cmd, status)

(* The loop: the next command, or a tick when none came in time.  The      *)
(* sentinel comes after the flag, so whatever is taken then ends the loop. *)
Loop ==
  /\ worker.pc = "idle"
  /\ \/ /\ queue # <<>>
        /\ queue' = Tail(queue)
        /\ LET n == Head(queue) IN
           worker' = IF stopping THEN At("dead", 0, "none")
                     ELSE IF commands[n].key = Cache THEN At("cycle", n, "none")
                     ELSE At("entry", n, "none")
        /\ UNCHANGED ticks
     \/ /\ queue = <<>> /\ ~stopping
        /\ ticks < MaxTicks
        /\ ticks' = ticks + 1
        /\ worker' = At("cycle", 0, "none")
        /\ UNCHANGED queue
  /\ UNCHANGED <<commands, slot, stopping, version, author, client>>

Publish ==
  /\ version' = version + 1
  /\ author' = Append(author, worker.cmd)

(* _run_refresh_cycle, for a tick or a cache command: it publishes, or it  *)
(* finds nothing to publish yet, or raises.                                *)
Cycle(publishes) ==
  /\ worker.pc = "cycle"
  /\ IF publishes THEN Publish ELSE UNCHANGED <<version, author>>
  /\ worker' = IF worker.cmd = 0 THEN At("idle", 0, "none")
               ELSE At("tell", worker.cmd, IF publishes THEN "published" ELSE "unpublished")
  /\ UNCHANGED <<commands, queue, slot, stopping, client, ticks>>

(* _handle_refresh_command: a command that expired in the queue, or whose  *)
(* symbol is gone, reads nothing.                                          *)
Enter(eligible) ==
  /\ worker.pc = "entry"
  /\ IF Mine.expired \/ ~eligible THEN Say("timeout") ELSE Goto("fetch")
  /\ UNCHANGED <<commands, queue, slot, stopping, version, author, client, ticks>>

(* The three phases before the commit, each closed by a gate: reading,     *)
(* where failures are warnings, assembling and validating, which may raise.*)
Fetch(status) ==
  /\ worker.pc = "fetch"
  /\ IF Mine.expired THEN Say("timeout") ELSE worker' = At("assemble", worker.cmd, status)
  /\ UNCHANGED <<commands, queue, slot, stopping, version, author, client, ticks>>

Assemble(raises) ==
  /\ worker.pc = "assemble"
  /\ IF raises \/ Mine.expired THEN Say("timeout") ELSE Goto("validate")
  /\ UNCHANGED <<commands, queue, slot, stopping, version, author, client, ticks>>

(* Mutant: the snapshot is published before the last gate looks.           *)
ValidatePublishesFirst(raises) ==
  /\ worker.pc = "validate"
  /\ IF raises THEN UNCHANGED <<version, author>> ELSE Publish
  /\ IF raises \/ Mine.expired THEN Say("timeout") ELSE Goto("tell")
  /\ UNCHANGED <<commands, queue, slot, stopping, client, ticks>>

Validate(raises) ==
  /\ worker.pc = "validate"
  /\ IF raises \/ Mine.expired THEN Say("timeout") ELSE Goto("commit")
  /\ UNCHANGED <<commands, queue, slot, stopping, version, author, client, ticks>>

(* The history cache and the publication; the deadline is not asked again. *)
Commit ==
  /\ worker.pc = "commit"
  /\ Publish
  /\ Goto("tell")
  /\ UNCHANGED <<commands, queue, slot, stopping, client, ticks>>

(* What the command says of itself, then that it is done.                  *)
Tell ==
  /\ worker.pc = "tell"
  /\ commands' = [commands EXCEPT
       ![worker.cmd].status = worker.say,
       ![worker.cmd].version = IF worker.say \in {"ok", "partial", "published"}
                               THEN version ELSE 0]
  /\ Goto("done")
  /\ UNCHANGED <<queue, slot, stopping, version, author, client, ticks>>

SetDone ==
  /\ worker.pc = "done"
  /\ commands' = [commands EXCEPT ![worker.cmd].done = TRUE]
  /\ Goto("release")
  /\ UNCHANGED <<queue, slot, stopping, version, author, client, ticks>>

(* Mutant: the slot keeps the finished command.                            *)
ReleaseKeeps ==
  /\ worker.pc = "release"
  /\ worker' = At("idle", 0, "none")
  /\ UNCHANGED <<commands, queue, slot, stopping, version, author, client, ticks>>

(* A symbol's slot is emptied if it still holds this command; the cache    *)
(* slot whatever command it holds.                                         *)
Release ==
  /\ worker.pc = "release"
  /\ slot' = [slot EXCEPT ![Mine.key] = IF Mine.key = Cache \/ @ = worker.cmd THEN 0 ELSE @]
  /\ worker' = At("idle", 0, "none")
  /\ UNCHANGED <<commands, queue, stopping, version, author, client, ticks>>

Work ==
  \/ Loop
  \/ \E b \in BOOLEAN : Cycle(b) \/ Enter(b) \/ Assemble(b) \/ Validate(b)
  \/ \E status \in {"ok", "partial"} : Fetch(status)
  \/ Commit \/ Tell \/ SetDone \/ Release

Finish(c) == ReadState(c) \/ AnswerClick(c) \/ \E b \in BOOLEAN : AnswerPress(c, b)

Next ==
  \/ Work
  \/ \E c \in Client : Finish(c) \/ Press(c) \/ \E s \in Symbol : Click(c, s)
  \/ Hook
  \/ \E n \in 1..MaxCommands : Expire(n)
  \/ Stop

(* The thread runs, waits run out, and deadlines pass.                     *)
Fairness ==
  /\ WF_vars(Work)
  /\ \A c \in Client : WF_vars(Finish(c))
  /\ \A n \in 1..MaxCommands : WF_vars(Expire(n))

Spec == Init /\ [][Next]_vars /\ Fairness
-----------------------------------------------------------------------------
Number == 0..MaxCommands

TypeOK ==
  /\ Len(commands) <= MaxCommands
  /\ \A n \in DOMAIN commands :
       /\ commands[n].key \in Key
       /\ \/ commands[n].status \in {"ok", "partial", "timeout", "published", "unpublished"}
          \/ commands[n].status = "none" /\ ~commands[n].done
  /\ queue \in Seq(Number)
  /\ slot \in [Key -> Number]
  /\ worker.pc \in {"idle", "cycle", "entry", "fetch", "assemble", "validate", "commit",
                    "tell", "done", "release", "dead"}
  /\ worker.cmd = 0 => worker.pc \in {"idle", "cycle", "dead"}
  /\ Len(author) = version
  /\ \A c \in Client : client[c].pc \in {"idle", "symbol", "symbol read", "cache"}

Unfinished(k) == {n \in DOMAIN commands : commands[n].key = k /\ ~commands[n].done}

(* Clicks on a symbol never stand in the queue twice: what is unfinished   *)
(* is in the slot, so the next click joins it -- through the moments       *)
(* between done and release, and expired commands that still wait          *)
(* (service.py submit_refresh, _release_inflight).                         *)
ClicksMerge ==
  /\ TypeOK
  /\ \A s \in Symbol : \A n \in Unfinished(s) : slot[s] = n

(* A command speaks the truth: it says timeout only if nothing of it was   *)
(* published, whichever gate closed, and names the version it published    *)
(* otherwise (service.py _handle_refresh_command).                         *)
SaysWhatHappened ==
  \A n \in DOMAIN commands :
    commands[n].status # "none" =>
      LET published == {v \in DOMAIN author : author[v] = n} IN
      published = IF commands[n].status \in {"timeout", "unpublished"} THEN {}
                  ELSE {commands[n].version}

(* A click answered ok or partial shows what its command published, or     *)
(* something newer, unless its wait had run out                            *)
(* (service.py get_symbol_snapshot).                                       *)
OkIsShown ==
  \A c \in Client :
    client[c].pc = "idle" /\ client[c].answer \in {"ok", "partial"} =>
      client[c].seen >= commands[client[c].cmd].version \/ client[c].late

(* Unless the worker stops, every command is carried out and leaves its    *)
(* slot, so that no click is answered for ever by a finished command, and  *)
(* every request is answered even if the worker does stop                  *)
(* (service.py _worker_loop, server.py _handle_cache_refresh).             *)
EveryRequestEnds ==
  /\ \A n \in 1..MaxCommands :
       n \in DOMAIN commands ~>
         \/ stopping
         \/ n \in DOMAIN commands /\ commands[n].done /\ \A k \in Key : slot[k] # n
  /\ \A c \in Client : client[c].pc # "idle" ~> client[c].pc = "idle"

=============================================================================
