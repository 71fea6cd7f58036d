-------------------------- MODULE SnapshotSources --------------------------
(***************************************************************************)
(* What the market snapshot is made of and how old it is                   *)
(* (snapshot_service.py, private_client.py).  A value is the instant at    *)
(* which it was read at the exchange; its cache entry also has the instant *)
(* at which it was stamped.  The order of commands is the subject of       *)
(* SnapshotWorker; here one step is one whole cycle or click.  The names   *)
(* keep clear of SnapshotWorker's: SnapshotProofs extends both modules.    *)
(***************************************************************************)
EXTENDS Integers, FiniteSets

CONSTANTS
  Symbols,      \* number of rows; their order is the order of the sweep
  Private,      \* the private account panels, a subset of their four names
  Public,       \* public sources besides premium and group_b, a subset of three
  MaxTime,      \* bound: the clock
  MaxTrouble,   \* bound: failed reads, slow cycles, cycles that publish nothing
  MaxAsked,     \* bound: clicks and forced cycles
  CacheTtl,     \* cache_ttl_seconds
  FastTtl,      \* private_channel_fast_ttl_seconds
  GroupB,       \* GROUP_B_REFRESH_SECONDS
  SlowTtl,      \* private_channel_ttl_seconds
  HistoryTtl,   \* funding_history_cache_ttl_seconds
  Ahead,        \* HISTORY_REFRESH_AHEAD_SECONDS
  Batch,        \* history_sweep_batch_size
  Cadence       \* background_tick_seconds

Row == 1..Symbols
Panel == {"price"} \cup Private

(* classic_reference is three reads, and its entry in the cache one: here  *)
(* it is three sources that are stamped together.                          *)
Reference == {"pairs", "assets", "cross"}

(* The reads before a read of the reference; it ends at the first failure. *)
Earlier == [pairs |-> {}, assets |-> {"pairs"}, cross |-> {"pairs", "assets"}]

Transported == Private \cup {"info"} \cup Reference
Source == {"premium", "group_b"} \cup Public \cup Transported \cup Panel

ASSUME TtlAssumption ==
  /\ Private \subseteq {"unified", "um", "spot", "pm"} /\ "unified" \in Private
  /\ Public \subseteq {"book", "hyperliquid", "restricted"}
  /\ Symbols \in Nat \ {0} /\ Batch \in 1..Symbols
  /\ {MaxTime, MaxTrouble, MaxAsked, Cadence, CacheTtl, FastTtl, GroupB, SlowTtl,
      HistoryTtl, Ahead} \subseteq Nat

(* The transport forgets an answer before the caches above it ask again.   *)
(* The defaults are so; from_env enforces only the first part.             *)
ASSUME LifetimeAssumption == SlowTtl <= GroupB /\ FastTtl <= CacheTtl /\ SlowTtl <= HistoryTtl

(* The sweep comes back to a symbol before its history expires: batches,   *)
(* one late cycle and the ticks that commands postpone fit into the time   *)
(* ahead of the expiry.                                                    *)
ASSUME AheadAssumption ==
  /\ Ahead < HistoryTtl
  /\ Batch * (Ahead - MaxTrouble - MaxAsked * Cadence) >= (Symbols - 1) * Cadence

VARIABLES
  now,          \* the clock
  woken,        \* when the worker last took a command or ended a cycle
  source,       \* _global_source_cache: [Source -> [at, read]]
  transport,    \* PrivateClient._cache: [Transported -> [until, read]]
  checked,      \* _source_checked_at: [Panel -> instant]
  history,      \* _funding_history_cache: [Row -> instant]
  limit,        \* _max_borrowable_cache: [Row -> [at, read]]
  limitHeld,    \* the transport entries of the limits: [Row -> [until, read]]
  cursor,       \* _history_cursor, from 0
  base,         \* _base_raw is not None
  inputs,       \* _last_private_inputs: [account, limit, reference: it has one]
  shown,        \* the publication: [account, dated, limit, history]
  clicked,      \* history: symbols clicked
  lost,         \* history: a cycle since the publication published nothing
  missed,       \* history: symbols whose history could not be read
  count         \* history: [trouble, asked] so far

caches == <<source, transport, checked, history, limit, limitHeld, cursor, base>>
published == <<inputs, shown, lost>>
sourcesVars == <<now, woken, caches, published, clicked, missed, count>>

Never == 0 - MaxTime - 1
Nothing == [at |-> Never, read |-> Never]
NotHeld == [until |-> Never, read |-> Never]
Unpublished == [account |-> [p \in Panel |-> Nothing], dated |-> [p \in Panel |-> Never],
                limit |-> [s \in Row |-> Never], history |-> [s \in Row |-> Never]]

SourcesInit ==
  /\ now = 0 /\ woken = 0
  /\ source = [s \in Source |-> Nothing]
  /\ transport = [s \in Transported |-> NotHeld]
  /\ checked = [p \in Panel |-> Never]
  /\ history = [s \in Row |-> Never]
  /\ limit = [s \in Row |-> Nothing]
  /\ limitHeld = [s \in Row |-> NotHeld]
  /\ cursor = 0
  /\ base = FALSE
  /\ inputs = [account |-> [p \in Panel |-> Nothing], limit |-> [s \in Row |-> Never],
               reference |-> FALSE]
  /\ shown = Unpublished
  /\ clicked = {}
  /\ lost = FALSE
  /\ missed = {}
  /\ count = [trouble |-> 0, asked |-> 0]

Counted(trouble, asked) ==
  /\ count.trouble + trouble <= MaxTrouble
  /\ count.asked + asked <= MaxAsked
  /\ count' = [trouble |-> count.trouble + trouble, asked |-> count.asked + asked]
-----------------------------------------------------------------------------
(* A cycle.  It begins now and its private reads are made at the instant   *)
(* end; down is what cannot be read.                                       *)

Present(s) == source[s].at # Never

(* _source_due                                                             *)
Due(s, ttl) == ~Present(s) \/ now - source[s].at >= ttl

Ttl(s) == IF s \in {"group_b", "restricted", "info"} \cup Reference THEN GroupB ELSE CacheTtl

(* _cached_get: an entry is kept from the instant of the request on.       *)
Hit(entry, at) == entry.until > at

(* Mutant: the account panels are kept as long as the rest.                *)
LifetimeSlow(s) == SlowTtl

(* from_env: what the fast panels live                                     *)
Lifetime(s) == IF s \in Private THEN FastTtl ELSE SlowTtl

Forced(s, force) == force /\ s \in Panel \cup {"restricted"}

(* Which sources a cycle reads: what is due, the panels and the list when  *)
(* forced; the account only when the private channel answers.              *)
Attempts(force, end, down) ==
  LET wanted(s) == Forced(s, force) \/ Due(s, Ttl(s))
      usable == \/ Present("cross")
                \/ \A x \in Reference : wanted(x) /\ (Hit(transport[x], end) \/ x \notin down)
  IN {s \in Source : wanted(s) /\ (s \in Panel \cup {"info"} => usable)}

(* The transport answers a private read that is not forced.                *)
Served(s, force, end) ==
  /\ s \in Transported
  /\ ~Forced(s, force)
  /\ Hit(transport[s], end)

(* What of the missing the exchange answers: nothing of the reference      *)
(* after a read of it that failed.                                         *)
Answered(missing, down) ==
  {s \in missing \ down : s \in Reference => Earlier[s] \cap missing \cap down = {}}

(* Mutant: a panel is dated when a read of it was tried.                    *)
CheckedAtTried(tried, got, end) == [p \in Panel |-> IF p \in tried THEN end ELSE checked[p]]

(* A panel is dated by its last success.                                   *)
CheckedAt(tried, got, end) == [p \in Panel |-> IF p \in got THEN end ELSE checked[p]]

(* _refresh_due_sources: an entry changes only with a success, that of the *)
(* reference when all of it is there; the Hyperliquid entry is dropped by  *)
(* a failure.                                                              *)
RefreshSources(force, end, down) ==
  LET tried == Attempts(force, end, down)
      served == {s \in tried : Served(s, force, end)}
      fetched == Answered(tried \ served, down)
      answered == served \cup fetched
      got == {s \in answered : s \in Reference => Reference \subseteq answered}
  IN
  /\ source' = [s \in Source |->
       IF s \in got THEN [at |-> end, read |-> IF s \in served THEN transport[s].read ELSE end]
       ELSE IF s = "hyperliquid" /\ s \in tried THEN Nothing
       ELSE source[s]]
  /\ transport' = [s \in Transported |->
       IF s \in fetched THEN [until |-> end + Lifetime(s), read |-> end]
       ELSE IF s \in tried /\ Forced(s, force) THEN NotHeld
       ELSE transport[s]]
  /\ checked' = CheckedAt(tried, got, end)

(* Mutant: a history is read again only when it has expired.               *)
HistoryFreshToTheEnd(s, at) == history[s] # Never /\ at - history[s] < HistoryTtl

(* _history_is_fresh, by the time ahead of the expiry                      *)
HistoryFresh(s, at) == history[s] # Never /\ at - history[s] < HistoryTtl - Ahead

LimitDue(s) == limit[s].at = Never \/ now - limit[s].at >= HistoryTtl

NextCursor == (cursor + Batch) % Symbols

(* The symbols the sweep serves next.                                      *)
Batched == {((cursor + i) % Symbols) + 1 : i \in 0..(Batch - 1)}

(* _refresh_max_borrowable: the limit of a symbol, from the transport if   *)
(* it is held there; _refresh_borrow_rates treats the rate the same way,   *)
(* so one of the two is kept.                                              *)
ReadLimits(due, end, down) ==
  LET held == {s \in due : Hit(limitHeld[s], end)}
      fetched == IF "limit" \in down THEN {} ELSE due \ held
  IN
  /\ limit' = [s \in Row |->
       CASE s \in held -> [at |-> end, read |-> limitHeld[s].read]
         [] s \in fetched -> [at |-> end, read |-> end]
         [] OTHER -> limit[s]]
  /\ limitHeld' = [s \in Row |->
       IF s \in fetched THEN [until |-> end + SlowTtl, read |-> end] ELSE limitHeld[s]]

(* _fetch_history_for, for the symbols whose history is not fresh          *)
FetchHistories(unread, end, down) ==
  /\ history' = [s \in Row |-> IF s \in unread /\ "history" \notin down THEN end ELSE history[s]]
  /\ missed' = IF "history" \in down THEN missed \cup unread ELSE missed

(* _sweep_group_c: the histories of the batch, and the limits of those     *)
(* that are due; the cursor moves on whether or not anything was read.     *)
Sweep(end, down) ==
  /\ FetchHistories({s \in Batched : ~HistoryFresh(s, end)}, end, down)
  /\ ReadLimits({s \in Batched : source'["cross"].at # Never /\ LimitDue(s)}, end, down)
  /\ cursor' = NextCursor

(* _all_valid_history                                                      *)
Valid(h, at) == [s \in Row |-> IF at - h[s] < HistoryTtl THEN h[s] ELSE Never]

(* _gather_private_inputs_scheduled: the account panels as they are cached. *)
Gathered ==
  [account |-> IF source'["cross"].at # Never THEN [p \in Panel |-> source'[p]]
               ELSE [p \in Panel |-> Nothing],
   limit |-> [s \in Row |-> limit'[s].read],
   reference |-> source'["cross"].at # Never]

(* _assemble and _publish_validated                                        *)
PublishRows(in, histories) ==
  /\ inputs' = in
  /\ shown' = [account |-> in.account, dated |-> checked', limit |-> in.limit,
               history |-> histories]
  /\ lost' = FALSE

Faults == {"history", "limit"} \cup Source

(* _run_refresh_cycle.  Nothing is published before premium and group_b    *)
(* are there, nor if assembling or validating raises; what was read stays. *)
RefreshCycle(force, end, down, raises) ==
  /\ Counted(IF down # {} \/ end # now \/ raises THEN 1 ELSE 0, IF force THEN 1 ELSE 0)
  /\ RefreshSources(force, end, down)
  /\ base' = (source'["premium"].at # Never /\ source'["group_b"].at # Never)
  /\ IF base' THEN Sweep(end, down)
     ELSE UNCHANGED <<history, limit, limitHeld, cursor, missed>>
  /\ IF base' /\ ~raises
     THEN PublishRows(Gathered, Valid(history', end))
     ELSE lost' = TRUE /\ UNCHANGED <<inputs, shown>>
  /\ now' = end /\ woken' = end
  /\ UNCHANGED clicked
-----------------------------------------------------------------------------
(* A click: _handle_refresh_command and _gather_private_inputs_click.  The *)
(* account comes from the last publication, the limit of the symbol from a *)
(* forced read that its own cache does not get.  The cost leg beside it    *)
(* reads the account info and the cross margin data, and assembling reads  *)
(* a reference that the publication lacks: these are not forced, and what  *)
(* the transport lacks of them it gets.  A command that expires leaves its *)
(* mark on the transport only.                                             *)
RefreshRow(s, down, expires) ==
  /\ shown # Unpublished
  /\ Counted(IF down # {} \/ expires # "not" THEN 1 ELSE 0, 1)
  /\ LET read == "limit" \notin down
         lacks(x) == ~Hit(transport[x], now)
         chain == Answered({x \in {"info", "cross"} : lacks(x)}, down)
         assembles == expires # "reading" /\ ~inputs.reference
         missing == {x \in Reference \ chain : assembles /\ lacks(x)}
         renewed == chain \cup Answered(missing, down)
         in == [inputs EXCEPT !.limit[s] = IF read THEN now ELSE Never,
                              !.reference = @ \/ missing \subseteq renewed]
     IN
     /\ limitHeld' = [limitHeld EXCEPT ![s] =
                        IF read THEN [until |-> now + SlowTtl, read |-> now] ELSE NotHeld]
     /\ transport' = [x \in Transported |->
          IF x \in renewed THEN [until |-> now + Lifetime(x), read |-> now] ELSE transport[x]]
     /\ IF expires # "not"
        THEN UNCHANGED <<history, inputs, shown>>
        ELSE /\ history' = IF "history" \in down THEN history ELSE [history EXCEPT ![s] = now]
             /\ inputs' = in
             /\ shown' = [account |-> in.account, dated |-> checked, limit |-> in.limit,
                          history |-> Valid(history', now)]
  /\ clicked' = clicked \cup {s}
  /\ woken' = now
  /\ UNCHANGED <<now, source, checked, limit, cursor, base, lost, missed>>
-----------------------------------------------------------------------------
(* Time passes; the worker sleeps no longer than its cadence.              *)
Pass ==
  /\ now < MaxTime
  /\ now - woken < Cadence
  /\ now' = now + 1
  /\ UNCHANGED <<woken, caches, published, clicked, missed, count>>

Downs == {{}} \cup {{x} : x \in Faults}

SourcesNext ==
  \/ \E force \in BOOLEAN, end \in now..(now + 1), down \in Downs, raises \in BOOLEAN :
       /\ force \/ woken < now \/ ~base
       /\ end <= MaxTime
       /\ RefreshCycle(force, end, down, raises)
  \/ \E s \in Row, down \in Downs, expires \in {"not", "reading", "assembling"} :
       /\ down \subseteq {"history", "limit", "info"} \cup Reference
       /\ RefreshRow(s, down, expires)
  \/ Pass

SourcesSpec == SourcesInit /\ [][SourcesNext]_sourcesVars
-----------------------------------------------------------------------------
Instant == 0..MaxTime
Maybe == Instant \cup {Never}
Entry == [at : Maybe, read : Maybe]

(* The sources that a click reads too, or whose reads may end half way.    *)
Shared == {"info"} \cup Reference

SourcesTypeOK ==
  /\ now \in Instant /\ woken \in 0..now
  /\ source \in [Source -> Entry]
  /\ transport \in [Transported -> [until : Maybe \cup Nat, read : Maybe]]
  /\ checked \in [Panel -> Maybe]
  /\ history \in [Row -> Maybe]
  /\ limit \in [Row -> Entry]
  /\ cursor \in 0..(Symbols - 1)
  /\ \A p \in Panel : shown.account[p].at <= shown.dated[p]

(* What a cache says was refreshed at an instant was not read before it:   *)
(* the transport below never hands an older answer to a refresh (config.py *)
(* from_env, service.py _refresh_due_sources).  Two exceptions, which the  *)
(* comment at config.py:65 excludes: the reads a click shares with the     *)
(* caches (the limit of its symbol, the account info, the cross margin     *)
(* data), and what was read of a reference whose later read failed.  Such  *)
(* an answer is stamped when it is older, but younger than one lifetime of *)
(* the slow transport.                                                     *)
RefreshedIsRead ==
  /\ SourcesTypeOK
  /\ \A s \in Source \ Shared : source[s].read >= source[s].at
  /\ clicked = {} => source["info"].read >= source["info"].at
  /\ \A s \in Row \ clicked : limit[s].read >= limit[s].at
  /\ \A e \in {source[s] : s \in Shared} \cup {limit[s] : s \in Row} :
       e.read >= e.at \/ e.at - e.read < SlowTtl

(* A history once shown never disappears while it can be read, however     *)
(* clicks and late cycles push the sweep back (service.py _sweep_group_c,  *)
(* _history_refresh_ttl).                                                  *)
HistoryStays ==
  [][ \A s \in Row : shown.history[s] # Never => shown'.history[s] # Never \/ s \in missed' ]_sourcesVars

(* The times printed beside the account are those of the data shown, also  *)
(* when a click shows the account of an earlier publication; only a cycle  *)
(* that published nothing breaks the pair (service.py _assemble).          *)
AccountDated ==
  \A p \in Panel : lost \/ shown.dated[p] = shown.account[p].at
=============================================================================
