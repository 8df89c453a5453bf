---------------------------- MODULE EventJournal ----------------------------
(***************************************************************************)
(* Results and operator commands as they go through the journal: once,     *)
(* append and list of src/core/event-journal.js, complete and              *)
(* operatorCommand of the runtime, and persist and restart of the service. *)
(*                                                                         *)
(* A caller may send anything at any time, again, late, or under a key it  *)
(* has used before.  A call that once answers from its record, one that it *)
(* refuses and one that throws change nothing.  The snapshot is taken in   *)
(* one go, but its entries are those of the live journal: they are written *)
(* as they are when the file is, after an await.                           *)
(***************************************************************************)
EXTENDS RepairController, FiniteSets

CONSTANTS
  Ids,         \* idempotency keys and command ids
  NoId,        \* a call without one
  MaxEntries,  \* maxEntries of the journal
  Page,        \* the limit a reader asks for
  MaxRestarts  \* bound: restarts of the process

ASSUME JournalAssumption ==
  NoId \notin Ids /\ {MaxEntries, Page} \subseteq Nat \ {0} /\ MaxRestarts \in Nat

Results == [call: {"result"}, task: Keys, verification: Verification]
Releases == [call: {"resolve-verification-gate"}, task: Keys]
Switches == [call: {"pause-dispatch", "resume-dispatch"}]
Unused == [call |-> "none"]

VARIABLES
  status,   \* OPEN: the task can come to a result; BLOCKED; DONE: ACCEPTED or FAILED
  paused,   \* dispatch is paused
  keys,     \* idempotency: the request each key was used for
  took,     \* how often the calls under a key took effect in what has survived (not in the code)
  journal,  \* the sequence and the entries; an entry's stamp tells it from any other ever made
  reader,   \* somebody who pages through GET /events
  capture,  \* the snapshot that persist is writing
  file,     \* what the snapshot file holds, with `saved`
  rewound,  \* a restart took numbers back that were in use (not in the code)
  restarts  \* how many restarts there were (not in the code)

liveVars == <<status, paused, keys, took>>
journalVars == <<repairVars, liveVars, journal, reader, capture, file, rewound, restarts>>

Live == [status |-> status, paused |-> paused, keys |-> keys, took |-> took]
NoCapture == [taken |-> FALSE]
NoFile == [written |-> FALSE]

JournalInit ==
  /\ RepairInit
  /\ status = [k \in Keys |-> "OPEN"] /\ paused = FALSE
  /\ keys = [i \in Ids |-> Unused] /\ took = [i \in Ids |-> 0]
  /\ journal = [sequence |-> 0, entries |-> <<>>, stamp |-> 0]
  /\ reader = [after |-> 0, seen |-> {}]
  /\ capture = NoCapture /\ file = NoFile
  /\ rewound = FALSE /\ restarts = 0

----------------------------------------------------------------------------
(* append and once. *)

\* The oldest entries give way.
Newest(entries) ==
  IF Len(entries) <= MaxEntries THEN entries
  ELSE SubSeq(entries, Len(entries) - MaxEntries + 1, Len(entries))

Appended(j, count) ==
  [sequence |-> j.sequence + count, stamp |-> j.stamp + count,
   entries |-> Newest(j.entries \o [n \in 1..count |->
                        [sequence |-> j.sequence + n, stamp |-> j.stamp + n]])]

NewUnlessRepeated(id, request) == id \in Ids => keys[id] # request

\* The first use of a key that was not refused: any later one finds the record.
New(id, request) == id \in Ids => keys[id] = Unused

\* The producer went through: the key is recorded and its events are in the journal.
Once(id, request, events) ==
  /\ New(id, request)
  /\ keys' = [i \in Ids |-> IF i = id THEN request ELSE keys[i]]
  /\ took' = [i \in Ids |-> IF i = id THEN took[i] + 1 ELSE took[i]]
  /\ journal' = Appended(journal, events)
  /\ UNCHANGED <<reader, capture, file, rewound, restarts>>

----------------------------------------------------------------------------
(* What is called. *)

\* The economic gate may block what was accepted.
After(action) ==
  CASE action \in {"RETRY_REPAIR", "ESCALATE"} -> {"BLOCKED"}
    [] action = "ACCEPT" -> {"DONE", "BLOCKED"}
    [] OTHER -> {"DONE"}

\* A result that bears the task's present claim; any other throws.
Complete(id, r) ==
  /\ status[r.task] = "OPEN"
  /\ Decide(r.task, r.verification)
  /\ \E s \in After(ActionFor(history[r.task], r.verification)) :
       status' = [status EXCEPT ![r.task] = s]
  /\ Once(id, r, 1)
  /\ UNCHANGED paused

\* The gate is resolved with evidence.  It takes two events, one of them the command's.
Release(id, r) ==
  /\ status[r.task] = "BLOCKED"
  /\ status' = [status EXCEPT ![r.task] = "OPEN"]
  /\ Once(id, r, 2)
  /\ UNCHANGED <<repairVars, paused>>

Switch(id, r) ==
  /\ paused' = (r.call = "pause-dispatch")
  /\ Once(id, r, 1)
  /\ UNCHANGED <<repairVars, status>>

\* A repair that closes its parent: no call of its own.
CloseByRepair(k) ==
  /\ status[k] = "BLOCKED"
  /\ Reset(k)
  /\ status' = [status EXCEPT ![k] = "DONE"]
  /\ UNCHANGED <<paused, keys, took, journal, reader, capture, file, rewound, restarts>>

\* GET /events?afterSequence: the first of the entries that follow.
Read ==
  LET entries == journal.entries
      later == {n \in DOMAIN entries : entries[n].sequence > reader.after}
      page == {n \in later : Cardinality({m \in later : m <= n}) <= Page}
  IN  /\ \E last \in page :
           /\ \A n \in page : n <= last
           /\ reader' = [after |-> entries[last].sequence,
                         seen |-> reader.seen \cup {entries[n] : n \in page}]
      /\ UNCHANGED <<repairVars, liveVars, journal, capture, file, rewound, restarts>>

----------------------------------------------------------------------------
(* persist, and a crash with the restart after it. *)

\* Bound: one snapshot for each restart.
Capture ==
  /\ ~capture.taken /\ ~file.written /\ restarts < MaxRestarts
  /\ capture' = [taken |-> TRUE, live |-> Live, sequence |-> journal.sequence,
                 repairs |-> [history |-> history, granted |-> granted]]
  /\ UNCHANGED <<repairVars, liveVars, journal, reader, file, rewound, restarts>>

Write ==
  /\ capture.taken
  /\ file' = [written |-> TRUE, live |-> capture.live, sequence |-> capture.sequence,
              entries |-> journal.entries]
  /\ saved' = capture.repairs
  /\ capture' = NoCapture
  /\ UNCHANGED <<history, granted, decisions, liveVars, journal, reader, rewound, restarts>>

RestoredSequenceByCount(f) == Len(f.entries)

RestoredSequence(f) == f.sequence

RestoredKeys(f) == f.live.keys

LastNumber(entries) == IF entries = <<>> THEN 0 ELSE entries[Len(entries)].sequence

\* The restart is an event of its own.  Bound: a file was written before.
Restart ==
  /\ file.written /\ restarts < MaxRestarts
  /\ RestoreRepairs
  /\ status' = file.live.status /\ paused' = file.live.paused
  /\ keys' = RestoredKeys(file) /\ took' = file.live.took
  /\ journal' = Appended([sequence |-> RestoredSequence(file), entries |-> file.entries,
                          stamp |-> journal.stamp], 1)
  /\ rewound' = (rewound \/ reader.after > file.sequence
                         \/ LastNumber(file.entries) > file.sequence)
  /\ capture' = NoCapture /\ file' = NoFile
  /\ restarts' = restarts + 1
  /\ UNCHANGED reader

JournalNext ==
  \/ \E id \in Ids \cup {NoId} :
       \/ \E r \in Results : Complete(id, r)
       \/ id # NoId /\ \E r \in Releases : Release(id, r)
       \/ id # NoId /\ \E r \in Switches : Switch(id, r)
  \/ \E k \in Keys : CloseByRepair(k)
  \/ Read \/ Capture \/ Write \/ Restart

JournalSpec == JournalInit /\ [][JournalNext]_journalVars

----------------------------------------------------------------------------
(* Properties, with those of RepairController. *)

\* FAILURE_RECOVERY.md, durable command deduplication: the same call under the same key, sent
\* again late or after a crash, does nothing again, and the key serves no other call.
CallsTakeEffectOnce == \A i \in Ids : took[i] <= 1

\* As long as no restart takes numbers back, the entries are in order and none that a reader
\* has gone past is one it has not seen.  Entries that were dropped leave a gap in the numbers it
\* saw; a restart may bring one of them back, but gives no number to two entries.
ReadersMissNothing ==
  LET entries == journal.entries IN
  ~rewound =>
    /\ \A m, n \in DOMAIN entries : m < n => entries[m].sequence < entries[n].sequence
    /\ \A n \in DOMAIN entries : entries[n].sequence <= reader.after =>
         \/ entries[n] \in reader.seen
         \/ restarts > 0 /\ \A e \in reader.seen : e.sequence # entries[n].sequence
=============================================================================
