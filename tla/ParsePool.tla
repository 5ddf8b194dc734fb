------------------------------ MODULE ParsePool ------------------------------
(***************************************************************************)
(* core's parse/workers.ts, parse/worker-entry.ts and parse/cache.ts: a    *)
(* pool deals the files of a project over worker threads, each of which    *)
(* reads, looks up and parses its batch file by file, and all of which     *)
(* share a cache directory with the pools of other processes and with what *)
(* is left of earlier pools of their own.  Files change meanwhile, a worker*)
(* may die of an error and a process may be interrupted anywhere.          *)
(***************************************************************************)
EXTENDS Integers, Sequences

CONSTANTS FileCount,    \* files are dealt in order: 1..FileCount
          Texts,        \* what a file may contain
          WorkerCount,  \* workers of a threaded pool
          Pids,         \* processes: one pool at a time each
          MaxPools,     \* bound on calls of parseFiles
          MaxEdits,     \* bound on changes to files
          MaxFailures,  \* bound on worker errors and interruptions
          None, Torn, Unreadable

ASSUME PoolAssumption ==
  /\ FileCount \in Nat \ {0} /\ WorkerCount \in 1..FileCount
  /\ MaxPools \in Nat /\ MaxEdits \in Nat /\ MaxFailures \in Nat

Files == 1..FileCount
Pools == 1..MaxPools
Workers == 1..WorkerCount

VARIABLES
  text,      \* each file's text, or Unreadable
  had,       \* for each pool, the texts each file has had since it started
  entry,     \* the cache: for each key nothing, a torn file or a result
  temp,      \* the temporary file of each process and key
  pool,      \* each call of parseFiles
  worker,    \* its workers
  edits, failures

vars == <<text, had, entry, temp, pool, worker, edits, failures>>

(* A parse result, as far as it must not be mixed up: its source references  *)
(* name the file, its content is that of the text.                           *)
Parse(f, t) == [file |-> f, text |-> t]
Results == [file : Files, text : Texts \cup {Unreadable}]
Stored == Results \cup {None, Torn}

ASSUME ValueAssumption ==
  /\ None # Torn /\ {None, Torn} \cap Results = {}
  /\ Texts # {} /\ {None, Unreadable} \cap Texts = {} /\ Pids # {}

(* Faulty: the key leaves out the path. *)
ContentKey(f, t) == <<1, t>>

(* xxhash64 of parser, schema version, path and text; the first two are the  *)
(* same for every run of one version, and collisions are not modelled.       *)
Key(f, t) == <<f, t>>
Keys == Files \X Texts

(* The name of a temporary carries the pid alone: two workers of a process   *)
(* writing one key write one file.  handle: where the file a worker has open *)
(* for writing is by now.                                                    *)
Worker == [pc : {"off", "starting", "read", "look", "truncate", "fill", "rename",
                 "reply", "closing", "ended", "failed"},
           batch : Seq(Files), text : Texts \cup {None}, out : [Files -> Results \cup {None}],
           handle : {"none", "temp", "entry", "gone"}]

TypeOK ==
  /\ text \in [Files -> Texts \cup {Unreadable}]
  /\ had \in [Pools -> [Files -> SUBSET (Texts \cup {Unreadable})]]
  /\ entry \in [Keys -> Stored]
  /\ temp \in [Pids \X Keys -> Stored]
  /\ pool \in [Pools -> [st : {"none", "running", "resolved", "rejected", "killed"},
                         pid : Pids, inline : BOOLEAN, results : [Files -> Results \cup {None}]]]
  /\ worker \in [Pools \X Workers -> Worker]
  /\ edits \in 0..MaxEdits /\ failures \in 0..MaxFailures

NoResults == [f \in Files |-> None]
Off == [pc |-> "off", batch |-> << >>, text |-> None, out |-> NoResults, handle |-> "none"]

Init ==
  /\ text = [f \in Files |-> CHOOSE t \in Texts : TRUE]
  /\ had = [p \in Pools |-> [f \in Files |-> {}]]
  /\ entry = [k \in Keys |-> None]
  /\ temp = [k \in Pids \X Keys |-> None]
  /\ pool = [p \in Pools |-> [st |-> "none", pid |-> CHOOSE i \in Pids : TRUE,
                              inline |-> FALSE, results |-> NoResults]]
  /\ worker = [w \in Pools \X Workers |-> Off]
  /\ edits = 0 /\ failures = 0

Pid(w) == pool[w[1]].pid
Current(w) == Head(worker[w].batch)
CurrentKey(w) == Key(Current(w), worker[w].text)
Alive(w) == worker[w].pc \notin {"off", "ended", "failed"}

-----------------------------------------------------------------------------
(* The main thread. *)

(* Round-robin: worker w takes files w, w + n, w + 2n, ... *)
Deal(w) == [i \in 1..((FileCount - w) \div WorkerCount + 1) |-> w + (i - 1) * WorkerCount]

(* parseFiles: threads, or the same loop inline where there is no worker     *)
(* entry or too few files.                                                   *)
StartPool(p, pid, inline) ==
  /\ pool[p].st = "none" /\ \A q \in Pools : q < p => pool[q].st # "none"
  /\ \A q \in Pools : pool[q].pid = pid => pool[q].st # "running"
  /\ pool' = [pool EXCEPT ![p] = [@ EXCEPT !.st = "running", !.pid = pid, !.inline = inline]]
  /\ had' = [had EXCEPT ![p] = [f \in Files |-> {text[f]}]]
  /\ worker' = [w \in Pools \X Workers |->
       IF w[1] # p THEN worker[w]
       ELSE IF inline
       THEN [Off EXCEPT !.pc = IF w[2] = 1 THEN "read" ELSE "ended",
                        !.batch = IF w[2] = 1 THEN [f \in Files |-> f] ELSE << >>]
       ELSE [Off EXCEPT !.pc = "starting", !.batch = Deal(w[2])]]
  /\ UNCHANGED <<text, entry, temp, edits, failures>>

(* The worker is up, its handshake arrives and the batch is sent. *)
OnReady(w) ==
  /\ worker[w].pc = "starting"
  /\ worker' = [worker EXCEPT ![w].pc = "read"]
  /\ UNCHANGED <<text, had, entry, temp, pool, edits, failures>>

(* Faulty: deaf once the run has been given up. *)
OnReplyWanted(w) ==
  /\ worker[w].pc = "reply" /\ pool[w[1]].st = "running"
  /\ worker' = [worker EXCEPT ![w] = [Off EXCEPT !.pc = "closing"]]
  /\ pool' = [pool EXCEPT ![w[1]].results =
                [f \in Files |-> IF worker[w].out[f] = None THEN @[f] ELSE worker[w].out[f]]]
  /\ UNCHANGED <<text, had, entry, temp, edits, failures>>

(* The results arrive, also those of a pool that has been given up. *)
OnReply(w) ==
  /\ worker[w].pc = "reply"
  /\ worker' = [worker EXCEPT ![w] = [Off EXCEPT !.pc = "closing"]]
  /\ pool' = [pool EXCEPT ![w[1]].results =
                [f \in Files |-> IF worker[w].out[f] = None THEN @[f] ELSE worker[w].out[f]]]
  /\ UNCHANGED <<text, had, entry, temp, edits, failures>>

(* terminate() has taken effect; Promise.all waits for the last of them. *)
Terminated(w) ==
  /\ worker[w].pc = "closing"
  /\ worker' = [worker EXCEPT ![w].pc = "ended"]
  /\ pool' = [pool EXCEPT ![w[1]].st =
                IF @ = "running" /\ \A v \in Workers \ {w[2]} : worker[<<w[1], v>>].pc = "ended"
                THEN "resolved" ELSE @]
  /\ UNCHANGED <<text, had, entry, temp, edits, failures>>

-----------------------------------------------------------------------------
(* A worker thread. *)

(* The file at hand is answered; after the last of the batch the reply. *)
Answer(w, result) ==
  LET r == worker[w] IN
  [Off EXCEPT !.pc = IF Len(r.batch) = 1 THEN "reply" ELSE "read", !.batch = Tail(r.batch),
              !.out = [r.out EXCEPT ![Current(w)] = result]]

(* An unreadable file is a diagnostic, not a crash. *)
Read(w) ==
  /\ worker[w].pc = "read"
  /\ LET t == text[Current(w)] IN
       worker' = [worker EXCEPT ![w] =
                    IF t = Unreadable THEN Answer(w, Parse(Current(w), Unreadable))
                    ELSE [@ EXCEPT !.pc = "look", !.text = t]]
  /\ UNCHANGED <<text, had, entry, temp, pool, edits, failures>>

(* ParseCache.get: what does not parse as JSON is a miss. *)
Look(w) ==
  /\ worker[w].pc = "look"
  /\ LET found == entry[CurrentKey(w)] IN
       worker' = [worker EXCEPT ![w] =
                    IF found \notin {None, Torn} THEN Answer(w, found)
                    ELSE [@ EXCEPT !.pc = "truncate"]]
  /\ UNCHANGED <<text, had, entry, temp, pool, edits, failures>>

Temporary(w) == <<Pid(w), CurrentKey(w)>>
Parsed(w) == Parse(Current(w), worker[w].text)

(* ParseCache.set: open and truncate the temporary, fill it, rename it. *)
Truncate(w) ==
  /\ worker[w].pc = "truncate"
  /\ temp' = [temp EXCEPT ![Temporary(w)] = Torn]
  /\ worker' = [worker EXCEPT ![w] = [@ EXCEPT !.pc = "fill", !.handle = "temp"]]
  /\ UNCHANGED <<text, had, entry, pool, edits, failures>>

(* The bytes go to the file opened, wherever a rename has put it since. *)
Fill(w) ==
  /\ worker[w].pc = "fill"
  /\ temp' = IF worker[w].handle = "temp" THEN [temp EXCEPT ![Temporary(w)] = Parsed(w)] ELSE temp
  /\ entry' = IF worker[w].handle = "entry" THEN [entry EXCEPT ![CurrentKey(w)] = Parsed(w)] ELSE entry
  /\ worker' = [worker EXCEPT ![w] = [@ EXCEPT !.pc = "rename", !.handle = "none"]]
  /\ UNCHANGED <<text, had, pool, edits, failures>>

(* A temporary somebody else has renamed is not there: an error, swallowed. *)
Rename(w) ==
  /\ worker[w].pc = "rename"
  /\ LET there == temp[Temporary(w)] # None
         moved(v) == CASE worker[v].handle = "temp" /\ Temporary(v) = Temporary(w) -> "entry"
                       [] worker[v].handle = "entry" /\ CurrentKey(v) = CurrentKey(w) -> "gone"
                       [] OTHER -> worker[v].handle
     IN
       /\ entry' = IF there THEN [entry EXCEPT ![CurrentKey(w)] = temp[Temporary(w)]] ELSE entry
       /\ temp' = [temp EXCEPT ![Temporary(w)] = None]
       /\ worker' = [v \in Pools \X Workers |->
            IF v = w THEN Answer(w, Parsed(w))
            ELSE IF there THEN [worker[v] EXCEPT !.handle = moved(v)] ELSE worker[v]]
  /\ UNCHANGED <<text, had, pool, edits, failures>>

WorkerStep(w) ==
  \/ OnReady(w) \/ Read(w) \/ Look(w) \/ Truncate(w) \/ Fill(w) \/ Rename(w)
  \/ OnReply(w) \/ Terminated(w)

-----------------------------------------------------------------------------
(* What goes wrong, MaxFailures times. *)

(* set() throws at any point and is swallowed: a slow run, not a failed one. *)
WriteFails(w) ==
  /\ worker[w].pc \in {"truncate", "fill", "rename"}
  /\ failures < MaxFailures /\ failures' = failures + 1
  /\ worker' = [worker EXCEPT ![w] = Answer(w, Parsed(w))]
  /\ UNCHANGED <<text, had, entry, temp, pool, edits>>

(* Faulty: nobody listens to the 'error' event. *)
WorkerFailsUnheard(w) ==
  /\ worker[w].pc \in {"starting", "read", "look", "truncate", "fill", "rename"}
  /\ failures < MaxFailures /\ failures' = failures + 1
  /\ worker' = [worker EXCEPT ![w] = [Off EXCEPT !.pc = "failed"]]
  /\ UNCHANGED <<text, had, entry, temp, pool, edits>>

(* The worker's 'error' event (inline: the loop throws) rejects the run; the *)
(* other workers go on.                                                      *)
WorkerFails(w) ==
  /\ worker[w].pc \in {"starting", "read", "look", "truncate", "fill", "rename"}
  /\ failures < MaxFailures /\ failures' = failures + 1
  /\ worker' = [worker EXCEPT ![w] = [Off EXCEPT !.pc = "failed"]]
  /\ pool' = [pool EXCEPT ![w[1]].st = IF @ = "running" THEN "rejected" ELSE @]
  /\ UNCHANGED <<text, had, entry, temp, edits>>

(* The whole process is interrupted. *)
Interrupt(pid) ==
  /\ failures < MaxFailures /\ failures' = failures + 1
  /\ \E w \in Pools \X Workers : Alive(w) /\ Pid(w) = pid
  /\ worker' = [w \in Pools \X Workers |->
                  IF Alive(w) /\ Pid(w) = pid THEN [Off EXCEPT !.pc = "failed"] ELSE worker[w]]
  /\ pool' = [p \in Pools |-> IF pool[p].st = "running" /\ pool[p].pid = pid
                              THEN [pool[p] EXCEPT !.st = "killed"] ELSE pool[p]]
  /\ UNCHANGED <<text, had, entry, temp, edits>>

(* A file is saved, or made unreadable. *)
Edit(f, t) ==
  /\ edits < MaxEdits /\ edits' = edits + 1
  /\ text' = [text EXCEPT ![f] = t]
  /\ had' = [p \in Pools |-> IF pool[p].st = "running" THEN [had[p] EXCEPT ![f] = @ \cup {t}]
                             ELSE had[p]]
  /\ UNCHANGED <<entry, temp, pool, worker, failures>>

Next ==
  \/ \E p \in Pools, pid \in Pids, inline \in BOOLEAN : StartPool(p, pid, inline)
  \/ \E w \in Pools \X Workers : WorkerStep(w) \/ WriteFails(w) \/ WorkerFails(w)
  \/ \E pid \in Pids : Interrupt(pid)
  \/ \E f \in Files, t \in Texts \cup {Unreadable} : Edit(f, t)

Spec == Init /\ [][Next]_vars

(* Threads run and messages between them arrive. *)
FairSpec == Spec /\ \A w \in Pools \X Workers : WF_vars(WorkerStep(w))

-----------------------------------------------------------------------------
(* Properties *)

(* parse/cache.ts:12-13, workers.ts:10-12 — whatever other pools, leftovers,   *)
(* edits and interruptions did to the shared cache, a finished run answers   *)
(* every file, with a parse of that file and of a text it had meanwhile.     *)
AnswersTheFiles ==
  \A p \in Pools : pool[p].st = "resolved" =>
    \A f \in Files :
      /\ pool[p].results[f] # None
      /\ pool[p].results[f].file = f
      /\ pool[p].results[f].text \in had[p][f]

(* parse/workers.ts:120-148 — every run ends, also when a worker dies. *)
RunSettles == []<>(\A p \in Pools : pool[p].st # "running")

(* parse/workers.ts:127-143 — no worker outlives its batch, not even those a  *)
(* rejected run has left behind: once MaxPools calls are made, all are gone. *)
LeftoversEnd == []<>(\A w \in Pools \X Workers : ~Alive(w))
=============================================================================
