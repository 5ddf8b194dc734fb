---------------------------- MODULE ReviewStore -----------------------------
(***************************************************************************)
(* `.axiomap/review.json`: core's review/state.ts and review/store.ts and  *)
(* the commands that change the file, `axiomap review` (set, --clear) and  *)
(* `axiomap diff --update-review`.  Each command is a process that reads   *)
(* the whole file, works, truncates the file and writes it whole; the file *)
(* is shared by an audit team and nothing locks it.  The code goes through *)
(* revisions, and a node is its stable id: a rename or a move is one id    *)
(* gone and another there.                                                 *)
(***************************************************************************)
EXTENDS Integers, FiniteSetsExt

CONSTANTS Procs,        \* shells the auditors type commands into
          Ids,          \* node ids, as numbers: Object.keys(..).sort() is <
          Bodies,       \* body hashes
          None,         \* no such node, no such entry
          MaxRevisions, \* bound on revisions of the code
          MaxCommands   \* bound on commands

ASSUME ReviewAssumption ==
  /\ Ids \subseteq Nat /\ Ids # {} /\ None \notin Bodies \cup Ids
  /\ MaxRevisions \in Nat \ {0} /\ MaxCommands \in Nat
(* There are finitely many ids: any of them have a last one in the order.    *)
ASSUME OrderAssumption ==
  \A S \in SUBSET Ids : S # {} => \E n \in S : \A o \in S : n >= o

VARIABLES
  code,    \* the revisions: for each, the body of every node it has
  file,    \* review.json: absent, torn or whole, and the last whole content
  proc,    \* the command each shell is running
  issued   \* how many commands there have been; also the clock of `at`

vars == <<code, file, proc, issued>>

Revisions == 1..MaxRevisions
Revision == [Ids -> Bodies \cup {None}]
Entry == [body : Bodies, at : 1..MaxCommands]

(* A review state: not every id has an entry. *)
Entries == [Ids -> Entry \cup {None}]
NoEntries == [n \in Ids |-> None]

(* NodeMatching.byBefore. *)
Match == [Ids -> Ids \cup {None}]
NoMatch == [n \in Ids |-> None]

(* was: what the file held, torn or not, when the command read it. *)
Command == [pc : {"idle", "loading", "ready", "writing"},
            op : {"set", "clear", "migrate"}, node : Ids, at : 0..MaxCommands,
            read : Entries, was : Entries, match : Match, next : Entries]

TypeOK ==
  /\ code \in [Revisions -> Revision]
  /\ file \in [st : {"absent", "torn", "whole"}, entries : Entries]
  /\ proc \in [Procs -> Command]
  /\ issued \in 0..MaxCommands

Idle == [pc |-> "idle", op |-> "set", node |-> CHOOSE n \in Ids : TRUE, at |-> 0,
         read |-> NoEntries, was |-> NoEntries, match |-> NoMatch, next |-> NoEntries]

Init ==
  /\ code \in [Revisions -> Revision]
  /\ file = [st |-> "absent", entries |-> NoEntries]
  /\ proc = [p \in Procs |-> Idle]
  /\ issued = 0

-----------------------------------------------------------------------------
(* The pure functions of state.ts. *)

SetReviewStatus(state, n, entry) == [state EXCEPT ![n] = entry]
Cleared(state, n) == [state EXCEPT ![n] = None]

(* matchNodes: one to one, and an id both revisions have is its own match. *)
Matchings(before, after) ==
  {m \in Match :
     \A n \in Ids :
       /\ before[n] = None => m[n] = None
       /\ before[n] # None /\ after[n] # None => m[n] = n
       /\ m[n] # None => after[m[n]] # None
       /\ \A o \in Ids : m[n] = m[o] /\ m[n] # None => n = o}

(* Where migrateReview puts the entry of n. *)
Destination(match, n) == IF match[n] = None THEN n ELSE match[n]

(* Faulty: starts from a copy of the old state. *)
MigrateCopy(state, match) ==
  [d \in Ids |->
     LET from == {n \in Ids : state[n] # None /\ Destination(match, n) = d}
     IN  IF from = {} THEN state[d] ELSE state[Max(from)]]

(* The loop runs over the sorted ids and a later assignment wins. *)
MigrateReview(state, match) ==
  [d \in Ids |->
     LET from == {n \in Ids : state[n] # None /\ Destination(match, n) = d}
     IN  IF from = {} THEN None ELSE state[Max(from)]]

-----------------------------------------------------------------------------
(* Faulty: what cannot be read is taken for an empty review. *)
ReadableAlways == TRUE

(* readReview: an absent file is empty, a torn one throws. *)
Readable == file.st # "torn"
ReadReview == IF file.st = "whole" THEN file.entries ELSE NoEntries

(* A command is typed; one that cannot read the file ends there. *)
Issue(p) ==
  /\ proc[p].pc = "idle" /\ issued < MaxCommands
  /\ issued' = issued + 1
  /\ Readable

(* axiomap review <node>: the file is read before the graph is loaded. *)
Review(p, n, op) ==
  /\ Issue(p)
  /\ proc' = [proc EXCEPT ![p] = [Idle EXCEPT !.pc = "loading", !.op = op, !.node = n,
                !.at = issued + 1, !.read = ReadReview, !.was = file.entries]]
  /\ UNCHANGED <<code, file>>

(* The graph is of whatever revision is checked out by now, or an older one  *)
(* with --stale.  requireNode throws where it has no such node.              *)
Loaded(p, r) ==
  LET c == proc[p]
      graph == code[r]
      next == IF c.op = "clear" THEN Cleared(c.read, c.node)
              ELSE SetReviewStatus(c.read, c.node, [body |-> graph[c.node], at |-> c.at])
  IN
  /\ c.pc = "loading"
  /\ proc' = [proc EXCEPT ![p] =
                IF graph[c.node] = None \/ (c.op = "clear" /\ c.read[c.node] = None)
                THEN Idle
                ELSE [c EXCEPT !.pc = "ready", !.next = next]]
  /\ UNCHANGED <<code, file, issued>>

(* axiomap diff <a> <b> --update-review: both graphs are built by now. *)
UpdateReview(p, a, b, match) ==
  /\ Issue(p)
  /\ a # b /\ match \in Matchings(code[a], code[b])
  /\ proc' = [proc EXCEPT ![p] =
                IF ReadReview = NoEntries THEN Idle
                ELSE [Idle EXCEPT !.pc = "ready", !.op = "migrate", !.at = issued + 1,
                        !.read = ReadReview, !.was = file.entries, !.match = match,
                        !.next = MigrateReview(ReadReview, match)]]
  /\ UNCHANGED <<code, file>>

(* writeReview: fs.writeFileSync truncates, then writes. *)
Truncate(p) ==
  /\ proc[p].pc = "ready"
  /\ proc' = [proc EXCEPT ![p].pc = "writing"]
  /\ file' = [file EXCEPT !.st = "torn"]
  /\ UNCHANGED <<code, issued>>

Write(p) ==
  /\ proc[p].pc = "writing"
  /\ file' = [st |-> "whole", entries |-> proc[p].next]
  /\ proc' = [proc EXCEPT ![p] = Idle]
  /\ UNCHANGED <<code, issued>>

(* Interrupted, or the load failed. *)
Die(p) ==
  /\ proc[p].pc # "idle"
  /\ proc' = [proc EXCEPT ![p] = Idle]
  /\ UNCHANGED <<code, file, issued>>

Next ==
  \E p \in Procs :
       \/ \E n \in Ids, op \in {"set", "clear"} : Review(p, n, op)
       \/ \E r \in Revisions : Loaded(p, r)
       \/ \E a, b \in Revisions, match \in Match : UpdateReview(p, a, b, match)
       \/ Truncate(p) \/ Write(p) \/ Die(p)

Spec == Init /\ [][Next]_vars

-----------------------------------------------------------------------------
(* Properties *)

(* review/state.ts:118-128, 153-159 and review/store.ts:27-30 — of the file   *)
(* as it was when a command read it, torn by a crash or not, each note that  *)
(* the command is not about is there once it has written: under its own id   *)
(* or, after --update-review, under the id its node moved to, unless two     *)
(* notes meet there.  A torn file in particular is never taken for an empty  *)
(* one.  It says nothing of what others wrote after the command had read:    *)
(* that is overwritten (commands/review.ts:61, 136).                         *)
RestIsKept ==
  [][\A p \in Procs :
       LET c == proc[p] IN
       c.pc = "writing" /\ proc'[p].pc = "idle" =>
         \A n \in Ids : c.was[n] # None =>
           IF c.op = "migrate"
           THEN \/ \E o \in Ids \ {n} : /\ c.was[o] # None
                                        /\ Destination(c.match, o) = Destination(c.match, n)
                \/ file'.entries[Destination(c.match, n)] = c.was[n]
           ELSE n = c.node \/ file'.entries[n] = c.was[n]
    ]_file

(* review/state.ts:142-147 — a review that followed its node has left the old *)
(* id: no interleaving of commands and migrations leaves one note standing   *)
(* for two nodes, in the file or in what a command is about to write.        *)
OnceEach(entries) ==
  \A n, o \in Ids : entries[n] # None /\ entries[o] # None /\ n # o
                      => entries[n].at # entries[o].at

NoteStandsOnce ==
  /\ OnceEach(file.entries)
  /\ \A p \in Procs : OnceEach(proc[p].next)
=============================================================================
