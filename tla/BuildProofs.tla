----------------------------- MODULE BuildProofs -----------------------------
(***************************************************************************)
(* What a build of the graph runs.                                         *)
(*                                                                         *)
(* A finished run of the parse pool answers every file with a parse of     *)
(* that file and of a text it had during the run, for any number of files, *)
(* workers, processes and runs over one cache directory.                   *)
(*                                                                         *)
(* The cache never needs to be trusted for when it was written, only for   *)
(* what: an entry or a temporary is empty, torn, or the parse its key      *)
(* stands for (CacheSound), whoever wrote it and whatever became of the    *)
(* file under the writer's handle.  For the run itself, every file is      *)
(* answered or is still with a worker that has not failed (Covered), and   *)
(* what a worker holds is of the file at hand and of a text read during    *)
(* the run (Truthful).                                                     *)
(*                                                                         *)
(* The merge of the orders of the bases of a contract finds an order that  *)
(* keeps them all exactly when there is one (by Progress, after each       *)
(* pass), and the collapse of the drafts into edges and the score lose no  *)
(* site and count none twice (by Collapsed, after each draft).             *)
(***************************************************************************)
EXTENDS ParsePool, C3, Edges, SequenceTheorems, FiniteSetTheorems, WellFoundedInduction, TLAPS

All == Pools \X Workers
Seen == [Files -> SUBSET (Texts \cup {Unreadable})]

(* The pc's with a file at hand, and with that file's text.                  *)
Busy == {"starting", "read", "look", "truncate", "fill", "rename"}
InHand == {"look", "truncate", "fill", "rename"}

CacheSound ==
  /\ \A k \in Keys : entry[k] \in {None, Torn, Parse(k[1], k[2])}
  /\ \A i \in Pids, k \in Keys : temp[<<i, k>>] \in {None, Torn, Parse(k[1], k[2])}

Shape(r) ==
  /\ r.pc \in Busy <=> r.batch # << >>
  /\ r.pc \in InHand => r.text \in Texts
  /\ r.pc \in {"off", "closing", "ended", "failed"} => r.out = NoResults

(* A result for f of a text that was seen. *)
Own(result, f, seen) == result.file = f /\ result.text \in seen[f]

Truthful(r, seen) ==
  /\ \A f \in Files : r.out[f] # None => Own(r.out[f], f, seen)
  /\ r.pc \in InHand => r.text \in seen[Head(r.batch)]

(* f is with a worker: answered, or still to be. *)
Has(r, f) == r.out[f] # None \/ \E i \in 1..Len(r.batch) : r.batch[i] = f

Covered(p) ==
  \A f \in Files : pool[p].results[f] # None \/ \E v \in Workers : Has(worker[<<p, v>>], f)

Believable(p) ==
  \A f \in Files : pool[p].results[f] # None => Own(pool[p].results[f], f, had[p])

PoolSound(p) ==
  /\ pool[p].st = "none" =>
       /\ pool[p].results = NoResults
       /\ \A v \in Workers : worker[<<p, v>>].pc = "off"
  /\ pool[p].st = "running" =>
       /\ \A f \in Files : text[f] \in had[p][f]
       /\ \A v \in Workers : /\ worker[<<p, v>>].pc \notin {"off", "failed"}
                             /\ Truthful(worker[<<p, v>>], had[p])
       /\ Believable(p) /\ Covered(p)
  /\ pool[p].st = "resolved" =>
       /\ \A v \in Workers : worker[<<p, v>>].pc = "ended"
       /\ \A f \in Files : pool[p].results[f] # None
       /\ Believable(p)

IInv == /\ TypeOK /\ CacheSound
        /\ \A w \in All : Shape(worker[w])
        /\ \A p \in Pools : PoolSound(p)

USE PoolAssumption

-----------------------------------------------------------------------------
(* deal() gives every file to a worker. *)

LEMMA Division ==
  ASSUME NEW x \in Nat, NEW n \in Nat \ {0}
  PROVE  /\ x \div n \in Nat /\ x % n \in 0..(n - 1)
         /\ x = n * (x \div n) + (x % n)
OBVIOUS

LEMMA Below ==
  ASSUME NEW x \in Nat, NEW n \in Nat \ {0}
  PROVE  x >= n * (x \div n)
<1> DEFINE d == x \div n
           m == x % n
<1>1. d \in Nat /\ m \in 0..(n - 1) /\ x = n * d + m
  BY Division
<1>. HIDE DEF d, m
<1>2. x >= n * d
  BY <1>1
<1>. QED
  BY <1>2 DEF d

LEMMA Product ==
  ASSUME NEW a \in Nat, NEW b \in Nat, NEW n \in Nat, a <= b
  PROVE  a * n \in Nat /\ n * b \in Nat /\ a * n <= n * b
OBVIOUS

LEMMA Quotient ==
  ASSUME NEW x \in Nat, NEW n \in Nat \ {0}, NEW q \in Nat, x >= n * q
  PROVE  x \div n >= q
<1> DEFINE d == x \div n
           m == x % n
<1>1. d \in Nat /\ m \in 0..(n - 1) /\ x = n * d + m
  BY Division
<1>. HIDE DEF d, m
<1>2. ASSUME d < q PROVE FALSE
  <2>1. n * q >= n * d + n
    <3>1. PICK k \in Nat : q = d + 1 + k
      BY <1>1, <1>2
    <3>2. n * q = n * d + n + n * k /\ n * k \in Nat /\ n * d \in Nat
      BY <1>1, <3>1
    <3>. QED
      BY <3>2
  <2>. QED
    BY <1>1, <2>1
<1>. QED
  BY <1>1, <1>2 DEF d

LEMMA DealType == ASSUME NEW w \in Workers PROVE Deal(w) \in Seq(Files) /\ Deal(w) # << >>
<1>1. PICK x \in Nat : x = FileCount - w
  BY DEF Workers
<1>2. PICK last \in Nat : last = x \div WorkerCount /\ x >= WorkerCount * last
  <2>1. WorkerCount \in Nat \ {0}
    OBVIOUS
  <2>2. x \div WorkerCount \in Nat /\ x >= WorkerCount * (x \div WorkerCount)
    BY <2>1, Division, Below
  <2>. QED
    BY <2>2
<1>3. ASSUME NEW i \in 1..(last + 1) PROVE w + (i - 1) * WorkerCount \in Files
  <2>1. i - 1 \in Nat /\ i - 1 <= last
    BY <1>3
  <2>2. /\ WorkerCount * last \in Nat
        /\ (i - 1) * WorkerCount \in Nat /\ (i - 1) * WorkerCount <= WorkerCount * last
    BY <2>1, Product
  <2>. QED
    BY <1>1, <1>2, <2>2 DEF Files, Workers
<1>4. [i \in 1..(last + 1) |-> w + (i - 1) * WorkerCount] \in Seq(Files)
  BY <1>3
<1>5. Deal(w) = [i \in 1..(last + 1) |-> w + (i - 1) * WorkerCount]
  BY <1>1, <1>2 DEF Deal
<1>6. Len([i \in 1..(last + 1) |-> w + (i - 1) * WorkerCount]) = last + 1
  OBVIOUS
<1>. QED
  BY <1>4, <1>5, <1>6

LEMMA DealCovers ==
  ASSUME NEW f \in Files
  PROVE  \E w \in Workers : \E i \in 1..Len(Deal(w)) : Deal(w)[i] = f
<1>1. PICK y \in Nat : y = f - 1
  BY DEF Files
<1>2. PICK q \in Nat, w \in Workers : f = WorkerCount * q + w
  <2>1. WorkerCount \in Nat \ {0}
    OBVIOUS
  <2>2. /\ y \div WorkerCount \in Nat /\ y % WorkerCount \in 0..(WorkerCount - 1)
        /\ y = WorkerCount * (y \div WorkerCount) + (y % WorkerCount)
    BY <2>1, Division
  <2>3. PICK q \in Nat, m \in 0..(WorkerCount - 1) : y = WorkerCount * q + m
    BY <2>2
  <2>4. m + 1 \in Workers /\ f = WorkerCount * q + (m + 1)
    BY <1>1, <2>3 DEF Workers, Files
  <2>. QED
    BY <2>4
<1>3. PICK x \in Nat : x = FileCount - w
  BY DEF Workers
<1>4. x >= WorkerCount * q
  BY <1>2, <1>3 DEF Files, Workers
<1>5. PICK last \in Nat : last = x \div WorkerCount /\ last >= q
  <2>1. WorkerCount \in Nat \ {0}
    OBVIOUS
  <2>2. x \div WorkerCount \in Nat /\ x \div WorkerCount >= q
    BY <1>4, <2>1, Division, Quotient
  <2>. QED
    BY <2>2
<1>6. f = w + ((q + 1) - 1) * WorkerCount
  BY <1>2 DEF Workers
<1>7. Deal(w) = [i \in 1..(last + 1) |-> w + (i - 1) * WorkerCount]
  BY <1>3, <1>5 DEF Deal
<1>8. q + 1 \in 1..(last + 1)
  BY <1>5
<1>9. Len(Deal(w)) = last + 1 /\ Deal(w)[q + 1] = w + ((q + 1) - 1) * WorkerCount
  BY <1>7, <1>8
<1>. QED
  BY <1>6, <1>8, <1>9
-----------------------------------------------------------------------------
(* Values *)

LEMMA ParseType ==
  ASSUME NEW f \in Files, NEW t \in Texts \cup {Unreadable}
  PROVE  Parse(f, t) \in Results /\ Parse(f, t).file = f /\ Parse(f, t).text = t
BY DEF Parse, Results

LEMMA ResultIsNoMark == \A r \in Results : r # None /\ r # Torn
BY ValueAssumption

LEMMA OffType == Off \in Worker /\ Shape(Off) /\ Off.batch = << >> /\ Off.out = NoResults
BY DEF Off, Worker, NoResults, Shape, Busy, InHand

(* The file at hand answered. *)
LEMMA AnswerType ==
  ASSUME NEW w, worker[w] \in Worker, Shape(worker[w]),
         worker[w].batch # << >>, NEW result \in Results
  PROVE  /\ Answer(w, result) \in Worker
         /\ Shape(Answer(w, result))
         /\ Current(w) \in Files
         /\ Answer(w, result).pc \in {"read", "reply"}
         /\ Answer(w, result).out = [worker[w].out EXCEPT ![Current(w)] = result]
         /\ \A f \in Files : Has(worker[w], f) => Has(Answer(w, result), f)
<1> DEFINE r == worker[w]
           a == Answer(w, result)
<1>1. /\ r.batch \in Seq(Files) /\ r.out \in [Files -> Results \cup {None}]
  BY DEF Worker
<1>2. /\ Head(r.batch) \in Files /\ Tail(r.batch) \in Seq(Files)
      /\ Len(r.batch) \in Nat \ {0} /\ Len(Tail(r.batch)) = Len(r.batch) - 1
      /\ \A i \in 1..Len(Tail(r.batch)) : Tail(r.batch)[i] = r.batch[i + 1]
      /\ Head(r.batch) = r.batch[1]
  BY <1>1
<1>3. /\ a.pc = IF Len(r.batch) = 1 THEN "reply" ELSE "read"
      /\ a.batch = Tail(r.batch) /\ a.text = None /\ a.handle = "none"
      /\ a.out = [r.out EXCEPT ![Head(r.batch)] = result]
  BY DEF Answer, Off, Current
<1>4. a \in Worker
  BY <1>1, <1>2 DEF Answer, Off, Current, Worker
<1>5. Tail(r.batch) = << >> <=> Len(r.batch) = 1
  <2>1. Tail(r.batch) = << >> <=> Len(Tail(r.batch)) = 0
    BY <1>2, EmptySeq
  <2>. QED
    BY <1>2, <2>1
<1>6. Shape(a)
  BY <1>3, <1>5 DEF Shape, Busy, InHand
<1>7. ASSUME NEW f \in Files, Has(r, f) PROVE Has(a, f)
  <2>1. CASE r.out[f] # None \/ f = Head(r.batch)
    BY <1>1, <1>2, <1>3, <2>1, ResultIsNoMark DEF Has
  <2>2. CASE r.out[f] = None /\ f # Head(r.batch)
    <3>1. PICK i \in 1..Len(r.batch) : r.batch[i] = f
      BY <1>7, <2>2 DEF Has
    <3>2. i # 1 /\ i - 1 \in 1..Len(Tail(r.batch)) /\ Tail(r.batch)[i - 1] = f
      BY <1>2, <2>2, <3>1
    <3>. QED
      BY <1>3, <3>2 DEF Has
  <2>. QED
    BY <2>1, <2>2
<1>. QED
  BY <1>2, <1>3, <1>4, <1>6, <1>7 DEF Current

(* What a worker that answered holds is still of texts that were seen. *)
LEMMA AnswerTruth ==
  ASSUME NEW w, worker[w] \in Worker, Shape(worker[w]), worker[w].batch # << >>,
         NEW result \in Results, NEW seen, Truthful(worker[w], seen),
         Own(result, Current(w), seen)
  PROVE  Truthful(Answer(w, result), seen)
<1>1. worker[w].out \in [Files -> Results \cup {None}]
  BY DEF Worker
<1>2. /\ Answer(w, result).out = [worker[w].out EXCEPT ![Current(w)] = result]
      /\ Answer(w, result).pc \notin InHand
  BY AnswerType DEF InHand
<1>3. ASSUME NEW f \in Files, Answer(w, result).out[f] # None
      PROVE  Own(Answer(w, result).out[f], f, seen)
  <2>1. CASE f = Current(w)
    BY <1>1, <1>2, <2>1
  <2>2. CASE f # Current(w)
    BY <1>1, <1>2, <1>3, <2>2 DEF Truthful
  <2>. QED
    BY <2>1, <2>2
<1>. QED
  BY <1>2, <1>3 DEF Truthful

-----------------------------------------------------------------------------
(* Two workers that differ in nothing but where their open file is. *)
Alike(r, s) == r.pc = s.pc /\ r.batch = s.batch /\ r.text = s.text /\ r.out = s.out

(* A step of one worker that loses none of its files and takes up no text    *)
(* but one that was seen.                                                    *)
LEMMA WorkerMoves ==
  ASSUME IInv, TypeOK', NEW w \in All,
         UNCHANGED <<text, had, pool>>,
         \A v \in All \ {w} : Alike(worker'[v], worker[v]),
         Shape(worker'[w]), worker'[w].pc \notin {"off", "failed"},
         worker[w].pc \notin {"off", "ended"},
         \A f \in Files : Has(worker[w], f) => Has(worker'[w], f),
         pool[w[1]].st = "running" => Truthful(worker'[w], had[w[1]])
  PROVE  /\ \A v \in All : Shape(worker[v])'
         /\ \A p \in Pools : PoolSound(p)'
<1>1. ASSUME NEW v \in All PROVE Shape(worker[v])'
  BY <1>1 DEF IInv, Alike, Shape
<1>2. ASSUME NEW p \in Pools PROVE PoolSound(p)'
  <2>1. \A v \in Workers : <<p, v>> \in All /\ <<p, v>>[1] = p
    BY DEF All
  <2>2. ASSUME NEW v \in Workers, <<p, v>> # w, NEW f
        PROVE  Has(worker'[<<p, v>>], f) <=> Has(worker[<<p, v>>], f)
    BY <2>1, <2>2 DEF Alike, Has
  <2>3. ASSUME NEW v \in Workers, <<p, v>> # w, Truthful(worker[<<p, v>>], had[p])
        PROVE  Truthful(worker'[<<p, v>>], had[p])
    BY <2>1, <2>3 DEF Alike, Truthful
  <2>4. ASSUME NEW v \in Workers, <<p, v>> # w
        PROVE  worker'[<<p, v>>].pc = worker[<<p, v>>].pc
    BY <2>1, <2>4 DEF Alike
  <2>5. Covered(p) => Covered(p)'
    BY <2>1, <2>2 DEF Covered
  <2>6. PoolSound(p)
    BY DEF IInv
  <2>7. pool[p].st \in {"none", "resolved"} => \A v \in Workers : <<p, v>> # w
    BY <2>6 DEF PoolSound
  <2>. QED
    BY <2>1, <2>3, <2>4, <2>5, <2>6, <2>7 DEF PoolSound, Believable
<1>. QED
  BY <1>1, <1>2

-----------------------------------------------------------------------------
(* Facts about the worker at hand. *)
LEMMA AtHand ==
  ASSUME IInv, NEW w \in All, worker[w].pc \in Busy
  PROVE  /\ w[1] \in Pools /\ w[2] \in Workers /\ w = <<w[1], w[2]>>
         /\ worker[w] \in Worker /\ Shape(worker[w]) /\ worker[w].batch # << >>
         /\ Current(w) \in Files
         /\ worker[w].pc \in InHand => /\ CurrentKey(w) \in Keys /\ Temporary(w) \in Pids \X Keys
                                       /\ CurrentKey(w)[1] = Current(w)
                                       /\ CurrentKey(w)[2] = worker[w].text
                                       /\ Parsed(w) = Parse(CurrentKey(w)[1], CurrentKey(w)[2])
                                       /\ Parsed(w) \in Results
<1>1. w[1] \in Pools /\ w[2] \in Workers /\ w = <<w[1], w[2]>>
  BY DEF All
<1>2. worker[w] \in Worker /\ Shape(worker[w])
  BY DEF IInv, TypeOK, All
<1>3. worker[w].batch # << >> /\ worker[w].batch \in Seq(Files)
  BY <1>2 DEF Shape, Worker
<1>4. Current(w) \in Files
  BY <1>3 DEF Current
<1>5. ASSUME worker[w].pc \in InHand
      PROVE  /\ CurrentKey(w) \in Keys /\ Temporary(w) \in Pids \X Keys
             /\ CurrentKey(w)[1] = Current(w) /\ CurrentKey(w)[2] = worker[w].text
             /\ Parsed(w) = Parse(CurrentKey(w)[1], CurrentKey(w)[2])
             /\ Parsed(w) \in Results
  <2>1. worker[w].text \in Texts
    BY <1>2, <1>5 DEF Shape
  <2>2. Pid(w) \in Pids
    BY <1>1 DEF IInv, TypeOK, Pid
  <2>3. Parsed(w) \in Results
    BY <1>4, <2>1, ParseType DEF Parsed
  <2>. QED
    BY <1>4, <2>1, <2>2, <2>3 DEF CurrentKey, Key, Keys, Temporary, Parsed
<1>. QED
  BY <1>1, <1>2, <1>3, <1>4, <1>5

LEMMA MoveType ==
  ASSUME IInv, NEW w \in All, NEW r \in Worker
  PROVE  [worker EXCEPT ![w] = r] \in [All -> Worker]
BY DEF IInv, TypeOK, All

(* A file at hand answered with a result of its own. *)
LEMMA Answered ==
  ASSUME IInv, TypeOK', NEW w \in All, worker[w].pc \in Busy,
         NEW result \in Results,
         UNCHANGED <<text, had, pool>>,
         \A v \in All \ {w} : Alike(worker'[v], worker[v]),
         worker'[w] = Answer(w, result),
         pool[w[1]].st = "running" => Own(result, Current(w), had[w[1]])
  PROVE  /\ \A v \in All : Shape(worker[v])'
         /\ \A p \in Pools : PoolSound(p)'
<1>1. /\ w[1] \in Pools /\ w[2] \in Workers /\ w = <<w[1], w[2]>>
      /\ worker[w] \in Worker /\ Shape(worker[w]) /\ worker[w].batch # << >>
  BY AtHand
<1>2. /\ Shape(worker'[w]) /\ worker'[w].pc \in {"read", "reply"}
      /\ \A f \in Files : Has(worker[w], f) => Has(worker'[w], f)
  <2>1. /\ Shape(Answer(w, result)) /\ Answer(w, result).pc \in {"read", "reply"}
        /\ \A f \in Files : Has(worker[w], f) => Has(Answer(w, result), f)
    BY <1>1, AnswerType
  <2>. QED
    BY <2>1, Zenon
<1>3. ASSUME pool[w[1]].st = "running" PROVE Truthful(worker'[w], had[w[1]])
  <2>1. Truthful(worker[w], had[w[1]])
    BY <1>1, <1>3 DEF IInv, PoolSound
  <2>. QED
    BY <1>1, <1>3, <2>1, AnswerTruth
<1>. QED
  BY <1>2, <1>3, WorkerMoves DEF Busy

(* The file at hand kept at hand. *)
SameWork(r, s) == r.batch = s.batch /\ r.out = s.out /\ r.text = s.text

LEMMA WorksOn ==
  ASSUME IInv, TypeOK', NEW w \in All, worker[w].pc \in InHand,
         UNCHANGED <<text, had, pool>>,
         \A v \in All \ {w} : Alike(worker'[v], worker[v]),
         worker'[w].pc \in InHand, SameWork(worker'[w], worker[w])
  PROVE  /\ \A v \in All : Shape(worker[v])'
         /\ \A p \in Pools : PoolSound(p)'
<1>1. Shape(worker'[w])
  BY DEF IInv, Shape, SameWork, InHand, Busy
<1>2. \A f \in Files : Has(worker[w], f) => Has(worker'[w], f)
  BY DEF Has, SameWork
<1>3. pool[w[1]].st = "running" => Truthful(worker'[w], had[w[1]])
  BY DEF IInv, PoolSound, Truthful, SameWork, All
<1>. QED
  BY <1>1, <1>2, <1>3, WorkerMoves DEF InHand

-----------------------------------------------------------------------------
(* The steps of a worker. *)

LEMMA OnReadyStep == ASSUME IInv, NEW w \in All, OnReady(w) PROVE IInv'
<1>1. worker[w].pc = "starting" /\ worker' = [worker EXCEPT ![w].pc = "read"]
      /\ UNCHANGED <<text, had, entry, temp, pool, edits, failures>>
  BY DEF OnReady
<1>2. worker[w] \in Worker /\ Shape(worker[w]) /\ w \in DOMAIN worker
  BY DEF IInv, TypeOK, All
<1>3. [worker[w] EXCEPT !.pc = "read"] \in Worker
  BY <1>2 DEF Worker
<1>4. TypeOK'
  BY <1>1, <1>3, MoveType DEF IInv, TypeOK, All
<1>5. worker'[w] = [worker[w] EXCEPT !.pc = "read"]
  BY <1>1, <1>2
<1>6. /\ worker'[w].pc = "read" /\ worker'[w].batch = worker[w].batch
      /\ worker'[w].out = worker[w].out /\ worker'[w].text = worker[w].text
  BY <1>2, <1>5 DEF Worker
<1>7. Shape(worker'[w])
  BY <1>1, <1>2, <1>6 DEF Shape, Busy, InHand
<1>8. \A f \in Files : Has(worker[w], f) => Has(worker'[w], f)
  BY <1>6 DEF Has
<1>9. pool[w[1]].st = "running" => Truthful(worker'[w], had[w[1]])
  BY <1>6 DEF IInv, PoolSound, Truthful, All, InHand
<1>10. \A v \in All \ {w} : Alike(worker'[v], worker[v])
  BY <1>1 DEF Alike, IInv, TypeOK, All
<1>11. (\A v \in All : Shape(worker[v])') /\ \A p \in Pools : PoolSound(p)'
  BY <1>1, <1>4, <1>6, <1>7, <1>8, <1>9, <1>10, WorkerMoves
<1>12. CacheSound'
  BY <1>1 DEF IInv, CacheSound
<1>. QED
  BY <1>4, <1>11, <1>12 DEF IInv

LEMMA ReadStep == ASSUME IInv, NEW w \in All, Read(w) PROVE IInv'
<1>1. worker[w].pc = "read" /\ UNCHANGED <<text, had, entry, temp, pool, edits, failures>>
  BY DEF Read
<1>2. /\ w[1] \in Pools /\ w[2] \in Workers /\ w = <<w[1], w[2]>>
      /\ worker[w] \in Worker /\ Shape(worker[w]) /\ worker[w].batch # << >>
      /\ Current(w) \in Files /\ w \in DOMAIN worker
  BY <1>1, AtHand DEF Busy, IInv, TypeOK, All
<1>3. CacheSound'
  BY <1>1 DEF IInv, CacheSound
<1>4. pool[w[1]].st = "running" => text[Current(w)] \in had[w[1]][Current(w)]
  BY <1>2 DEF IInv, PoolSound
<1>5. CASE text[Current(w)] = Unreadable
  <2>1. worker' = [worker EXCEPT ![w] = Answer(w, Parse(Current(w), Unreadable))]
    BY <1>5 DEF Read
  <2>2. PICK result : result = Parse(Current(w), Unreadable)
    OBVIOUS
  <2>3. /\ result \in Results
        /\ result.file = Current(w) /\ result.text = Unreadable
    BY <1>2, <2>2, ParseType
  <2>4. Answer(w, result) \in Worker
    BY <1>2, <2>3, AnswerType
  <2>5. TypeOK'
    BY <1>1, <2>1, <2>2, <2>4, MoveType DEF IInv, TypeOK, All
  <2>6. worker'[w] = Answer(w, result)
        /\ \A v \in All \ {w} : Alike(worker'[v], worker[v])
    BY <1>2, <2>1, <2>2 DEF Alike, IInv, TypeOK, All
  <2>7. pool[w[1]].st = "running" => Own(result, Current(w), had[w[1]])
    BY <1>4, <1>5, <2>3 DEF Own
  <2>8. (\A v \in All : Shape(worker[v])') /\ \A p \in Pools : PoolSound(p)'
    BY <1>1, <2>3, <2>5, <2>6, <2>7, Answered DEF Busy
  <2>. QED
    BY <1>3, <2>5, <2>8 DEF IInv
<1>6. CASE text[Current(w)] # Unreadable
  <2>1. worker' = [worker EXCEPT ![w] = [@ EXCEPT !.pc = "look", !.text = text[Current(w)]]]
    BY <1>6 DEF Read
  <2>2. text[Current(w)] \in Texts
    BY <1>2, <1>6 DEF IInv, TypeOK
  <2>3. worker'[w] = [worker[w] EXCEPT !.pc = "look", !.text = text[Current(w)]]
    BY <1>2, <2>1
  <2>4. worker'[w] \in Worker
    BY <1>2, <2>2, <2>3 DEF Worker
  <2>5. TypeOK'
    BY <1>1, <2>1, <2>3, <2>4, MoveType DEF IInv, TypeOK, All
  <2>6. /\ worker'[w].pc = "look" /\ worker'[w].batch = worker[w].batch
        /\ worker'[w].out = worker[w].out /\ worker'[w].text = text[Current(w)]
    BY <1>2, <2>3 DEF Worker
  <2>7. Shape(worker'[w])
    BY <1>2, <2>2, <2>6 DEF Shape, Busy, InHand
  <2>8. \A f \in Files : Has(worker[w], f) => Has(worker'[w], f)
    BY <2>6 DEF Has
  <2>9. pool[w[1]].st = "running" => Truthful(worker'[w], had[w[1]])
    BY <1>2, <1>4, <2>6 DEF IInv, PoolSound, Truthful, InHand, Current
  <2>10. \A v \in All \ {w} : Alike(worker'[v], worker[v])
    BY <2>1 DEF Alike, IInv, TypeOK, All
  <2>11. (\A v \in All : Shape(worker[v])') /\ \A p \in Pools : PoolSound(p)'
    BY <1>1, <2>5, <2>6, <2>7, <2>8, <2>9, <2>10, WorkerMoves
  <2>. QED
    BY <1>3, <2>5, <2>11 DEF IInv
<1>. QED
  BY <1>5, <1>6

LEMMA LookStep == ASSUME IInv, NEW w \in All, Look(w) PROVE IInv'
<1>1. worker[w].pc = "look" /\ UNCHANGED <<text, had, entry, temp, pool, edits, failures>>
  BY DEF Look
<1>2. /\ w[1] \in Pools /\ w[2] \in Workers /\ w = <<w[1], w[2]>>
      /\ worker[w] \in Worker /\ Shape(worker[w]) /\ worker[w].batch # << >>
      /\ Current(w) \in Files /\ w \in DOMAIN worker
      /\ CurrentKey(w) \in Keys /\ CurrentKey(w)[1] = Current(w)
      /\ CurrentKey(w)[2] = worker[w].text /\ worker[w].text \in Texts
  BY <1>1, AtHand DEF Busy, InHand, IInv, TypeOK, All, Shape
<1>3. CacheSound'
  BY <1>1 DEF IInv, CacheSound
<1>4. pool[w[1]].st = "running" => worker[w].text \in had[w[1]][Current(w)]
  BY <1>1, <1>2 DEF IInv, PoolSound, Truthful, InHand, Current
<1>5. CASE entry[CurrentKey(w)] \notin {None, Torn}
  <2>1. PICK result : result = entry[CurrentKey(w)]
    OBVIOUS
  <2>2. worker' = [worker EXCEPT ![w] = Answer(w, result)]
    BY <1>5, <2>1 DEF Look
  <2>3. result = Parse(Current(w), worker[w].text)
    BY <1>2, <1>5, <2>1 DEF IInv, CacheSound
  <2>4. result \in Results /\ result.file = Current(w) /\ result.text = worker[w].text
    BY <1>2, <2>3, ParseType
  <2>5. Answer(w, result) \in Worker
    BY <1>2, <2>4, AnswerType
  <2>6. TypeOK'
    BY <1>1, <2>2, <2>5, MoveType DEF IInv, TypeOK, All
  <2>7. worker'[w] = Answer(w, result)
        /\ \A v \in All \ {w} : Alike(worker'[v], worker[v])
    BY <1>2, <2>2 DEF Alike, IInv, TypeOK, All
  <2>8. pool[w[1]].st = "running" => Own(result, Current(w), had[w[1]])
    BY <1>4, <2>4 DEF Own
  <2>9. (\A v \in All : Shape(worker[v])') /\ \A p \in Pools : PoolSound(p)'
    BY <1>1, <2>4, <2>6, <2>7, <2>8, Answered DEF Busy
  <2>. QED
    BY <1>3, <2>6, <2>9 DEF IInv
<1>6. CASE entry[CurrentKey(w)] \in {None, Torn}
  <2>1. worker' = [worker EXCEPT ![w] = [@ EXCEPT !.pc = "truncate"]]
    BY <1>6 DEF Look
  <2>2. worker'[w] = [worker[w] EXCEPT !.pc = "truncate"]
    BY <1>2, <2>1
  <2>3. worker'[w] \in Worker
    BY <1>2, <2>2 DEF Worker
  <2>4. TypeOK'
    BY <1>1, <2>1, <2>2, <2>3, MoveType DEF IInv, TypeOK, All
  <2>5. worker'[w].pc = "truncate" /\ SameWork(worker'[w], worker[w])
        /\ \A v \in All \ {w} : Alike(worker'[v], worker[v])
    BY <1>2, <2>1, <2>2 DEF SameWork, Alike, IInv, TypeOK, All, Worker
  <2>6. (\A v \in All : Shape(worker[v])') /\ \A p \in Pools : PoolSound(p)'
    BY <1>1, <2>4, <2>5, WorksOn DEF InHand
  <2>. QED
    BY <1>3, <2>4, <2>6 DEF IInv
<1>. QED
  BY <1>5, <1>6

LEMMA TruncateStep == ASSUME IInv, NEW w \in All, Truncate(w) PROVE IInv'
<1>1. worker[w].pc = "truncate" /\ UNCHANGED <<text, had, entry, pool, edits, failures>>
      /\ temp' = [temp EXCEPT ![Temporary(w)] = Torn]
      /\ worker' = [worker EXCEPT ![w] = [@ EXCEPT !.pc = "fill", !.handle = "temp"]]
  BY DEF Truncate
<1>2. /\ worker[w] \in Worker /\ w \in DOMAIN worker /\ Temporary(w) \in Pids \X Keys
  BY <1>1, AtHand DEF Busy, InHand, IInv, TypeOK, All
<1>3. worker'[w] = [worker[w] EXCEPT !.pc = "fill", !.handle = "temp"]
  BY <1>1, <1>2
<1>4. worker'[w] \in Worker
  BY <1>2, <1>3 DEF Worker
<1>5. temp' \in [Pids \X Keys -> Stored]
  BY <1>1, <1>2 DEF IInv, TypeOK, Stored
<1>6. TypeOK'
  BY <1>1, <1>3, <1>4, <1>5, MoveType DEF IInv, TypeOK, All
<1>7. worker'[w].pc = "fill" /\ SameWork(worker'[w], worker[w])
      /\ \A v \in All \ {w} : Alike(worker'[v], worker[v])
  BY <1>1, <1>2, <1>3 DEF SameWork, Alike, IInv, TypeOK, All, Worker
<1>8. (\A v \in All : Shape(worker[v])') /\ \A p \in Pools : PoolSound(p)'
  BY <1>1, <1>6, <1>7, WorksOn DEF InHand
<1>9. CacheSound'
  BY <1>1, <1>2 DEF IInv, CacheSound, TypeOK
<1>. QED
  BY <1>6, <1>8, <1>9 DEF IInv

(* set() fails: the file is answered all the same. *)
LEMMA OwnParse ==
  ASSUME IInv, NEW w \in All, worker[w].pc \in InHand
  PROVE  pool[w[1]].st = "running" => Own(Parsed(w), Current(w), had[w[1]])
<1>1. /\ w[1] \in Pools /\ w[2] \in Workers /\ w = <<w[1], w[2]>>
      /\ Current(w) \in Files /\ worker[w].text \in Texts
  BY AtHand DEF Busy, InHand, Shape
<1>2. Parsed(w).file = Current(w) /\ Parsed(w).text = worker[w].text
  BY <1>1, ParseType DEF Parsed
<1>3. ASSUME pool[w[1]].st = "running" PROVE worker[w].text \in had[w[1]][Current(w)]
  BY <1>1, <1>3 DEF IInv, PoolSound, Truthful, Current
<1>. QED
  BY <1>2, <1>3 DEF Own

LEMMA WriteFailsStep == ASSUME IInv, NEW w \in All, WriteFails(w) PROVE IInv'
<1>1. /\ worker[w].pc \in {"truncate", "fill", "rename"}
      /\ failures < MaxFailures /\ failures' = failures + 1
      /\ UNCHANGED <<text, had, entry, temp, pool, edits>>
      /\ worker' = [worker EXCEPT ![w] = Answer(w, Parsed(w))]
  BY DEF WriteFails
<1>2. /\ worker[w] \in Worker /\ Shape(worker[w]) /\ worker[w].batch # << >>
      /\ w \in DOMAIN worker /\ Parsed(w) \in Results
  BY <1>1, AtHand DEF Busy, InHand, IInv, TypeOK, All
<1>3. Answer(w, Parsed(w)) \in Worker
  BY <1>2, AnswerType
<1>4. TypeOK'
  BY <1>1, <1>3, MoveType DEF IInv, TypeOK, All
<1>5. worker'[w] = Answer(w, Parsed(w)) /\ \A v \in All \ {w} : Alike(worker'[v], worker[v])
  BY <1>1, <1>2 DEF Alike, IInv, TypeOK, All
<1>6. pool[w[1]].st = "running" => Own(Parsed(w), Current(w), had[w[1]])
  BY <1>1, OwnParse DEF InHand
<1>7. (\A v \in All : Shape(worker[v])') /\ \A p \in Pools : PoolSound(p)'
  BY <1>1, <1>2, <1>4, <1>5, <1>6, Answered DEF Busy
<1>8. CacheSound'
  BY <1>1 DEF IInv, CacheSound
<1>. QED
  BY <1>4, <1>7, <1>8 DEF IInv

LEMMA FillStep == ASSUME IInv, NEW w \in All, Fill(w) PROVE IInv'
<1>1. worker[w].pc = "fill" /\ UNCHANGED <<text, had, pool, edits, failures>>
      /\ worker' = [worker EXCEPT ![w] = [@ EXCEPT !.pc = "rename", !.handle = "none"]]
      /\ temp' \in {temp, [temp EXCEPT ![Temporary(w)] = Parsed(w)]}
      /\ entry' \in {entry, [entry EXCEPT ![CurrentKey(w)] = Parsed(w)]}
  BY DEF Fill
<1>2. /\ worker[w] \in Worker /\ w \in DOMAIN worker /\ Temporary(w) \in Pids \X Keys
      /\ CurrentKey(w) \in Keys /\ Parsed(w) \in Results
      /\ Parsed(w) = Parse(CurrentKey(w)[1], CurrentKey(w)[2])
      /\ Temporary(w)[2] = CurrentKey(w)
  BY <1>1, AtHand DEF Busy, InHand, IInv, TypeOK, All, Temporary
<1>3. worker'[w] = [worker[w] EXCEPT !.pc = "rename", !.handle = "none"]
  BY <1>1, <1>2
<1>4. worker'[w] \in Worker
  BY <1>2, <1>3 DEF Worker
<1>5. temp' \in [Pids \X Keys -> Stored] /\ entry' \in [Keys -> Stored]
  BY <1>1, <1>2 DEF IInv, TypeOK, Stored
<1>6. TypeOK'
  BY <1>1, <1>3, <1>4, <1>5, MoveType DEF IInv, TypeOK, All
<1>7. worker'[w].pc = "rename" /\ SameWork(worker'[w], worker[w])
      /\ \A v \in All \ {w} : Alike(worker'[v], worker[v])
  BY <1>1, <1>2, <1>3 DEF SameWork, Alike, IInv, TypeOK, All, Worker
<1>8. (\A v \in All : Shape(worker[v])') /\ \A p \in Pools : PoolSound(p)'
  BY <1>1, <1>6, <1>7, WorksOn DEF InHand
<1>9. CacheSound'
  <2>1. \A k \in Keys : entry'[k] = entry[k] \/ (k = CurrentKey(w) /\ entry'[k] = Parsed(w))
    BY <1>1 DEF IInv, TypeOK
  <2>2. \A i \in Pids, k \in Keys : temp'[<<i, k>>] = temp[<<i, k>>]
                                    \/ (k = CurrentKey(w) /\ temp'[<<i, k>>] = Parsed(w))
    BY <1>1, <1>2 DEF IInv, TypeOK
  <2>. QED
    BY <1>2, <2>1, <2>2 DEF IInv, CacheSound
<1>. QED
  BY <1>6, <1>8, <1>9 DEF IInv

LEMMA RenameStep == ASSUME IInv, NEW w \in All, Rename(w) PROVE IInv'
<1>1. worker[w].pc = "rename" /\ UNCHANGED <<text, had, pool, edits, failures>>
      /\ temp' = [temp EXCEPT ![Temporary(w)] = None]
      /\ entry' \in {entry, [entry EXCEPT ![CurrentKey(w)] = temp[Temporary(w)]]}
  BY DEF Rename
<1>2. /\ worker[w] \in Worker /\ Shape(worker[w]) /\ worker[w].batch # << >>
      /\ w \in DOMAIN worker /\ Temporary(w) \in Pids \X Keys
      /\ CurrentKey(w) \in Keys /\ Parsed(w) \in Results
      /\ Temporary(w) = <<Pid(w), CurrentKey(w)>>
  BY <1>1, AtHand DEF Busy, InHand, IInv, TypeOK, All, Temporary
<1>3. Answer(w, Parsed(w)) \in Worker
  BY <1>2, AnswerType
<1>4. /\ worker' \in [All -> Worker] /\ worker'[w] = Answer(w, Parsed(w))
      /\ \A v \in All \ {w} : Alike(worker'[v], worker[v])
  <2>1. \A v \in All : worker[v] \in Worker
    BY DEF IInv, TypeOK, All
  <2>2. ASSUME NEW v \in All, NEW h \in {"none", "temp", "entry", "gone"}
        PROVE  [worker[v] EXCEPT !.handle = h] \in Worker
               /\ Alike([worker[v] EXCEPT !.handle = h], worker[v])
    BY <2>1 DEF Worker, Alike
  <2>3. PICK moved : /\ \A v \in All : moved[v] \in {"none", "temp", "entry", "gone"}
                     /\ worker' = [v \in All |->
                          IF v = w THEN Answer(w, Parsed(w))
                          ELSE IF temp[Temporary(w)] # None
                               THEN [worker[v] EXCEPT !.handle = moved[v]] ELSE worker[v]]
    <3> DEFINE m == [v \in All |->
          CASE worker[v].handle = "temp" /\ Temporary(v) = Temporary(w) -> "entry"
            [] worker[v].handle = "entry" /\ CurrentKey(v) = CurrentKey(w) -> "gone"
            [] OTHER -> worker[v].handle]
    <3>1. \A v \in All : worker[v].handle \in {"none", "temp", "entry", "gone"}
      BY <2>1 DEF Worker
    <3>2. \A v \in All : m[v] \in {"none", "temp", "entry", "gone"}
      BY <3>1
    <3>3. worker' = [v \in All |->
             IF v = w THEN Answer(w, Parsed(w))
             ELSE IF temp[Temporary(w)] # None
                  THEN [worker[v] EXCEPT !.handle = m[v]] ELSE worker[v]]
      BY DEF Rename, All
    <3>. QED
      BY <3>2, <3>3
  <2>4. \A v \in All \ {w} : Alike(worker[v], worker[v])
    BY DEF Alike
  <2>5. ASSUME NEW v \in All \ {w}
        PROVE  worker'[v] \in Worker /\ Alike(worker'[v], worker[v])
    BY <2>1, <2>2, <2>3, <2>4
  <2>. QED
    BY <1>3, <2>3, <2>5
<1>5. temp' \in [Pids \X Keys -> Stored] /\ entry' \in [Keys -> Stored]
  BY <1>1, <1>2 DEF IInv, TypeOK, Stored
<1>6. TypeOK'
  BY <1>1, <1>4, <1>5 DEF IInv, TypeOK, All
<1>7. pool[w[1]].st = "running" => Own(Parsed(w), Current(w), had[w[1]])
  BY <1>1, OwnParse DEF InHand
<1>8. (\A v \in All : Shape(worker[v])') /\ \A p \in Pools : PoolSound(p)'
  BY <1>1, <1>2, <1>4, <1>6, <1>7, Answered DEF Busy
<1>9. CacheSound'
  <2>1. \A k \in Keys : entry'[k] = entry[k]
                        \/ (k = CurrentKey(w) /\ entry'[k] = temp[<<Pid(w), k>>])
    <3>1. temp[Temporary(w)] = temp[<<Pid(w), CurrentKey(w)>>]
      BY <1>2, Zenon
    <3>. QED
      BY <1>1, <1>2, <3>1 DEF IInv, TypeOK
  <2>2. \A i \in Pids, k \in Keys : temp'[<<i, k>>] \in {temp[<<i, k>>], None}
    BY <1>1, <1>2 DEF IInv, TypeOK
  <2>3. Pid(w) \in Pids
    BY <1>2
  <2>. QED
    BY <1>2, <2>1, <2>2, <2>3 DEF IInv, CacheSound
<1>. QED
  BY <1>6, <1>8, <1>9 DEF IInv

-----------------------------------------------------------------------------
(* The main thread, and what goes wrong. *)

(* A pool none of whose parts changes. *)
LEMMA PoolKept ==
  ASSUME NEW p \in Pools, PoolSound(p), UNCHANGED text,
         pool'[p] = pool[p], had'[p] = had[p],
         \A v \in Workers : worker'[<<p, v>>] = worker[<<p, v>>]
  PROVE  PoolSound(p)'
<1>1. Believable(p) => Believable(p)'
  BY DEF Believable
<1>2. Covered(p) => Covered(p)'
  BY DEF Covered
<1>. QED
  BY <1>1, <1>2 DEF PoolSound

(* Workers that are off, on their way out, ended or failed hold nothing. *)
LEMMA Empty ==
  ASSUME NEW r, Shape(r), r.pc \in {"off", "closing", "ended", "failed"}
  PROVE  /\ r.batch = << >> /\ r.out = NoResults
         /\ \A f \in Files : ~Has(r, f)
BY DEF Shape, Busy, Has, NoResults

LEMMA OffWith ==
  ASSUME NEW pc \in {"closing", "failed", "ended"}
  PROVE  /\ [Off EXCEPT !.pc = pc] \in Worker /\ Shape([Off EXCEPT !.pc = pc])
         /\ [Off EXCEPT !.pc = pc].pc = pc
         /\ \A seen : Truthful([Off EXCEPT !.pc = pc], seen)
<1> DEFINE r == [Off EXCEPT !.pc = pc]
<1>1. r \in Worker /\ r.pc = pc /\ r.batch = << >> /\ r.out = NoResults
  <2>1. Off \in Worker /\ Off.batch = << >> /\ Off.out = NoResults
    BY OffType
  <2>. QED
    BY <2>1 DEF Worker
<1>2. Shape(r)
  BY <1>1 DEF Shape, Busy, InHand
<1>3. ASSUME NEW seen PROVE Truthful(r, seen)
  BY <1>1 DEF Truthful, NoResults, InHand
<1>. QED
  BY <1>1, <1>2, <1>3

LEMMA OnReplyStep == ASSUME IInv, NEW w \in All, OnReply(w) PROVE IInv'
<1>1. /\ worker[w].pc = "reply" /\ UNCHANGED <<text, had, entry, temp, edits, failures>>
      /\ worker' = [worker EXCEPT ![w] = [Off EXCEPT !.pc = "closing"]]
      /\ pool' = [pool EXCEPT ![w[1]].results =
           [f \in Files |-> IF worker[w].out[f] = None THEN @[f] ELSE worker[w].out[f]]]
  BY DEF OnReply
<1>2. /\ w[1] \in Pools /\ w[2] \in Workers /\ w = <<w[1], w[2]>>
      /\ worker[w] \in Worker /\ Shape(worker[w]) /\ w \in DOMAIN worker
      /\ w[1] \in DOMAIN pool
  BY DEF All, IInv, TypeOK
<1>3. worker'[w] = [Off EXCEPT !.pc = "closing"] /\ \A v \in All \ {w} : worker'[v] = worker[v]
  BY <1>1, <1>2 DEF IInv, TypeOK, All
<1>4. /\ worker'[w] \in Worker /\ Shape(worker'[w]) /\ worker'[w].pc = "closing"
      /\ \A seen : Truthful(worker'[w], seen)
  BY <1>3, OffWith
<1>5. /\ pool[w[1]].results \in [Files -> Results \cup {None}]
      /\ worker[w].out \in [Files -> Results \cup {None}]
  BY <1>2 DEF IInv, TypeOK, Worker
<1>6. PICK merged : merged = [f \in Files |-> IF worker[w].out[f] = None
                                             THEN pool[w[1]].results[f] ELSE worker[w].out[f]]
  OBVIOUS
<1>7. merged \in [Files -> Results \cup {None}]
  BY <1>5, <1>6
<1>8. pool' = [pool EXCEPT ![w[1]] = [@ EXCEPT !.results = merged]]
  BY <1>1, <1>6
<1>9. pool'[w[1]].results = merged /\ pool'[w[1]].st = pool[w[1]].st
      /\ \A p \in Pools \ {w[1]} : pool'[p] = pool[p]
  BY <1>2, <1>8 DEF IInv, TypeOK
<1>10. TypeOK'
  <2>1. [pool[w[1]] EXCEPT !.results = merged] \in
          [st : {"none", "running", "resolved", "rejected", "killed"},
           pid : Pids, inline : BOOLEAN, results : [Files -> Results \cup {None}]]
    <3>1. pool[w[1]] \in
            [st : {"none", "running", "resolved", "rejected", "killed"},
             pid : Pids, inline : BOOLEAN, results : [Files -> Results \cup {None}]]
      BY <1>2 DEF IInv, TypeOK
    <3>. QED
      BY <1>7, <3>1
  <2>2. worker' \in [All -> Worker]
    BY <1>1, <1>3, <1>4, MoveType
  <2>. QED
    BY <1>1, <1>8, <2>1, <2>2 DEF IInv, TypeOK, All
<1>11. \A v \in All : Shape(worker[v])'
  BY <1>3, <1>4 DEF IInv
<1>12. ASSUME NEW p \in Pools PROVE PoolSound(p)'
  <2>1. \A v \in Workers : <<p, v>> \in All /\ <<p, v>>[1] = p
    BY DEF All
  <2>2. PoolSound(p)
    BY DEF IInv
  <2>3. CASE p # w[1]
    BY <1>1, <1>3, <1>9, <2>1, <2>2, <2>3, PoolKept
  <2>4. CASE p = w[1]
    <3>1. pool[p].st \notin {"none", "resolved"}
      BY <1>1, <1>2, <2>2, <2>4 DEF PoolSound
    <3>2. ASSUME pool[p].st = "running" PROVE PoolSound(p)'
      <4>1. \A v \in Workers : /\ worker[<<p, v>>].pc \notin {"off", "failed"}
                               /\ Truthful(worker[<<p, v>>], had[p])
        BY <2>2, <3>2 DEF PoolSound
      <4>2. \A f \in Files : text[f] \in had[p][f]
        BY <2>2, <3>2 DEF PoolSound
      <4>3. Believable(p)'
        <5>1. Believable(p) /\ Truthful(worker[w], had[p])
          BY <1>2, <2>2, <2>4, <3>2, <4>1 DEF PoolSound
        <5>. QED
          BY <1>1, <1>6, <1>9, <2>4, <5>1 DEF Believable, Truthful
      <4>4. Covered(p)'
        <5>1. SUFFICES ASSUME NEW f \in Files, merged[f] = None
                       PROVE  \E v \in Workers : Has(worker'[<<p, v>>], f)
          BY <1>9, <2>4 DEF Covered
        <5>2. worker[w].out[f] = None /\ pool[p].results[f] = None
          BY <1>5, <1>6, <2>4, <5>1
        <5>3. PICK v \in Workers : Has(worker[<<p, v>>], f)
          BY <2>2, <3>2, <5>2 DEF PoolSound, Covered
        <5>4. worker[w].batch = << >>
          BY <1>1, <1>2 DEF Shape, Busy
        <5>5. <<p, v>> # w
          BY <5>2, <5>3, <5>4 DEF Has
        <5>. QED
          BY <1>3, <2>1, <5>3, <5>5
      <4>5. \A v \in Workers : /\ worker'[<<p, v>>].pc \notin {"off", "failed"}
                               /\ Truthful(worker'[<<p, v>>], had[p])
        BY <1>3, <1>4, <2>1, <4>1
      <4>. QED
        BY <1>1, <1>9, <2>4, <3>2, <4>2, <4>3, <4>4, <4>5 DEF PoolSound
    <3>. QED
      BY <1>9, <2>4, <3>1, <3>2 DEF PoolSound
  <2>. QED
    BY <2>3, <2>4
<1>13. CacheSound'
  BY <1>1 DEF IInv, CacheSound
<1>. QED
  BY <1>10, <1>11, <1>12, <1>13 DEF IInv

LEMMA TerminatedStep == ASSUME IInv, NEW w \in All, Terminated(w) PROVE IInv'
<1>1. /\ worker[w].pc = "closing" /\ UNCHANGED <<text, had, entry, temp, edits, failures>>
      /\ worker' = [worker EXCEPT ![w].pc = "ended"]
  BY DEF Terminated
<1>2. /\ w[1] \in Pools /\ w[2] \in Workers /\ w = <<w[1], w[2]>>
      /\ worker[w] \in Worker /\ Shape(worker[w]) /\ w \in DOMAIN worker
      /\ w[1] \in DOMAIN pool
  BY DEF All, IInv, TypeOK
<1>3. worker'[w] = [worker[w] EXCEPT !.pc = "ended"] /\ \A v \in All \ {w} : worker'[v] = worker[v]
  BY <1>1, <1>2 DEF IInv, TypeOK, All
<1>4. /\ worker[w].batch = << >> /\ worker[w].out = NoResults
      /\ \A f \in Files : ~Has(worker[w], f)
  BY <1>1, <1>2, Empty
<1>5. /\ worker'[w] \in Worker /\ worker'[w].pc = "ended"
      /\ worker'[w].batch = << >> /\ worker'[w].out = NoResults
  BY <1>2, <1>3, <1>4 DEF Worker
<1>6. Shape(worker'[w]) /\ \A seen : Truthful(worker'[w], seen)
  BY <1>5 DEF Shape, Truthful, NoResults, Busy, InHand
<1>7. PICK st : /\ pool' = [pool EXCEPT ![w[1]] = [@ EXCEPT !.st = st]]
                /\ st = IF pool[w[1]].st = "running"
                           /\ \A v \in Workers \ {w[2]} : worker[<<w[1], v>>].pc = "ended"
                        THEN "resolved" ELSE pool[w[1]].st
  BY DEF Terminated
<1>8. /\ pool'[w[1]].results = pool[w[1]].results /\ pool'[w[1]].st = st
      /\ \A p \in Pools \ {w[1]} : pool'[p] = pool[p]
  BY <1>2, <1>7 DEF IInv, TypeOK
<1>9. TypeOK'
  <2>1. [pool[w[1]] EXCEPT !.st = st] \in
          [st : {"none", "running", "resolved", "rejected", "killed"},
           pid : Pids, inline : BOOLEAN, results : [Files -> Results \cup {None}]]
    <3>1. st \in {"none", "running", "resolved", "rejected", "killed"}
      BY <1>2, <1>7 DEF IInv, TypeOK
    <3>2. pool[w[1]] \in
            [st : {"none", "running", "resolved", "rejected", "killed"},
             pid : Pids, inline : BOOLEAN, results : [Files -> Results \cup {None}]]
      BY <1>2 DEF IInv, TypeOK
    <3>. QED
      BY <3>1, <3>2
  <2>2. worker' \in [All -> Worker]
    BY <1>1, <1>3, <1>5, MoveType
  <2>. QED
    BY <1>1, <1>7, <2>1, <2>2 DEF IInv, TypeOK, All
<1>10. \A v \in All : Shape(worker[v])'
  BY <1>3, <1>6 DEF IInv
<1>11. ASSUME NEW p \in Pools PROVE PoolSound(p)'
  <2>1. \A v \in Workers : <<p, v>> \in All /\ <<p, v>>[1] = p /\ <<p, v>>[2] = v
    BY DEF All
  <2>2. PoolSound(p)
    BY DEF IInv
  <2>3. CASE p # w[1]
    BY <1>1, <1>3, <1>8, <2>1, <2>2, <2>3, PoolKept
  <2>4. CASE p = w[1]
    <3>1. pool[p].st \notin {"none", "resolved"}
      BY <1>1, <1>2, <2>2, <2>4 DEF PoolSound
    <3>2. ASSUME pool[p].st = "running" PROVE PoolSound(p)'
      <4>1. /\ \A f \in Files : text[f] \in had[p][f]
            /\ Believable(p) /\ Covered(p)
            /\ \A v \in Workers : /\ worker[<<p, v>>].pc \notin {"off", "failed"}
                                  /\ Truthful(worker[<<p, v>>], had[p])
        BY <2>2, <3>2 DEF PoolSound
      <4>2. Believable(p)'
        BY <1>1, <1>8, <2>4, <4>1 DEF Believable
      <4>3. \A v \in Workers : /\ worker'[<<p, v>>].pc \notin {"off", "failed"}
                               /\ Truthful(worker'[<<p, v>>], had[p])
        BY <1>3, <1>5, <1>6, <2>1, <4>1
      <4>4. Covered(p)'
        <5>1. SUFFICES ASSUME NEW f \in Files, pool[p].results[f] = None
                       PROVE  \E v \in Workers : Has(worker'[<<p, v>>], f)
          BY <1>8, <2>4 DEF Covered
        <5>2. PICK v \in Workers : Has(worker[<<p, v>>], f)
          BY <4>1, <5>1 DEF Covered
        <5>3. <<p, v>> # w
          BY <1>4, <5>2
        <5>. QED
          BY <1>3, <2>1, <5>2, <5>3
      <4>5. CASE st = "running"
        BY <1>1, <1>8, <2>4, <4>1, <4>2, <4>3, <4>4, <4>5 DEF PoolSound
      <4>6. CASE st = "resolved"
        <5>1. \A v \in Workers \ {w[2]} : worker[<<p, v>>].pc = "ended"
          BY <1>7, <2>4, <3>2, <4>6
        <5>2. \A v \in Workers : worker'[<<p, v>>].pc = "ended"
          <6>1. SUFFICES ASSUME NEW v \in Workers PROVE worker'[<<p, v>>].pc = "ended"
            OBVIOUS
          <6>2. CASE v = w[2]
            <7>1. <<p, v>> = w
              BY <1>2, <2>4, <6>2
            <7>. QED
              BY <1>5, <7>1
          <6>3. CASE v # w[2]
            <7>1. <<p, v>> # w /\ <<p, v>> \in All
              BY <1>2, <2>1, <6>3
            <7>2. worker[<<p, v>>].pc = "ended"
              BY <5>1, <6>3
            <7>. QED
              BY <1>3, <7>1, <7>2
          <6>. QED
            BY <6>2, <6>3
        <5>3. \A v \in Workers, f \in Files : ~Has(worker'[<<p, v>>], f)
          BY <1>10, <2>1, <5>2, Empty
        <5>4. \A f \in Files : pool'[p].results[f] # None
          BY <4>4, <5>3 DEF Covered
        <5>. QED
          BY <1>8, <2>4, <4>2, <4>6, <5>2, <5>4 DEF PoolSound
      <4>. QED
        BY <1>7, <2>4, <3>2, <4>5, <4>6
    <3>. QED
      BY <1>7, <1>8, <2>4, <3>1, <3>2 DEF PoolSound
  <2>. QED
    BY <2>3, <2>4
<1>12. CacheSound'
  BY <1>1 DEF IInv, CacheSound
<1>. QED
  BY <1>9, <1>10, <1>11, <1>12 DEF IInv

LEMMA WorkerFailsStep == ASSUME IInv, NEW w \in All, WorkerFails(w) PROVE IInv'
<1>1. /\ worker[w].pc \in Busy /\ UNCHANGED <<text, had, entry, temp, edits>>
      /\ failures < MaxFailures /\ failures' = failures + 1
      /\ worker' = [worker EXCEPT ![w] = [Off EXCEPT !.pc = "failed"]]
  BY DEF WorkerFails, Busy
<1>2. /\ w[1] \in Pools /\ w[2] \in Workers /\ w = <<w[1], w[2]>>
      /\ w \in DOMAIN worker /\ w[1] \in DOMAIN pool
  BY DEF All, IInv, TypeOK
<1>3. worker'[w] = [Off EXCEPT !.pc = "failed"] /\ \A v \in All \ {w} : worker'[v] = worker[v]
  BY <1>1, <1>2 DEF IInv, TypeOK, All
<1>4. worker'[w] \in Worker /\ Shape(worker'[w])
  BY <1>3, OffWith
<1>5. PICK st : /\ pool' = [pool EXCEPT ![w[1]] = [@ EXCEPT !.st = st]]
                /\ st = IF pool[w[1]].st = "running" THEN "rejected" ELSE pool[w[1]].st
  BY DEF WorkerFails
<1>6. /\ pool'[w[1]].st = st /\ \A p \in Pools \ {w[1]} : pool'[p] = pool[p]
  BY <1>2, <1>5 DEF IInv, TypeOK
<1>7. TypeOK'
  <2>1. [pool[w[1]] EXCEPT !.st = st] \in
          [st : {"none", "running", "resolved", "rejected", "killed"},
           pid : Pids, inline : BOOLEAN, results : [Files -> Results \cup {None}]]
    <3>1. pool[w[1]] \in
            [st : {"none", "running", "resolved", "rejected", "killed"},
             pid : Pids, inline : BOOLEAN, results : [Files -> Results \cup {None}]]
      BY <1>2 DEF IInv, TypeOK
    <3>2. st \in {"none", "running", "resolved", "rejected", "killed"}
      BY <1>5, <3>1
    <3>. QED
      BY <3>1, <3>2
  <2>2. worker' \in [All -> Worker]
    BY <1>1, <1>3, <1>4, MoveType
  <2>3. failures' \in 0..MaxFailures
    BY <1>1 DEF IInv, TypeOK
  <2>4. pool' \in [Pools -> [st : {"none", "running", "resolved", "rejected", "killed"},
                            pid : Pids, inline : BOOLEAN,
                            results : [Files -> Results \cup {None}]]]
    BY <1>5, <2>1 DEF IInv, TypeOK
  <2>. QED
    BY <1>1, <2>2, <2>3, <2>4 DEF IInv, TypeOK, All
<1>8. \A v \in All : Shape(worker[v])'
  BY <1>3, <1>4 DEF IInv
<1>9. ASSUME NEW p \in Pools PROVE PoolSound(p)'
  <2>1. \A v \in Workers : <<p, v>> \in All /\ <<p, v>>[1] = p
    BY DEF All
  <2>2. PoolSound(p)
    BY DEF IInv
  <2>3. CASE p # w[1]
    BY <1>1, <1>3, <1>6, <2>1, <2>2, <2>3, PoolKept
  <2>4. CASE p = w[1]
    <3>1. pool[p].st \notin {"none", "resolved"}
      BY <1>1, <1>2, <2>2, <2>4 DEF PoolSound, Busy
    <3>. QED
      BY <1>5, <1>6, <2>4, <3>1 DEF PoolSound
  <2>. QED
    BY <2>3, <2>4
<1>10. CacheSound'
  BY <1>1 DEF IInv, CacheSound
<1>. QED
  BY <1>7, <1>8, <1>9, <1>10 DEF IInv

LEMMA InterruptStep == ASSUME IInv, NEW pid \in Pids, Interrupt(pid) PROVE IInv'
<1>1. /\ failures < MaxFailures /\ failures' = failures + 1
      /\ worker' = [w \in All |->
           IF Alive(w) /\ Pid(w) = pid THEN [Off EXCEPT !.pc = "failed"] ELSE worker[w]]
      /\ pool' = [p \in Pools |-> IF pool[p].st = "running" /\ pool[p].pid = pid
                                  THEN [pool[p] EXCEPT !.st = "killed"] ELSE pool[p]]
      /\ UNCHANGED <<text, had, entry, temp, edits>>
  BY DEF Interrupt, All
<1>2. \A w \in All : worker'[w] \in {worker[w], [Off EXCEPT !.pc = "failed"]}
  BY <1>1
<1>3. \A w \in All : worker'[w] \in Worker /\ Shape(worker'[w])
  BY <1>2, OffWith DEF IInv, TypeOK, All
<1>4. TypeOK'
  <2>1. ASSUME NEW p \in Pools
        PROVE  pool'[p] \in [st : {"none", "running", "resolved", "rejected", "killed"},
                             pid : Pids, inline : BOOLEAN,
                             results : [Files -> Results \cup {None}]]
    <3>1. pool[p] \in [st : {"none", "running", "resolved", "rejected", "killed"},
                       pid : Pids, inline : BOOLEAN, results : [Files -> Results \cup {None}]]
      BY DEF IInv, TypeOK
    <3>. QED
      BY <1>1, <3>1
  <2>2. /\ pool' \in [Pools -> [st : {"none", "running", "resolved", "rejected", "killed"},
                                pid : Pids, inline : BOOLEAN,
                                results : [Files -> Results \cup {None}]]]
        /\ worker' \in [All -> Worker]
    BY <1>1, <1>3, <2>1
  <2>3. failures' \in 0..MaxFailures
    BY <1>1 DEF IInv, TypeOK
  <2>. QED
    BY <1>1, <2>2, <2>3 DEF IInv, TypeOK, All
<1>5. ASSUME NEW p \in Pools PROVE PoolSound(p)'
  <2>1. \A v \in Workers : <<p, v>> \in All /\ <<p, v>>[1] = p
    BY DEF All
  <2>2. PoolSound(p) /\ p \in DOMAIN pool
    BY DEF IInv, TypeOK
  <2>3. CASE pool[p].st = "running" /\ pool[p].pid = pid
    <3>1. pool'[p].st = "killed"
      BY <1>1, <2>2, <2>3 DEF IInv, TypeOK
    <3>. QED
      BY <3>1 DEF PoolSound
  <2>4. CASE pool[p].st = "running" /\ pool[p].pid # pid
    <3>1. pool'[p] = pool[p]
      BY <1>1, <2>4
    <3>2. \A v \in Workers : worker'[<<p, v>>] = worker[<<p, v>>]
      BY <1>1, <2>1, <2>4 DEF Pid
    <3>. QED
      BY <1>1, <2>2, <3>1, <3>2, PoolKept
  <2>5. CASE pool[p].st \in {"none", "resolved"}
    <3>1. pool'[p] = pool[p]
      BY <1>1, <2>5
    <3>2. \A v \in Workers : ~Alive(<<p, v>>)
      BY <2>2, <2>5 DEF PoolSound, Alive
    <3>3. \A v \in Workers : worker'[<<p, v>>] = worker[<<p, v>>]
      BY <1>1, <2>1, <3>2
    <3>. QED
      BY <1>1, <2>2, <3>1, <3>3, PoolKept
  <2>6. CASE pool[p].st \in {"rejected", "killed"}
    <3>1. pool'[p] = pool[p]
      BY <1>1, <2>6
    <3>. QED
      BY <2>6, <3>1 DEF PoolSound
  <2>. QED
    BY <2>3, <2>4, <2>5, <2>6 DEF IInv, TypeOK
<1>6. CacheSound'
  BY <1>1 DEF IInv, CacheSound
<1>. QED
  BY <1>3, <1>4, <1>5, <1>6 DEF IInv

LEMMA EditStep ==
  ASSUME IInv, NEW f \in Files, NEW t \in Texts \cup {Unreadable}, Edit(f, t)
  PROVE  IInv'
<1>1. /\ edits < MaxEdits /\ edits' = edits + 1
      /\ text' = [text EXCEPT ![f] = t]
      /\ had' = [p \in Pools |-> IF pool[p].st = "running" THEN [had[p] EXCEPT ![f] = @ \cup {t}]
                                 ELSE had[p]]
      /\ UNCHANGED <<entry, temp, pool, worker, failures>>
  BY DEF Edit
<1>2. \A p \in Pools : had[p] \in Seen
  BY DEF IInv, TypeOK, Seen
<1>3. ASSUME NEW p \in Pools
      PROVE  /\ had'[p] \in Seen
             /\ \A g \in Files : had[p][g] \subseteq had'[p][g]
             /\ pool[p].st = "running" => t \in had'[p][f]
  BY <1>1, <1>2 DEF Seen
<1>4. TypeOK'
  <2>1. had' \in [Pools -> Seen]
    BY <1>1, <1>3
  <2>2. text' \in [Files -> Texts \cup {Unreadable}]
    BY <1>1 DEF IInv, TypeOK
  <2>. QED
    BY <1>1, <2>1, <2>2 DEF IInv, TypeOK, Seen
<1>5. ASSUME NEW p \in Pools PROVE PoolSound(p)'
  <2>1. PoolSound(p)
    BY DEF IInv
  <2>2. Believable(p) => Believable(p)'
    BY <1>1, <1>3 DEF Believable, Own
  <2>3. Covered(p) => Covered(p)'
    BY <1>1 DEF Covered
  <2>4. CASE pool[p].st = "running"
    <3>1. \A g \in Files : text'[g] \in had'[p][g]
      BY <1>1, <1>3, <2>1, <2>4 DEF PoolSound, IInv, TypeOK
    <3>2. ASSUME NEW v \in Workers PROVE Truthful(worker'[<<p, v>>], had'[p])
      <4>1. Truthful(worker[<<p, v>>], had[p])
        BY <2>1, <2>4 DEF PoolSound
      <4>2. Shape(worker[<<p, v>>]) /\ worker[<<p, v>>] \in Worker
        BY DEF IInv, TypeOK, All
      <4>3. worker[<<p, v>>].pc \in InHand => Head(worker[<<p, v>>].batch) \in Files
        BY <4>2 DEF Shape, Busy, InHand, Worker
      <4>. QED
        BY <1>1, <1>3, <4>1, <4>3 DEF Truthful, Own
    <3>. QED
      BY <1>1, <2>1, <2>2, <2>3, <2>4, <3>1, <3>2 DEF PoolSound
  <2>5. CASE pool[p].st # "running"
    BY <1>1, <2>1, <2>2, <2>5 DEF PoolSound
  <2>. QED
    BY <2>4, <2>5
<1>6. CacheSound' /\ \A v \in All : Shape(worker[v])'
  BY <1>1 DEF IInv, CacheSound
<1>. QED
  BY <1>4, <1>5, <1>6 DEF IInv

LEMMA StartPoolStep ==
  ASSUME IInv, NEW q \in Pools, NEW pid \in Pids, NEW inline \in BOOLEAN,
         StartPool(q, pid, inline)
  PROVE  IInv'
<1>1. /\ pool[q].st = "none" /\ UNCHANGED <<text, entry, temp, edits, failures>>
      /\ pool' = [pool EXCEPT ![q] = [@ EXCEPT !.st = "running", !.pid = pid, !.inline = inline]]
      /\ had' = [had EXCEPT ![q] = [f \in Files |-> {text[f]}]]
  BY DEF StartPool
<1>2. PICK all : all = [f \in Files |-> f]
  OBVIOUS
<1>3. /\ all \in Seq(Files) /\ all # << >> /\ Len(all) = FileCount
      /\ \A f \in Files : f \in 1..Len(all) /\ all[f] = f
  BY <1>2 DEF Files
<1>4. worker' = [w \in All |->
       IF w[1] # q THEN worker[w]
       ELSE IF inline
       THEN [Off EXCEPT !.pc = IF w[2] = 1 THEN "read" ELSE "ended",
                        !.batch = IF w[2] = 1 THEN all ELSE << >>]
       ELSE [Off EXCEPT !.pc = "starting", !.batch = Deal(w[2])]]
  BY <1>2 DEF StartPool, All
<1>5. 1 \in Workers
  BY DEF Workers
<1>6. ASSUME NEW v \in Workers
      PROVE  /\ worker'[<<q, v>>] \in Worker /\ Shape(worker'[<<q, v>>])
             /\ worker'[<<q, v>>].pc \notin {"off", "failed"}
             /\ \A seen : Truthful(worker'[<<q, v>>], seen)
             /\ worker'[<<q, v>>].batch =
                  IF inline THEN (IF v = 1 THEN all ELSE << >>) ELSE Deal(v)
  <2>1. <<q, v>> \in All /\ <<q, v>>[1] = q /\ <<q, v>>[2] = v
    BY DEF All
  <2>2. Deal(v) \in Seq(Files) /\ Deal(v) # << >>
    BY DealType
  <2>3. PICK pc, batch :
          /\ pc = IF inline THEN (IF v = 1 THEN "read" ELSE "ended") ELSE "starting"
          /\ batch = IF inline THEN (IF v = 1 THEN all ELSE << >>) ELSE Deal(v)
    OBVIOUS
  <2>4. /\ batch \in Seq(Files)
        /\ \/ pc \in {"read", "starting"} /\ batch # << >>
           \/ pc = "ended" /\ batch = << >>
    BY <1>3, <2>2, <2>3
  <2>5. worker'[<<q, v>>] = [Off EXCEPT !.pc = pc, !.batch = batch]
    <3>1. CASE inline
      BY <1>4, <2>1, <2>3, <3>1
    <3>2. CASE ~inline
      BY <1>4, <2>1, <2>3, <3>2
    <3>. QED
      BY <3>1, <3>2
  <2>6. PICK r : r = [Off EXCEPT !.pc = pc, !.batch = batch]
    OBVIOUS
  <2>7. r.pc = pc /\ r.batch = batch /\ r.out = NoResults /\ r \in Worker
    BY <2>6, <2>4 DEF Off, Worker, NoResults
  <2>8. Shape(r) /\ r.pc \notin {"off", "failed"}
    BY <2>7, <2>4 DEF Shape, Busy, InHand
  <2>9. ASSUME NEW seen PROVE Truthful(r, seen)
    BY <2>7, <2>4 DEF Truthful, NoResults, InHand
  <2>. QED
    BY <2>3, <2>5, <2>6, <2>7, <2>8, <2>9
<1>7. \A w \in All : w[1] # q => worker'[w] = worker[w]
  BY <1>4
<1>8. \A w \in All : w[1] \in Pools /\ w[2] \in Workers /\ w = <<w[1], w[2]>>
  BY DEF All
<1>9. ASSUME NEW w \in All PROVE worker'[w] \in Worker /\ Shape(worker'[w])
  <2>1. CASE w[1] = q
    <3>1. w = <<q, w[2]>> /\ w[2] \in Workers
      BY <1>8, <2>1
    <3>. QED
      BY <1>6, <3>1
  <2>2. CASE w[1] # q
    BY <1>7, <2>2 DEF IInv, TypeOK, All
  <2>. QED
    BY <2>1, <2>2
<1>10. TypeOK'
  <2>1. worker' \in [All -> Worker]
    BY <1>4, <1>9
  <2>2. had' \in [Pools -> Seen]
    <3>1. [f \in Files |-> {text[f]}] \in Seen
      BY DEF Seen, IInv, TypeOK
    <3>. QED
      BY <1>1, <3>1 DEF IInv, TypeOK, Seen
  <2>3. [pool[q] EXCEPT !.st = "running", !.pid = pid, !.inline = inline] \in
          [st : {"none", "running", "resolved", "rejected", "killed"},
           pid : Pids, inline : BOOLEAN, results : [Files -> Results \cup {None}]]
    <3>1. pool[q] \in [st : {"none", "running", "resolved", "rejected", "killed"},
                       pid : Pids, inline : BOOLEAN, results : [Files -> Results \cup {None}]]
      BY DEF IInv, TypeOK
    <3>. QED
      BY <3>1
  <2>. QED
    BY <1>1, <2>1, <2>2, <2>3 DEF IInv, TypeOK, All, Seen
<1>11. /\ pool'[q].st = "running" /\ pool'[q].results = NoResults
       /\ \A p \in Pools \ {q} : pool'[p] = pool[p] /\ had'[p] = had[p]
       /\ had'[q] = [f \in Files |-> {text[f]}]
  BY <1>1 DEF IInv, TypeOK, PoolSound
<1>12. ASSUME NEW p \in Pools PROVE PoolSound(p)'
  <2>1. \A v \in Workers : <<p, v>> \in All /\ <<p, v>>[1] = p
    BY DEF All
  <2>2. CASE p # q
    <3>1. PoolSound(p) /\ \A v \in Workers : worker'[<<p, v>>] = worker[<<p, v>>]
      BY <1>7, <2>1, <2>2 DEF IInv
    <3>. QED
      BY <1>1, <1>11, <2>2, <3>1, PoolKept
  <2>3. CASE p = q
    <3>1. Believable(p)'
      BY <1>11, <2>3 DEF Believable, NoResults
    <3>2. Covered(p)'
      <4>1. SUFFICES ASSUME NEW f \in Files
                     PROVE  \E v \in Workers : Has(worker'[<<q, v>>], f)
        BY <2>3 DEF Covered
      <4>2. CASE inline
        BY <1>3, <1>5, <1>6, <4>2 DEF Has
      <4>3. CASE ~inline
        <5>1. PICK v \in Workers : \E i \in 1..Len(Deal(v)) : Deal(v)[i] = f
          BY DealCovers
        <5>. QED
          BY <1>6, <4>3, <5>1 DEF Has
      <4>. QED
        BY <4>2, <4>3
    <3>3. \A f \in Files : text'[f] \in had'[p][f]
      BY <1>1, <1>11, <2>3
    <3>. QED
      BY <1>6, <1>11, <2>3, <3>1, <3>2, <3>3 DEF PoolSound
  <2>. QED
    BY <2>2, <2>3
<1>13. CacheSound'
  BY <1>1 DEF IInv, CacheSound
<1>. QED
  BY <1>9, <1>10, <1>12, <1>13 DEF IInv

-----------------------------------------------------------------------------
(* The invariant *)

LEMMA Initially == Init => IInv
<1>. SUFFICES ASSUME Init PROVE IInv
  OBVIOUS
<1>1. (CHOOSE t \in Texts : TRUE) \in Texts /\ (CHOOSE i \in Pids : TRUE) \in Pids
  BY ValueAssumption
<1>2. TypeOK
  <2>1. NoResults \in [Files -> Results \cup {None}] /\ Off \in Worker
    BY OffType DEF NoResults
  <2>. QED
    BY <1>1, <2>1 DEF Init, TypeOK, Stored
<1>3. CacheSound
  BY DEF Init, CacheSound
<1>4. \A w \in All : worker[w] = Off /\ Shape(worker[w]) /\ worker[w].pc = "off"
  BY OffType DEF Init, All, Off
<1>5. \A p \in Pools : PoolSound(p)
  BY <1>4 DEF Init, PoolSound, All
<1>. QED
  BY <1>2, <1>3, <1>4, <1>5 DEF IInv

LEMMA Inductive == IInv /\ [Next]_vars => IInv'
<1>. SUFFICES ASSUME IInv, [Next]_vars PROVE IInv'
  OBVIOUS
<1>1. ASSUME NEW p \in Pools, NEW pid \in Pids, NEW inline \in BOOLEAN, StartPool(p, pid, inline)
      PROVE  IInv'
  BY <1>1, StartPoolStep
<1>2. ASSUME NEW w \in All, WorkerStep(w) \/ WriteFails(w) \/ WorkerFails(w)
      PROVE  IInv'
  BY <1>2, OnReadyStep, ReadStep, LookStep, TruncateStep, FillStep, RenameStep, OnReplyStep,
     TerminatedStep, WriteFailsStep, WorkerFailsStep DEF WorkerStep
<1>3. ASSUME NEW pid \in Pids, Interrupt(pid) PROVE IInv'
  BY <1>3, InterruptStep
<1>4. ASSUME NEW f \in Files, NEW t \in Texts \cup {Unreadable}, Edit(f, t) PROVE IInv'
  BY <1>4, EditStep
<1>5. CASE UNCHANGED vars
  <2>1. UNCHANGED <<text, had, entry, temp, pool, worker, edits, failures>>
    BY <1>5 DEF vars
  <2>2. TypeOK' /\ CacheSound' /\ \A w \in All : Shape(worker[w])'
    BY <2>1 DEF IInv, TypeOK, CacheSound
  <2>3. \A p \in Pools : PoolSound(p)'
    BY <2>1, PoolKept DEF IInv
  <2>. QED
    BY <2>2, <2>3 DEF IInv
<1>. QED
  BY <1>1, <1>2, <1>3, <1>4, <1>5 DEF Next, All

LEMMA Invariance == Spec => []IInv
<1>. QED
  BY Initially, Inductive, PTL DEF Spec

(* The variables have their types in every run: workers.ts and cache.ts over *)
(* any number of files, workers, processes and calls.                        *)
THEOREM TypeCorrect == Spec => []TypeOK
<1>1. IInv => TypeOK
  BY DEF IInv
<1>. QED
  BY <1>1, Invariance, PTL

(* parse/cache.ts:12-13, workers.ts:120-148 — a run that resolves answers     *)
(* every file, with a parse of that file and of a text it had during the run,*)
(* whatever other runs, workers left behind, edits and interruptions did to  *)
(* the cache directory.                                                      *)
THEOREM EveryFileIsAnswered == Spec => []AnswersTheFiles
<1>1. IInv => AnswersTheFiles
  BY DEF IInv, PoolSound, Believable, Own, AnswersTheFiles
<1>. QED
  BY <1>1, Invariance, PTL

-----------------------------------------------------------------------------
(* Functions of a number, and the first of a set of numbers. *)

\* A set of numbers that is not empty has a first one.
LEMMA FirstNumber ==
  ASSUME NEW S \in SUBSET Nat, S # {}
  PROVE  \E s \in S : \A o \in S : s <= o
<1>. DEFINE R == OpToRel(<, Nat)
<1>1. IsWellFoundedOn(R, Nat)
  BY NatLessThanWellFounded
<1>2. \A x, y \in Nat : x < y => <<x, y>> \in R
  BY DEF OpToRel
<1>. HIDE DEF R
<1>3. PICK s \in S : \A o \in S : ~(<<o, s>> \in R)
  BY <1>1, WFMin
<1>4. \A o \in S : ~(o < s)
  BY <1>2, <1>3, Zenon
<1>. QED
  BY <1>4

\* A function given at 0, and at each number by `step` from the one before,
\* exists and has its values where `step` leads.
Follows(f, n, base, step) == f = [i \in 0 .. n |-> IF i = 0 THEN base ELSE step[<<i, f[i - 1]>>]]

LEMMA Recursion ==
  ASSUME NEW n \in Nat, NEW X, NEW base \in X, NEW step, \A i \in 1 .. n, x \in X : step[<<i, x>>] \in X
  PROVE  /\ \E f : Follows(f, n, base, step)
         /\ \A f : Follows(f, n, base, step) => \A i \in 0 .. n : f[i] \in X
<1>1. ASSUME NEW m \in 0 .. n, NEW f, Follows(f, m, base, step) PROVE \A i \in 0 .. m : f[i] \in X
  <2>. DEFINE wrong == {i \in 0 .. m : f[i] \notin X}
  <2>1. SUFFICES ASSUME wrong # {} PROVE FALSE
    OBVIOUS
  <2>2. PICK i \in wrong : \A o \in wrong : i <= o
    <3>1. wrong \in SUBSET Nat
      OBVIOUS
    <3>. HIDE DEF wrong
    <3>. QED
      BY <2>1, <3>1, FirstNumber
  <2>3. f[i] = IF i = 0 THEN base ELSE step[<<i, f[i - 1]>>]
    BY <1>1, <2>2 DEF Follows
  <2>4. i # 0 => i \in 1 .. n /\ i - 1 \in 0 .. m /\ ~(i <= i - 1)
    BY <2>2
  <2>5. i # 0 => f[i - 1] \in X
    BY <2>2, <2>4
  <2>. QED
    BY <2>2, <2>3, <2>4, <2>5
<1>2. \E f : Follows(f, n, base, step)
  <2>. DEFINE wrong == {m \in 0 .. n : \A f : ~Follows(f, m, base, step)}
  <2>1. SUFFICES ASSUME wrong # {} PROVE FALSE
    OBVIOUS
  <2>2. PICK m \in wrong : \A o \in wrong : m <= o
    <3>1. wrong \in SUBSET Nat
      OBVIOUS
    <3>. HIDE DEF wrong
    <3>. QED
      BY <2>1, <3>1, FirstNumber
  <2>3. m \in 0 .. n /\ \A f : ~Follows(f, m, base, step)
    BY <2>2
  <2>4. CASE m = 0
    <3>. DEFINE g == [i \in 0 .. 0 |-> base]
    <3>1. Follows(g, 0, base, step)
      BY DEF Follows
    <3>. QED
      BY <2>3, <2>4, <3>1
  <2>5. CASE m # 0
    <3>1. m \in 1 .. n /\ m - 1 \in 0 .. n /\ ~(m <= m - 1)
      BY <2>3, <2>5
    <3>2. PICK f : Follows(f, m - 1, base, step)
      <4>1. m - 1 \notin wrong
        <5>. HIDE DEF wrong
        <5>. QED
          BY <2>2, <3>1
      <4>2. ~(\A f : ~Follows(f, m - 1, base, step))
        BY <3>1, <4>1
      <4>. QED
        BY <4>2, Zenon
    <3>. DEFINE g == [i \in 0 .. m |-> IF i = m THEN step[<<m, f[m - 1]>>] ELSE f[i]]
    <3>3. \A i \in 0 .. m : g[i] = IF i = 0 THEN base ELSE step[<<i, g[i - 1]>>]
      <4>1. \A i \in 0 .. m - 1 : f[i] = IF i = 0 THEN base ELSE step[<<i, f[i - 1]>>]
        BY <3>1, <3>2 DEF Follows
      <4>2. g[m] = step[<<m, f[m - 1]>>] /\ \A i \in 0 .. m - 1 : g[i] = f[i]
        BY <3>1
      <4>3. \A i \in 0 .. m : i = m \/ (i \in 0 .. m - 1 /\ (i # 0 => i - 1 \in 0 .. m - 1))
        BY <3>1
      <4>4. m # 0 /\ m - 1 \in 0 .. m - 1
        BY <3>1
      <4>. HIDE DEF g, wrong
      <4>5. g[m] = IF m = 0 THEN base ELSE step[<<m, g[m - 1]>>]
        BY <4>2, <4>4
      <4>6. \A i \in 0 .. m - 1 : g[i] = IF i = 0 THEN base ELSE step[<<i, g[i - 1]>>]
        <5>. TAKE i \in 0 .. m - 1
        <5>1. f[i] = IF i = 0 THEN base ELSE step[<<i, f[i - 1]>>]
          BY <4>1
        <5>2. i # 0 => i - 1 \in 0 .. m - 1
          BY <3>1
        <5>. QED
          BY <4>2, <5>1, <5>2
      <4>. QED
        BY <4>3, <4>5, <4>6
    <3>4. Follows(g, m, base, step)
      <4>. HIDE DEF wrong
      <4>. QED
        BY <3>3 DEF Follows
    <3>. QED
      BY <2>3, <3>4
  <2>. QED
    BY <2>4, <2>5
<1>. QED
  BY <1>1, <1>2

-----------------------------------------------------------------------------
(* The merge of the orders of the bases.  After n passes it has put out n    *)
(* members, unless it is over, and of every list a first part, in the order  *)
(* it had there; what is left of a list has not been put out (Progress).     *)

Merges(S, D) == [out : Seq(S), lists : [D -> Seq(S)]]

LEMMA MinIsFirst ==
  ASSUME NEW S \in SUBSET Nat, S # {}
  PROVE  Min(S) \in S
<1>1. \E s \in S : \A o \in S : s =< o
  BY FirstNumber
<1>. QED
  BY <1>1 DEF Min

LEMMA ListedIsFinite ==
  ASSUME NEW S, NEW lists \in Seq(Seq(S))
  PROVE  IsFiniteSet(Listed(lists)) /\ Listed(lists) \subseteq S
<1>1. DOMAIN lists = 1 .. Len(lists) /\ Len(lists) \in Nat
  OBVIOUS
<1>2. \A i \in DOMAIN lists : IsFiniteSet(ToSet(lists[i])) /\ ToSet(lists[i]) \subseteq S
  <2>. TAKE i \in DOMAIN lists
  <2>1. lists[i] \in Seq(S)
    OBVIOUS
  <2>2. IsFiniteSet(1 .. Len(lists[i])) /\ DOMAIN lists[i] = 1 .. Len(lists[i])
    BY <2>1, FS_Interval
  <2>3. lists[i] \in Surjection(DOMAIN lists[i], ToSet(lists[i]))
    BY <2>1 DEF Surjection, ToSet
  <2>. QED
    BY <2>1, <2>2, <2>3, FS_Surjection DEF ToSet
<1>3. IsFiniteSet({ToSet(lists[i]) : i \in DOMAIN lists})
  <2>1. IsFiniteSet(DOMAIN lists)
    BY <1>1, FS_Interval
  <2>2. [i \in DOMAIN lists |-> ToSet(lists[i])] \in Surjection(DOMAIN lists, {ToSet(lists[i]) : i \in DOMAIN lists})
    BY DEF Surjection
  <2>. QED
    BY <2>1, <2>2, FS_Surjection
<1>4. \A s \in {ToSet(lists[i]) : i \in DOMAIN lists} : IsFiniteSet(s)
  BY <1>2
<1>5. IsFiniteSet(UNION {ToSet(lists[i]) : i \in DOMAIN lists})
  BY <1>3, <1>4, FS_UNION
<1>. QED
  BY <1>2, <1>5 DEF Listed

\* The members of the lists that are left, and where they stand.
LEMMA TailOf ==
  ASSUME NEW S, NEW s \in Seq(S), s # <<>>
  PROVE  /\ Tail(s) \in Seq(S) /\ Len(Tail(s)) = Len(s) - 1 /\ Len(s) \in Nat \ {0} /\ s[1] \in S
         /\ \A p \in 1 .. Len(s) - 1 : Tail(s)[p] = s[p + 1]
<1>1. Len(s) \in Nat \ {0}
  BY EmptySeq
<1>. QED
  BY <1>1, HeadTailProperties

\* The head of list c is put out and taken off the lists D.
Takes(m, c, next, D) ==
  /\ next.out = Append(m.out, m.lists[c][1])
  /\ \A i \in D : next.lists[i] = IF m.lists[i] # <<>> /\ m.lists[i][1] = m.lists[c][1]
                                 THEN Tail(m.lists[i]) ELSE m.lists[i]

LEMMA PassKeepsType ==
  ASSUME NEW S, NEW n \in Nat, NEW m \in Merges(S, 1 .. n)
  PROVE  /\ Pass(m) \in Merges(S, 1 .. n)
         /\ Heads(m.lists) # {} => \E c \in Heads(m.lists) : Takes(m, c, Pass(m), 1 .. n)
<1>. DEFINE c == Min(Heads(m.lists))
            head == m.lists[c][1]
<1>1. m.out \in Seq(S) /\ m.lists \in [1 .. n -> Seq(S)] /\ DOMAIN m.lists = 1 .. n
  BY DEF Merges
<1>2. CASE Heads(m.lists) = {}
  BY <1>2 DEF Pass
<1>3. CASE Heads(m.lists) # {}
  <2>1. c \in Heads(m.lists)
    <3>1. Heads(m.lists) \in SUBSET Nat
      BY <1>1 DEF Heads
    <3>. QED
      BY <1>3, <3>1, MinIsFirst
  <2>2. c \in 1 .. n /\ m.lists[c] # <<>> /\ m.lists[c] \in Seq(S)
    BY <1>1, <2>1 DEF Heads
  <2>3. head \in S
    BY <2>2, TailOf
  <2>4. Pass(m) = [out   |-> Append(m.out, head),
                   lists |-> [i \in 1 .. n |-> IF m.lists[i] # <<>> /\ m.lists[i][1] = head
                                               THEN Tail(m.lists[i]) ELSE m.lists[i]]]
    BY <1>1, <1>3 DEF Pass
  <2>. HIDE DEF c
  <2>5. \A i \in 1 .. n : (IF m.lists[i] # <<>> /\ m.lists[i][1] = head THEN Tail(m.lists[i]) ELSE m.lists[i]) \in Seq(S)
    <3>. TAKE i \in 1 .. n
    <3>1. m.lists[i] \in Seq(S)
      BY <1>1
    <3>2. m.lists[i] # <<>> => Tail(m.lists[i]) \in Seq(S)
      BY <3>1, TailOf
    <3>. QED
      BY <3>1, <3>2
  <2>6. Append(m.out, head) \in Seq(S)
    BY <1>1, <2>3
  <2>7. Pass(m) \in Merges(S, 1 .. n)
    BY <2>4, <2>5, <2>6 DEF Merges
  <2>8. Pass(m).out = Append(m.out, head)
    BY <2>4
  <2>9. \A i \in 1 .. n : Pass(m).lists[i] = IF m.lists[i] # <<>> /\ m.lists[i][1] = head
                                             THEN Tail(m.lists[i]) ELSE m.lists[i]
    BY <2>4
  <2>10. Takes(m, c, Pass(m), 1 .. n)
    BY <2>8, <2>9 DEF Takes
  <2>. QED
    BY <1>3, <2>1, <2>7, <2>10
<1>. QED
  BY <1>2, <1>3

LEMMA PlacesAreEnough ==
  ASSUME NEW S, NEW lists \in Seq(Seq(S))
  PROVE  Cardinality(Places(lists)) \in Nat /\ Cardinality(Listed(lists)) <= Cardinality(Places(lists))
<1>. DEFINE row(i) == {<<i, p>> : p \in DOMAIN lists[i]}
            at == [pl \in Places(lists) |-> lists[pl[1]][pl[2]]]
<1>1. DOMAIN lists = 1 .. Len(lists) /\ Len(lists) \in Nat
  OBVIOUS
<1>2. \A i \in DOMAIN lists : IsFiniteSet(row(i))
  <2>. TAKE i \in DOMAIN lists
  <2>1. lists[i] \in Seq(S)
    OBVIOUS
  <2>2. IsFiniteSet(DOMAIN lists[i])
    BY <2>1, FS_Interval
  <2>3. [p \in DOMAIN lists[i] |-> <<i, p>>] \in Surjection(DOMAIN lists[i], row(i))
    BY DEF Surjection
  <2>. QED
    BY <2>2, <2>3, FS_Surjection
<1>. HIDE DEF row
<1>3. IsFiniteSet({row(i) : i \in DOMAIN lists})
  <2>1. IsFiniteSet(DOMAIN lists)
    BY <1>1, FS_Interval
  <2>2. [i \in DOMAIN lists |-> row(i)] \in Surjection(DOMAIN lists, {row(i) : i \in DOMAIN lists})
    BY DEF Surjection
  <2>. QED
    BY <2>1, <2>2, FS_Surjection
<1>4. \A r \in {row(i) : i \in DOMAIN lists} : IsFiniteSet(r)
  BY <1>2
<1>5. IsFiniteSet(UNION {row(i) : i \in DOMAIN lists})
  BY <1>3, <1>4, FS_UNION
<1>6. IsFiniteSet(Places(lists))
  BY <1>5 DEF Places, row
<1>7. at \in Surjection(Places(lists), Listed(lists))
  <2>1. \A pl : pl \in Places(lists) <=> \E i \in DOMAIN lists : \E p \in DOMAIN lists[i] : pl = <<i, p>>
    BY DEF Places
  <2>2. \A x : x \in Listed(lists) <=> \E i \in DOMAIN lists : \E p \in DOMAIN lists[i] : x = lists[i][p]
    BY DEF Listed, ToSet
  <2>3. \A pl \in Places(lists) : at[pl] \in Listed(lists)
    BY <2>1, <2>2
  <2>4. ASSUME NEW x \in Listed(lists) PROVE \E pl \in Places(lists) : at[pl] = x
    <3>1. PICK i \in DOMAIN lists : \E p \in DOMAIN lists[i] : x = lists[i][p]
      BY <2>2
    <3>2. PICK p \in DOMAIN lists[i] : x = lists[i][p]
      BY <3>1
    <3>3. <<i, p>> \in Places(lists) /\ at[<<i, p>>] = x
      BY <2>1, <3>2
    <3>. QED
      BY <3>3
  <2>. QED
    BY <2>3, <2>4 DEF Surjection
<1>. HIDE DEF at
<1>. QED
  BY <1>6, <1>7, FS_Surjection, FS_CardinalityType

LEMMA MergeUnrolls ==
  ASSUME NEW S, NEW lists \in Seq(Seq(S))
  PROVE  \E f : /\ C3Merge(lists) = f[Cardinality(Places(lists))]
                /\ f[0] = [out |-> <<>>, lists |-> lists]
                /\ \A n \in 1 .. Cardinality(Places(lists)) : f[n] = Pass(f[n - 1])
                /\ \A n \in 0 .. Cardinality(Places(lists)) : f[n] \in Merges(S, 1 .. Len(lists))
<1>. DEFINE size == Cardinality(Places(lists))
            X == Merges(S, 1 .. Len(lists))
            base == [out |-> <<>>, lists |-> lists]
            step == [p \in (1 .. size) \X X |-> Pass(p[2])]
            Is(f) == f = [n \in 0 .. size |-> IF n = 0 THEN base ELSE Pass(f[n - 1])]
            F == CHOOSE f : Is(f)
<1>1. C3Merge(lists) = F[size]
  BY DEF C3Merge
<1>2. size \in Nat
  BY PlacesAreEnough
<1>3. base \in X
  <2>1. lists \in [1 .. Len(lists) -> Seq(S)] /\ <<>> \in Seq(S)
    OBVIOUS
  <2>. QED
    BY <2>1 DEF Merges
<1>4. \A n \in 1 .. size, x \in X : step[<<n, x>>] = Pass(x) /\ step[<<n, x>>] \in X
  BY PassKeepsType
<1>. HIDE DEF size, step, X, base
<1>5. PICK f : Follows(f, size, base, step) /\ \A n \in 0 .. size : f[n] \in X
  BY <1>2, <1>3, <1>4, Recursion
<1>6. Is(f)
  <2>1. \A n \in 0 .. size : (IF n = 0 THEN base ELSE step[<<n, f[n - 1]>>]) = (IF n = 0 THEN base ELSE Pass(f[n - 1]))
    <3>. TAKE n \in 0 .. size
    <3>1. n # 0 => n \in 1 .. size /\ n - 1 \in 0 .. size
      BY <1>2
    <3>. QED
      BY <1>4, <1>5, <3>1
  <2>. QED
    BY <1>5, <2>1 DEF Follows
<1>7. Is(F)
  <2>. HIDE DEF Is
  <2>. QED
    BY <1>6
<1>. HIDE DEF F
<1>8. F[0] = base /\ \A n \in 1 .. size : F[n] = Pass(F[n - 1])
  BY <1>2, <1>7
<1>9. Follows(F, size, base, step)
  <2>1. \A n \in 0 .. size : F[n] \in X
    <3>. DEFINE wrong == {n \in 0 .. size : F[n] \notin X}
    <3>1. SUFFICES ASSUME wrong # {} PROVE FALSE
      OBVIOUS
    <3>2. PICK n \in wrong : \A o \in wrong : n <= o
      <4>1. wrong \in SUBSET Nat
        BY <1>2
      <4>. HIDE DEF wrong
      <4>. QED
        BY <3>1, <4>1, FirstNumber
    <3>3. n \in 1 .. size /\ n - 1 \in 0 .. size /\ ~(n <= n - 1)
      BY <1>2, <1>3, <1>8, <3>2
    <3>4. F[n - 1] \in X
      BY <3>2, <3>3
    <3>5. F[n] = Pass(F[n - 1]) /\ Pass(F[n - 1]) \in X
      BY <1>4, <1>8, <3>3, <3>4
    <3>. QED
      BY <3>2, <3>5
  <2>2. \A n \in 0 .. size : (IF n = 0 THEN base ELSE step[<<n, F[n - 1]>>]) = (IF n = 0 THEN base ELSE Pass(F[n - 1]))
    <3>. TAKE n \in 0 .. size
    <3>1. n # 0 => n \in 1 .. size /\ n - 1 \in 0 .. size
      BY <1>2
    <3>. QED
      BY <1>4, <2>1, <3>1
  <2>. QED
    BY <1>7, <2>2 DEF Follows
<1>10. \A n \in 0 .. size : F[n] \in X
  BY <1>2, <1>3, <1>4, <1>9, Recursion
<1>. QED
  BY <1>1, <1>8, <1>10 DEF size, X, base

\* The first done[i] of list i are out, in their order, and nothing else is.
Progress(lists, m, done) ==
  /\ done \in [1 .. Len(lists) -> Nat]
  /\ \A i \in 1 .. Len(lists) :
       /\ done[i] + Len(m.lists[i]) = Len(lists[i])
       /\ \A p \in 1 .. Len(m.lists[i]) : m.lists[i][p] = lists[i][p + done[i]]
       /\ \A p \in 1 .. Len(lists[i]) : p <= done[i] <=> lists[i][p] \in ToSet(m.out)
       /\ \A p, q \in 1 .. done[i] : p < q => Before(m.out, lists[i][p], lists[i][q])
  /\ IsInjective(m.out)
  /\ ToSet(m.out) \subseteq Listed(lists)

LEMMA AppendHas ==
  ASSUME NEW S, NEW s \in Seq(S), NEW e \in S
  PROVE  /\ ToSet(Append(s, e)) = ToSet(s) \cup {e}
         /\ \A x, y : Before(s, x, y) => Before(Append(s, e), x, y)
         /\ \A x \in ToSet(s) : Before(Append(s, e), x, e)
         /\ IsInjective(s) /\ e \notin ToSet(s) => IsInjective(Append(s, e))
<1>. DEFINE t == Append(s, e)
            n == Len(s)
<1>1. n \in Nat /\ DOMAIN s = 1 .. n /\ DOMAIN t = 1 .. n + 1 /\ t[n + 1] = e /\ \A p \in 1 .. n : t[p] = s[p]
  BY AppendProperties
<1>. HIDE DEF t, n
<1>2. 1 .. n + 1 = (1 .. n) \cup {n + 1} /\ n + 1 \notin 1 .. n
  BY <1>1
<1>3. ToSet(t) = ToSet(s) \cup {e}
  BY <1>1, <1>2 DEF ToSet
<1>4. \A x, y : Before(s, x, y) => Before(t, x, y)
  BY <1>1, <1>2 DEF Before
<1>5. \A x \in ToSet(s) : Before(t, x, e)
  <2>. TAKE x \in ToSet(s)
  <2>1. PICK p \in 1 .. n : s[p] = x
    BY <1>1 DEF ToSet
  <2>2. p \in DOMAIN t /\ n + 1 \in DOMAIN t /\ p < n + 1 /\ t[p] = x
    BY <1>1, <2>1
  <2>. QED
    BY <1>1, <2>2 DEF Before
<1>6. ASSUME IsInjective(s), e \notin ToSet(s) PROVE IsInjective(t)
  <2>1. SUFFICES ASSUME NEW p \in 1 .. n + 1, NEW q \in 1 .. n + 1, t[p] = t[q] PROVE p = q
    BY <1>1 DEF IsInjective
  <2>2. \A r \in 1 .. n : t[r] # e
    BY <1>1, <1>6 DEF ToSet
  <2>3. p \in 1 .. n /\ q \in 1 .. n => p = q
    BY <1>1, <1>6, <2>1 DEF IsInjective
  <2>. QED
    BY <1>1, <1>2, <2>1, <2>2, <2>3
<1>. QED
  BY <1>3, <1>4, <1>5, <1>6 DEF t

LEMMA Shifted == \A a, b \in Nat : \A p \in 1 .. b - 1 : p + 1 \in 1 .. b /\ (p + 1) + a = p + (a + 1)
OBVIOUS

LEMMA Balance == \A a, b \in Nat : (a + 1) + (b - 1) = a + b
OBVIOUS

\* A list that names no one twice has nothing of its first place in its tail.
LEMMA HeadIsInNoTail ==
  ASSUME NEW S, NEW lists \in Seq(Seq(S)), \A i \in DOMAIN lists : IsInjective(lists[i]),
         NEW m \in Merges(S, 1 .. Len(lists)), NEW done, Progress(lists, m, done),
         NEW c \in Heads(m.lists), NEW j \in 1 .. Len(lists), m.lists[j] # <<>>
  PROVE  ~Contains(Tail(m.lists[j]), m.lists[c][1])
<1>. DEFINE head == m.lists[c][1]
            list == m.lists[j]
<1>1. list \in Seq(S) /\ lists[j] \in Seq(S) /\ DOMAIN m.lists = 1 .. Len(lists) /\ DOMAIN lists = 1 .. Len(lists)
  BY DEF Merges
<1>2. /\ done[j] \in Nat /\ done[j] + Len(list) = Len(lists[j])
      /\ \A p \in 1 .. Len(list) : list[p] = lists[j][p + done[j]]
  BY DEF Progress
<1>3. Contains(list, head) => list[1] = head
  BY <1>1 DEF Heads
<1>. HIDE DEF head, list
<1>4. SUFFICES ASSUME NEW p \in 1 .. Len(Tail(list)), Tail(list)[p] = head PROVE FALSE
  BY DEF Contains, head, list
<1>5. Len(list) \in Nat \ {0} /\ Len(Tail(list)) = Len(list) - 1 /\ \A q \in 1 .. Len(list) - 1 : Tail(list)[q] = list[q + 1]
  BY <1>1, TailOf DEF list
<1>6. p \in Nat \ {0} /\ p + 1 \in 1 .. Len(list) /\ 1 \in 1 .. Len(list) /\ list[p + 1] = head
  BY <1>4, <1>5
<1>7. list[1] = head
  BY <1>3, <1>6 DEF Contains
<1>8. lists[j][1 + done[j]] = lists[j][(p + 1) + done[j]]
  BY <1>2, <1>6, <1>7
<1>9. 1 + done[j] \in DOMAIN lists[j] /\ (p + 1) + done[j] \in DOMAIN lists[j] /\ 1 + done[j] # (p + 1) + done[j]
  <2>1. DOMAIN lists[j] = 1 .. Len(lists[j]) /\ Len(lists[j]) \in Nat
    BY <1>1, LenProperties
  <2>. QED
    BY <1>2, <1>5, <1>6, <2>1
<1>10. IsInjective(lists[j])
  BY <1>1
<1>. QED
  BY <1>8, <1>9, <1>10 DEF IsInjective

LEMMA PassProgresses ==
  ASSUME NEW S, NEW lists \in Seq(Seq(S)), \A i \in DOMAIN lists : IsInjective(lists[i]),
         NEW m \in Merges(S, 1 .. Len(lists)), NEW done, Progress(lists, m, done),
         Heads(m.lists) # {}
  PROVE  /\ \E now : Progress(lists, Pass(m), now)
         /\ Len(Pass(m).out) = Len(m.out) + 1
<1>. DEFINE n == Len(lists)
            next == Pass(m)
<1>1. n \in Nat /\ m.out \in Seq(S) /\ m.lists \in [1 .. n -> Seq(S)] /\ \A i \in 1 .. n : lists[i] \in Seq(S)
  BY DEF Merges
<1>2. PICK c \in Heads(m.lists) :
        /\ next.out = Append(m.out, m.lists[c][1])
        /\ \A i \in 1 .. n : next.lists[i] = IF m.lists[i] # <<>> /\ m.lists[i][1] = m.lists[c][1]
                                             THEN Tail(m.lists[i]) ELSE m.lists[i]
  <2>1. Len(lists) \in Nat
    BY <1>1
  <2>2. \E c \in Heads(m.lists) : Takes(m, c, Pass(m), 1 .. Len(lists))
    <3>. HIDE DEF n, next
    <3>. QED
      BY <2>1, PassKeepsType
  <2>. QED
    BY <2>2 DEF Takes
<1>. DEFINE head == m.lists[c][1]
            taken(i) == m.lists[i] # <<>> /\ m.lists[i][1] = head
            now == [i \in 1 .. n |-> IF taken(i) THEN done[i] + 1 ELSE done[i]]
<1>3. c \in 1 .. n /\ m.lists[c] # <<>> /\ \A j \in 1 .. n : m.lists[j] # <<>> => ~Contains(Tail(m.lists[j]), head)
  <2>1. c \in 1 .. n /\ m.lists[c] # <<>>
    BY <1>1 DEF Heads
  <2>2. \A j \in 1 .. n : m.lists[j] # <<>> => ~Contains(Tail(m.lists[j]), head)
    BY HeadIsInNoTail
  <2>. QED
    BY <2>1, <2>2
<1>. HIDE DEF next, n
<1>4. \A i \in 1 .. n : /\ m.lists[i] \in Seq(S) /\ Len(m.lists[i]) \in Nat /\ Len(lists[i]) \in Nat
                        /\ m.lists[i] # <<>> => /\ Len(m.lists[i]) > 0
                                                /\ Len(Tail(m.lists[i])) = Len(m.lists[i]) - 1
                                                /\ \A p \in 1 .. Len(m.lists[i]) - 1 : Tail(m.lists[i])[p] = m.lists[i][p + 1]
                        /\ m.lists[i] = <<>> => Len(m.lists[i]) = 0
  <2>. TAKE i \in 1 .. n
  <2>1. m.lists[i] \in Seq(S) /\ lists[i] \in Seq(S)
    BY <1>1
  <2>2. m.lists[i] # <<>> => /\ Len(m.lists[i]) \in Nat \ {0}
                             /\ Len(Tail(m.lists[i])) = Len(m.lists[i]) - 1
                             /\ \A p \in 1 .. Len(m.lists[i]) - 1 : Tail(m.lists[i])[p] = m.lists[i][p + 1]
    BY <2>1, TailOf
  <2>3. m.lists[i] = <<>> => Len(m.lists[i]) = 0
    BY EmptySeq
  <2>. QED
    BY <2>1, <2>2, <2>3, LenProperties
\* The head is nowhere in what is left but at the front.
<1>5. \A i \in 1 .. n : \A p \in 1 .. Len(m.lists[i]) : m.lists[i][p] = head <=> (p = 1 /\ taken(i))
  <2>. SUFFICES ASSUME NEW i \in 1 .. n, NEW p \in 1 .. Len(m.lists[i])
                PROVE  m.lists[i][p] = head <=> (p = 1 /\ taken(i))
    OBVIOUS
  <2>1. m.lists[i] # <<>>
    BY <1>4
  <2>2. CASE p = 1
    BY <2>1, <2>2
  <2>3. CASE p # 1
    <3>1. p - 1 \in 1 .. Len(Tail(m.lists[i])) /\ Tail(m.lists[i])[p - 1] = m.lists[i][(p - 1) + 1] /\ (p - 1) + 1 = p
      BY <1>4, <2>1, <2>3
    <3>2. Tail(m.lists[i])[p - 1] # head
      BY <1>3, <2>1, <3>1 DEF Contains
    <3>. QED
      BY <2>3, <3>1, <3>2
  <2>. QED
    BY <2>2, <2>3
<1>6. /\ done \in [1 .. n -> Nat]
      /\ IsInjective(m.out)
      /\ ToSet(m.out) \subseteq Listed(lists)
      /\ \A i \in 1 .. n :
           /\ done[i] \in Nat /\ done[i] + Len(m.lists[i]) = Len(lists[i])
           /\ \A p \in 1 .. Len(m.lists[i]) : m.lists[i][p] = lists[i][p + done[i]]
           /\ \A p \in 1 .. Len(lists[i]) : p <= done[i] <=> lists[i][p] \in ToSet(m.out)
           /\ \A p, q \in 1 .. done[i] : p < q => Before(m.out, lists[i][p], lists[i][q])
  BY DEF Progress, n
<1>7. head \in S /\ head = lists[c][1 + done[c]] /\ 1 + done[c] \in 1 .. Len(lists[c]) /\ ~(1 + done[c] <= done[c])
  <2>1. head \in S
    BY <1>3, <1>4, TailOf
  <2>. QED
    BY <1>3, <1>4, <1>6, <2>1
<1>8. head \notin ToSet(m.out) /\ head \in Listed(lists)
  <2>1. head \notin ToSet(m.out)
    BY <1>3, <1>6, <1>7
  <2>2. DOMAIN lists = 1 .. n
    BY DEF n
  <2>3. DOMAIN lists[c] = 1 .. Len(lists[c])
    BY <1>1, <1>3, LenProperties
  <2>. HIDE DEF head
  <2>4. head \in ToSet(lists[c])
    BY <1>7, <2>3 DEF ToSet
  <2>. QED
    BY <1>3, <2>1, <2>2, <2>4 DEF Listed
<1>. HIDE DEF head
<1>9. /\ ToSet(next.out) = ToSet(m.out) \cup {head} /\ IsInjective(next.out)
      /\ \A x, y : Before(m.out, x, y) => Before(next.out, x, y)
      /\ \A x \in ToSet(m.out) : Before(next.out, x, head)
      /\ Len(next.out) = Len(m.out) + 1
  <2>1. next.out = Append(m.out, head)
    BY <1>2 DEF head
  <2>. QED
    BY <1>1, <1>6, <1>7, <1>8, <2>1, AppendHas, AppendProperties
\* Where the head stands in a list.
<1>10. \A i \in 1 .. n : \A p \in 1 .. Len(lists[i]) : p > done[i] => (lists[i][p] = head <=> (p = done[i] + 1 /\ taken(i)))
  <2>. SUFFICES ASSUME NEW i \in 1 .. n, NEW p \in 1 .. Len(lists[i]), p > done[i]
                PROVE  lists[i][p] = head <=> (p = done[i] + 1 /\ taken(i))
    OBVIOUS
  <2>1. p - done[i] \in 1 .. Len(m.lists[i]) /\ (p - done[i]) + done[i] = p /\ (p - done[i] = 1 <=> p = done[i] + 1)
    <3>1. done[i] \in Nat /\ Len(m.lists[i]) \in Nat /\ done[i] + Len(m.lists[i]) = Len(lists[i])
      BY <1>4, <1>6
    <3>2. PICK a \in Nat, b \in Nat : a = done[i] /\ b = Len(m.lists[i])
      BY <3>1
    <3>3. p \in 1 .. a + b /\ p > a
      BY <3>1, <3>2
    <3>4. p - a \in 1 .. b /\ (p - a) + a = p /\ (p - a = 1 <=> p = a + 1)
      BY <3>3
    <3>. QED
      BY <3>2, <3>4
  <2>2. m.lists[i][p - done[i]] = lists[i][p]
    BY <1>6, <2>1
  <2>. QED
    BY <1>5, <2>1, <2>2
<1>. HIDE DEF taken
<1>11. \A i \in 1 .. n : taken(i) => done[i] + 1 \in 1 .. Len(lists[i]) /\ lists[i][done[i] + 1] = head
  <2>1. \A i \in 1 .. n : taken(i) => Len(m.lists[i]) > 0
    BY <1>4 DEF taken
  <2>2. \A i \in 1 .. n : taken(i) => done[i] + 1 \in 1 .. Len(lists[i])
    BY <1>4, <1>6, <2>1
  <2>. QED
    BY <1>6, <1>10, <2>2
<1>12. ASSUME NEW i \in 1 .. n
       PROVE  /\ now[i] \in Nat
              /\ now[i] + Len(next.lists[i]) = Len(lists[i])
              /\ \A p \in 1 .. Len(next.lists[i]) : next.lists[i][p] = lists[i][p + now[i]]
              /\ \A p \in 1 .. Len(lists[i]) : p <= now[i] <=> lists[i][p] \in ToSet(next.out)
              /\ \A p, q \in 1 .. now[i] : p < q => Before(next.out, lists[i][p], lists[i][q])
  <2>1. CASE ~taken(i)
    <3>1. now[i] = done[i] /\ next.lists[i] = m.lists[i]
      BY <1>2, <2>1 DEF taken, head
    <3>2. \A p \in 1 .. Len(lists[i]) : lists[i][p] = head => p <= done[i]
      <4>1. Len(lists[i]) \in Nat /\ done[i] \in Nat
        BY <1>4, <1>6
      <4>2. \A p \in 1 .. Len(lists[i]) : p > done[i] => lists[i][p] # head
        BY <1>10, <2>1
      <4>. QED
        BY <4>1, <4>2
    <3>3. \A p \in 1 .. Len(lists[i]) : p <= now[i] <=> lists[i][p] \in ToSet(next.out)
      BY <1>6, <1>9, <3>1, <3>2
    <3>. HIDE DEF now
    <3>. QED
      BY <1>6, <1>9, <3>1, <3>3
  <2>2. CASE taken(i)
    <3>1. now[i] = done[i] + 1 /\ next.lists[i] = Tail(m.lists[i]) /\ m.lists[i] # <<>>
      BY <1>2, <2>2 DEF taken, head
    <3>. HIDE DEF now
    <3>2. now[i] \in Nat /\ Len(next.lists[i]) = Len(m.lists[i]) - 1 /\ Len(m.lists[i]) \in Nat /\ done[i] \in Nat
      BY <1>4, <1>6, <3>1
    <3>3. now[i] + Len(next.lists[i]) = Len(lists[i])
      <4>1. done[i] + Len(m.lists[i]) = Len(lists[i])
        BY <1>6
      <4>2. done[i] \in Nat /\ Len(m.lists[i]) \in Nat
        BY <3>2
      <4>3. now[i] = done[i] + 1 /\ Len(next.lists[i]) = Len(m.lists[i]) - 1
        BY <3>1, <3>2
      <4>4. now[i] + Len(next.lists[i]) = (done[i] + 1) + (Len(m.lists[i]) - 1)
        BY <4>3
      <4>5. (done[i] + 1) + (Len(m.lists[i]) - 1) = done[i] + Len(m.lists[i])
        BY <4>2, Balance, Zenon
      <4>. QED
        BY <4>1, <4>4, <4>5
    <3>4. ASSUME NEW p \in 1 .. Len(next.lists[i]) PROVE next.lists[i][p] = lists[i][p + now[i]]
      <4>1. p + 1 \in 1 .. Len(m.lists[i]) /\ p \in 1 .. Len(m.lists[i]) - 1 /\ (p + 1) + done[i] = p + now[i]
        <5>1. p \in 1 .. Len(m.lists[i]) - 1 /\ now[i] = done[i] + 1
          BY <3>1, <3>2
        <5>2. Len(m.lists[i]) \in Nat /\ done[i] \in Nat
          BY <3>2
        <5>. QED
          BY <5>1, <5>2, Shifted
      <4>2. next.lists[i][p] = m.lists[i][p + 1]
        BY <1>4, <3>1, <4>1
      <4>3. m.lists[i][p + 1] = lists[i][(p + 1) + done[i]]
        BY <1>6, <4>1
      <4>. QED
        BY <4>1, <4>2, <4>3
    <3>5. ASSUME NEW p \in 1 .. Len(lists[i]) PROVE p <= now[i] <=> lists[i][p] \in ToSet(next.out)
      <4>1. p <= now[i] <=> (p <= done[i] \/ p = done[i] + 1)
        BY <1>4, <3>1, <3>2
      <4>2. p <= done[i] <=> lists[i][p] \in ToSet(m.out)
        BY <1>6
      <4>3. ~(p <= done[i]) => (lists[i][p] = head <=> p = done[i] + 1)
        BY <1>4, <1>10, <2>2, <3>2
      <4>4. p = done[i] + 1 => ~(p <= done[i])
        BY <3>2
      <4>. QED
        BY <1>9, <4>1, <4>2, <4>3, <4>4
    <3>6. ASSUME NEW p \in 1 .. now[i], NEW q \in 1 .. now[i], p < q PROVE Before(next.out, lists[i][p], lists[i][q])
      <4>1. p \in 1 .. done[i] /\ (q \in 1 .. done[i] \/ q = done[i] + 1)
        BY <3>1, <3>2, <3>6
      <4>2. p \in 1 .. Len(lists[i]) /\ p <= done[i]
        BY <1>4, <1>6, <3>2, <4>1
      <4>3. CASE q \in 1 .. done[i]
        BY <1>6, <1>9, <3>6, <4>1, <4>3
      <4>4. CASE q = done[i] + 1
        <5>1. lists[i][p] \in ToSet(m.out) /\ lists[i][q] = head
          BY <1>6, <1>11, <2>2, <4>2, <4>4
        <5>. QED
          BY <1>9, <5>1
      <4>. QED
        BY <4>1, <4>3, <4>4
    <3>. QED
      BY <3>2, <3>3, <3>4, <3>5, <3>6
  <2>. QED
    BY <2>1, <2>2
<1>13. now \in [1 .. n -> Nat]
  <2>1. now = [i \in 1 .. n |-> now[i]] /\ \A i \in 1 .. n : now[i] \in Nat
    BY <1>12
  <2>. HIDE DEF now
  <2>. QED
    BY <2>1
<1>. HIDE DEF now
<1>14. ToSet(next.out) \subseteq Listed(lists)
  BY <1>6, <1>8, <1>9
<1>15. Progress(lists, next, now)
  BY <1>9, <1>12, <1>13, <1>14 DEF Progress, n
<1>. QED
  BY <1>9, <1>15 DEF next

LEMMA InjectiveSize ==
  ASSUME NEW S, NEW s \in Seq(S), IsInjective(s)
  PROVE  IsFiniteSet(ToSet(s)) /\ Cardinality(ToSet(s)) = Len(s)
<1>1. Len(s) \in Nat /\ DOMAIN s = 1 .. Len(s) /\ s \in [1 .. Len(s) -> S]
  BY LenProperties
<1>2. s \in Bijection(1 .. Len(s), ToSet(s))
  BY <1>1 DEF Bijection, Injection, Surjection, ToSet, IsInjective
<1>3. IsFiniteSet(1 .. Len(s)) /\ Cardinality(1 .. Len(s)) = Len(s)
  BY <1>1, FS_Interval
<1>. QED
  BY <1>2, <1>3, FS_Bijection DEF ExistsBijection

\* Where the members that are left stand in the lists.
Stand(lists, m, done) ==
  /\ \A y \in Listed(m.lists) : \E i \in 1 .. Len(lists) : \E p \in 1 .. Len(m.lists[i]) : y = m.lists[i][p]
  /\ \A i \in 1 .. Len(lists) : \A p \in 1 .. Len(m.lists[i]) :
       /\ m.lists[i][p] \in Listed(m.lists)
       /\ m.lists[i][p] = lists[i][p + done[i]]
       /\ p + done[i] \in 1 .. Len(lists[i])
       /\ m.lists[i][p] \notin ToSet(m.out)
       /\ m.lists[i][p] \in Listed(lists)
  /\ \A i \in 1 .. Len(lists) : \A p, q \in 1 .. Len(m.lists[i]) :
       p < q => Before(lists[i], m.lists[i][p], m.lists[i][q])

LEMMA TheyStand ==
  ASSUME NEW S, NEW lists \in Seq(Seq(S)), NEW m \in Merges(S, 1 .. Len(lists)), NEW done, Progress(lists, m, done)
  PROVE  Stand(lists, m, done)
<1>. DEFINE n == Len(lists)
<1>1. m.lists \in [1 .. n -> Seq(S)] /\ n \in Nat /\ DOMAIN lists = 1 .. n
  BY DEF Merges
<1>2. \A i \in 1 .. n : /\ m.lists[i] \in Seq(S) /\ DOMAIN m.lists[i] = 1 .. Len(m.lists[i]) /\ Len(m.lists[i]) \in Nat
                        /\ lists[i] \in Seq(S) /\ DOMAIN lists[i] = 1 .. Len(lists[i]) /\ Len(lists[i]) \in Nat
  <2>. TAKE i \in 1 .. n
  <2>1. m.lists[i] \in Seq(S)
    BY <1>1
  <2>2. lists[i] \in Seq(S)
    OBVIOUS
  <2>. QED
    BY <2>1, <2>2, LenProperties
<1>3. \A i \in 1 .. n :
        /\ done[i] \in Nat /\ done[i] + Len(m.lists[i]) = Len(lists[i])
        /\ \A p \in 1 .. Len(m.lists[i]) : m.lists[i][p] = lists[i][p + done[i]]
        /\ \A p \in 1 .. Len(lists[i]) : p <= done[i] <=> lists[i][p] \in ToSet(m.out)
  BY DEF Progress
<1>. HIDE DEF n
<1>4. Listed(m.lists) = UNION {ToSet(m.lists[i]) : i \in 1 .. n} /\ Listed(lists) = UNION {ToSet(lists[i]) : i \in 1 .. n}
  BY <1>1 DEF Listed
<1>5. ASSUME NEW y \in Listed(m.lists) PROVE \E i \in 1 .. n : \E p \in 1 .. Len(m.lists[i]) : y = m.lists[i][p]
  <2>1. PICK i \in 1 .. n : y \in ToSet(m.lists[i])
    BY <1>4
  <2>. QED
    BY <1>2, <2>1 DEF ToSet
<1>6. ASSUME NEW i \in 1 .. n, NEW p \in 1 .. Len(m.lists[i])
      PROVE  /\ m.lists[i][p] \in Listed(m.lists)
             /\ m.lists[i][p] = lists[i][p + done[i]]
             /\ p + done[i] \in 1 .. Len(lists[i])
             /\ m.lists[i][p] \notin ToSet(m.out)
             /\ m.lists[i][p] \in Listed(lists)
  <2>1. m.lists[i][p] = lists[i][p + done[i]]
    BY <1>3
  <2>2. p + done[i] \in 1 .. Len(lists[i]) /\ ~(p + done[i] <= done[i])
    <3>1. done[i] \in Nat /\ Len(m.lists[i]) \in Nat /\ done[i] + Len(m.lists[i]) = Len(lists[i])
      BY <1>2, <1>3
    <3>2. p \in Nat /\ 1 <= p /\ p <= Len(m.lists[i])
      BY <3>1
    <3>. QED
      BY <3>1, <3>2
  <2>3. m.lists[i][p] \notin ToSet(m.out)
    BY <1>3, <2>1, <2>2
  <2>4. m.lists[i][p] \in ToSet(m.lists[i]) /\ m.lists[i][p] \in ToSet(lists[i])
    BY <1>2, <2>1, <2>2 DEF ToSet
  <2>. QED
    BY <1>4, <2>1, <2>2, <2>3, <2>4
<1>7. ASSUME NEW i \in 1 .. n, NEW p \in 1 .. Len(m.lists[i]), NEW q \in 1 .. Len(m.lists[i]), p < q
      PROVE  Before(lists[i], m.lists[i][p], m.lists[i][q])
  <2>1. done[i] \in Nat /\ Len(m.lists[i]) \in Nat
    BY <1>2, <1>3
  <2>2. p + done[i] < q + done[i]
    BY <1>7, <2>1
  <2>3. /\ p + done[i] \in DOMAIN lists[i] /\ q + done[i] \in DOMAIN lists[i]
        /\ lists[i][p + done[i]] = m.lists[i][p] /\ lists[i][q + done[i]] = m.lists[i][q]
    BY <1>2, <1>6
  <2>. QED
    BY <2>2, <2>3 DEF Before
<1>. QED
  BY <1>5, <1>6, <1>7 DEF n, Stand

\* With lists left and no head that is in no tail, each member that is left
\* comes after another one.
LEMMA NoneIsFirst ==
  ASSUME NEW S, NEW lists \in Seq(Seq(S)), NEW m \in Merges(S, 1 .. Len(lists)), NEW done, Progress(lists, m, done),
         Heads(m.lists) = {}, NEW y \in Listed(m.lists)
  PROVE  \E x \in Listed(m.lists) : \E i \in 1 .. Len(lists) : Before(lists[i], x, y)
<1>0. Stand(lists, m, done)
  BY TheyStand
<1>1. PICK i \in 1 .. Len(lists) : \E p \in 1 .. Len(m.lists[i]) : y = m.lists[i][p]
  BY <1>0 DEF Stand
<1>2. PICK p \in 1 .. Len(m.lists[i]) : y = m.lists[i][p]
  BY <1>1
<1>3. \A j \in 1 .. Len(lists) : m.lists[j] \in Seq(S) /\ Len(m.lists[j]) \in Nat
  <2>. TAKE j \in 1 .. Len(lists)
  <2>1. m.lists[j] \in Seq(S)
    BY DEF Merges
  <2>. QED
    BY <2>1, LenProperties
<1>4. 1 \in 1 .. Len(m.lists[i])
  BY <1>2, <1>3
<1>5. CASE p # 1
  <2>1. 1 < p
    BY <1>2, <1>3, <1>5
  <2>2. Before(lists[i], m.lists[i][1], m.lists[i][p]) /\ m.lists[i][1] \in Listed(m.lists)
    BY <1>0, <1>2, <1>4, <2>1 DEF Stand
  <2>. QED
    BY <1>2, <2>2
<1>6. CASE p = 1
  <2>1. m.lists[i] # <<>>
    BY <1>3, <1>4, EmptySeq
  <2>2. DOMAIN m.lists = 1 .. Len(lists)
    BY DEF Merges
  <2>3. PICK j \in 1 .. Len(lists) : Contains(m.lists[j], m.lists[i][1]) /\ m.lists[j][1] # m.lists[i][1]
    BY <2>1, <2>2 DEF Heads
  <2>4. PICK q \in 1 .. Len(m.lists[j]) : m.lists[j][q] = y
    BY <1>2, <1>6, <2>3 DEF Contains
  <2>5. m.lists[j][1] # y
    BY <1>2, <1>6, <2>3
  <2>6. 1 \in 1 .. Len(m.lists[j]) /\ 1 < q
    BY <1>3, <2>4, <2>5
  <2>7. Before(lists[j], m.lists[j][1], m.lists[j][q]) /\ m.lists[j][1] \in Listed(m.lists)
    BY <1>0, <2>6 DEF Stand
  <2>. QED
    BY <2>4, <2>7
<1>. QED
  BY <1>5, <1>6

LEMMA MergeProgresses ==
  ASSUME NEW S, NEW lists \in Seq(Seq(S)), \A i \in DOMAIN lists : IsInjective(lists[i])
  PROVE  /\ C3Merge(lists) \in Merges(S, 1 .. Len(lists))
         /\ \E done : Progress(lists, C3Merge(lists), done)
         /\ Heads(C3Merge(lists).lists) = {}
<1>. DEFINE size == Cardinality(Places(lists))
            n == Len(lists)
<1>1. PICK f : /\ C3Merge(lists) = f[size]
               /\ f[0] = [out |-> <<>>, lists |-> lists]
               /\ \A k \in 1 .. size : f[k] = Pass(f[k - 1])
               /\ \A k \in 0 .. size : f[k] \in Merges(S, 1 .. n)
  BY MergeUnrolls
<1>2. size \in Nat /\ IsFiniteSet(Listed(lists)) /\ Cardinality(Listed(lists)) <= size /\ Cardinality(Listed(lists)) \in Nat
  BY ListedIsFinite, PlacesAreEnough, FS_CardinalityType
<1>. DEFINE Good(k) == /\ \E done : Progress(lists, f[k], done)
                       /\ Heads(f[k].lists) = {} \/ Len(f[k].out) = k
<1>3. Good(0)
  <2>. DEFINE none == [i \in 1 .. n |-> 0]
  <2>1. f[0].out = <<>> /\ f[0].lists = lists
    BY <1>1
  <2>2. ToSet(<<>>) = {} /\ IsInjective(<<>>) /\ Len(<<>>) = 0
    BY DEF ToSet, IsInjective
  <2>3. \A i \in 1 .. n : /\ none[i] = 0 /\ lists[i] \in Seq(S) /\ Len(lists[i]) \in Nat
                          /\ 0 + Len(lists[i]) = Len(lists[i])
                          /\ \A p \in 1 .. Len(lists[i]) : p + 0 = p /\ ~(p <= 0)
    <3>. TAKE i \in 1 .. n
    <3>1. lists[i] \in Seq(S)
      OBVIOUS
    <3>2. Len(lists[i]) \in Nat
      BY <3>1, LenProperties
    <3>. QED
      BY <3>1, <3>2
  <2>4. none \in [1 .. n -> Nat]
    OBVIOUS
  <2>. HIDE DEF none
  <2>5. \A i \in 1 .. n : \A p, q \in 1 .. none[i] : FALSE
    BY <2>3
  <2>6. Progress(lists, f[0], none)
    BY <2>1, <2>2, <2>3, <2>4, <2>5 DEF Progress
  <2>. QED
    BY <2>1, <2>2, <2>6
<1>4. ASSUME NEW k \in 1 .. size, Good(k - 1) PROVE Good(k)
  <2>1. k - 1 \in 0 .. size /\ (k - 1) + 1 = k
    BY <1>2
  <2>2. f[k - 1] \in Merges(S, 1 .. n) /\ f[k] = Pass(f[k - 1])
    BY <1>1, <2>1
  <2>3. PICK done : Progress(lists, f[k - 1], done)
    BY <1>4
  <2>4. CASE Heads(f[k - 1].lists) = {}
    <3>1. f[k] = f[k - 1]
      BY <2>2, <2>4 DEF Pass
    <3>. QED
      BY <2>3, <2>4, <3>1
  <2>5. CASE Heads(f[k - 1].lists) # {}
    <3>1. (\E now : Progress(lists, f[k], now)) /\ Len(f[k].out) = Len(f[k - 1].out) + 1
      BY <2>2, <2>3, <2>5, PassProgresses
    <3>2. Len(f[k - 1].out) = k - 1
      BY <1>4, <2>5
    <3>3. Len(f[k].out) = k
      BY <2>1, <3>1, <3>2
    <3>. QED
      BY <3>1, <3>3
  <2>. QED
    BY <2>4, <2>5
<1>. HIDE DEF Good
<1>5. \A k \in 0 .. size : Good(k)
  <2>. DEFINE wrong == {k \in 0 .. size : ~Good(k)}
  <2>1. SUFFICES ASSUME wrong # {} PROVE FALSE
    OBVIOUS
  <2>2. PICK k \in wrong : \A o \in wrong : k <= o
    <3>1. wrong \in SUBSET Nat
      BY <1>2
    <3>. HIDE DEF wrong
    <3>. QED
      BY <2>1, <3>1, FirstNumber
  <2>3. k \in 1 .. size /\ k - 1 \in 0 .. size /\ ~(k <= k - 1)
    BY <1>2, <1>3, <2>2
  <2>4. Good(k - 1)
    BY <2>2, <2>3
  <2>. QED
    BY <1>4, <2>2, <2>3, <2>4
<1>. DEFINE m == f[size]
<1>6. m \in Merges(S, 1 .. n) /\ Good(size)
  BY <1>1, <1>2, <1>5
<1>7. PICK done : Progress(lists, m, done)
  BY <1>6 DEF Good
<1>8. Heads(m.lists) = {}
  <2>1. SUFFICES ASSUME Heads(m.lists) # {} PROVE FALSE
    OBVIOUS
  <2>2. Len(m.out) = size
    BY <1>6, <2>1 DEF Good
  <2>. HIDE DEF m, size
  <2>3. PICK c \in 1 .. n : m.lists[c] # <<>> /\ m.lists[c] \in Seq(S)
    BY <1>6, <2>1 DEF Heads, Merges
  <2>4. 1 \in 1 .. Len(m.lists[c])
    BY <2>3, EmptySeq
  <2>0. Stand(lists, m, done)
    BY <1>6, <1>7, TheyStand
  <2>5. m.lists[c][1] \in Listed(lists) /\ m.lists[c][1] \notin ToSet(m.out)
    BY <2>3, <2>4, <2>0 DEF Stand
  <2>6. ToSet(m.out) \subseteq Listed(lists) /\ IsInjective(m.out) /\ m.out \in Seq(S)
    BY <1>6, <1>7 DEF Progress, Merges
  <2>7. Cardinality(ToSet(m.out)) = size
    BY <2>2, <2>6, InjectiveSize
  <2>8. ToSet(m.out) = Listed(lists)
    <3>1. Cardinality(ToSet(m.out)) <= Cardinality(Listed(lists))
      BY <1>2, <2>6, FS_Subset
    <3>2. Cardinality(ToSet(m.out)) = Cardinality(Listed(lists))
      BY <1>2, <2>7, <3>1
    <3>. QED
      BY <1>2, <2>6, <3>2, FS_Subset
  <2>. QED
    BY <2>5, <2>8
<1>. QED
  BY <1>1, <1>6, <1>7, <1>8

-----------------------------------------------------------------------------
\* c3Merge (scope.ts:277-302): whatever lists it is given, none with a member
\* twice, it ends with an order of all their members that keeps the order of
\* each, or, when it answers null, there is none.
THEOREM MergeFindsAnOrder ==
  ASSUME NEW S, NEW lists \in Seq(Seq(S)), \A i \in DOMAIN lists : IsInjective(lists[i])
  PROVE  /\ Complete(C3Merge(lists)) => Keeps(C3Merge(lists).out, lists)
         /\ ~Complete(C3Merge(lists)) => ~\E order \in Seq(S) : Keeps(order, lists)
<1>. DEFINE m == C3Merge(lists)
            n == Len(lists)
<1>1. m \in Merges(S, 1 .. n) /\ Heads(m.lists) = {}
  BY MergeProgresses
<1>2. PICK done : Progress(lists, m, done)
  BY MergeProgresses
<1>. HIDE DEF m
<1>3. DOMAIN m.lists = 1 .. n /\ DOMAIN lists = 1 .. n /\ n \in Nat /\ \A i \in 1 .. n : lists[i] \in Seq(S) /\ m.lists[i] \in Seq(S)
  <2>1. m.lists \in [1 .. n -> Seq(S)]
    BY <1>1 DEF Merges
  <2>2. DOMAIN lists = 1 .. n /\ n \in Nat /\ lists \in [1 .. n -> Seq(S)]
    BY LenProperties
  <2>. HIDE DEF n
  <2>. QED
    BY <2>1, <2>2
<1>. HIDE DEF n
<1>4. \A i \in 1 .. n : DOMAIN lists[i] = 1 .. Len(lists[i]) /\ Len(lists[i]) \in Nat
  BY <1>3, LenProperties
<1>5. ASSUME Complete(m) PROVE Keeps(m.out, lists)
  <2>1. \A i \in 1 .. n : m.lists[i] = <<>> /\ Len(m.lists[i]) = 0
    BY <1>3, <1>5, EmptySeq DEF Complete
  <2>2. \A i \in 1 .. n : done[i] \in Nat /\ done[i] + Len(m.lists[i]) = Len(lists[i])
    BY <1>2 DEF Progress, n
  <2>3. \A i \in 1 .. n : done[i] = Len(lists[i])
    BY <2>1, <2>2
  <2>4. \A i \in 1 .. n : \A p \in 1 .. Len(lists[i]) : lists[i][p] \in ToSet(m.out)
    <3>. SUFFICES ASSUME NEW i \in 1 .. n, NEW p \in 1 .. Len(lists[i]) PROVE lists[i][p] \in ToSet(m.out)
      OBVIOUS
    <3>1. p <= done[i]
      BY <1>4, <2>3
    <3>. QED
      BY <1>2, <3>1 DEF Progress, n
  <2>5. \A i \in 1 .. n : \A p, q \in 1 .. Len(lists[i]) : p < q => Before(m.out, lists[i][p], lists[i][q])
    BY <1>2, <2>3 DEF Progress, n
  <2>6. IsInjective(m.out) /\ ToSet(m.out) \subseteq Listed(lists)
    BY <1>2 DEF Progress
  <2>7. Listed(lists) \subseteq ToSet(m.out)
    <3>1. \A i \in 1 .. n : ToSet(lists[i]) = {lists[i][p] : p \in 1 .. Len(lists[i])}
      BY <1>4 DEF ToSet
    <3>2. \A i \in 1 .. n : \A x \in ToSet(lists[i]) : x \in ToSet(m.out)
      <4>. SUFFICES ASSUME NEW i \in 1 .. n, NEW x \in ToSet(lists[i]) PROVE x \in ToSet(m.out)
        OBVIOUS
      <4>1. PICK p \in 1 .. Len(lists[i]) : x = lists[i][p]
        BY <3>1
      <4>. QED
        BY <2>4, <4>1
    <3>. QED
      BY <1>3, <3>2 DEF Listed
  <2>8. \A i \in DOMAIN lists : \A x, y \in Listed(lists) : Before(lists[i], x, y) => Before(m.out, x, y)
    <3>. SUFFICES ASSUME NEW i \in 1 .. n, NEW x, NEW y, Before(lists[i], x, y) PROVE Before(m.out, x, y)
      BY <1>3
    <3>1. PICK p, q \in 1 .. Len(lists[i]) : p < q /\ lists[i][p] = x /\ lists[i][q] = y
      BY <1>4 DEF Before
    <3>. QED
      BY <2>5, <3>1
  <2>. QED
    BY <2>6, <2>7, <2>8 DEF Keeps
<1>6. ASSUME ~Complete(m), NEW order \in Seq(S), Keeps(order, lists) PROVE FALSE
  <2>1. PICK c \in 1 .. n : m.lists[c] # <<>>
    BY <1>3, <1>6 DEF Complete
  <2>2. 1 \in 1 .. Len(m.lists[c])
    BY <1>3, <2>1, EmptySeq
  <2>3. Listed(m.lists) # {} /\ Listed(m.lists) \subseteq Listed(lists)
    <3>1. /\ \A z \in Listed(m.lists) : \E i \in 1 .. n : \E p \in 1 .. Len(m.lists[i]) : z = m.lists[i][p]
          /\ \A i \in 1 .. n : \A p \in 1 .. Len(m.lists[i]) :
               m.lists[i][p] \in Listed(m.lists) /\ m.lists[i][p] \in Listed(lists)
      <4>1. Stand(lists, m, done)
        BY <1>1, <1>2, TheyStand DEF n
      <4>. QED
        BY <4>1 DEF Stand, n
    <3>2. m.lists[c][1] \in Listed(m.lists)
      BY <2>2, <3>1
    <3>3. \A z \in Listed(m.lists) : z \in Listed(lists)
      <4>. SUFFICES ASSUME NEW z \in Listed(m.lists) PROVE z \in Listed(lists)
        OBVIOUS
      <4>1. PICK i \in 1 .. n : \E p \in 1 .. Len(m.lists[i]) : z = m.lists[i][p]
        BY <3>1
      <4>. QED
        BY <3>1, <4>1
    <3>. QED
      BY <3>2, <3>3
  <2>4. DOMAIN order = 1 .. Len(order) /\ Len(order) \in Nat
    BY LenProperties
  <2>. DEFINE at == {p \in 1 .. Len(order) : order[p] \in Listed(m.lists)}
  <2>5. at # {}
    <3>1. PICK y \in Listed(m.lists) : TRUE
      BY <2>3
    <3>2. y \in ToSet(order)
      BY <1>6, <2>3 DEF Keeps
    <3>. QED
      BY <2>4, <3>2 DEF ToSet
  <2>6. PICK p \in at : \A o \in at : p <= o
    <3>1. at \in SUBSET Nat
      BY <2>4
    <3>. HIDE DEF at
    <3>. QED
      BY <2>5, <3>1, FirstNumber
  <2>7. p \in 1 .. Len(order) /\ order[p] \in Listed(m.lists)
    BY <2>6
  <2>8. PICK x \in Listed(m.lists) : \E i \in 1 .. n : Before(lists[i], x, order[p])
    BY <1>1, <1>2, <2>7, NoneIsFirst DEF n
  <2>9. Before(order, x, order[p])
    BY <1>3, <1>6, <2>3, <2>7, <2>8 DEF Keeps
  <2>10. PICK q, r \in 1 .. Len(order) : q < r /\ order[q] = x /\ order[r] = order[p]
    BY <2>4, <2>9 DEF Before
  <2>11. r = p
    BY <1>6, <2>4, <2>7, <2>10 DEF Keeps, IsInjective
  <2>12. q \in at /\ q < p
    BY <2>8, <2>10, <2>11
  <2>13. ~(p <= q)
    BY <2>4, <2>7, <2>10, <2>12
  <2>. HIDE DEF at
  <2>. QED
    BY <2>6, <2>12, <2>13
<1>. QED
  BY <1>5, <1>6 DEF m

-----------------------------------------------------------------------------
(* The collapse of the drafts into edges.  After n sites each edge stands    *)
(* for the drawn sites with its key among them (StandsFor).                  *)

Ranked(D) == \A d \in D : d.res \in DOMAIN Confidence /\ d.cross \in BOOLEAN

Targets(D) == UNION {d.possible : d \in D}
Edge(D) == [res : DOMAIN Confidence, src : {d.src : d \in D}, sites : Seq({d.src : d \in D}), count : Nat,
            possible : SUBSET Targets(D), cross : BOOLEAN]
Drawings(D) == UNION {[K -> Edge(D)] : K \in SUBSET {EdgeKey(d) : d \in D}}

\* The first n sites that are drawn, and those of them with one key.
Shown(sites, known, n) == {i \in 1 .. n : Drawn(sites[i], known)}
At(sites, known, k, n) == {i \in Shown(sites, known, n) : EdgeKey(sites[i]) = k}

StandsFor(e, sites, here) ==
  /\ IsFiniteSet(here) /\ e.count = Cardinality(here)
  /\ \E i \in here : e.src = sites[i].src /\ \A j \in here : i <= j
  /\ \E i \in here : e.res = sites[i].res
  /\ \A i \in here : Confidence[e.res] <= Confidence[sites[i].res]
  /\ e.possible = UNION {sites[i].possible : i \in here}
  /\ e.cross = \E i \in here : sites[i].cross
  /\ Len(e.sites) = Cardinality(here) /\ ToSet(e.sites) = {sites[i].src : i \in here}

Collapsed(edges, sites, known, n) ==
  /\ DOMAIN edges = {EdgeKey(sites[i]) : i \in Shown(sites, known, n)}
  /\ \A k \in DOMAIN edges : StandsFor(edges[k], sites, At(sites, known, k, n))

LEMMA EdgesAre ==
  ASSUME NEW D, NEW edges \in Drawings(D)
  PROVE  /\ edges \in [DOMAIN edges -> Edge(D)]
         /\ DOMAIN edges \subseteq {EdgeKey(d) : d \in D}
BY DEF Drawings

LEMMA WeakerIs ==
  ASSUME NEW a \in DOMAIN Confidence, NEW b \in DOMAIN Confidence
  PROVE  /\ Weaker(a, b) \in {a, b} /\ Weaker(a, b) \in DOMAIN Confidence
         /\ Confidence[Weaker(a, b)] <= Confidence[a] /\ Confidence[Weaker(a, b)] <= Confidence[b]
         /\ Confidence[a] \in Nat
BY DEF Weaker, Confidence

LEMMA OpenedIs ==
  ASSUME NEW D, Ranked(D), NEW d \in D
  PROVE  Opened(d) \in Edge(D)
<1>1. d.res \in DOMAIN Confidence /\ d.cross \in BOOLEAN
  BY DEF Ranked
<1>2. d.src \in {x.src : x \in D} /\ d.possible \in SUBSET Targets(D)
  BY DEF Targets
<1>3. <<d.src>> \in Seq({x.src : x \in D})
  BY <1>2
<1>. QED
  BY <1>1, <1>2, <1>3 DEF Opened, Edge

LEMMA JoinedIs ==
  ASSUME NEW D, Ranked(D), NEW d \in D, NEW old \in Edge(D)
  PROVE  /\ Joined(old, d) \in Edge(D)
         /\ Joined(old, d).res = Weaker(d.res, old.res)
         /\ Joined(old, d).src = old.src
         /\ Joined(old, d).sites = Append(old.sites, d.src)
         /\ Joined(old, d).count = old.count + 1
         /\ Joined(old, d).possible = old.possible \cup d.possible
         /\ Joined(old, d).cross = (old.cross \/ d.cross)
<1>1. d.res \in DOMAIN Confidence /\ d.cross \in BOOLEAN
  BY DEF Ranked
<1>2. d.src \in {x.src : x \in D} /\ d.possible \in SUBSET Targets(D)
  BY DEF Targets
<1>3. /\ old.res \in DOMAIN Confidence /\ old.src \in {x.src : x \in D} /\ old.sites \in Seq({x.src : x \in D})
      /\ old.count \in Nat /\ old.possible \in SUBSET Targets(D) /\ old.cross \in BOOLEAN
  BY DEF Edge
<1>4. Weaker(d.res, old.res) \in DOMAIN Confidence
  BY <1>1, <1>3, WeakerIs
<1>5. Append(old.sites, d.src) \in Seq({x.src : x \in D}) /\ old.count + 1 \in Nat
  BY <1>2, <1>3
<1>6. (old.cross \/ d.cross) \in BOOLEAN
  OBVIOUS
<1>. QED
  BY <1>1, <1>2, <1>3, <1>4, <1>5, <1>6 DEF Joined, Edge

\* One edge is new, or stands for one site more; the others stay.
Adds(edges, d, next) ==
  /\ DOMAIN next = DOMAIN edges \cup {EdgeKey(d)}
  /\ \A k \in DOMAIN edges : k # EdgeKey(d) => next[k] = edges[k]
  /\ next[EdgeKey(d)] = IF EdgeKey(d) \in DOMAIN edges THEN Joined(edges[EdgeKey(d)], d) ELSE Opened(d)

LEMMA AddedIs ==
  ASSUME NEW D, Ranked(D), NEW d \in D, NEW edges \in Drawings(D), NEW known
  PROVE  /\ Added(edges, d, known) \in Drawings(D)
         /\ ~Drawn(d, known) => Added(edges, d, known) = edges
         /\ Drawn(d, known) => Adds(edges, d, Added(edges, d, known))
<1>. DEFINE key == EdgeKey(d)
            new == IF key \in DOMAIN edges THEN Joined(edges[key], d) ELSE Opened(d)
<1>1. edges \in [DOMAIN edges -> Edge(D)] /\ DOMAIN edges \subseteq {EdgeKey(x) : x \in D}
  BY EdgesAre
<1>2. new \in Edge(D) /\ key \in {EdgeKey(x) : x \in D}
  BY <1>1, OpenedIs, JoinedIs
<1>3. CASE ~Drawn(d, known)
  BY <1>3 DEF Added
<1>4. CASE Drawn(d, known)
  <2>1. Added(edges, d, known) = [k \in DOMAIN edges \cup {key} |-> IF k = key THEN new ELSE edges[k]]
    BY <1>4 DEF Added
  <2>. HIDE DEF new, key
  <2>2. Added(edges, d, known) \in [DOMAIN edges \cup {key} -> Edge(D)]
    BY <1>1, <1>2, <2>1
  <2>3. Added(edges, d, known) \in Drawings(D)
    BY <1>1, <1>2, <2>2 DEF Drawings
  <2>4. Added(edges, d, known)[key] = new /\ \A k \in DOMAIN edges : k # key => Added(edges, d, known)[k] = edges[k]
    BY <2>1
  <2>. QED
    BY <1>4, <2>2, <2>3, <2>4 DEF new, key, Adds
<1>. QED
  BY <1>3, <1>4

LEMMA AddedStands ==
  ASSUME NEW D, Ranked(D), NEW sites \in Seq(D), NEW known, NEW edges \in Drawings(D), NEW n \in 1 .. Len(sites),
         Collapsed(edges, sites, known, n - 1)
  PROVE  Collapsed(Added(edges, sites[n], known), sites, known, n)
<1>. DEFINE d == sites[n]
            key == EdgeKey(d)
            next == Added(edges, d, known)
            shown == Shown(sites, known, n - 1)
<1>1. d \in D /\ n \in Nat /\ Len(sites) \in Nat
  BY LenProperties
<1>0. /\ ~Drawn(sites[n], known) => Added(edges, sites[n], known) = edges
      /\ Drawn(sites[n], known) => Adds(edges, sites[n], Added(edges, sites[n], known))
  BY <1>1, AddedIs
<1>2. 1 .. n = (1 .. n - 1) \cup {n} /\ n \notin 1 .. n - 1 /\ n - 1 \in Nat
  BY <1>1
<1>3. Shown(sites, known, n) = shown \cup (IF Drawn(d, known) THEN {n} ELSE {}) /\ n \notin shown
  BY <1>2 DEF Shown
<1>4. \A i \in shown : i <= n
  BY <1>1, <1>2 DEF Shown
<1>. HIDE DEF shown
<1>5. CASE ~Drawn(d, known)
  <2>1. next = edges
    BY <1>0, <1>5 DEF next, d
  <2>2. Shown(sites, known, n) = Shown(sites, known, n - 1)
    BY <1>3, <1>5 DEF shown
  <2>. QED
    BY <2>1, <2>2 DEF Collapsed, At
<1>6. CASE Drawn(d, known)
  <2>1. /\ DOMAIN next = DOMAIN edges \cup {key}
        /\ \A k \in DOMAIN edges : k # key => next[k] = edges[k]
        /\ next[key] = IF key \in DOMAIN edges THEN Joined(edges[key], d) ELSE Opened(d)
    BY <1>0, <1>6 DEF Adds, next, d, key
  <2>2. Shown(sites, known, n) = shown \cup {n}
    BY <1>3, <1>6
  <2>3. DOMAIN edges = {EdgeKey(sites[i]) : i \in shown}
    BY DEF Collapsed, shown
  <2>4. \A k \in DOMAIN edges : StandsFor(edges[k], sites, At(sites, known, k, n - 1))
    BY DEF Collapsed
  <2>. HIDE DEF next
  <2>5. DOMAIN next = {EdgeKey(sites[i]) : i \in Shown(sites, known, n)}
    BY <2>1, <2>2, <2>3
  <2>6. \A k : k # key => At(sites, known, k, n) = At(sites, known, k, n - 1)
    BY <2>2 DEF At, shown
  <2>7. At(sites, known, key, n) = At(sites, known, key, n - 1) \cup {n} /\ n \notin At(sites, known, key, n - 1)
    BY <1>3, <2>2 DEF At, shown
  <2>8. ASSUME NEW k \in DOMAIN edges, k # key PROVE StandsFor(next[k], sites, At(sites, known, k, n))
    BY <2>1, <2>4, <2>6, <2>8
  <2>12. ASSUME StandsFor(next[key], sites, At(sites, known, key, n))
        PROVE  Collapsed(Added(edges, sites[n], known), sites, known, n)
    <3>1. \A k \in DOMAIN next : k = key \/ (k \in DOMAIN edges /\ k # key)
      BY <2>1
    <3>2. \A k \in DOMAIN next : StandsFor(next[k], sites, At(sites, known, k, n))
      BY <2>12, <2>8, <3>1
    <3>3. Collapsed(next, sites, known, n)
      BY <2>5, <3>2 DEF Collapsed
    <3>. QED
      BY <3>3 DEF next, d
  <2>9. CASE key \notin DOMAIN edges
    <3>1. At(sites, known, key, n - 1) = {}
      BY <2>3, <2>9 DEF At, shown
    <3>2. At(sites, known, key, n) = {n}
      BY <2>7, <3>1
    <3>3. next[key] = Opened(d)
      BY <2>1, <2>9
    <3>4. d.res \in DOMAIN Confidence
      BY <1>1 DEF Ranked
    <3>5. Confidence[d.res] <= Confidence[d.res]
      BY <3>4, WeakerIs
    <3>6. IsFiniteSet({n}) /\ Cardinality({n}) = 1
      BY FS_Singleton
    <3>7. StandsFor(Opened(d), sites, {n})
      <4>1. ToSet(<<d.src>>) = {d.src} /\ Len(<<d.src>>) = 1
        BY DEF ToSet
      <4>2. n <= n
        BY <1>1
      <4>3. /\ Opened(d).res = d.res /\ Opened(d).src = d.src /\ Opened(d).sites = <<d.src>>
            /\ Opened(d).count = 1 /\ Opened(d).possible = d.possible /\ Opened(d).cross = d.cross
        BY DEF Opened
      <4>4. d.possible = UNION {sites[i].possible : i \in {n}} /\ {d.src} = {sites[i].src : i \in {n}}
        OBVIOUS
      <4>5. d.cross = \E i \in {n} : sites[i].cross
        <5>1. d.cross \in BOOLEAN
          BY <1>1 DEF Ranked
        <5>. QED
          BY <5>1
      <4>6. /\ \E i \in {n} : d.src = sites[i].src /\ \A j \in {n} : i <= j
            /\ \E i \in {n} : d.res = sites[i].res
            /\ \A i \in {n} : Confidence[d.res] <= Confidence[sites[i].res]
        BY <3>5, <4>2
      <4>. QED
        BY <3>6, <4>1, <4>3, <4>4, <4>5, <4>6 DEF StandsFor
    <3>8. StandsFor(next[key], sites, At(sites, known, key, n))
      BY <3>2, <3>3, <3>7
    <3>. QED
      BY <2>12, <3>8
  <2>10. CASE key \in DOMAIN edges
    <3>. DEFINE old == edges[key]
                here == At(sites, known, key, n - 1)
    <3>1. old \in Edge(D)
      BY <2>10, EdgesAre
    <3>2. StandsFor(old, sites, here)
      BY <2>4, <2>10
    <3>3. here \subseteq shown
      BY DEF At, shown
    <3>4. next[key] = Joined(old, d)
      BY <2>1, <2>10
    <3>5. StandsFor(Joined(old, d), sites, here \cup {n})
      <4>. HIDE DEF old, here
      <4>1. /\ Joined(old, d).res = Weaker(d.res, old.res)
            /\ Joined(old, d).src = old.src
            /\ Joined(old, d).sites = Append(old.sites, d.src)
            /\ Joined(old, d).count = old.count + 1
            /\ Joined(old, d).possible = old.possible \cup d.possible
            /\ Joined(old, d).cross = (old.cross \/ d.cross)
        BY <1>1, <3>1, JoinedIs
      <4>2. /\ d.res \in DOMAIN Confidence /\ old.res \in DOMAIN Confidence /\ d.cross \in BOOLEAN /\ old.cross \in BOOLEAN
            /\ old.sites \in Seq({x.src : x \in D}) /\ d.src \in {x.src : x \in D} /\ old.count \in Nat
        BY <1>1, <3>1 DEF Ranked, Edge
      <4>3. n \notin here
        BY <2>7 DEF here
      <4>4. IsFiniteSet(here \cup {n}) /\ Cardinality(here \cup {n}) = Cardinality(here) + 1
        BY <3>2, <4>3, FS_AddElement DEF StandsFor
      <4>5. \E i \in here \cup {n} : old.src = sites[i].src /\ \A j \in here \cup {n} : i <= j
        <5>1. PICK i \in here : old.src = sites[i].src /\ \A j \in here : i <= j
          BY <3>2 DEF StandsFor
        <5>2. i <= n
          BY <1>4, <3>3, <5>1
        <5>. QED
          BY <5>1, <5>2
      <4>6. \E i \in here \cup {n} : Weaker(d.res, old.res) = sites[i].res
        <5>1. PICK i \in here : old.res = sites[i].res
          BY <3>2 DEF StandsFor
        <5>2. Weaker(d.res, old.res) \in {d.res, old.res}
          BY <4>2, WeakerIs
        <5>. QED
          BY <5>1, <5>2
      <4>7. \A i \in here \cup {n} : Confidence[Weaker(d.res, old.res)] <= Confidence[sites[i].res]
        <5>1. /\ Confidence[Weaker(d.res, old.res)] <= Confidence[d.res]
              /\ Confidence[Weaker(d.res, old.res)] <= Confidence[old.res]
              /\ Weaker(d.res, old.res) \in DOMAIN Confidence
          BY <4>2, WeakerIs
        <5>2. ASSUME NEW i \in here PROVE Confidence[Weaker(d.res, old.res)] <= Confidence[sites[i].res]
          <6>1. Confidence[old.res] <= Confidence[sites[i].res]
            BY <3>2 DEF StandsFor
          <6>2. sites[i] \in D
            <7>1. i \in 1 .. Len(sites)
              BY <1>1, <3>3 DEF shown, Shown
            <7>. QED
              BY <7>1
          <6>3. sites[i].res \in DOMAIN Confidence
            BY <6>2 DEF Ranked
          <6>4. /\ Confidence[Weaker(d.res, old.res)] \in Nat /\ Confidence[old.res] \in Nat
                /\ Confidence[sites[i].res] \in Nat
            BY <4>2, <5>1, <6>3, WeakerIs
          <6>. QED
            BY <5>1, <6>1, <6>4
        <5>. QED
          BY <5>1, <5>2
      <4>8. old.possible \cup d.possible = UNION {sites[i].possible : i \in here \cup {n}}
        <5>1. old.possible = UNION {sites[i].possible : i \in here}
          BY <3>2 DEF StandsFor
        <5>. QED
          BY <5>1
      <4>9. (old.cross \/ d.cross) = \E i \in here \cup {n} : sites[i].cross
        <5>1. old.cross = \E i \in here : sites[i].cross
          BY <3>2 DEF StandsFor
        <5>2. (\E i \in here \cup {n} : sites[i].cross) = ((\E i \in here : sites[i].cross) \/ d.cross)
          OBVIOUS
        <5>. QED
          BY <5>1, <5>2
      <4>10. /\ Len(Append(old.sites, d.src)) = Cardinality(here \cup {n})
             /\ ToSet(Append(old.sites, d.src)) = {sites[i].src : i \in here \cup {n}}
        <5>1. Len(old.sites) = Cardinality(here) /\ ToSet(old.sites) = {sites[i].src : i \in here}
          BY <3>2 DEF StandsFor
        <5>2. Len(Append(old.sites, d.src)) = Len(old.sites) + 1
          BY <4>2, AppendProperties
        <5>3. ToSet(Append(old.sites, d.src)) = ToSet(old.sites) \cup {d.src}
          BY <4>2, AppendHas
        <5>. QED
          BY <4>4, <5>1, <5>2, <5>3
      <4>11. old.count + 1 = Cardinality(here \cup {n})
        BY <3>2, <4>4 DEF StandsFor
      <4>. QED
        BY <4>1, <4>4, <4>5, <4>6, <4>7, <4>8, <4>9, <4>10, <4>11 DEF StandsFor
    <3>6. StandsFor(next[key], sites, At(sites, known, key, n))
      BY <2>7, <3>4, <3>5
    <3>. QED
      BY <2>12, <3>6
  <2>. QED
    BY <2>9, <2>10
<1>. QED
  BY <1>5, <1>6

LEMMA CollapseUnrolls ==
  ASSUME NEW D, Ranked(D), NEW sites \in Seq(D), NEW known
  PROVE  \E f : /\ Collapse(sites, known) = f[Len(sites)]
                /\ f[0] = <<>>
                /\ \A n \in 1 .. Len(sites) : f[n] = Added(f[n - 1], sites[n], known)
                /\ \A n \in 0 .. Len(sites) : f[n] \in Drawings(D)
<1>. DEFINE size == Len(sites)
            X == Drawings(D)
            step == [p \in (1 .. size) \X X |-> Added(p[2], sites[p[1]], known)]
            Is(f) == f = [n \in 0 .. size |-> IF n = 0 THEN <<>> ELSE Added(f[n - 1], sites[n], known)]
            F == CHOOSE f : Is(f)
<1>1. Collapse(sites, known) = F[size]
  BY DEF Collapse
<1>2. size \in Nat
  BY LenProperties
<1>3. <<>> \in X
  <2>1. <<>> \in [{} -> Edge(D)]
    OBVIOUS
  <2>. QED
    BY <2>1 DEF Drawings
<1>4. \A n \in 1 .. size, x \in X : step[<<n, x>>] = Added(x, sites[n], known) /\ step[<<n, x>>] \in X
  <2>1. \A n \in 1 .. size, x \in X : step[<<n, x>>] = Added(x, sites[n], known)
    OBVIOUS
  <2>2. \A n \in 1 .. size : sites[n] \in D
    OBVIOUS
  <2>3. \A n \in 1 .. size, x \in X : Added(x, sites[n], known) \in X
    BY <2>2, AddedIs
  <2>. QED
    BY <2>1, <2>3
<1>. HIDE DEF size, step, X
<1>5. PICK f : Follows(f, size, <<>>, step) /\ \A n \in 0 .. size : f[n] \in X
  BY <1>2, <1>3, <1>4, Recursion
<1>6. Is(f)
  <2>1. \A n \in 0 .. size : (IF n = 0 THEN <<>> ELSE step[<<n, f[n - 1]>>])
                               = (IF n = 0 THEN <<>> ELSE Added(f[n - 1], sites[n], known))
    <3>. TAKE n \in 0 .. size
    <3>1. n # 0 => n \in 1 .. size /\ n - 1 \in 0 .. size
      BY <1>2
    <3>. QED
      BY <1>4, <1>5, <3>1
  <2>. QED
    BY <1>5, <2>1 DEF Follows
<1>7. Is(F)
  <2>. HIDE DEF Is
  <2>. QED
    BY <1>6
<1>. HIDE DEF F
<1>8. F[0] = <<>> /\ \A n \in 1 .. size : F[n] = Added(F[n - 1], sites[n], known)
  BY <1>2, <1>7
<1>9. \A n \in 0 .. size : F[n] \in X
  <2>. DEFINE wrong == {n \in 0 .. size : F[n] \notin X}
  <2>1. SUFFICES ASSUME wrong # {} PROVE FALSE
    OBVIOUS
  <2>2. PICK n \in wrong : \A o \in wrong : n <= o
    <3>1. wrong \in SUBSET Nat
      BY <1>2
    <3>. HIDE DEF wrong
    <3>. QED
      BY <2>1, <3>1, FirstNumber
  <2>3. n \in 1 .. size /\ n - 1 \in 0 .. size /\ ~(n <= n - 1)
    BY <1>2, <1>3, <1>8, <2>2
  <2>4. F[n - 1] \in X
    BY <2>2, <2>3
  <2>5. F[n] \in X
    BY <1>4, <1>8, <2>3, <2>4
  <2>. QED
    BY <2>2, <2>5
<1>. QED
  BY <1>1, <1>8, <1>9 DEF size, X

\* collapse (graph/build.ts:315-358): for any drafts and any nodes, there is
\* one edge for each key of a draft between two nodes; it counts its drafts,
\* starts at the first, is as sure as the least sure of them and no surer, and
\* has their targets, their sources and their boundary mark.
THEOREM CollapseKeepsEverySite ==
  ASSUME NEW D, Ranked(D), NEW sites \in Seq(D), NEW known
  PROVE  /\ Collapse(sites, known) \in Drawings(D)
         /\ Collapsed(Collapse(sites, known), sites, known, Len(sites))
<1>1. PICK f : /\ Collapse(sites, known) = f[Len(sites)]
               /\ f[0] = <<>>
               /\ \A n \in 1 .. Len(sites) : f[n] = Added(f[n - 1], sites[n], known)
               /\ \A n \in 0 .. Len(sites) : f[n] \in Drawings(D)
  BY CollapseUnrolls
<1>2. Len(sites) \in Nat
  BY LenProperties
<1>3. Collapsed(f[0], sites, known, 0)
  <2>1. Shown(sites, known, 0) = {}
    BY DEF Shown
  <2>2. DOMAIN f[0] = {}
    BY <1>1
  <2>. QED
    BY <2>1, <2>2 DEF Collapsed
<1>4. \A n \in 0 .. Len(sites) : Collapsed(f[n], sites, known, n)
  <2>. DEFINE wrong == {n \in 0 .. Len(sites) : ~Collapsed(f[n], sites, known, n)}
  <2>1. SUFFICES ASSUME wrong # {} PROVE FALSE
    OBVIOUS
  <2>2. PICK n \in wrong : \A o \in wrong : n <= o
    <3>1. wrong \in SUBSET Nat
      BY <1>2
    <3>. HIDE DEF wrong
    <3>. QED
      BY <2>1, <3>1, FirstNumber
  <2>3. n \in 1 .. Len(sites) /\ n - 1 \in 0 .. Len(sites) /\ ~(n <= n - 1)
    BY <1>2, <1>3, <2>2
  <2>4. Collapsed(f[n - 1], sites, known, n - 1) /\ f[n - 1] \in Drawings(D)
    BY <1>1, <2>2, <2>3
  <2>5. Collapsed(Added(f[n - 1], sites[n], known), sites, known, n)
    BY <2>3, <2>4, AddedStands
  <2>. QED
    BY <1>1, <2>2, <2>3, <2>5
<1>. QED
  BY <1>1, <1>2, <1>4

-----------------------------------------------------------------------------
(* The score of the edges is the number of the sites. *)

LEMMA UnionCounts ==
  ASSUME NEW S, NEW T, IsFiniteSet(S), IsFiniteSet(T), S \cap T = {}
  PROVE  IsFiniteSet(S \cup T) /\ Cardinality(S \cup T) = Cardinality(S) + Cardinality(T)
<1>1. Cardinality(S) \in Nat /\ Cardinality(T) \in Nat
  BY FS_CardinalityType
<1>2. IsFiniteSet(S \cup T) /\ Cardinality(S \cup T) = Cardinality(S) + Cardinality(T) - Cardinality({})
  BY FS_Union
<1>3. Cardinality({}) = 0
  BY FS_EmptySet
<1>. QED
  BY <1>1, <1>2, <1>3

Some(s) == CHOOSE x \in s : TRUE
Pile(keys, I, s) == {i \in I : keys[i] \in s}

LEMMA PileLess ==
  ASSUME NEW I, IsFiniteSet(I), NEW keys, NEW s, s # {}
  PROVE  Cardinality(Pile(keys, I, s)) = Cardinality(Pile(keys, I, s \ {Some(s)})) + Cardinality(Pile(keys, I, {Some(s)}))
<1>1. Some(s) \in s
  BY DEF Some
<1>2. \A t : Pile(keys, I, t) \in SUBSET I /\ IsFiniteSet(Pile(keys, I, t))
  <2>. TAKE t
  <2>1. Pile(keys, I, t) \in SUBSET I
    BY DEF Pile
  <2>. QED
    BY <2>1, FS_Subset
<1>3. /\ Pile(keys, I, s) = Pile(keys, I, s \ {Some(s)}) \cup Pile(keys, I, {Some(s)})
      /\ Pile(keys, I, s \ {Some(s)}) \cap Pile(keys, I, {Some(s)}) = {}
  BY <1>1 DEF Pile
<1>. QED
  BY <1>2, <1>3, UnionCounts

LEMMA SumIsPile ==
  ASSUME NEW K, IsFiniteSet(K), NEW I, IsFiniteSet(I), NEW keys, NEW edges,
         \A k \in K : edges[k].count = Cardinality(Pile(keys, I, {k}))
  PROVE  Sites(edges, K) = Cardinality(Pile(keys, I, K))
<1>. DEFINE step(f) == [s \in SUBSET K |-> IF s = {} THEN 0
                                           ELSE f[s \ {CHOOSE x \in s : TRUE}] + edges[CHOOSE x \in s : TRUE].count]
            G == [s \in SUBSET K |-> Cardinality(Pile(keys, I, s))]
            W == CHOOSE f : f = step(f)
<1>1. Sites(edges, K) = W[K]
  BY DEF Sites, FoldSet, MapThenFoldSet
<1>2. \A f : step(f) = [s \in SUBSET K |-> IF s = {} THEN 0 ELSE f[s \ {Some(s)}] + edges[Some(s)].count]
  BY DEF Some
<1>3. \A s \in SUBSET K : s # {} => Some(s) \in s /\ s \ {Some(s)} \in SUBSET K /\ Some(s) \in K
  BY DEF Some
<1>4. \A s \in SUBSET K : G[s] = IF s = {} THEN 0 ELSE G[s \ {Some(s)}] + edges[Some(s)].count
  <2>. SUFFICES ASSUME NEW s \in SUBSET K
                PROVE  G[s] = IF s = {} THEN 0 ELSE G[s \ {Some(s)}] + edges[Some(s)].count
    OBVIOUS
  <2>1. CASE s = {}
    <3>1. Pile(keys, I, {}) = {}
      BY DEF Pile
    <3>. QED
      BY <2>1, <3>1, FS_EmptySet
  <2>2. CASE s # {}
    <3>1. Cardinality(Pile(keys, I, s))
            = Cardinality(Pile(keys, I, s \ {Some(s)})) + Cardinality(Pile(keys, I, {Some(s)}))
      BY <2>2, PileLess
    <3>2. edges[Some(s)].count = Cardinality(Pile(keys, I, {Some(s)}))
      BY <1>3, <2>2
    <3>3. G[s] = Cardinality(Pile(keys, I, s)) /\ G[s \ {Some(s)}] = Cardinality(Pile(keys, I, s \ {Some(s)}))
      BY <1>3, <2>2
    <3>. HIDE DEF G
    <3>. QED
      BY <2>2, <3>1, <3>2, <3>3
  <2>. QED
    BY <2>1, <2>2
<1>5. W = step(W)
  <2>1. G = step(G)
    <3>1. G = [s \in SUBSET K |-> G[s]]
      OBVIOUS
    <3>. HIDE DEF step, G
    <3>. QED
      BY <1>2, <1>4, <3>1
  <2>. HIDE DEF step, G
  <2>. QED
    BY <2>1
<1>. HIDE DEF W, step
<1>6. \A s \in SUBSET K : W[s] = IF s = {} THEN 0 ELSE W[s \ {Some(s)}] + edges[Some(s)].count
  BY <1>2, <1>5
<1>. HIDE DEF G
<1>7. \A s \in SUBSET K : W[s] = G[s]
  <2>. DEFINE wrong == {s \in SUBSET K : W[s] # G[s]}
              sizes == {Cardinality(s) : s \in wrong}
  <2>1. SUFFICES ASSUME wrong # {} PROVE FALSE
    OBVIOUS
  <2>2. \A s \in SUBSET K : IsFiniteSet(s) /\ Cardinality(s) \in Nat
    BY FS_Subset, FS_CardinalityType
  <2>3. PICK c \in sizes : \A o \in sizes : c <= o
    <3>1. sizes \in SUBSET Nat /\ sizes # {}
      BY <2>1, <2>2
    <3>. HIDE DEF sizes
    <3>. QED
      BY <3>1, FirstNumber
  <2>4. PICK s \in wrong : c = Cardinality(s)
    BY <2>3
  <2>5. s # {}
    <3>1. G[{}] = 0 /\ W[{}] = 0
      BY <1>4, <1>6
    <3>. QED
      BY <2>4, <3>1
  <2>6. s \ {Some(s)} \in SUBSET K /\ Some(s) \in s /\ s \in SUBSET K
    BY <1>3, <2>4, <2>5
  <2>7. Cardinality(s \ {Some(s)}) = Cardinality(s) - 1 /\ Cardinality(s) \in Nat
    BY <2>2, <2>6, FS_RemoveElement
  <2>8. s \ {Some(s)} \notin wrong
    <3>1. ~(Cardinality(s) <= Cardinality(s \ {Some(s)}))
      BY <2>7
    <3>2. s \ {Some(s)} \in wrong => Cardinality(s \ {Some(s)}) \in sizes
      OBVIOUS
    <3>. HIDE DEF wrong, sizes
    <3>. QED
      BY <2>3, <2>4, <3>1, <3>2
  <2>9. W[s \ {Some(s)}] = G[s \ {Some(s)}]
    BY <2>6, <2>8
  <2>10. W[s] = G[s]
    BY <1>4, <1>6, <2>5, <2>6, <2>9
  <2>. QED
    BY <2>4, <2>10
<1>8. G[K] = Cardinality(Pile(keys, I, K))
  BY DEF G
<1>. QED
  BY <1>1, <1>7, <1>8

\* The sites of one edge are in one file: its source is.
OneFile(D) == \A d, e \in D : EdgeKey(d) = EdgeKey(e) => d.src[1] = e.src[1]

\* scoreEdges (graph/score.ts:78-102): for any drafts, nodes, kinds of edge
\* and files left out, the four counts add up to the drawn sites of those
\* kinds in the other files: none is lost and none counted twice.
THEOREM ScoreCountsEverySite ==
  ASSUME NEW D, Ranked(D), OneFile(D), NEW sites \in Seq(D), NEW known, NEW kinds, NEW excluded
  PROVE  Total(Scored(Collapse(sites, known), kinds, excluded))
           = Cardinality({i \in Shown(sites, known, Len(sites)) : sites[i].kind \in kinds /\ sites[i].src[1] \notin excluded})
<1>. DEFINE edges == Collapse(sites, known)
            shown == Shown(sites, known, Len(sites))
            keys == [i \in shown |-> EdgeKey(sites[i])]
            K(res) == Counted(edges, kinds, excluded, res)
            P(res) == Pile(keys, shown, K(res))
            all == {i \in shown : sites[i].kind \in kinds /\ sites[i].src[1] \notin excluded}
<1>1. edges \in Drawings(D) /\ Collapsed(edges, sites, known, Len(sites))
  BY CollapseKeepsEverySite
<1>2. IsFiniteSet(shown) /\ shown \subseteq 1 .. Len(sites) /\ \A i \in shown : sites[i] \in D
  <2>1. IsFiniteSet(1 .. Len(sites)) /\ Len(sites) \in Nat
    BY LenProperties, FS_Interval
  <2>2. shown \in SUBSET (1 .. Len(sites))
    BY DEF Shown
  <2>3. \A i \in 1 .. Len(sites) : sites[i] \in D
    OBVIOUS
  <2>. HIDE DEF shown
  <2>. QED
    BY <2>1, <2>2, <2>3, FS_Subset
<1>3. DOMAIN edges = {keys[i] : i \in shown} /\ IsFiniteSet(DOMAIN edges)
  <2>1. DOMAIN edges = {keys[i] : i \in shown}
    BY <1>1 DEF Collapsed
  <2>. HIDE DEF shown, edges
  <2>2. keys \in Surjection(shown, DOMAIN edges)
    BY <2>1 DEF Surjection
  <2>. QED
    BY <1>2, <2>1, <2>2, FS_Surjection
<1>4. \A k \in DOMAIN edges : /\ edges[k].count = Cardinality(Pile(keys, shown, {k}))
                              /\ edges[k].res \in DOMAIN Confidence
                              /\ \E i \in shown : keys[i] = k /\ edges[k].src = sites[i].src
  <2>. SUFFICES ASSUME NEW k \in DOMAIN edges
                PROVE  /\ edges[k].count = Cardinality(Pile(keys, shown, {k}))
                       /\ edges[k].res \in DOMAIN Confidence
                       /\ \E i \in shown : keys[i] = k /\ edges[k].src = sites[i].src
    OBVIOUS
  <2>1. StandsFor(edges[k], sites, At(sites, known, k, Len(sites)))
    BY <1>1 DEF Collapsed
  <2>2. At(sites, known, k, Len(sites)) = Pile(keys, shown, {k})
    BY DEF At, Pile
  <2>3. edges[k] \in Edge(D)
    BY <1>1, EdgesAre
  <2>4. edges[k].res \in DOMAIN Confidence
    BY <2>3 DEF Edge
  <2>5. edges[k].count = Cardinality(Pile(keys, shown, {k}))
    BY <2>1, <2>2 DEF StandsFor
  <2>6. \E i \in Pile(keys, shown, {k}) : edges[k].src = sites[i].src
    BY <2>1, <2>2 DEF StandsFor
  <2>7. \A i \in Pile(keys, shown, {k}) : i \in shown /\ keys[i] = k
    BY DEF Pile
  <2>. HIDE DEF edges, shown, keys
  <2>. QED
    BY <2>4, <2>5, <2>6, <2>7
<1>. HIDE DEF edges, shown
<1>5. ASSUME NEW res \in DOMAIN Confidence
      PROVE  /\ Scored(edges, kinds, excluded)[res] = Cardinality(P(res))
             /\ P(res) \in SUBSET shown
  <2>1. K(res) \in SUBSET DOMAIN edges
    BY DEF Counted
  <2>2. IsFiniteSet(K(res)) /\ \A k \in K(res) : edges[k].count = Cardinality(Pile(keys, shown, {k}))
    BY <1>3, <1>4, <2>1, FS_Subset
  <2>. HIDE DEF keys
  <2>3. Sites(edges, K(res)) = Cardinality(P(res))
    BY <1>2, <2>2, SumIsPile
  <2>4. Scored(edges, kinds, excluded)[res] = Sites(edges, K(res))
    BY DEF Scored
  <2>5. P(res) \in SUBSET shown
    BY DEF Pile
  <2>. QED
    BY <2>3, <2>4, <2>5
<1>6. \A i \in shown : /\ keys[i] \in DOMAIN edges
                       /\ keys[i][3] = sites[i].kind
                       /\ edges[keys[i]].src[1] = sites[i].src[1]
                       /\ edges[keys[i]].res \in DOMAIN Confidence
  <2>. SUFFICES ASSUME NEW i \in shown
                PROVE  /\ keys[i] \in DOMAIN edges
                       /\ keys[i][3] = sites[i].kind
                       /\ edges[keys[i]].src[1] = sites[i].src[1]
                       /\ edges[keys[i]].res \in DOMAIN Confidence
    OBVIOUS
  <2>1. keys[i] = EdgeKey(sites[i]) /\ keys[i][3] = sites[i].kind
    BY DEF EdgeKey
  <2>2. keys[i] \in DOMAIN edges
    BY <1>3
  <2>3. PICK j \in shown : keys[j] = keys[i] /\ edges[keys[i]].src = sites[j].src
    BY <1>4, <2>2
  <2>4. EdgeKey(sites[j]) = EdgeKey(sites[i])
    BY <2>1, <2>3
  <2>5. sites[j].src[1] = sites[i].src[1]
    BY <1>2, <2>4 DEF OneFile
  <2>. QED
    BY <1>4, <2>1, <2>2, <2>3, <2>5
<1>7. \A i \in shown, res \in DOMAIN Confidence : i \in P(res) <=> i \in all /\ edges[keys[i]].res = res
  <2>. SUFFICES ASSUME NEW i \in shown, NEW res \in DOMAIN Confidence
                PROVE  i \in P(res) <=> i \in all /\ edges[keys[i]].res = res
    OBVIOUS
  <2>1. i \in P(res) <=> keys[i] \in K(res)
    BY DEF Pile
  <2>2. keys[i] \in K(res) <=> /\ keys[i][3] \in kinds /\ edges[keys[i]].res = res
                               /\ edges[keys[i]].src[1] \notin excluded
    BY <1>6 DEF Counted
  <2>3. i \in all <=> sites[i].kind \in kinds /\ sites[i].src[1] \notin excluded
    OBVIOUS
  <2>. HIDE DEF keys, all, P, K
  <2>. QED
    BY <1>6, <2>1, <2>2, <2>3
<1>8. DOMAIN Confidence = {"semantic", "heuristic", "ambiguous", "unresolved"}
  BY DEF Confidence
<1>9. all = ((P("semantic") \cup P("heuristic")) \cup P("ambiguous")) \cup P("unresolved")
  <2>1. all \subseteq shown /\ \A res \in DOMAIN Confidence : P(res) \subseteq shown
    BY <1>5
  <2>. HIDE DEF all, P, keys
  <2>2. \A i \in shown : edges[keys[i]].res \in {"semantic", "heuristic", "ambiguous", "unresolved"}
    BY <1>6, <1>8
  <2>3. \A i \in shown : i \in all <=> i \in P("semantic") \/ i \in P("heuristic") \/ i \in P("ambiguous") \/ i \in P("unresolved")
    BY <1>7, <1>8, <2>2
  <2>. QED
    BY <1>8, <2>1, <2>3
<1>10. \A r, s \in DOMAIN Confidence : r # s => P(r) \cap P(s) = {}
  <2>. SUFFICES ASSUME NEW r \in DOMAIN Confidence, NEW s \in DOMAIN Confidence, r # s, NEW i \in P(r), i \in P(s)
                PROVE  FALSE
    BY Zenon
  <2>1. i \in shown
    BY <1>5
  <2>. HIDE DEF P, all, keys
  <2>. QED
    BY <1>7, <2>1
<1>11. \A res \in DOMAIN Confidence : IsFiniteSet(P(res))
  <2>. HIDE DEF P
  <2>. QED
    BY <1>2, <1>5, FS_Subset
<1>. HIDE DEF all, P, keys, K
<1>12. /\ IsFiniteSet(P("semantic") \cup P("heuristic"))
       /\ Cardinality(P("semantic") \cup P("heuristic")) = Cardinality(P("semantic")) + Cardinality(P("heuristic"))
  <2>1. P("semantic") \cap P("heuristic") = {}
    BY <1>8, <1>10
  <2>. QED
    BY <1>8, <1>11, <2>1, UnionCounts
<1>13. /\ IsFiniteSet((P("semantic") \cup P("heuristic")) \cup P("ambiguous"))
       /\ Cardinality((P("semantic") \cup P("heuristic")) \cup P("ambiguous"))
            = Cardinality(P("semantic") \cup P("heuristic")) + Cardinality(P("ambiguous"))
  <2>1. P("semantic") \cap P("ambiguous") = {} /\ P("heuristic") \cap P("ambiguous") = {}
    BY <1>8, <1>10
  <2>2. (P("semantic") \cup P("heuristic")) \cap P("ambiguous") = {}
    BY <2>1
  <2>. QED
    BY <1>8, <1>11, <1>12, <2>2, UnionCounts
<1>14. Cardinality(all) = Cardinality((P("semantic") \cup P("heuristic")) \cup P("ambiguous")) + Cardinality(P("unresolved"))
  <2>1. /\ P("semantic") \cap P("unresolved") = {} /\ P("heuristic") \cap P("unresolved") = {}
        /\ P("ambiguous") \cap P("unresolved") = {}
    BY <1>8, <1>10
  <2>2. ((P("semantic") \cup P("heuristic")) \cup P("ambiguous")) \cap P("unresolved") = {}
    BY <2>1
  <2>. QED
    BY <1>8, <1>9, <1>11, <1>13, <2>2, UnionCounts
<1>15. Total(Scored(edges, kinds, excluded))
         = Cardinality(P("semantic")) + Cardinality(P("heuristic")) + Cardinality(P("ambiguous")) + Cardinality(P("unresolved"))
  <2>. DEFINE score == Scored(edges, kinds, excluded)
  <2>1. /\ score["semantic"] = Cardinality(P("semantic")) /\ score["heuristic"] = Cardinality(P("heuristic"))
        /\ score["ambiguous"] = Cardinality(P("ambiguous")) /\ score["unresolved"] = Cardinality(P("unresolved"))
    BY <1>5, <1>8
  <2>. HIDE DEF score
  <2>2. Total(score) = score["semantic"] + score["heuristic"] + score["ambiguous"] + score["unresolved"]
    BY DEF Total
  <2>. QED
    BY <2>1, <2>2 DEF score
<1>16. Cardinality(all)
         = Cardinality(P("semantic")) + Cardinality(P("heuristic")) + Cardinality(P("ambiguous")) + Cardinality(P("unresolved"))
  BY <1>12, <1>13, <1>14
<1>. QED
  BY <1>15, <1>16 DEF all, edges, shown
=============================================================================
