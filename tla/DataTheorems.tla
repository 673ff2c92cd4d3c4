---------------------------- MODULE DataTheorems ----------------------------
(***************************************************************************)
(* How rows come in.                                                       *)
(*                                                                         *)
(* Sync: the cursor never claims more than what is stored, for every       *)
(* report, any number of threads and every chunk size.  The pages stored   *)
(* only grow, so what a thread read of the cursor stays true however late  *)
(* it writes it back; Sound says so of the cursor and of every thread's    *)
(* copy of it.                                                             *)
(*                                                                         *)
(* Books: one report on its way into the cache and the canonical layer,    *)
(* for any number of threads, days, edits and failures, and each of the    *)
(* reports.  What the sums come to is left alone: a rebuild is compared    *)
(* with the cache by what it has read, not by what it adds up.             *)
(***************************************************************************)
EXTENDS Sync, Books, WellFoundedInduction, NaturalsInduction, TLAPS

\* What a cursor claims is so, of a report src of which st is stored.
SoundIn(c, src, st, cr) ==
    /\ c.next_page <= src.pages + 1
    /\ 1..(c.next_page - 1) \subseteq st
    /\ "cut" \notin cr =>
          /\ c.complete => 1..src.pages \subseteq st
          /\ c.rows_stored = IF c.complete THEN src.pages ELSE c.next_page - 1

Sound(c) == SoundIn(c, source, stored, crossed)

\* The same after the step, of a cursor of before it.
StaysSound(c) == SoundIn(c, source', stored', crossed')

\* The walk works on an incomplete cursor only, and goes on with one only.
WalkIsOpen(j) ==
    /\ job[j].step = "fetch" /\ ~job[j].refresh => ~job[j].at.complete
    /\ job[j].step = "write" /\ ~job[j].last => ~job[j].at.complete

IInv ==
    /\ TypeOK
    /\ Sound(cursor)
    /\ \A j \in Jobs : Working(j) => Sound(job[j].at) /\ WalkIsOpen(j)

-----------------------------------------------------------------------------
(* What a chunk comes back with. *)

LEMMA SourceTyped == ASSUME source \in Sources
                     PROVE  source \in SourceType /\ source.pages \in Nat
<1>1. source \in SourceType  BY SyncAssumption
<1> QED  BY <1>1 DEF SourceType

\* The fields every result has.
Result == [rows : Nat, reached_end : BOOLEAN, more_available : BOOLEAN, cut : BOOLEAN]

\* What fetch_report promises: the pages are within the report; and unless the
\* chunk was cut, it is called the last only when it reaches the last page.
FromReport(start, res) ==
    /\ res \in Result
    /\ start + res.rows - 1 <= source.pages
    /\ res.reached_end => ~res.more_available
    /\ ~res.more_available /\ ~res.cut => start + res.rows - 1 = source.pages
    /\ res.more_available => res.rows > 0

\* Every chunk keeps that promise.
LEMMA ChunkIsFromReport ==
    ASSUME source \in Sources,
           NEW start \in Nat \ {0}, start <= source.pages + 1,
           NEW max \in Nat \ {0},
           NEW res \in Chunk(start, max)
    PROVE  FromReport(start, res)
<1> DEFINE left == source.pages - (start - 1)
           K == 0..Smaller(max, left)
<1>0. source.pages \in Nat /\ left \in Nat
  BY SourceTyped
<1>1. \A k \in K : k \in Nat /\ k <= left
  BY <1>0 DEF Smaller
<1> HIDE DEF K
<1>2. ASSUME NEW k \in K, ~AllCounted(start, k), res = Stopped(start, k)
      PROVE  FromReport(start, res)
  <2>1. k \in Nat /\ start + k - 1 <= source.pages
    BY <1>0, <1>1
  <2>2. CASE k > 0
    <3>0. (k > 0) = TRUE /\ (k = 0 /\ start <= source.pages) = FALSE
      BY <2>1, <2>2
    <3>1. res = [rows |-> k, reached_end |-> FALSE, more_available |-> TRUE, cut |-> FALSE]
      BY <1>2, <3>0, Zenon DEF Stopped
    <3> QED
      BY <2>1, <2>2, <3>1 DEF Result, FromReport
  <2>3. CASE k = 0 /\ start <= source.pages
    <3>0. (k > 0) = FALSE /\ (k = 0 /\ start <= source.pages) = TRUE /\ k = 0
      BY <2>1, <2>3
    <3>1. res = [rows |-> 0, reached_end |-> FALSE, more_available |-> FALSE, cut |-> TRUE]
      BY <1>2, <3>0, Zenon DEF Stopped
    <3> QED
      BY <2>1, <2>3, <3>1 DEF Result, FromReport
  <2>4. CASE k = 0 /\ ~(start <= source.pages)
    <3>0. (k > 0) = FALSE /\ (k = 0 /\ start <= source.pages) = FALSE /\ k = 0
      BY <2>1, <2>4
    <3>1. res = [rows |-> 0, reached_end |-> FALSE, more_available |-> FALSE, cut |-> FALSE]
      BY <1>2, <3>0, Zenon DEF Stopped
    <3> QED
      BY <1>0, <2>1, <2>4, <3>1 DEF Result, FromReport
  <2> QED
    BY <2>1, <2>2, <2>3, <2>4
<1>3. ASSUME NEW k \in K, res = Ended(start, k, FALSE),
             AllCounted(start, k) \/ k = left
      PROVE  FromReport(start, res)
  BY <1>0, <1>1, <1>3 DEF Ended, Result, FromReport, AllCounted
<1>4. ASSUME NEW k \in K, res = Ended(start, k, k < left)
      PROVE  FromReport(start, res)
  <2>1. k \in Nat /\ start + k - 1 <= source.pages
    BY <1>0, <1>1
  <2>2. CASE k < left
    <3>0. (k < left) = TRUE
      BY <2>2
    <3>1. res = Ended(start, k, TRUE)
      BY <1>4, <3>0, Zenon
    <3> QED
      BY <2>1, <3>1 DEF Ended, Result, FromReport
  <2>3. CASE ~(k < left)
    <3>0. (k < left) = FALSE /\ k = left
      BY <1>0, <1>1, <2>3
    <3>1. res = Ended(start, k, FALSE) /\ k = left
      BY <1>4, <3>0, Zenon
    <3> QED
      BY <1>0, <2>1, <3>1 DEF Ended, Result, FromReport
  <2> QED
    BY <2>2, <2>3
<1> QED
  BY <1>2, <1>3, <1>4 DEF Chunk, K

-----------------------------------------------------------------------------
(* What is claimed stays so while more is stored. *)

LEMMA SoundStays ==
    ASSUME NEW c \in Cursor, Sound(c), source \in Sources,
           source' = source, stored \subseteq stored', crossed \subseteq crossed'
    PROVE  StaysSound(c)
BY DEF StaysSound, Sound, SoundIn

\* The start of a walk claims nothing.
LEMMA FreshIsSound ==
    ASSUME source \in Sources
    PROVE  Fresh \in Cursor /\ Sound(Fresh)
BY SourceTyped DEF Fresh, Cursor, Sound, SoundIn

\* The walk's next cursor is sound, once the chunk is stored.
LEMMA WalkedIsSound ==
    ASSUME source \in Sources, NEW c \in Cursor, Sound(c), ~c.complete,
           NEW res \in Chunk(c.next_page, CHUNK_PAGES),
           source' = source,
           stored' = stored \cup Fetched(c.next_page, res),
           crossed' = IF res.cut THEN crossed \cup {"cut"} ELSE crossed
    PROVE  Walked(c, res) \in Cursor /\ StaysSound(Walked(c, res))
<1>0. source.pages \in Nat
  BY SourceTyped
<1>1. FromReport(c.next_page, res)
  BY ChunkIsFromReport, SyncAssumption DEF Cursor, Sound, SoundIn
<1>2. res.rows \in Nat /\ c.next_page \in Nat \ {0} /\ c.rows_stored \in Nat
  BY <1>1 DEF FromReport, Result, Cursor
<1>3. 1..(c.next_page + res.rows - 1) \subseteq stored'
  BY <1>2 DEF StaysSound, Sound, SoundIn, Fetched
<1>4. CASE res.reached_end \/ ~res.more_available
  <2>1. Walked(c, res) = [next_page |-> 1, rows_stored |-> c.rows_stored + res.rows,
                          complete |-> TRUE]
    BY <1>4, <1>1 DEF Walked, FromReport, Result
  <2>2. ~res.cut => c.next_page + res.rows - 1 = source.pages
    BY <1>1, <1>4 DEF FromReport
  <2>3. ~res.cut => 1..source.pages \subseteq stored'
    BY <2>2, <1>3, <1>2
  <2>4. "cut" \notin crossed' => ~res.cut /\ c.rows_stored = c.next_page - 1
    BY DEF StaysSound, Sound, SoundIn
  <2>5. Walked(c, res) \in Cursor
    BY <2>1, <1>2 DEF Cursor
  <2> QED
    BY <2>1, <2>2, <2>3, <2>4, <2>5, <1>0, <1>2 DEF StaysSound, Sound, SoundIn
<1>5. CASE ~(res.reached_end \/ ~res.more_available)
  <2>1. Walked(c, res) = [next_page |-> c.next_page + res.rows,
                          rows_stored |-> c.rows_stored + res.rows, complete |-> FALSE]
    BY <1>5, <1>1 DEF Walked, FromReport, Result
  <2>2. c.next_page + res.rows <= source.pages + 1
    BY <1>0, <1>1, <1>2 DEF FromReport
  <2>3. "cut" \notin crossed' => c.rows_stored = c.next_page - 1
    BY DEF StaysSound, Sound, SoundIn
  <2>4. Walked(c, res) \in Cursor
    BY <2>1, <1>2 DEF Cursor
  <2> QED
    BY <2>1, <2>2, <2>3, <2>4, <1>0, <1>2, <1>3 DEF StaysSound, Sound, SoundIn
<1> QED
  BY <1>4, <1>5

\* So is what a refresh writes.
LEMMA RefreshedIsSound ==
    ASSUME source \in Sources, NEW c \in Cursor, Sound(c),
           NEW res \in Chunk(1, REFRESH_PAGES),
           source' = source,
           stored' = stored \cup Fetched(1, res),
           crossed' = IF res.reached_end /\ res.cut THEN crossed \cup {"cut"} ELSE crossed
    PROVE  Refreshed(c, res) \in Cursor /\ StaysSound(Refreshed(c, res))
<1>0. source.pages \in Nat
  BY SourceTyped
<1>1. FromReport(1, res)
  BY <1>0, ChunkIsFromReport, SyncAssumption
<1>2. res.rows \in Nat
  BY <1>1 DEF FromReport, Result
<1>3. CASE res.reached_end
  <2>1. Refreshed(c, res) = [next_page |-> 1, rows_stored |-> res.rows, complete |-> TRUE]
    BY <1>3 DEF Refreshed
  <2>2. "cut" \notin crossed' => res.rows = source.pages
    BY <1>0, <1>1, <1>2, <1>3 DEF FromReport
  <2>3. res.rows = source.pages => 1..source.pages \subseteq stored'
    BY <1>0, <1>2 DEF Fetched
  <2> QED
    BY <1>0, <1>2, <2>1, <2>2, <2>3 DEF StaysSound, Sound, SoundIn, Cursor
<1>4. CASE ~res.reached_end
  BY <1>4, SoundStays DEF Refreshed
<1> QED
  BY <1>3, <1>4

-----------------------------------------------------------------------------
(* The invariant. *)

\* A working thread's record, and its cursor.
LEMMA JobTyped ==
    ASSUME TypeOK, NEW j \in Jobs, Working(j)
    PROVE  job[j] \in Job /\ job[j].at \in Cursor
BY DEF TypeOK, Working, Job

\* What a step that stores nothing new leaves of the other threads.
LEMMA OthersStay ==
    ASSUME IInv, NEW j \in Jobs,
           source' = source, stored \subseteq stored', crossed \subseteq crossed',
           NEW i \in Jobs, i # j, job'[i] = job[i], Working(i)'
    PROVE  (Sound(job[i].at) /\ WalkIsOpen(i))'
<1>1. Working(i) /\ Sound(job[i].at) /\ WalkIsOpen(i) /\ job[i].at \in Cursor
  BY JobTyped DEF IInv, Working
<1>2. Sound(job[i].at)'
  BY <1>1 DEF IInv, TypeOK, StaysSound, Sound, SoundIn
<1> QED
  BY <1>1, <1>2 DEF WalkIsOpen

LEMMA InitHolds == Init => IInv
<1> SUFFICES ASSUME Init PROVE IInv
  OBVIOUS
<1>1. TypeOK
  BY FreshIsSound DEF Init, TypeOK, Awkward
<1> QED
  BY <1>1, FreshIsSound DEF Init, IInv, Working

LEMMA StartHolds ==
    ASSUME IInv, NEW j \in Jobs, NEW restart \in BOOLEAN, NEW refresh \in BOOLEAN,
           Start(j, restart, refresh), UNCHANGED <<source, stored, cursor, crossed>>,
           status' \in {status, "running"}
    PROVE  IInv'
<1> DEFINE new == [step |-> "begin", restart |-> restart, refresh |-> refresh,
                   at |-> Fresh, last |-> FALSE]
<1>0. source \in Sources  BY DEF IInv, TypeOK
<1>1. new \in Job
  BY <1>0, FreshIsSound DEF Job
<1>2. TypeOK'
  BY <1>1 DEF IInv, TypeOK, Start
<1>3. Sound(cursor)'
  BY DEF IInv, StaysSound, Sound, SoundIn
<1>4. job'[j] = new /\ \A i \in Jobs : i # j => job'[i] = job[i]
  BY DEF Start, IInv, TypeOK
<1>5. Sound(job[j].at)' /\ WalkIsOpen(j)'
  <2>1. StaysSound(Fresh)
    BY <1>0, FreshIsSound DEF StaysSound, Sound, SoundIn
  <2> QED
    BY <2>1, <1>4 DEF WalkIsOpen, Sound, StaysSound
<1>6. \A i \in Jobs : i # j /\ Working(i)' => (Sound(job[i].at) /\ WalkIsOpen(i))'
  BY <1>4, OthersStay
<1> QED
  BY <1>2, <1>3, <1>5, <1>6 DEF IInv

LEMMA QuitHolds ==
    ASSUME IInv, NEW j \in Jobs, Quit(j), source' = source, stored' = stored,
           cursor' = cursor \/ (Working(j) /\ cursor' = job[j].at),
           crossed \subseteq crossed', crossed' \subseteq Awkward,
           status' \in {"idle", "running", "success", "failed"}
    PROVE  IInv'
<1>1. cursor' \in Cursor /\ StaysSound(cursor')
  BY JobTyped DEF IInv, TypeOK, StaysSound, Sound, SoundIn
<1>2. job'[j] = Idle /\ \A i \in Jobs : i # j => job'[i] = job[i]
  BY DEF Quit, IInv, TypeOK
<1>3. TypeOK'
  BY <1>1 DEF IInv, TypeOK, Quit
<1>4. \A i \in Jobs : Working(i)' => (Sound(job[i].at) /\ WalkIsOpen(i))'
  BY <1>2, OthersStay DEF Working
<1> QED
  BY <1>1, <1>3, <1>4 DEF IInv, Sound, StaysSound

\* A thread's own step: its record changes, and what it now holds is sound.
LEMMA MoveHolds ==
    ASSUME IInv, NEW j \in Jobs, NEW new \in Job,
           job' = [job EXCEPT ![j] = new],
           StaysSound(new.at),
           new.step = "fetch" /\ ~new.refresh => ~new.at.complete,
           new.step = "write" /\ ~new.last => ~new.at.complete,
           source' = source, stored \subseteq stored', stored' \subseteq 1..source.pages,
           cursor' = cursor \/ (Working(j) /\ cursor' = job[j].at),
           crossed \subseteq crossed', crossed' \subseteq Awkward,
           status' \in {"idle", "running", "success", "failed"}
    PROVE  IInv'
<1>1. cursor' \in Cursor /\ StaysSound(cursor')
  BY JobTyped DEF IInv, TypeOK, StaysSound, Sound, SoundIn
<1>2. job'[j] = new /\ \A i \in Jobs : i # j => job'[i] = job[i]
  BY DEF IInv, TypeOK
<1>3. TypeOK'
  BY <1>1 DEF IInv, TypeOK
<1>4. \A i \in Jobs : i # j /\ Working(i)' => (Sound(job[i].at) /\ WalkIsOpen(i))'
  BY <1>2, OthersStay
<1>5. Sound(job[j].at)' /\ WalkIsOpen(j)'
  BY <1>2 DEF WalkIsOpen, Sound, StaysSound
<1> QED
  BY <1>1, <1>3, <1>4, <1>5 DEF IInv, Sound, StaysSound

(* The steps of a thread, by the record they leave. *)

\* What the invariant says of the variables and of a working thread.
LEMMA Typed ==
    ASSUME IInv
    PROVE  /\ source \in Sources /\ source.pages \in Nat /\ crossed \subseteq Awkward
           /\ status \in {"idle", "running", "success", "failed"}
           /\ stored \subseteq 1..source.pages /\ cursor \in Cursor /\ Sound(cursor)
           /\ \A j \in Jobs : Working(j) =>
                 /\ job[j] \in Job /\ job[j].at \in Cursor
                 /\ Sound(job[j].at) /\ WalkIsOpen(j)
BY SourceTyped, JobTyped DEF IInv, TypeOK

\* The cursor a thread begins with.
Read(j) == IF job[j].restart THEN Fresh ELSE cursor

LEMMA BeginMoves ==
    ASSUME IInv, NEW j \in Jobs, Begin(j)
    PROVE  /\ Read(j) \in Cursor /\ Sound(Read(j))
           /\ \E new \in Job :
                 /\ job' = [job EXCEPT ![j] = new]
                 /\ new.step = "fetch" /\ new.at = Read(j)
                 /\ new.restart = job[j].restart
                 /\ ~new.refresh => ~new.at.complete
<1> DEFINE new == [job[j] EXCEPT !.step = "fetch", !.at = Read(j),
                                 !.refresh = @ \/ Read(j).complete]
<1>1. Read(j) \in Cursor /\ Sound(Read(j))
  BY Typed, FreshIsSound DEF Read
<1>2. job[j] \in Job /\ Read(j).complete \in BOOLEAN /\ job[j].refresh \in BOOLEAN
  BY <1>1, Typed DEF Begin, Cursor, Job
<1>3. new \in Job /\ new.step = "fetch" /\ new.at = Read(j) /\ new.restart = job[j].restart
      /\ (~new.refresh => ~Read(j).complete)
  BY <1>1, <1>2 DEF Job
<1>4. job' = [job EXCEPT ![j] = new]
  BY DEF Begin, Read
<1> HIDE DEF new
<1> QED
  BY <1>1, <1>3, <1>4

LEMMA RefreshMoves ==
    ASSUME IInv, NEW j \in Jobs, Refresh(j)
    PROVE  \E res \in Chunk(1, REFRESH_PAGES), new \in Job :
              /\ stored' = stored \cup Fetched(1, res)
              /\ stored' \subseteq 1..source.pages
              /\ crossed' = IF res.reached_end /\ res.cut
                            THEN crossed \cup {"cut"} ELSE crossed
              /\ job' = [job EXCEPT ![j] = new]
              /\ new.step = "write" /\ new.last /\ new.at = Refreshed(job[j].at, res)
              /\ new.restart = job[j].restart
              /\ StaysSound(new.at)
<1>0. Working(j) /\ UNCHANGED <<source, cursor, status>>
  BY DEF Refresh
<1>1. PICK res \in Chunk(1, REFRESH_PAGES) :
        /\ stored' = stored \cup Fetched(1, res)
        /\ job' = [job EXCEPT ![j].step = "write", ![j].last = TRUE,
                              ![j].at = Refreshed(@, res)]
        /\ crossed' = IF res.reached_end /\ res.cut
                      THEN crossed \cup {"cut"} ELSE crossed
  BY DEF Refresh
<1> DEFINE at == Refreshed(job[j].at, res)
           new == [job[j] EXCEPT !.step = "write", !.last = TRUE, !.at = at]
<1>2. at \in Cursor /\ StaysSound(at)
  BY <1>0, <1>1, Typed, RefreshedIsSound
<1>3. stored' \subseteq 1..source.pages
  <2>1. FromReport(1, res) /\ res.rows \in Nat
    BY Typed, ChunkIsFromReport, SyncAssumption DEF FromReport, Result
  <2> QED
    BY <1>1, <2>1, Typed DEF FromReport, Fetched
<1>4. job' = [job EXCEPT ![j] = new]
  BY <1>1
<1> HIDE DEF at
<1>5. new \in Job /\ new.at = at /\ new.step = "write" /\ new.last
      /\ new.restart = job[j].restart
  BY <1>0, <1>2, Typed DEF Job
<1> HIDE DEF new
<1> QED
  BY <1>1, <1>2, <1>3, <1>4, <1>5 DEF at

LEMMA WalkMoves ==
    ASSUME IInv, NEW j \in Jobs, Walk(j)
    PROVE  \E res \in Chunk(job[j].at.next_page, CHUNK_PAGES), new \in Job :
              /\ FromReport(job[j].at.next_page, res)
              /\ stored' = stored \cup Fetched(job[j].at.next_page, res)
              /\ stored' \subseteq 1..source.pages
              /\ crossed' = IF res.cut THEN crossed \cup {"cut"} ELSE crossed
              /\ job' = [job EXCEPT ![j] = new]
              /\ new.step = "write" /\ new.last = WalkEnds(job[j].at, res)
              /\ new.at = Walked(job[j].at, res)
              /\ new.restart = job[j].restart
              /\ ~new.last => ~new.at.complete
              /\ StaysSound(new.at)
<1> DEFINE c == job[j].at
<1>0. Working(j) /\ UNCHANGED <<source, cursor, status>>
  BY DEF Walk
<1>1. PICK res \in Chunk(c.next_page, CHUNK_PAGES) :
        /\ stored' = stored \cup Fetched(c.next_page, res)
        /\ job' = [job EXCEPT ![j].step = "write", ![j].last = WalkEnds(c, res),
                              ![j].at = Walked(c, res)]
        /\ crossed' = IF res.cut THEN crossed \cup {"cut"} ELSE crossed
  BY DEF Walk
<1> DEFINE at == Walked(c, res)
           new == [job[j] EXCEPT !.step = "write", !.last = WalkEnds(c, res), !.at = at]
<1>2. ~c.complete
  BY <1>0, Typed DEF Walk, WalkIsOpen
<1>3. at \in Cursor /\ StaysSound(at)
  BY <1>0, <1>1, <1>2, Typed, WalkedIsSound
<1>4. FromReport(c.next_page, res) /\ res.rows \in Nat /\ c.next_page \in Nat \ {0}
  BY <1>0, Typed, ChunkIsFromReport, SyncAssumption
     DEF FromReport, Result, Sound, SoundIn, Cursor
<1>5. stored' \subseteq 1..source.pages
  BY <1>1, <1>4, Typed DEF FromReport, Fetched
<1>6. job' = [job EXCEPT ![j] = new]
  BY <1>1
<1>7. WalkEnds(c, res) \in BOOLEAN /\ (~WalkEnds(c, res) => ~at.complete)
  BY <1>3 DEF WalkEnds, Cursor
<1> HIDE DEF at
<1>8. new \in Job /\ new.at = at /\ new.step = "write" /\ new.last = WalkEnds(c, res)
      /\ new.restart = job[j].restart
  BY <1>0, <1>3, <1>7, Typed DEF Job
<1> HIDE DEF new
<1> QED
  BY <1>1, <1>3, <1>4, <1>5, <1>6, <1>7, <1>8 DEF at

LEMMA SaveMoves ==
    ASSUME IInv, NEW j \in Jobs, Save(j), ~job[j].last
    PROVE  \E new \in Job :
              /\ job' = [job EXCEPT ![j] = new]
              /\ new.step = "fetch" /\ new.at = job[j].at
              /\ new.restart = job[j].restart /\ ~new.at.complete
<1> DEFINE new == [job[j] EXCEPT !.step = "fetch"]
<1>1. new \in Job /\ new.at = job[j].at /\ new.step = "fetch" /\ ~new.at.complete
      /\ new.restart = job[j].restart
  BY Typed DEF Job, Save, WalkIsOpen
<1>2. job' = [job EXCEPT ![j] = new]
  BY DEF Save
<1> HIDE DEF new
<1> QED
  BY <1>1, <1>2

LEMMA StepHolds == ASSUME IInv, NEW j \in Jobs, Step(j) PROVE IInv'
<1>0. Working(j)
  BY DEF Step, Begin, BeginFails, Refresh, Walk, Save, Fail, Inside
<1>1. CASE Begin(j)
  <2>1. StaysSound(Read(j)) /\ UNCHANGED <<source, stored, cursor>>
    BY <1>1, Typed, BeginMoves, SoundStays DEF Begin
  <2>2. status' \in {"idle", "running", "success", "failed"} /\ crossed \subseteq crossed'
        /\ crossed' \subseteq Awkward
    BY <1>1, Typed DEF Begin, SetStatus, Awkward
  <2> QED
    BY <1>1, <2>1, <2>2, Typed, BeginMoves, MoveHolds
<1>2. CASE BeginFails(j)
  BY <1>2, Typed, QuitHolds DEF BeginFails, Awkward
<1>3. CASE Refresh(j)
  <2>1. UNCHANGED <<source, cursor, status>>
    BY <1>3 DEF Refresh
  <2> QED
    BY <1>3, <2>1, Typed, RefreshMoves, MoveHolds DEF Awkward
<1>4. CASE Walk(j)
  <2>1. UNCHANGED <<source, cursor, status>>
    BY <1>4 DEF Walk
  <2> QED
    BY <1>4, <2>1, Typed, WalkMoves, MoveHolds DEF Awkward
<1>5. CASE Save(j)
  <2>1. cursor' = job[j].at /\ UNCHANGED <<source, stored, crossed>>
        /\ status' \in {"idle", "running", "success", "failed"}
    BY <1>5, Typed DEF Save, SetStatus
  <2>2. CASE job[j].last
    BY <1>0, <1>5, <2>1, <2>2, Typed, QuitHolds DEF Save
  <2>3. CASE ~job[j].last
    <3>1. StaysSound(job[j].at)
      BY <1>0, <2>1, Typed DEF StaysSound, Sound
    <3> QED
      BY <1>0, <1>5, <2>1, <2>3, <3>1, Typed, SaveMoves, MoveHolds
  <2> QED
    BY <2>2, <2>3
<1>6. CASE Fail(j)
  BY <1>6, Typed, QuitHolds DEF Fail, SetStatus
<1> QED
  BY <1>1, <1>2, <1>3, <1>4, <1>5, <1>6 DEF Step

\* The web process forgets its threads.
LEMMA RestartHolds ==
    ASSUME IInv, WebRestarts \/ WorkerRestarts
    PROVE  IInv'
<1>1. CASE WebRestarts
  <2>1. \A j \in Jobs : job'[j] = Idle \/ (j = Hourly /\ job'[j] = job[j])
    BY <1>1 DEF WebRestarts
  <2>2. TypeOK'
    BY <1>1 DEF WebRestarts, IInv, TypeOK
  <2> QED
    BY <1>1, <2>1, <2>2 DEF WebRestarts, IInv, Working, Sound, SoundIn, WalkIsOpen
<1>2. CASE WorkerRestarts
  <2>1. crossed \subseteq Awkward /\ status \in {"idle", "running", "success", "failed"}
    BY DEF IInv, TypeOK
  <2> QED
    BY <1>2, <2>1, QuitHolds DEF WorkerRestarts, Jobs
<1> QED
  BY <1>1, <1>2

\* Nothing of the invariant moves when only the status does, or the history grows.
LEMMA RefusalHolds ==
    ASSUME IInv, TriggerUnconnected \/ TriggerFails
    PROVE  IInv'
BY DEF IInv, TypeOK, TriggerUnconnected, TriggerFails, Awkward, Working, Sound,
       SoundIn, WalkIsOpen

LEMMA NextHolds == IInv /\ [Next]_vars => IInv'
<1> SUFFICES ASSUME IInv, [Next]_vars PROVE IInv'
  OBVIOUS
<1>1. ASSUME NEW r \in Reports, NEW restart \in BOOLEAN, Trigger(r, restart) PROVE IInv'
  BY <1>1, StartHolds DEF Trigger, Jobs
<1>2. ASSUME NEW restart \in BOOLEAN, NEW refresh \in BOOLEAN, TriggerAll(restart, refresh)
      PROVE  IInv'
  BY <1>2, StartHolds DEF TriggerAll, Jobs
<1>3. CASE TriggerHourly
  BY <1>3, StartHolds DEF TriggerHourly, Jobs
<1>4. CASE UNCHANGED vars
  BY <1>4 DEF vars, IInv, TypeOK, Working, Sound, SoundIn, WalkIsOpen
<1> QED
  BY <1>1, <1>2, <1>3, <1>4, StepHolds, RefusalHolds, RestartHolds DEF Next

LEMMA InvHolds == Spec => []IInv
BY InitHolds, NextHolds, PTL DEF Spec

-----------------------------------------------------------------------------

\* Every variable keeps its type: no position before the first page, no page
\* beyond the report.
THEOREM TypeCorrect == Spec => []TypeOK
<1>1. IInv => TypeOK
  BY DEF IInv
<1> QED
  BY <1>1, InvHolds, PTL

\* connections.py never writes complete on behalf of pages nobody fetched,
\* however many threads cross and whatever fails in between.
THEOREM CompleteIsStored == Spec => []CompleteMeansStored
<1>1. IInv => CompleteMeansStored
  BY DEF IInv, TypeOK, Sound, SoundIn, CompleteMeansStored
<1> QED
  BY <1>1, InvHolds, PTL

\* _write_cursor never names a page to resume at with a hole before it.
THEOREM ResumesWithoutHole == Spec => []NothingSkipped
<1>1. IInv => NothingSkipped
  BY DEF IInv, Sound, SoundIn, NothingSkipped
<1> QED
  BY <1>1, InvHolds, PTL

\* The count pipeline_sync_status shows is that of the pages walked.
THEOREM RowsAreOfTheWalk == Spec => []RowsTellProgress
<1>1. IInv => RowsTellProgress
  BY DEF IInv, Sound, SoundIn, RowsTellProgress
<1> QED
  BY <1>1, InvHolds, PTL

\* The while loop of _run_single_pipeline makes way with every chunk.
THEOREM WalkTerminates == Spec => WalkMovesOn
<1>1. ASSUME IInv, NEW j \in Jobs, Walk(j), ~job'[j].last
      PROVE  /\ job'[j].at.next_page > job[j].at.next_page
             /\ job'[j].at.next_page <= source.pages + 1
  <2> DEFINE c == job[j].at
  <2>1. PICK res \in Chunk(c.next_page, CHUNK_PAGES), new \in Job :
          /\ FromReport(c.next_page, res)
          /\ job' = [job EXCEPT ![j] = new]
          /\ new.last = WalkEnds(c, res) /\ new.at = Walked(c, res)
    BY <1>1, WalkMoves
  <2>2. c \in Cursor /\ source.pages \in Nat
    BY <1>1, Typed DEF Walk
  <2>3. job'[j] = new
    BY <1>1, <2>1 DEF IInv, TypeOK
  <2>4. ~Walked(c, res).complete /\ res.rows # 0
    BY <1>1, <2>1, <2>3 DEF WalkEnds
  <2>5. Walked(c, res).next_page = c.next_page + res.rows
    BY <2>4 DEF Walked
  <2> QED
    BY <2>1, <2>2, <2>3, <2>4, <2>5 DEF FromReport, Result, Cursor
<1>2. IInv /\ [Next]_vars => [\A j \in Jobs : Walk(j) =>
          \/ job'[j].last
          \/ /\ job'[j].at.next_page > job[j].at.next_page
             /\ job'[j].at.next_page <= source.pages + 1]_vars
  BY <1>1
<1> QED
  BY <1>2, InvHolds, PTL DEF Spec, WalkMovesOn

-----------------------------------------------------------------------------
(* The status. *)

\* The thread that accounts for "running": one of the report's own, or "sync
\* all" once it has read the cursor; before that it may still end unseen.
Accounts(j) == Working(j) /\ (j \in Reports \/ job[j].step # "begin")

StatusAccounted ==
    status = "running" /\ "stuck" \notin crossed =>
        \E j \in Jobs \ {Hourly} : Accounts(j)

LEMMA AccountedHolds == IInv /\ StatusAccounted /\ [Next]_vars => StatusAccounted'
<1> SUFFICES ASSUME IInv, TypeOK, StatusAccounted, [Next]_vars PROVE StatusAccounted'
  BY DEF IInv
<1> USE SyncAssumption DEF StatusAccounted
<1>1. ASSUME NEW j \in Jobs, NEW new \in Job \cup {Idle},
             job' = [job EXCEPT ![j] = new],
             status' = status, crossed \subseteq crossed',
             Accounts(j) => j = Hourly \/ (new # Idle /\ new.step # "begin")
      PROVE  StatusAccounted'
  BY <1>1 DEF TypeOK, Accounts, Working
<1>2. ASSUME NEW j \in Jobs, NEW restart \in BOOLEAN, NEW refresh \in BOOLEAN,
             Start(j, restart, refresh), ~Working(j)
      PROVE  /\ job'[j] # Idle
             /\ \A i \in Jobs : Accounts(i) => Accounts(i)'
  <2>1. [step |-> "begin", restart |-> restart, refresh |-> refresh,
         at |-> Fresh, last |-> FALSE] \in Job
    BY DEF Job, Fresh, Cursor
  <2> QED
    BY <1>2, <2>1 DEF Start, TypeOK, Accounts, Working
<1>3. ASSUME NEW r \in Reports, NEW restart \in BOOLEAN, Trigger(r, restart)
      PROVE  StatusAccounted'
  BY <1>2, <1>3 DEF Trigger, Free, Accounts, Working, Jobs
<1>4. ASSUME NEW restart \in BOOLEAN, NEW refresh \in BOOLEAN, TriggerAll(restart, refresh)
      PROVE  StatusAccounted'
  BY <1>2, <1>4 DEF TriggerAll, Free, Jobs
<1>5. CASE TriggerHourly
  BY <1>2, <1>5 DEF TriggerHourly, Free, Jobs
<1>6. CASE TriggerUnconnected \/ TriggerFails
  BY <1>6 DEF TriggerUnconnected, TriggerFails
<1>7. ASSUME NEW j \in Jobs, Step(j) PROVE StatusAccounted'
  <2>0. Working(j) /\ job[j] \in Job
    BY <1>7 DEF Step, Begin, BeginFails, Refresh, Walk, Save, Fail, Inside, TypeOK, Working
  <2>1. CASE Begin(j)
    <3>1. job'[j] # Idle /\ job'[j].step = "fetch"
          /\ \A i \in Jobs : i # j => job'[i] = job[i]
      BY <2>1, BeginMoves, SyncAssumption DEF TypeOK
    <3> QED
      BY <2>1, <3>1 DEF Begin, SetStatus, Accounts, Working
  <2>2. CASE BeginFails(j)
    BY <2>0, <2>2 DEF BeginFails, Quit, Accounts, Working, TypeOK
  <2>3. CASE Refresh(j) \/ Walk(j)
    <3>1. job'[j] # Idle /\ job'[j].step = "write"
          /\ (\A i \in Jobs : i # j => job'[i] = job[i])
          /\ status' = status /\ crossed \subseteq crossed'
      <4>1. CASE Refresh(j)
        <5>1. PICK res \in Chunk(1, REFRESH_PAGES), new \in Job :
                /\ job' = [job EXCEPT ![j] = new] /\ new.step = "write"
                /\ crossed' = IF res.reached_end /\ res.cut
                              THEN crossed \cup {"cut"} ELSE crossed
          BY <4>1, RefreshMoves
        <5>2. job'[j] = new /\ \A i \in Jobs : i # j => job'[i] = job[i]
          BY <5>1 DEF TypeOK
        <5> QED
          BY <4>1, <5>1, <5>2, SyncAssumption DEF Refresh
      <4>2. CASE Walk(j)
        <5>1. PICK res \in Chunk(job[j].at.next_page, CHUNK_PAGES), new \in Job :
                /\ job' = [job EXCEPT ![j] = new] /\ new.step = "write"
                /\ crossed' = IF res.cut THEN crossed \cup {"cut"} ELSE crossed
          BY <4>2, WalkMoves
        <5>2. job'[j] = new /\ \A i \in Jobs : i # j => job'[i] = job[i]
          BY <5>1 DEF TypeOK
        <5> QED
          BY <4>2, <5>1, <5>2, SyncAssumption DEF Walk
      <4> QED
        BY <2>3, <4>1, <4>2
    <3> QED
      BY <2>0, <3>1 DEF Accounts, Working
  <2>4. CASE Save(j)
    <3>1. job[j].step = "write" /\ crossed' = crossed
          /\ (\A i \in Jobs : i # j => job'[i] = job[i])
      BY <2>4 DEF Save, Quit, TypeOK
    <3>2. CASE job[j].last
      BY <2>4, <3>1, <3>2 DEF Save, SetStatus, Accounts, Working
    <3>3. CASE ~job[j].last
      <4>1. job'[j] # Idle /\ job'[j].step = "fetch"
        BY <2>4, <3>3, SaveMoves DEF TypeOK
      <4> QED
        BY <2>4, <3>1, <3>3, <4>1 DEF Save, SetStatus, Accounts, Working
    <3> QED
      BY <3>2, <3>3
  <2>5. CASE Fail(j)
    BY <2>5 DEF Fail, SetStatus, Quit, Accounts, Working, TypeOK
  <2> QED
    BY <1>7, <2>1, <2>2, <2>3, <2>4, <2>5 DEF Step
<1>8. CASE WebRestarts
  BY <1>8 DEF WebRestarts
<1>9. CASE WorkerRestarts
  BY <1>9 DEF WorkerRestarts, Quit, Accounts, Working, TypeOK, Jobs
<1>10. CASE UNCHANGED vars
  BY <1>10 DEF vars, Accounts, Working
<1> QED
  BY <1>3, <1>4, <1>5, <1>6, <1>7, <1>8, <1>9, <1>10 DEF Next

\* trigger_pipeline_sync refuses a report as running only while a thread of the
\* web process is at work on it, however often the status was overwritten.
THEOREM RunningIsWorking == Spec => []RunningMeansWork
<1>1. Init => StatusAccounted
  BY DEF Init, StatusAccounted
<1>2. StatusAccounted => RunningMeansWork
  BY DEF StatusAccounted, Accounts, RunningMeansWork
<1> QED
  BY <1>1, <1>2, AccountedHolds, InvHolds, PTL DEF Spec

-----------------------------------------------------------------------------
(* Progress. *)

\* Without an overlap a thread that is not a restart holds a cursor no older
\* than the stored one; only "sync all" and the report's own threads restart.
Apart ==
    /\ Working(Hourly) => ~job[Hourly].restart
    /\ "overlap" \notin crossed =>
          /\ \A i, j \in Jobs : Inside(i) /\ Inside(j) => i = j
          /\ \A j \in Jobs : Inside(j) /\ ~job[j].restart => Ahead(job[j].at, cursor)

\* A thread that comes, goes or stays outside of the report.
LEMMA ApartOutside ==
    ASSUME IInv, Apart, NEW j \in Jobs, NEW new \in Job \cup {Idle},
           job' = [job EXCEPT ![j] = new], cursor' = cursor, crossed \subseteq crossed',
           new # Idle => new.step = "begin" /\ (j = Hourly => ~new.restart)
    PROVE  Apart'
BY SyncAssumption DEF IInv, TypeOK, Apart, Working, Inside, Jobs, Ahead

\* A thread that stays inside.
LEMMA ApartInside ==
    ASSUME IInv, Apart, NEW j \in Jobs, NEW new \in Job, Inside(j),
           job' = [job EXCEPT ![j] = new], cursor' = cursor, crossed \subseteq crossed',
           new.restart = job[j].restart,
           "overlap" \notin crossed /\ ~new.restart => Ahead(new.at, cursor)
    PROVE  Apart'
BY SyncAssumption DEF IInv, TypeOK, Apart, Working, Inside, Jobs, Ahead

LEMMA AheadStays ==
    ASSUME IInv, NEW c \in Cursor, NEW d \in Cursor, NEW e \in Cursor,
           Ahead(c, d), Ahead(d, e)
    PROVE  Ahead(c, e)
BY DEF Ahead, Cursor

LEMMA ApartHolds == IInv /\ Apart /\ [Next]_vars => Apart'
<1> SUFFICES ASSUME IInv, TypeOK, Apart, [Next]_vars PROVE Apart'
  BY DEF IInv
<1> USE SyncAssumption
<1>1. ASSUME NEW j \in Jobs, NEW restart \in BOOLEAN, NEW refresh \in BOOLEAN,
             Start(j, restart, refresh), UNCHANGED <<cursor, crossed>>,
             j = Hourly => ~restart
      PROVE  Apart'
  <2> DEFINE new == [step |-> "begin", restart |-> restart, refresh |-> refresh,
                     at |-> Fresh, last |-> FALSE]
  <2>1. new \in Job /\ new.step = "begin" /\ new.restart = restart
    BY Typed, FreshIsSound DEF Job
  <2>2. job' = [job EXCEPT ![j] = new]
    BY <1>1 DEF Start
  <2> HIDE DEF new
  <2> QED
    BY <1>1, <2>1, <2>2, ApartOutside
<1>2. ASSUME NEW r \in Reports, NEW restart \in BOOLEAN, Trigger(r, restart) PROVE Apart'
  BY <1>1, <1>2 DEF Trigger, Jobs
<1>3. ASSUME NEW restart \in BOOLEAN, NEW refresh \in BOOLEAN, TriggerAll(restart, refresh)
      PROVE  Apart'
  BY <1>1, <1>3 DEF TriggerAll, Jobs
<1>4. CASE TriggerHourly
  BY <1>1, <1>4 DEF TriggerHourly, Jobs
<1>5. CASE TriggerUnconnected \/ TriggerFails \/ UNCHANGED vars
  BY <1>5 DEF TriggerUnconnected, TriggerFails, vars, Apart, Working, Inside, Ahead
<1>6. ASSUME NEW j \in Jobs, Begin(j) PROVE Apart'
  <2>1. PICK new \in Job : job' = [job EXCEPT ![j] = new] /\ new.step = "fetch"
                           /\ new.at = Read(j) /\ new.restart = job[j].restart
    BY <1>6, BeginMoves
  <2>2. job'[j] = new /\ \A i \in Jobs : i # j => job'[i] = job[i]
    BY <2>1 DEF TypeOK
  <2>3. Working(j) /\ cursor' = cursor /\ cursor \in Cursor
    BY <1>6, Typed DEF Begin
  <2>4. (Working(Hourly) => ~job[Hourly].restart)'
    BY <2>1, <2>2, <2>3 DEF Apart, Working, Jobs
  <2>5. ASSUME "overlap" \notin crossed'
        PROVE  /\ "overlap" \notin crossed
               /\ \A i \in Jobs \ {j} : ~Inside(i)
    BY <1>6, <2>5 DEF Begin
  <2>6. ASSUME "overlap" \notin crossed', NEW i \in Jobs, Inside(i)'
        PROVE  i = j
    BY <2>2, <2>5, <2>6 DEF Inside, Working
  <2>7. ~job[j].restart => Ahead(new.at, cursor)
    BY <2>1, <2>3 DEF Read, Ahead, Cursor
  <2> QED
    BY <2>1, <2>2, <2>3, <2>4, <2>6, <2>7 DEF Apart
<1>7. ASSUME NEW j \in Jobs, Quit(j), crossed' = crossed \/ crossed' = crossed \cup {"stuck"},
             cursor' = cursor
      PROVE  Apart'
  BY <1>7, ApartOutside DEF Quit
<1>8. ASSUME NEW j \in Jobs, Refresh(j) PROVE Apart'
  <2>1. PICK res \in Chunk(1, REFRESH_PAGES), new \in Job :
          /\ job' = [job EXCEPT ![j] = new]
          /\ new.at = Refreshed(job[j].at, res) /\ new.restart = job[j].restart
          /\ crossed' = IF res.reached_end /\ res.cut
                        THEN crossed \cup {"cut"} ELSE crossed
    BY <1>8, RefreshMoves
  <2>2. Inside(j) /\ cursor' = cursor
    BY <1>8 DEF Refresh, Inside
  <2>3. Ahead(new.at, cursor) \/ new.at = job[j].at
    BY <2>1 DEF Refreshed, Ahead
  <2> QED
    BY <2>1, <2>2, <2>3, ApartInside DEF Apart
<1>9. ASSUME NEW j \in Jobs, Walk(j) PROVE Apart'
  <2>1. PICK res \in Chunk(job[j].at.next_page, CHUNK_PAGES), new \in Job :
          /\ FromReport(job[j].at.next_page, res)
          /\ job' = [job EXCEPT ![j] = new]
          /\ new.at = Walked(job[j].at, res) /\ new.restart = job[j].restart
          /\ crossed' = IF res.cut THEN crossed \cup {"cut"} ELSE crossed
    BY <1>9, WalkMoves
  <2>2. Inside(j) /\ cursor' = cursor /\ job[j].at \in Cursor /\ cursor \in Cursor
    BY <1>9, Typed DEF Walk, Inside
  <2>3. ~job[j].at.complete
    BY <1>9, Typed DEF Walk, WalkIsOpen
  <2>4. Ahead(Walked(job[j].at, res), job[j].at)
    <3>1. res.rows \in Nat /\ job[j].at.next_page \in Nat /\ job[j].at.rows_stored \in Nat
      BY <2>1, <2>2 DEF FromReport, Result, Cursor
    <3>2. CASE res.reached_end \/ ~res.more_available
      BY <3>2 DEF Walked, Ahead
    <3>3. CASE ~(res.reached_end \/ ~res.more_available)
      <4>1. Walked(job[j].at, res) =
              [next_page |-> job[j].at.next_page + res.rows,
               rows_stored |-> job[j].at.rows_stored + res.rows,
               complete |-> res.reached_end \/ ~res.more_available]
        BY <3>3 DEF Walked
      <4> QED
        BY <2>3, <3>1, <4>1 DEF Ahead
    <3> QED
      BY <3>2, <3>3
  <2>5. Ahead(job[j].at, cursor) => Ahead(new.at, cursor)
    <3>1. new.at \in Cursor
      BY DEF Job
    <3>2. Ahead(new.at, job[j].at)
      BY <2>1, <2>4
    <3> QED
      BY <2>2, <3>1, <3>2, AheadStays
  <2> QED
    BY <2>1, <2>2, <2>5, ApartInside DEF Apart
<1>10. ASSUME NEW j \in Jobs, Save(j) PROVE Apart'
  <2>1. Inside(j) /\ cursor' = job[j].at /\ crossed' = crossed /\ job[j].at \in Cursor
    BY <1>10, Typed DEF Save, Inside
  <2>2. (job'[j] = Idle \/ (job'[j] # Idle /\ job'[j].at = job[j].at
                             /\ job'[j].restart = job[j].restart))
        /\ \A i \in Jobs : i # j => job'[i] = job[i]
    <3>1. CASE job[j].last
      BY <1>10, <3>1 DEF Save, Quit, TypeOK
    <3>2. CASE ~job[j].last
      BY <1>10, <3>2, SaveMoves DEF TypeOK
    <3> QED
      BY <3>1, <3>2
  <2>3. Ahead(job[j].at, job[j].at)
    BY <2>1 DEF Ahead, Cursor
  <2>4. "overlap" \notin crossed' => \A i \in Jobs : Inside(i)' => i = j
    BY <2>1, <2>2 DEF Apart, Inside, Working
  <2>5. (Working(Hourly) => ~job[Hourly].restart)'
    BY <2>1, <2>2 DEF Apart, Working, Inside, Jobs
  <2> QED
    BY <2>1, <2>2, <2>3, <2>4, <2>5 DEF Apart, Inside, Working
<1>11. CASE WebRestarts
  <2>1. \A j \in Jobs : job'[j] = Idle \/ job'[j] = job[j]
    BY <1>11 DEF WebRestarts
  <2> QED
    BY <1>11, <2>1 DEF WebRestarts, Apart, Working, Inside, Ahead, Jobs
<1>12. ASSUME NEW j \in Jobs, Step(j) PROVE Apart'
  BY <1>6, <1>7, <1>8, <1>9, <1>10, <1>12 DEF Step, BeginFails, Fail
<1>13. CASE WorkerRestarts
  BY <1>7, <1>13 DEF WorkerRestarts, Jobs
<1> QED
  BY <1>2, <1>3, <1>4, <1>5, <1>11, <1>12, <1>13 DEF Next

\* _write_cursor takes a migration back on a restart only, while no two threads
\* are inside the report.
THEOREM ProgressIsKept == Spec => ProgressKept
<1>1. Init => Apart
  BY DEF Init, Apart, Working, Inside, Jobs
<1>2. ASSUME IInv, Apart, [Next]_vars, "overlap" \notin crossed
      PROVE  \/ Ahead(cursor', cursor)
             \/ \E j \in Jobs \ {Hourly} : Working(j) /\ job[j].restart
  <2>1. CASE cursor' = cursor
    BY <1>2, <2>1, Typed DEF Ahead, Cursor
  <2>2. CASE \E j \in Jobs : Save(j)
    <3>1. PICK j \in Jobs : Save(j)
      BY <2>2
    <3>2. cursor' = job[j].at /\ Inside(j) /\ Working(j)
      BY <3>1 DEF Save, Inside
    <3> QED
      BY <1>2, <3>2 DEF Apart
  <2>3. cursor' = cursor \/ \E j \in Jobs : Save(j)
    BY <1>2 DEF Next, Trigger, TriggerUnconnected, TriggerFails, TriggerAll, TriggerHourly,
                Step, Begin, BeginFails, Refresh, Walk, Fail, WebRestarts, WorkerRestarts, vars
  <2> QED
    BY <2>1, <2>2, <2>3
<1>3. IInv /\ Apart /\ [Next]_vars =>
        [ "overlap" \notin crossed =>
        \/ Ahead(cursor', cursor)
        \/ \E j \in Jobs \ {Hourly} : Working(j) /\ job[j].restart ]_vars
  BY <1>2
<1> QED
  BY <1>1, <1>3, InvHolds, ApartHolds, PTL DEF Spec, ProgressKept

\* What tz_sync_progress shows of a migration is true, for any number of
\* threads and any source.
THEOREM WhatIsShownIsTrue == Spec => []ShownIsTrue
BY CompleteIsStored, ResumesWithoutHole, RowsAreOfTheWalk, RunningIsWorking, PTL DEF ShownIsTrue

\* Only a restart sets a migration back, and every walk ends.
THEOREM WalksGoForward == Spec => WalkGoesForward
BY ProgressIsKept, WalkTerminates DEF WalkGoesForward

-----------------------------------------------------------------------------
(* One report on its way through the cache. *)

Places == {"idle", "fetch", "upsert", "snapshot", "finish", "customers", "lock",
           "headers", "lines", "commit"}

\* A thread's record: the figures it has added up are whatever they are.
Fields == {"at", "page", "last", "got", "twice", "owes", "heads", "lines"}

IsThread(v) == v = [f \in Fields |-> v[f]]

ThreadTyped(s) ==
    /\ IsThread(syncer[s])
    /\ syncer[s].at \in Places /\ syncer[s].page \in Nat \ {0} /\ syncer[s].last \in Lines
    /\ syncer[s].got \subseteq CacheRow

SourceRow == [line : Lines, figure : Figures \cup {Bad}, open : BOOLEAN]

TablesTyped ==
    /\ report \in Tranzact \cup Zoho
    /\ at_source \in [Lines -> SourceRow \cup {Gone}]
    /\ cache \subseteq CacheRow
    /\ syncer = [s \in Syncers |-> syncer[s]]
    /\ \A s \in Syncers : ThreadTyped(s)

\* What a line says is what it said at first, unless it was changed or paid.
Original(r) == /\ r.line \in edited \/ r.figure = Min(Figures)
               /\ r.open \/ r.line \in paid

SourceIsOriginal ==
    \A l \in Lines : at_source[l] # Gone => at_source[l].line = l /\ Original(at_source[l])

RowsAreOriginal ==
    /\ \A r \in cache : Original(r)
    /\ \A s \in Syncers : \A r \in syncer[s].got : Original(r)

\* A run has each line at most once, the pages being read in turn.
RunsAreInStep == \A s \in Syncers :
    /\ At_(s, "fetch") => /\ syncer[s].page <= syncer[s].last
                          /\ \A r \in syncer[s].got : r.line < syncer[s].page
    /\ (At_(s, "fetch") \/ At_(s, "upsert")) =>
          \A r, q \in syncer[s].got : r.line = q.line => r = q

KeysAreUnique == \A r, q \in cache : raw_id(r) = raw_id(q) => r = q

RowsInv == /\ TablesTyped /\ SourceIsOriginal /\ RowsAreOriginal /\ RunsAreInStep
           /\ KeysAreUnique

-----------------------------------------------------------------------------
(* Operators of the model. *)

\* The least of the figures is one of them.
LEMMA LeastFigure == Min(Figures) \in Figures
<1> DEFINE R == OpToRel(<, Nat)
<1>0. IsWellFoundedOn(R, Nat)
  BY NatLessThanWellFounded
<1>1. \A x, y \in Nat : y < x => <<y, x>> \in R
  BY DEF OpToRel
<1> HIDE DEF R
<1>2. Figures \subseteq Nat /\ Figures # {}
  BY BooksAssumption
<1>3. PICK e \in Figures : \A y \in Figures : ~(<<y, e>> \in R)
  BY <1>0, <1>2, WFMin, Zenon
<1>4. \A f \in Figures : e <= f
  <2> TAKE f \in Figures
  <2>1. ~(f < e)
    BY <1>1, <1>2, <1>3
  <2>2. QED
    BY <1>2, <2>1
<1>5. QED
  BY <1>4 DEF Min

LEMMA WorthOfNone == Worth({}) = 0
BY DEF Worth, MapThenSumSet, MapThenFoldSet

\* Of these reports the key has a figure in it, of the others it is the line.
Wide == report \in {"sales_invoices", "purchase_invoices", "sales_orders", "grn_qir"}

LEMMA KeyIs ==
    ASSUME report \in Tranzact \cup Zoho, NEW r
    PROVE  raw_id(r) = IF Wide THEN <<r.line, r.figure>> ELSE <<r.line>>
BY DEF raw_id, Wide, Tranzact, Zoho, sales_invoices, purchase_invoices, sales_orders, grn_qir,
       sales_quotations, purchase_orders, ar_aging, inventory_valuation, process_details,
       process_routing, zoho_invoices, zoho_contacts, zoho_items, zoho_bills

\* The canonical layer tells rows apart as the cache does.
LEMMA SameKeyInCanon ==
    ASSUME report \in Tranzact \cup Zoho, NEW r
    PROVE  source_ref(r) = raw_id(r)
<1>1. raw_id(r) = IF Wide THEN <<r.line, r.figure>> ELSE <<r.line>>
  BY KeyIs
<1> HIDE DEF raw_id
<1>2. QED
  BY <1>1
  DEF source_ref, Wide, Tranzact, Zoho, canon_sales_line, canon_purchase_line, canon_inventory,
      canon_payment, canon_purchase_order, canon_sales_order, canon_sales_quotation, canon_grn,
      canon_production, canon_routing, zoho_payment, zoho_customer, zoho_item, zoho_bill

LEMMA KeyStays ==
    ASSUME report' = report, NEW r
    PROVE  raw_id(r)' = raw_id(r)
BY DEF raw_id, sales_invoices, purchase_invoices, sales_orders, grn_qir,
       sales_quotations, purchase_orders, ar_aging, inventory_valuation, process_details,
       process_routing, zoho_invoices, zoho_contacts, zoho_items, zoho_bills

LEMMA OneKeyOneLine ==
    ASSUME report \in Tranzact \cup Zoho, NEW r, NEW q
    PROVE  /\ raw_id(r) = raw_id(q) => r.line = q.line
           /\ r.line = q.line /\ r.figure = q.figure => raw_id(r) = raw_id(q)
BY KeyIs

LEMMA UpsertedCache ==
    ASSUME NEW rows
    PROVE  Upserted(cache, rows, raw_id) =
                {r \in cache : \A n \in rows : raw_id(n) # raw_id(r)} \cup rows
BY DEF Upserted

\* A thread at rest, at the start of a run, and on its way.
LEMMA AtRestIs ==
    /\ IsThread(AtRest) /\ AtRest.at = "idle" /\ AtRest.page = 1 /\ AtRest.last = 1
    /\ AtRest.got = {}
BY DEF IsThread, Fields, AtRest

StartRunTo(first, last) == [AtRest EXCEPT !.at = "fetch", !.page = first, !.last = last]

LEMMA StartRunIs ==
    ASSUME NEW first, NEW last
    PROVE  LET v == StartRunTo(first, last) IN
           /\ IsThread(v) /\ v.at = "fetch" /\ v.page = first /\ v.last = last /\ v.got = {}
<1> DEFINE r == AtRest
<1>1. IsThread(r) /\ r.got = {}
  BY AtRestIs
<1>2. StartRunTo(first, last) = [r EXCEPT !.at = "fetch", !.page = first, !.last = last]
  BY DEF StartRunTo
<1> HIDE DEF r
<1>3. QED
  BY <1>1, <1>2 DEF IsThread, Fields

LEMMA OnItsWay ==
    ASSUME NEW r, IsThread(r), NEW at
    PROVE  LET v == [r EXCEPT !.at = at] IN
           /\ IsThread(v) /\ v.at = at /\ v.page = r.page /\ v.last = r.last
           /\ v.got = r.got /\ v.owes = r.owes /\ v.heads = r.heads /\ v.lines = r.lines
BY DEF IsThread, Fields

LEMMA HavingStored ==
    ASSUME NEW r, IsThread(r)
    PROVE  LET v == [r EXCEPT !.at = "customers", !.got = {}] IN
           /\ IsThread(v) /\ v.at = "customers" /\ v.page = r.page /\ v.last = r.last
           /\ v.got = {}
BY DEF IsThread, Fields

LEMMA HavingReadCustomers ==
    ASSUME NEW r, IsThread(r), NEW n
    PROVE  LET v == [r EXCEPT !.at = "lock", !.owes = n] IN
           /\ IsThread(v) /\ v.at = "lock" /\ v.page = r.page /\ v.last = r.last
           /\ v.got = r.got /\ v.owes = n
BY DEF IsThread, Fields

LEMMA HavingReadHeaders ==
    ASSUME NEW r, IsThread(r), NEW n
    PROVE  LET v == [r EXCEPT !.at = "lines", !.heads = n] IN
           /\ IsThread(v) /\ v.at = "lines" /\ v.page = r.page /\ v.last = r.last
           /\ v.got = r.got /\ v.owes = r.owes /\ v.heads = n
BY DEF IsThread, Fields

LEMMA HavingReadLines ==
    ASSUME NEW r, IsThread(r), NEW n
    PROVE  LET v == [r EXCEPT !.at = "commit", !.lines = n] IN
           /\ IsThread(v) /\ v.at = "commit" /\ v.page = r.page /\ v.last = r.last
           /\ v.got = r.got /\ v.owes = r.owes /\ v.heads = r.heads /\ v.lines = n
BY DEF IsThread, Fields

\* One thread moves, the others stay where they are.
LEMMA OneGoes ==
    ASSUME syncer = [t \in Syncers |-> syncer[t]], NEW s \in Syncers, NEW fields, Goes(s, fields)
    PROVE  /\ syncer' = [t \in Syncers |-> syncer'[t]]
           /\ \A t \in Syncers : syncer'[t] = IF t = s THEN fields ELSE syncer[t]
BY DEF Goes

-----------------------------------------------------------------------------
(* The cache: rows are what the source said, each key once.                *)

LEMMA RowsAtFirst == BooksInit => RowsInv
<1>1. SUFFICES ASSUME BooksInit PROVE RowsInv
  OBVIOUS
<1>2. /\ report \in BookReports /\ cache = {} /\ edited = {} /\ paid = {}
      /\ at_source = [l \in Lines |-> Row(l, Min(Figures), TRUE)]
      /\ syncer = [s \in Syncers |-> AtRest]
  BY <1>1 DEF BooksInit
<1>3. \A l \in Lines : Row(l, Min(Figures), TRUE) \in SourceRow
  BY LeastFigure DEF Row, SourceRow
<1>4. \A s \in Syncers : syncer[s] = AtRest
  BY <1>2
<1>5. \A s \in Syncers : ThreadTyped(s) /\ syncer[s].at = "idle" /\ syncer[s].got = {}
  BY <1>4, AtRestIs DEF ThreadTyped, Places, Lines
<1>6. TablesTyped
  BY <1>2, <1>3, <1>5, BooksAssumption DEF TablesTyped
<1>7. SourceIsOriginal
  BY <1>2 DEF SourceIsOriginal, Original, Row
<1>8. RowsAreOriginal /\ RunsAreInStep /\ KeysAreUnique
  BY <1>2, <1>5 DEF RowsAreOriginal, RunsAreInStep, KeysAreUnique, At_
<1>9. QED
  BY <1>6, <1>7, <1>8 DEF RowsInv

LEMMA SourceChangesKeepsRows ==
    ASSUME RowsInv, NEW l \in Lines, SourceChanges(l)
    PROVE  RowsInv'
<1>1. /\ at_source[l] # Gone /\ at_source[l] \in SourceRow
      /\ UNCHANGED <<report, cache, syncer>>
  BY DEF SourceChanges, RowsInv, TablesTyped
<1>2. \/ /\ at_source' = [at_source EXCEPT ![l] = [at_source[l] EXCEPT !.open = FALSE]]
         /\ paid' = paid \cup {l} /\ edited' = edited
      \/ /\ at_source' = [at_source EXCEPT ![l] = Gone]
         /\ edited' = edited /\ paid' = paid
      \/ \E f \in Figures \cup {Bad} :
             /\ at_source' = [at_source EXCEPT ![l] = [at_source[l] EXCEPT !.figure = f]]
             /\ edited' = edited \cup {l} /\ paid' = paid
  BY DEF SourceChanges
<1>3. PICK row \in SourceRow \cup {Gone} :
        /\ at_source' = [at_source EXCEPT ![l] = row]
        /\ row # Gone => /\ row.line = at_source[l].line
                         /\ (row.figure = at_source[l].figure \/ l \in edited')
                         /\ (row.open = at_source[l].open \/ l \in paid')
  <2>1. \A f \in Figures \cup {Bad} :
            LET row == [at_source[l] EXCEPT !.figure = f] IN
            /\ row \in SourceRow /\ row.line = at_source[l].line /\ row.open = at_source[l].open
    BY <1>1 DEF SourceRow
  <2>2. LET row == [at_source[l] EXCEPT !.open = FALSE] IN
            /\ row \in SourceRow /\ row.line = at_source[l].line /\ row.figure = at_source[l].figure
    BY <1>1 DEF SourceRow
  <2>3. CASE \E f \in Figures \cup {Bad} :
             /\ at_source' = [at_source EXCEPT ![l] = [at_source[l] EXCEPT !.figure = f]]
             /\ edited' = edited \cup {l} /\ paid' = paid
    BY <2>1, <2>3
  <2>4. CASE /\ at_source' = [at_source EXCEPT ![l] = [at_source[l] EXCEPT !.open = FALSE]]
             /\ paid' = paid \cup {l} /\ edited' = edited
    BY <2>2, <2>4
  <2>5. CASE at_source' = [at_source EXCEPT ![l] = Gone]
    BY <2>5
  <2>6. QED
    BY <1>2, <2>3, <2>4, <2>5
<1>4. edited \subseteq edited' /\ paid \subseteq paid'
  BY <1>2
<1>5. \A k \in Lines : at_source'[k] = IF k = l THEN row ELSE at_source[k]
  BY <1>3 DEF RowsInv, TablesTyped
<1>6. TablesTyped'
  BY <1>1, <1>3 DEF RowsInv, TablesTyped, ThreadTyped
<1>7. SourceIsOriginal'
  BY <1>1, <1>3, <1>4, <1>5 DEF RowsInv, SourceIsOriginal, Original
<1>8. RowsAreOriginal'
  BY <1>1, <1>4 DEF RowsInv, RowsAreOriginal, Original
<1>9. RunsAreInStep' /\ KeysAreUnique'
  BY <1>1, KeyStays DEF RowsInv, RunsAreInStep, KeysAreUnique, At_
<1>10. QED
  BY <1>6, <1>7, <1>8, <1>9 DEF RowsInv

\* A thread that goes on with no more than it has, and is not reading.
LEMMA GoingOnKeepsRows ==
    ASSUME RowsInv, NEW s \in Syncers, syncer' = [t \in Syncers |-> syncer'[t]],
           \A t \in Syncers \ {s} : syncer'[t] = syncer[t],
           ThreadTyped(s)', syncer'[s].got \subseteq syncer[s].got,
           ~At_(s, "fetch")', ~At_(s, "upsert")',
           UNCHANGED <<report, at_source, cache, edited, paid>>
    PROVE  RowsInv'
<1>1. \A t \in Syncers \ {s} : ThreadTyped(t)'
  BY DEF RowsInv, TablesTyped, ThreadTyped
<1>2. TablesTyped'
  BY <1>1 DEF RowsInv, TablesTyped
<1>3. SourceIsOriginal'
  BY DEF RowsInv, SourceIsOriginal, Original
<1>4. RowsAreOriginal'
  BY DEF RowsInv, RowsAreOriginal, Original
<1>5. RunsAreInStep'
  BY DEF RowsInv, RunsAreInStep, At_
<1>6. KeysAreUnique'
  BY KeyStays DEF RowsInv, KeysAreUnique
<1>7. QED
  BY <1>2, <1>3, <1>4, <1>5, <1>6 DEF RowsInv

LEMMA StartRunKeepsRows ==
    ASSUME RowsInv, NEW s \in Syncers, StartRun(s)
    PROVE  RowsInv'
<1>1. PICK first \in Lines, last \in Lines :
        first <= last /\ Goes(s, StartRunTo(first, last))
  BY DEF StartRun, StartRunTo
<1>2. UNCHANGED <<report, at_source, cache, edited, paid>>
  BY DEF StartRun, Reads_only
<1>3. /\ syncer' = [t \in Syncers |-> syncer'[t]]
      /\ \A t \in Syncers : syncer'[t] = IF t = s THEN StartRunTo(first, last) ELSE syncer[t]
  BY <1>1, OneGoes DEF RowsInv, TablesTyped
<1>4. /\ ThreadTyped(s)' /\ syncer'[s].at = "fetch" /\ syncer'[s].got = {}
      /\ syncer'[s].page <= syncer'[s].last
  BY <1>1, <1>3, StartRunIs DEF ThreadTyped, Places, Lines
<1>5. TablesTyped'
  BY <1>2, <1>3, <1>4 DEF RowsInv, TablesTyped, ThreadTyped
<1>6. SourceIsOriginal'
  BY <1>2 DEF RowsInv, SourceIsOriginal, Original
<1>7. RowsAreOriginal'
  BY <1>2, <1>3, <1>4 DEF RowsInv, RowsAreOriginal, Original
<1>8. RunsAreInStep'
  BY <1>3, <1>4 DEF RowsInv, RunsAreInStep, At_
<1>9. KeysAreUnique'
  BY <1>2, KeyStays DEF RowsInv, KeysAreUnique
<1>10. QED
  BY <1>5, <1>6, <1>7, <1>8, <1>9 DEF RowsInv

LEMMA FetchPageKeepsRows ==
    ASSUME RowsInv, NEW s \in Syncers, FetchPage(s)
    PROVE  RowsInv'
<1> DEFINE r == syncer[s]
           l == at_source[r.page]
<1>1. PICK again \in BOOLEAN :
        Goes(s, [r EXCEPT !.page = @ + 1, !.got = @ \cup Valid_rows(l), !.twice = r.twice \/ again,
                          !.at = IF r.page = r.last THEN "upsert" ELSE "fetch"])
  BY DEF FetchPage
<1> DEFINE v == [r EXCEPT !.page = @ + 1, !.got = @ \cup Valid_rows(l), !.twice = r.twice \/ again,
                          !.at = IF r.page = r.last THEN "upsert" ELSE "fetch"]
<1>2. /\ r.at = "fetch" /\ UNCHANGED <<report, at_source, cache, edited, paid>>
  BY DEF FetchPage, Reads_only, At_
<1>3. ThreadTyped(s)
  BY DEF RowsInv, TablesTyped
<1>4. /\ v.page = r.page + 1 /\ v.last = r.last /\ v.got = r.got \cup Valid_rows(l)
      /\ v.at = (IF r.page = r.last THEN "upsert" ELSE "fetch")
      /\ IsThread(v)
  <2> DEFINE rr == r
             twice == rr.twice \/ again
             at == IF rr.page = rr.last THEN "upsert" ELSE "fetch"
             page == rr.page + 1
             got == rr.got \cup Valid_rows(l)
  <2>1. v = [rr EXCEPT !.page = page, !.got = got, !.twice = twice, !.at = at]
    OBVIOUS
  <2>2. IsThread(rr)
    BY <1>3 DEF ThreadTyped
  <2> HIDE DEF page, got, twice, at, rr
  <2>3. /\ IsThread(v) /\ v.at = at /\ v.page = page /\ v.last = rr.last /\ v.got = got
    BY <2>1, <2>2 DEF IsThread, Fields
  <2>5. QED
    BY <2>3 DEF at, page, got, rr
<1>5. r.page \in Lines /\ r.last \in Lines /\ r.page <= r.last
  BY <1>2, <1>3 DEF ThreadTyped, RowsInv, RunsAreInStep, At_, Lines
<1>6. \A n \in Valid_rows(l) : n \in CacheRow /\ n.line = r.page /\ Original(n)
  <2>1. SUFFICES ASSUME l # Gone, l.figure # Bad
                 PROVE  l \in CacheRow /\ l.line = r.page /\ Original(l)
    BY DEF Valid_rows
  <2>2. l \in SourceRow /\ l.line = r.page /\ Original(l)
    BY <1>5, <2>1 DEF RowsInv, TablesTyped, SourceIsOriginal
  <2>3. QED
    BY <2>1, <2>2 DEF SourceRow, CacheRow
<1>7. /\ syncer' = [t \in Syncers |-> syncer'[t]]
      /\ \A t \in Syncers : syncer'[t] = IF t = s THEN v ELSE syncer[t]
  BY <1>1, OneGoes DEF RowsInv, TablesTyped
<1> HIDE DEF v, l
<1>8. ThreadTyped(s)'
  BY <1>3, <1>4, <1>5, <1>6, <1>7 DEF ThreadTyped, Places
<1>9. TablesTyped'
  BY <1>2, <1>7, <1>8 DEF RowsInv, TablesTyped, ThreadTyped
<1>10. SourceIsOriginal'
  BY <1>2 DEF RowsInv, SourceIsOriginal, Original
<1>11. RowsAreOriginal'
  BY <1>2, <1>4, <1>6, <1>7 DEF RowsInv, RowsAreOriginal, Original
<1>12. RunsAreInStep'
  <2>1. \A n \in r.got : n.line < r.page
    BY <1>2 DEF RowsInv, RunsAreInStep, At_
  <2>2. \A n, q \in r.got : n.line = q.line => n = q
    BY <1>2 DEF RowsInv, RunsAreInStep, At_
  <2>3. \A n, q \in Valid_rows(l) : n = q
    BY DEF Valid_rows
  <2>4. \A n, q \in v.got : n.line = q.line => n = q
    BY <1>4, <1>5, <1>6, <2>1, <2>2, <2>3 DEF Lines
  <2>5. \A n \in v.got : n.line < v.page
    BY <1>3, <1>4, <1>5, <1>6, <2>1 DEF ThreadTyped, CacheRow, Lines
  <2>6. v.at = "fetch" => v.page <= v.last
    BY <1>4, <1>5 DEF Lines
  <2>7. QED
    BY <1>7, <2>4, <2>5, <2>6 DEF RowsInv, RunsAreInStep, At_
<1>13. KeysAreUnique'
  BY <1>2, KeyStays DEF RowsInv, KeysAreUnique
<1>14. QED
  BY <1>9, <1>10, <1>11, <1>12, <1>13 DEF RowsInv

LEMMA UpsertKeepsRows ==
    ASSUME RowsInv, NEW s \in Syncers, Upsert(s)
    PROVE  RowsInv'
<1> DEFINE r == syncer[s]
           v == [r EXCEPT !.at = IF report = "ar_aging" /\ r.got # {} THEN "snapshot" ELSE "finish"]
<1>1. /\ r.at = "upsert" /\ Goes(s, v)
      /\ cache' = {q \in cache : \A n \in r.got : raw_id(n) # raw_id(q)} \cup r.got
      /\ UNCHANGED <<report, at_source, edited, paid>>
  BY UpsertedCache DEF Upsert, At_
<1>2. ThreadTyped(s)
  BY DEF RowsInv, TablesTyped
<1>3. /\ v.got = r.got /\ v.page = r.page /\ v.last = r.last /\ v.at \in {"snapshot", "finish"}
      /\ IsThread(v)
  BY <1>2, OnItsWay DEF ThreadTyped
<1>4. /\ syncer' = [t \in Syncers |-> syncer'[t]]
      /\ \A t \in Syncers : syncer'[t] = IF t = s THEN v ELSE syncer[t]
  BY <1>1, OneGoes DEF RowsInv, TablesTyped
<1> HIDE DEF v
<1>5. ThreadTyped(s)'
  BY <1>2, <1>3, <1>4 DEF ThreadTyped, Places
<1>6. cache' \subseteq CacheRow
  BY <1>1, <1>2 DEF ThreadTyped, RowsInv, TablesTyped
<1>7. TablesTyped'
  BY <1>1, <1>4, <1>5, <1>6 DEF RowsInv, TablesTyped, ThreadTyped
<1>8. SourceIsOriginal'
  BY <1>1 DEF RowsInv, SourceIsOriginal, Original
<1>9. RowsAreOriginal'
  BY <1>1, <1>3, <1>4 DEF RowsInv, RowsAreOriginal, Original
<1>10. RunsAreInStep'
  BY <1>3, <1>4 DEF RowsInv, RunsAreInStep, At_
<1>11. KeysAreUnique'
  <2>1. \A n, q \in r.got : raw_id(n) = raw_id(q) => n = q
    BY <1>1, OneKeyOneLine DEF RowsInv, TablesTyped, RunsAreInStep, At_
  <2>2. \A n, q \in cache' : raw_id(n) = raw_id(q) => n = q
    BY <1>1, <2>1 DEF RowsInv, KeysAreUnique
  <2>3. QED
    BY <1>1, <2>2, KeyStays DEF KeysAreUnique
<1>12. QED
  BY <1>7, <1>8, <1>9, <1>10, <1>11 DEF RowsInv

\* The steps of a thread that neither reads a page nor writes the cache.
GoesOn(s) == \/ Snapshot(s) \/ FinishRun(s) \/ FetchFails(s) \/ UpsertFails(s)
             \/ ReadCustomers(s) \/ WriteCustomers(s) \/ ReadHeaders(s) \/ ReadLines(s)
             \/ CommitRebuild(s) \/ Cut(s)

LEMMA GoesOnKeepsRows ==
    ASSUME RowsInv, NEW s \in Syncers, GoesOn(s)
    PROVE  RowsInv'
<1> DEFINE r == syncer[s]
<1>1. UNCHANGED <<report, at_source, cache, edited, paid>>
  BY DEF GoesOn, Snapshot, FinishRun, FetchFails, UpsertFails, ReadCustomers, WriteCustomers,
         ReadHeaders, ReadLines, CommitRebuild, Cut, Reads_only
<1>2. ThreadTyped(s)
  BY DEF RowsInv, TablesTyped
<1>3. \/ Goes(s, AtRest)
      \/ Goes(s, [r EXCEPT !.at = "finish"])
      \/ Goes(s, [r EXCEPT !.at = "customers", !.got = {}])
      \/ Goes(s, [r EXCEPT !.at = "lock", !.owes = Outstanding(cache)])
      \/ Goes(s, [r EXCEPT !.at = "headers"])
      \/ Goes(s, [r EXCEPT !.at = "lines", !.heads = Headers(cache)])
      \/ Goes(s, [r EXCEPT !.at = "commit", !.lines = Mapped(cache)])
  BY DEF GoesOn, Snapshot, FinishRun, FetchFails, UpsertFails, ReadCustomers, WriteCustomers,
         ReadHeaders, ReadLines, CommitRebuild, Cut
<1>4. 1 \in Lines
  BY DEF Lines
<1>5. PICK v : /\ Goes(s, v) /\ v.got \subseteq r.got /\ v.at \in Places \ {"fetch", "upsert"}
               /\ v.page \in Nat \ {0} /\ v.last \in Lines /\ IsThread(v)
  <2>1. CASE Goes(s, AtRest)
    BY <1>4, <2>1, AtRestIs DEF Places
  <2>2. CASE Goes(s, [r EXCEPT !.at = "finish"])
    BY <1>2, <2>2, OnItsWay DEF ThreadTyped, Places
  <2>3. CASE Goes(s, [r EXCEPT !.at = "headers"])
    BY <1>2, <2>3, OnItsWay DEF ThreadTyped, Places
  <2>4. CASE Goes(s, [r EXCEPT !.at = "customers", !.got = {}])
    BY <1>2, <2>4, HavingStored DEF ThreadTyped, Places
  <2>5. CASE Goes(s, [r EXCEPT !.at = "lock", !.owes = Outstanding(cache)])
    BY <1>2, <2>5, HavingReadCustomers DEF ThreadTyped, Places
  <2>6. CASE Goes(s, [r EXCEPT !.at = "lines", !.heads = Headers(cache)])
    BY <1>2, <2>6, HavingReadHeaders DEF ThreadTyped, Places
  <2>7. CASE Goes(s, [r EXCEPT !.at = "commit", !.lines = Mapped(cache)])
    BY <1>2, <2>7, HavingReadLines DEF ThreadTyped, Places
  <2>8. QED
    BY <1>3, <2>1, <2>2, <2>3, <2>4, <2>5, <2>6, <2>7
<1>6. /\ syncer' = [t \in Syncers |-> syncer'[t]]
      /\ \A t \in Syncers : syncer'[t] = IF t = s THEN v ELSE syncer[t]
  BY <1>5, OneGoes DEF RowsInv, TablesTyped
<1>7. ThreadTyped(s)'
  BY <1>2, <1>5, <1>6 DEF ThreadTyped
<1>8. QED
  BY <1>1, <1>5, <1>6, <1>7, GoingOnKeepsRows DEF At_

LEMMA RowsStay == RowsInv /\ [BooksNext]_bookVars => RowsInv'
<1>1. SUFFICES ASSUME RowsInv, [BooksNext]_bookVars PROVE RowsInv'
  OBVIOUS
<1>2. CASE UNCHANGED <<report, at_source, cache, syncer, edited, paid>>
  <2>1. TablesTyped' /\ SourceIsOriginal' /\ RowsAreOriginal' /\ RunsAreInStep'
    BY <1>1, <1>2 DEF RowsInv, TablesTyped, ThreadTyped, SourceIsOriginal, RowsAreOriginal,
                      RunsAreInStep, Original, At_
  <2>2. KeysAreUnique'
    BY <1>1, <1>2, KeyStays DEF RowsInv, KeysAreUnique
  <2>3. QED
    BY <2>1, <2>2 DEF RowsInv
<1>3. CASE UNCHANGED bookVars \/ NextDay
  BY <1>2, <1>3 DEF bookVars, NextDay
<1>4. QED
  BY <1>1, <1>3, SourceChangesKeepsRows, StartRunKeepsRows, FetchPageKeepsRows, UpsertKeepsRows,
     GoesOnKeepsRows DEF BooksNext, GoesOn

\* helpers.py: a second sync of a line updates its row.  Of any report, with any
\* number of syncs over any pages at once, whatever fails.
THEOREM ResyncsNeverInflate == BooksSpec => []ResyncsDoNotInflate
<1>1. RowsInv => ResyncsDoNotInflate
  <2>1. SUFFICES ASSUME RowsInv, NEW r \in cache, NEW q \in cache, r.line = q.line,
                        r.line \notin edited
                 PROVE  r = q
    BY DEF ResyncsDoNotInflate
  <2>2. r.figure = q.figure
    BY <2>1 DEF RowsInv, RowsAreOriginal, Original
  <2>3. QED
    BY <2>1, <2>2, OneKeyOneLine DEF RowsInv, TablesTyped, KeysAreUnique
<1>2. QED
  BY <1>1, RowsAtFirst, RowsStay, PTL DEF BooksSpec

-----------------------------------------------------------------------------
(* Where a thread is after each of its steps, and what it has by then.     *)

ThreadSteps(s) == \/ StartRun(s) \/ FetchPage(s) \/ Upsert(s) \/ GoesOn(s)

LEMMA OneThreadMoves ==
    ASSUME TablesTyped, NEW s \in Syncers, ThreadSteps(s)
    PROVE  /\ report' = report
           /\ \A t \in Syncers \ {s} : syncer'[t] = syncer[t]
<1>1. \E fields : Goes(s, fields)
  BY DEF ThreadSteps, GoesOn, StartRun, FetchPage, Upsert, Snapshot, FinishRun, FetchFails,
         UpsertFails, ReadCustomers, WriteCustomers, ReadHeaders, ReadLines, CommitRebuild, Cut
<1>2. \A t \in Syncers \ {s} : syncer'[t] = syncer[t]
  BY <1>1, OneGoes DEF TablesTyped
<1>3. report' = report
  BY DEF ThreadSteps, GoesOn, StartRun, FetchPage, Upsert, Snapshot, FinishRun, FetchFails,
         UpsertFails, ReadCustomers, WriteCustomers, ReadHeaders, ReadLines, CommitRebuild, Cut,
         Reads_only
<1>4. QED
  BY <1>2, <1>3

LEMMA WhereItGoes ==
    ASSUME TablesTyped, NEW s \in Syncers
    PROVE  /\ StartRun(s) => syncer'[s].at = "fetch"
           /\ FetchPage(s) => syncer'[s].at \in {"fetch", "upsert"}
           /\ Upsert(s) => syncer'[s].at \in {"snapshot", "finish"}
           /\ Snapshot(s) => syncer'[s].at = "finish"
           /\ FinishRun(s) => syncer'[s].at = "customers"
           /\ FetchFails(s) => syncer'[s].at = "idle"
           /\ UpsertFails(s) => syncer'[s].at = "idle"
           /\ ReadCustomers(s) => syncer'[s].at = "lock" /\ syncer'[s].owes = Outstanding(cache)
           /\ WriteCustomers(s) => syncer'[s].at = "headers" /\ syncer'[s].owes = syncer[s].owes
           /\ ReadHeaders(s) => /\ syncer'[s].at = "lines" /\ syncer'[s].owes = syncer[s].owes
                                /\ syncer'[s].heads = Headers(cache)
           /\ ReadLines(s) => /\ syncer'[s].at = "commit" /\ syncer'[s].owes = syncer[s].owes
                              /\ syncer'[s].heads = syncer[s].heads
                              /\ syncer'[s].lines = Mapped(cache)
           /\ CommitRebuild(s) => syncer'[s].at = "idle"
           /\ Cut(s) => syncer'[s].at = "idle"
<1> DEFINE r == syncer[s]
<1>1. IsThread(r)
  BY DEF TablesTyped, ThreadTyped
<1>2. \A fields : Goes(s, fields) => syncer'[s] = fields
  BY OneGoes DEF TablesTyped
<1>3. ASSUME StartRun(s) PROVE syncer'[s].at = "fetch"
  <2>1. PICK first \in Lines, last \in Lines : Goes(s, StartRunTo(first, last))
    BY <1>3 DEF StartRun, StartRunTo
  <2>2. syncer'[s] = StartRunTo(first, last)
    BY <1>2, <2>1
  <2>3. QED
    BY <2>2, StartRunIs
<1>4. ASSUME FetchPage(s) PROVE syncer'[s].at \in {"fetch", "upsert"}
  <2>1. PICK again \in BOOLEAN :
        syncer'[s] = [r EXCEPT !.page = r.page + 1, !.got = r.got \cup Valid_rows(at_source[r.page]),
                               !.twice = r.twice \/ again,
                               !.at = IF r.page = r.last THEN "upsert" ELSE "fetch"]
    BY <1>2, <1>4 DEF FetchPage
  <2>2. syncer'[s].at = (IF r.page = r.last THEN "upsert" ELSE "fetch")
    BY <1>1, <2>1 DEF IsThread, Fields
  <2>3. QED
    BY <2>2
<1>5. ASSUME Upsert(s) PROVE syncer'[s].at \in {"snapshot", "finish"}
  <2>1. syncer'[s] = [r EXCEPT !.at = IF report = "ar_aging" /\ r.got # {}
                                           THEN "snapshot" ELSE "finish"]
    BY <1>2, <1>5 DEF Upsert
  <2>2. QED
    BY <1>1, <2>1, OnItsWay
<1>6. ASSUME Snapshot(s) PROVE syncer'[s].at = "finish"
  <2>1. syncer'[s] = [r EXCEPT !.at = "finish"]
    BY <1>2, <1>6 DEF Snapshot
  <2>2. QED
    BY <1>1, <2>1, OnItsWay
<1>7. ASSUME FinishRun(s) PROVE syncer'[s].at = "customers"
  <2>1. syncer'[s] = [r EXCEPT !.at = "customers", !.got = {}]
    BY <1>2, <1>7 DEF FinishRun
  <2>2. QED
    BY <1>1, <2>1, HavingStored
<1>9. ASSUME ReadCustomers(s)
      PROVE  syncer'[s].at = "lock" /\ syncer'[s].owes = Outstanding(cache)
  <2>1. syncer'[s] = [r EXCEPT !.at = "lock", !.owes = Outstanding(cache)]
    BY <1>2, <1>9 DEF ReadCustomers
  <2>2. QED
    BY <1>1, <2>1 DEF IsThread, Fields
<1>10. ASSUME WriteCustomers(s)
       PROVE  syncer'[s].at = "headers" /\ syncer'[s].owes = syncer[s].owes
  <2>1. syncer'[s] = [r EXCEPT !.at = "headers"]
    BY <1>2, <1>10 DEF WriteCustomers
  <2>2. QED
    BY <1>1, <2>1, OnItsWay
<1>11. ASSUME ReadHeaders(s)
       PROVE  /\ syncer'[s].at = "lines" /\ syncer'[s].owes = syncer[s].owes
              /\ syncer'[s].heads = Headers(cache)
  <2>1. syncer'[s] = [r EXCEPT !.at = "lines", !.heads = Headers(cache)]
    BY <1>2, <1>11 DEF ReadHeaders
  <2>2. QED
    BY <1>1, <2>1 DEF IsThread, Fields
<1>12. ASSUME ReadLines(s)
       PROVE  /\ syncer'[s].at = "commit" /\ syncer'[s].owes = syncer[s].owes
              /\ syncer'[s].heads = syncer[s].heads /\ syncer'[s].lines = Mapped(cache)
  <2>1. syncer'[s] = [r EXCEPT !.at = "commit", !.lines = Mapped(cache)]
    BY <1>2, <1>12 DEF ReadLines
  <2>2. QED
    BY <1>1, <2>1 DEF IsThread, Fields
<1>13. ASSUME CommitRebuild(s) PROVE syncer'[s].at = "idle"
  BY <1>2, <1>13, AtRestIs DEF CommitRebuild
<1>14. ASSUME Cut(s) PROVE syncer'[s].at = "idle"
  BY <1>2, <1>14, AtRestIs DEF Cut
<1>15. ASSUME FetchFails(s) PROVE syncer'[s].at = "idle"
  BY <1>2, <1>15, AtRestIs DEF FetchFails
<1>16. ASSUME UpsertFails(s) PROVE syncer'[s].at = "idle"
  BY <1>2, <1>16, AtRestIs DEF UpsertFails
<1>17. QED
  BY <1>3, <1>4, <1>5, <1>6, <1>7, <1>9, <1>10, <1>11, <1>12, <1>13, <1>14, <1>15, <1>16

-----------------------------------------------------------------------------
(* A run that is over says so.                                             *)

RunsInv == sync_run = [s \in Syncers |-> sync_run[s]] /\ FailuresAreRecorded

LEMMA RunsAtFirst == BooksInit => RunsInv
BY DEF BooksInit, RunsInv, FailuresAreRecorded

LEMMA RunsStay == RowsInv /\ RunsInv /\ [BooksNext]_bookVars => RunsInv'
<1>1. SUFFICES ASSUME RowsInv, RunsInv, [BooksNext]_bookVars PROVE RunsInv'
  OBVIOUS
<1>2. TablesTyped
  BY <1>1 DEF RowsInv
<1>3. CASE UNCHANGED <<syncer, sync_run, missed>>
  BY <1>1, <1>3 DEF RunsInv, FailuresAreRecorded
<1>4. CASE UNCHANGED bookVars \/ NextDay \/ \E l \in Lines : SourceChanges(l)
  BY <1>3, <1>4 DEF bookVars, NextDay, SourceChanges
<1> DEFINE Running == {"fetch", "upsert", "snapshot", "finish"}
<1>5. ASSUME NEW s \in Syncers, ThreadSteps(s) PROVE RunsInv'
  <2>1. \A t \in Syncers \ {s} : syncer'[t] = syncer[t]
    BY <1>2, <1>5, OneThreadMoves
  <2>2. ASSUME NEW said, Logs(s, said), missed => missed',
               said = "running" /\ ~missed' => syncer'[s].at \in Running
        PROVE  RunsInv'
    <3>1. /\ sync_run' = [t \in Syncers |-> sync_run'[t]]
          /\ \A t \in Syncers : sync_run'[t] = IF t = s THEN said ELSE sync_run[t]
      BY <1>1, <2>2 DEF Logs, RunsInv
    <3>2. QED
      BY <1>1, <2>1, <2>2, <3>1 DEF RunsInv, FailuresAreRecorded
  <2>3. ASSUME UNCHANGED sync_run, missed => missed',
               syncer[s].at \in Running /\ ~missed' => syncer'[s].at \in Running
        PROVE  RunsInv'
    BY <1>1, <2>1, <2>3 DEF RunsInv, FailuresAreRecorded
  <2>4. CASE StartRun(s)
    BY <1>2, <2>2, <2>4, WhereItGoes DEF StartRun, Reads_only
  <2>5. CASE FetchPage(s)
    BY <1>2, <2>3, <2>5, WhereItGoes DEF FetchPage, Reads_only
  <2>6. CASE Upsert(s)
    BY <1>2, <2>3, <2>6, WhereItGoes DEF Upsert
  <2>7. CASE Snapshot(s)
    BY <1>2, <2>3, <2>7, WhereItGoes DEF Snapshot
  <2>8. CASE FinishRun(s)
    BY <2>2, <2>8 DEF FinishRun, Reads_only
  <2>9. CASE FetchFails(s)
    BY <2>2, <2>9 DEF FetchFails
  <2>10. CASE UpsertFails(s)
    <3>1. /\ Logs(s, Recorded) /\ (missed => missed')
          /\ Recorded = "running" => missed'
      BY <1>2, <2>10 DEF UpsertFails, Recorded, TablesTyped
    <3>2. QED
      BY <2>2, <3>1
  <2>11. CASE ReadCustomers(s) \/ WriteCustomers(s) \/ ReadHeaders(s) \/ ReadLines(s)
              \/ CommitRebuild(s)
    BY <2>3, <2>11 DEF ReadCustomers, WriteCustomers, ReadHeaders, ReadLines, CommitRebuild,
                       Reads_only, At_
  <2>12. CASE Cut(s)
    BY <2>3, <2>12 DEF Cut
  <2>13. QED
    BY <1>5, <2>4, <2>5, <2>6, <2>7, <2>8, <2>9, <2>10, <2>11, <2>12 DEF ThreadSteps, GoesOn
<1>6. QED
  BY <1>1, <1>4, <1>5 DEF BooksNext, ThreadSteps, GoesOn

\* _finish_run and _fail_run: a run that is over says so in tz_sync_runs, of any
\* report and whoever else runs, unless its thread died or the record was refused.
THEOREM FailuresAreAlwaysRecorded == BooksSpec => []FailuresAreRecorded
<1>1. RunsInv => FailuresAreRecorded
  BY DEF RunsInv
<1>2. QED
  BY <1>1, RowsAtFirst, RowsStay, RunsAtFirst, RunsStay, PTL DEF BooksSpec

-----------------------------------------------------------------------------
(* The book as it is remembered by day.                                    *)

\* A line that was once remembered has a row, and a later day that has any line
\* has it too, or it has been paid.
DaysInv ==
    /\ today \in 0..LastDay /\ snapshot \in [0..LastDay -> SUBSET Lines]
    /\ \A n \in 0..LastDay : n > today => snapshot[n] = {}
    /\ \A d \in 0..LastDay : \A l \in snapshot[d] : \E r \in cache : r.line = l
    /\ \A d, n \in 0..LastDay :
          d < n /\ snapshot[n] # {} => snapshot[d] \subseteq snapshot[n] \cup paid

LEMMA DaysAtFirst == BooksInit => DaysInv
<1>1. SUFFICES ASSUME BooksInit PROVE DaysInv
  OBVIOUS
<1>2. today = 0 /\ snapshot = [d \in 0..LastDay |-> {}]
  BY <1>1 DEF BooksInit
<1>3. QED
  BY <1>2, BooksAssumption DEF DaysInv

LEMMA SnapshotKeepsDays ==
    ASSUME RowsInv, DaysInv, NEW s \in Syncers, Snapshot(s)
    PROVE  DaysInv'
<1>1. UNCHANGED <<today, cache, paid>>
  BY DEF Snapshot
<1>2. CASE snapshot' = snapshot
  BY <1>1, <1>2 DEF DaysInv
<1>3. CASE snapshot' = [snapshot EXCEPT ![today] = @ \cup Open(cache)]
  <2>1. \A d \in 0..LastDay :
            snapshot'[d] = IF d = today THEN snapshot[d] \cup Open(cache) ELSE snapshot[d]
    BY <1>3 DEF DaysInv
  <2>0. /\ LastDay \in Nat /\ today \in 0..LastDay
        /\ \A n \in 0..LastDay : n > today => snapshot[n] = {}
        /\ \A n \in 0..LastDay : n > today => n # today
    BY BooksAssumption DEF DaysInv
  <2>2. \A l \in Open(cache) : l \in Lines /\ \E r \in cache : r.line = l
    BY DEF Open, RowsInv, TablesTyped, CacheRow
  <2>3. \A d \in 0..LastDay : snapshot[d] \subseteq Open(cache) \cup paid
    BY DEF DaysInv, Open, RowsInv, RowsAreOriginal, Original
  <2>4. snapshot' \in [0..LastDay -> SUBSET Lines]
    BY <1>3, <2>2 DEF DaysInv
  <2>5. \A d, n \in 0..LastDay :
            d < n /\ snapshot'[n] # {} => snapshot'[d] \subseteq snapshot'[n] \cup paid
    <3>1. SUFFICES ASSUME NEW d \in 0..LastDay, NEW n \in 0..LastDay, d < n, snapshot'[n] # {}
                   PROVE  snapshot'[d] \subseteq snapshot'[n] \cup paid
      OBVIOUS
    <3>2. ~(n > today)
      <4>1. ASSUME n > today PROVE FALSE
        <5>1. snapshot[n] = {} /\ n # today
          BY <2>0, <3>1, <4>1
        <5>2. QED
          BY <2>1, <3>1, <5>1
      <4>2. QED
        BY <4>1
    <3>3. snapshot'[d] = snapshot[d]
      BY <2>1, <3>1, <3>2 DEF DaysInv
    <3>4. CASE n = today
      BY <2>1, <2>3, <3>3, <3>4
    <3>5. CASE n # today
      BY <2>1, <3>1, <3>3, <3>5 DEF DaysInv
    <3>6. QED
      BY <3>4, <3>5
  <2>6. \A d \in 0..LastDay : \A l \in snapshot'[d] : \E r \in cache : r.line = l
    BY <2>1, <2>2 DEF DaysInv
  <2>7. \A n \in 0..LastDay : n > today => snapshot'[n] = {}
    <3>1. SUFFICES ASSUME NEW n \in 0..LastDay, n > today PROVE snapshot'[n] = {}
      OBVIOUS
    <3>2. snapshot[n] = {} /\ n # today
      BY <2>0, <3>1
    <3>3. QED
      BY <2>1, <3>2
  <2>8. QED
    BY <1>1, <2>4, <2>5, <2>6, <2>7 DEF DaysInv
<1>4. QED
  BY <1>2, <1>3 DEF Snapshot, Remembered

LEMMA UpsertKeepsDays ==
    ASSUME RowsInv, DaysInv, NEW s \in Syncers, Upsert(s)
    PROVE  DaysInv'
<1>1. /\ cache' = {q \in cache : \A n \in syncer[s].got : raw_id(n) # raw_id(q)} \cup syncer[s].got
      /\ UNCHANGED <<today, snapshot, paid>>
  BY UpsertedCache DEF Upsert
<1>2. \A r \in cache : \E q \in cache' : q.line = r.line
  BY <1>1, OneKeyOneLine DEF RowsInv, TablesTyped
<1>3. QED
  BY <1>1, <1>2 DEF DaysInv

LEMMA DaysStay == RowsInv /\ DaysInv /\ [BooksNext]_bookVars => DaysInv'
<1>1. SUFFICES ASSUME RowsInv, DaysInv, [BooksNext]_bookVars PROVE DaysInv'
  OBVIOUS
<1>2. CASE UNCHANGED <<today, snapshot, cache>> /\ paid \subseteq paid'
  BY <1>1, <1>2 DEF DaysInv
<1>3. CASE NextDay
  <2>1. /\ today' = today + 1 /\ today < LastDay /\ UNCHANGED <<snapshot, cache, paid>>
    BY <1>3 DEF NextDay
  <2>2. QED
    BY <1>1, <2>1, BooksAssumption DEF DaysInv
<1>4. CASE UNCHANGED bookVars \/ \E l \in Lines : SourceChanges(l)
  <2>1. CASE UNCHANGED bookVars
    BY <1>2, <2>1 DEF bookVars
  <2>2. CASE \E l \in Lines : SourceChanges(l)
    BY <1>2, <2>2 DEF SourceChanges
  <2>3. QED
    BY <1>4, <2>1, <2>2
<1>5. ASSUME NEW s \in Syncers, StartRun(s) \/ FetchPage(s) \/ GoesOn(s), ~Snapshot(s)
      PROVE  UNCHANGED <<today, snapshot, cache, paid>>
  BY <1>5 DEF GoesOn, StartRun, FetchPage, FinishRun, FetchFails, UpsertFails, ReadCustomers,
              WriteCustomers, ReadHeaders, ReadLines, CommitRebuild, Cut, Reads_only
<1>6. QED
  BY <1>1, <1>2, <1>3, <1>4, <1>5, SnapshotKeepsDays, UpsertKeepsDays DEF BooksNext, GoesOn

\* pulse.py, get_inferred_payments: what a comparison of two days calls a payment
\* was one, over any number of days, with chunks, failures and threads at will.
THEOREM InferredPaymentsAreAlwaysReal == BooksSpec => []InferredPaymentsAreReal
<1>1. DaysInv => InferredPaymentsAreReal
  BY DEF DaysInv, InferredPaymentsAreReal, Inferred
<1>2. QED
  BY <1>1, RowsAtFirst, RowsStay, DaysAtFirst, DaysStay, PTL DEF BooksSpec

-----------------------------------------------------------------------------
(* The canonical layer catches up with the cache.                          *)

Writers    == {"headers", "lines", "commit"}
Rebuilding == {"lock", "headers", "lines", "commit"}
ToCome     == {"snapshot", "finish", "customers"}

\* A rebuild that has written holds the customers' rows until it commits.
WritersHoldTheLock ==
    /\ canon_lock \in Syncers \cup {Unlocked}
    /\ \A s \in Syncers : syncer[s].at \in Writers => canon_lock = s

\* No canonical row, and no row about to be one, has a key the cache has not.
CanonIsFromTheCache ==
    /\ \A c \in canon : \E r \in cache : raw_id(r) = raw_id(c)
    /\ \A s \in Syncers : At_(s, "commit") =>
          \A c \in syncer[s].lines : \E r \in cache : raw_id(r) = raw_id(c)

CanonIsGood == IF report = "zoho_invoices" THEN Mapped(cache) \subseteq canon ELSE canon = cache

\* What the cache has since the last rebuild is still to be read by somebody, or
\* has been read and not yet written, or is there and nobody has older to write.
LinesCome ==
    \/ \E t \in Syncers : syncer[t].at \in ToCome \cup {"lock", "headers", "lines"}
    \/ \E t \in Syncers : syncer[t].at = "commit" /\ syncer[t].lines = Mapped(cache)
    \/ CanonIsGood /\ \A t \in Syncers : syncer[t].at # "commit"

HeadsCome ==
    \/ \E t \in Syncers : syncer[t].at \in ToCome \cup {"lock", "headers"}
    \/ \E t \in Syncers : syncer[t].at \in {"lines", "commit"} /\ syncer[t].heads = Headers(cache)
    \/ heads = Headers(cache) /\ \A t \in Syncers : syncer[t].at \notin {"lines", "commit"}

\* The customers are read before anything is held: this much only as long as no
\* two rebuilds have met.
OneIsOpen ==
    \A s, t \in Syncers : syncer[s].at \in Rebuilding /\ syncer[t].at \in Rebuilding => s = t

OwesCome ==
    \/ \E t \in Syncers : syncer[t].at \in ToCome
    \/ \E t \in Syncers : syncer[t].at \in Rebuilding /\ syncer[t].owes = Outstanding(cache)
    \/ owes = Outstanding(cache) /\ \A t \in Syncers : syncer[t].at \notin Rebuilding

CanonInv == /\ WritersHoldTheLock /\ CanonIsFromTheCache
            /\ ~missed => LinesCome /\ HeadsCome
            /\ ~missed /\ ~met => OneIsOpen /\ OwesCome

LEMMA SumsStay ==
    ASSUME report' = report, cache' = cache
    PROVE  /\ Headers(cache)' = Headers(cache) /\ Mapped(cache)' = Mapped(cache)
           /\ Outstanding(cache)' = Outstanding(cache)
BY DEF Headers, Number, Mapped, Outstanding

LEMMA SumsOfNone ==
    ASSUME cache = {}
    PROVE  Headers(cache) = NoHeads /\ Outstanding(cache) = 0
<1>1. {r \in cache : r.open} = {}
  OBVIOUS
<1>2. Outstanding(cache) = 0
  BY <1>1, WorthOfNone DEF Outstanding
<1>3. \A n : {r \in cache : Number(report, r.line) = n} = {}
  OBVIOUS
<1>4. \A n : Worth({r \in cache : Number(report, r.line) = n}) = 0
  BY <1>3, WorthOfNone, Zenon
<1>5. Headers(cache) = NoHeads
  BY <1>4 DEF Headers, NoHeads
<1>6. QED
  BY <1>2, <1>5

LEMMA CanonAtFirst == BooksInit => CanonInv
<1>1. SUFFICES ASSUME BooksInit PROVE CanonInv
  OBVIOUS
<1>2. /\ cache = {} /\ canon = {} /\ canon_lock = Unlocked
      /\ \A s \in Syncers : syncer[s].at = "idle"
      /\ heads = NoHeads /\ owes = 0
  BY <1>1, AtRestIs DEF BooksInit
<1>3. CanonIsGood
  BY <1>2 DEF CanonIsGood, Mapped
<1>4. LinesCome /\ HeadsCome /\ OwesCome
  BY <1>2, <1>3, SumsOfNone DEF LinesCome, HeadsCome, OwesCome, Rebuilding
<1>5. QED
  BY <1>2, <1>4 DEF CanonInv, WritersHoldTheLock, CanonIsFromTheCache, OneIsOpen, Writers, Rebuilding,
                    At_

LEMMA WhereItIs ==
    ASSUME NEW s
    PROVE  /\ StartRun(s) => syncer[s].at = "idle"
           /\ FetchPage(s) => syncer[s].at = "fetch"
           /\ Upsert(s) => syncer[s].at = "upsert"
           /\ Snapshot(s) => syncer[s].at = "snapshot"
           /\ FinishRun(s) => syncer[s].at = "finish"
           /\ FetchFails(s) => syncer[s].at = "fetch"
           /\ UpsertFails(s) => syncer[s].at = "upsert"
           /\ ReadCustomers(s) => syncer[s].at = "customers"
           /\ WriteCustomers(s) => syncer[s].at = "lock" /\ canon_lock = Unlocked
           /\ ReadHeaders(s) => syncer[s].at = "headers"
           /\ ReadLines(s) => syncer[s].at = "lines"
           /\ CommitRebuild(s) => syncer[s].at = "commit"
BY DEF StartRun, FetchPage, Upsert, Snapshot, FinishRun, FetchFails, UpsertFails, ReadCustomers,
       WriteCustomers, ReadHeaders, ReadLines, CommitRebuild, At_

LEMMA WhatItWrites ==
    ASSUME NEW s, ThreadSteps(s)
    PROVE  /\ Upsert(s) \/ cache' = cache
           /\ CommitRebuild(s) \/ UNCHANGED <<canon, heads, owes>>
           /\ ReadCustomers(s) \/ met' = met
           /\ WriteCustomers(s) \/ CommitRebuild(s) \/ Cut(s) \/ canon_lock' = canon_lock
           /\ missed => missed'
           /\ Cut(s) => missed'
<1> USE DEF Reads_only
<1>1. Upsert(s) \/ cache' = cache
  BY DEF ThreadSteps, GoesOn, StartRun, FetchPage, Snapshot, FinishRun, FetchFails,
         UpsertFails, ReadCustomers, WriteCustomers, ReadHeaders, ReadLines, CommitRebuild, Cut
<1>2. CommitRebuild(s) \/ UNCHANGED <<canon, heads, owes>>
  BY DEF ThreadSteps, GoesOn, StartRun, FetchPage, Upsert, Snapshot, FinishRun, FetchFails,
         UpsertFails, ReadCustomers, WriteCustomers, ReadHeaders, ReadLines, Cut
<1>3. ReadCustomers(s) \/ met' = met
  BY DEF ThreadSteps, GoesOn, StartRun, FetchPage, Upsert, Snapshot, FinishRun, FetchFails,
         UpsertFails, WriteCustomers, ReadHeaders, ReadLines, CommitRebuild, Cut
<1>4. WriteCustomers(s) \/ CommitRebuild(s) \/ Cut(s) \/ canon_lock' = canon_lock
  BY DEF ThreadSteps, GoesOn, StartRun, FetchPage, Upsert, Snapshot, FinishRun, FetchFails,
         UpsertFails, ReadCustomers, ReadHeaders, ReadLines
<1>5. Cut(s) => missed'
  BY DEF Cut
<1>6. UpsertFails(s) => (missed => missed')
  BY DEF UpsertFails
<1>7. Cut(s) \/ UpsertFails(s) \/ missed' = missed
  BY DEF ThreadSteps, GoesOn, StartRun, FetchPage, Upsert, Snapshot, FinishRun, FetchFails,
         ReadCustomers, WriteCustomers, ReadHeaders, ReadLines, CommitRebuild
<1>8. missed => missed'
  BY <1>5, <1>6, <1>7, Zenon
<1>9. QED
  BY <1>1, <1>2, <1>3, <1>4, <1>5, <1>8

LEMMA WritersKeepTheLock ==
    ASSUME TablesTyped, WritersHoldTheLock, NEW s \in Syncers, ThreadSteps(s)
    PROVE  WritersHoldTheLock'
<1>1. \A t \in Syncers \ {s} : syncer'[t] = syncer[t]
  BY OneThreadMoves
<1>2. CASE WriteCustomers(s)
  <2>1. canon_lock = Unlocked /\ canon_lock' = s
    BY <1>2 DEF WriteCustomers
  <2>2. \A t \in Syncers : syncer[t].at \notin Writers
    BY <2>1, BooksAssumption DEF WritersHoldTheLock
  <2>3. QED
    BY <1>1, <2>1, <2>2 DEF WritersHoldTheLock
<1>3. CASE CommitRebuild(s)
  <2>1. canon_lock = s /\ canon_lock' = Unlocked /\ syncer'[s].at = "idle"
    BY <1>3, WhereItIs, WhereItGoes DEF CommitRebuild, WritersHoldTheLock, Writers
  <2>2. QED
    BY <1>1, <2>1 DEF WritersHoldTheLock, Writers
<1>4. CASE Cut(s)
  <2>1. canon_lock' = (IF canon_lock = s THEN Unlocked ELSE canon_lock) /\ syncer'[s].at = "idle"
    BY <1>4, WhereItGoes DEF Cut
  <2>2. QED
    BY <1>1, <2>1 DEF WritersHoldTheLock, Writers
<1>5. CASE ReadHeaders(s) \/ ReadLines(s)
  <2>1. canon_lock' = canon_lock /\ syncer[s].at \in Writers
    BY <1>5, WhereItIs DEF ReadHeaders, ReadLines, Reads_only, Writers
  <2>2. QED
    BY <1>1, <2>1 DEF WritersHoldTheLock
<1>6. CASE StartRun(s) \/ FetchPage(s) \/ Upsert(s) \/ Snapshot(s) \/ FinishRun(s)
           \/ FetchFails(s) \/ UpsertFails(s) \/ ReadCustomers(s)
  <2>1. syncer'[s].at \notin Writers
    BY <1>6, WhereItGoes DEF Writers
  <2>2. canon_lock' = canon_lock
    BY <1>6 DEF StartRun, FetchPage, Upsert, Snapshot, FinishRun, FetchFails, UpsertFails,
                ReadCustomers, Reads_only
  <2>3. QED
    BY <1>1, <2>1, <2>2 DEF WritersHoldTheLock
<1>7. QED
  BY <1>2, <1>3, <1>4, <1>5, <1>6 DEF ThreadSteps, GoesOn

LEMMA KeysStayInTheCache ==
    ASSUME NEW s, ThreadSteps(s)
    PROVE  \A r \in cache : \E q \in cache' : raw_id(q) = raw_id(r)
<1>1. CASE Upsert(s)
  <2>1. cache' = {q \in cache : \A n \in syncer[s].got : raw_id(n) # raw_id(q)} \cup syncer[s].got
    BY <1>1, UpsertedCache DEF Upsert
  <2>2. QED
    BY <2>1
<1>2. QED
  BY <1>1, WhatItWrites

LEMMA WhatIsCommitted ==
    ASSUME TablesTyped, NEW s, CommitRebuild(s)
    PROVE  /\ owes' = syncer[s].owes /\ heads' = syncer[s].heads
           /\ canon' = {c \in canon : \A n \in syncer[s].lines : raw_id(n) # raw_id(c)}
                         \cup syncer[s].lines
<1>1. canon' = {c \in canon : \A n \in syncer[s].lines : source_ref(n) # source_ref(c)}
                 \cup syncer[s].lines
  BY DEF CommitRebuild, Upserted
<1>2. \A r : source_ref(r) = raw_id(r)
  BY SameKeyInCanon DEF TablesTyped
<1> HIDE DEF source_ref, raw_id
<1>3. QED
  BY <1>1, <1>2 DEF CommitRebuild

LEMMA CanonStaysFromTheCache ==
    ASSUME TablesTyped, CanonIsFromTheCache, NEW s \in Syncers, ThreadSteps(s)
    PROVE  CanonIsFromTheCache'
<1>1. \A t \in Syncers \ {s} : syncer'[t] = syncer[t]
  BY OneThreadMoves
<1>2. report' = report
  BY OneThreadMoves
<1>3. \A c \in canon' : \E r \in cache' : raw_id(r) = raw_id(c)
  <2>1. CASE CommitRebuild(s)
    <3>1. /\ cache' = cache
          /\ canon' \subseteq canon \cup syncer[s].lines
      BY <2>1, WhatIsCommitted DEF CommitRebuild
    <3>2. At_(s, "commit")
      BY <2>1 DEF CommitRebuild
    <3>3. QED
      BY <3>1, <3>2 DEF CanonIsFromTheCache
  <2>2. CASE ~CommitRebuild(s)
    <3>1. canon' = canon
      BY <2>2, WhatItWrites
    <3>2. QED
      BY <3>1, KeysStayInTheCache DEF CanonIsFromTheCache
  <2>3. QED
    BY <2>1, <2>2
<1>4. ASSUME NEW t \in Syncers, syncer'[t].at = "commit"
      PROVE  \A c \in syncer'[t].lines : \E r \in cache' : raw_id(r) = raw_id(c)
  <2>1. CASE t # s
    BY <1>1, <1>4, <2>1, KeysStayInTheCache DEF CanonIsFromTheCache, At_
  <2>2. CASE t = s
    <3>1. ReadLines(s)
      BY <1>4, <2>2, WhereItGoes DEF ThreadSteps, GoesOn
    <3>2. syncer'[s].lines = Mapped(cache) /\ cache' = cache
      BY <3>1, WhereItGoes DEF ReadLines, Reads_only
    <3>3. QED
      BY <2>2, <3>2 DEF Mapped
  <2>3. QED
    BY <2>1, <2>2
<1>5. QED
  <2>1. \A r : raw_id(r)' = raw_id(r)
    BY <1>2, KeyStays
  <2> HIDE DEF raw_id
  <2>2. QED
    BY <1>3, <1>4, <2>1 DEF CanonIsFromTheCache, At_

\* A run before it has stored anything, or that ends there, touches nothing of it.
Early == {"idle", "fetch", "upsert"}
StaysEarly(s) == StartRun(s) \/ FetchPage(s) \/ FetchFails(s) \/ UpsertFails(s)

LEMMA EarlyStepsAre ==
    ASSUME TablesTyped, NEW s \in Syncers, StaysEarly(s)
    PROVE  /\ syncer[s].at \in Early /\ syncer'[s].at \in Early
           /\ \A t \in Syncers \ {s} : syncer'[t] = syncer[t]
           /\ UNCHANGED <<report, cache, canon, heads, owes, met>>
<1>1. syncer[s].at \in Early
  BY WhereItIs DEF StaysEarly, Early
<1>2. syncer'[s].at \in Early
  BY WhereItGoes DEF StaysEarly, Early
<1>3. \A t \in Syncers \ {s} : syncer'[t] = syncer[t]
  BY OneThreadMoves DEF StaysEarly, ThreadSteps, GoesOn
<1>4. UNCHANGED <<report, cache, canon, heads, owes, met>>
  BY DEF StaysEarly, StartRun, FetchPage, FetchFails, UpsertFails, Reads_only
<1>5. QED
  BY <1>1, <1>2, <1>3, <1>4

LEMMA LinesStillCome ==
    ASSUME TablesTyped, WritersHoldTheLock, CanonIsFromTheCache, LinesCome,
           NEW s \in Syncers, ThreadSteps(s), ~Cut(s)
    PROVE  LinesCome'
<1>1. report' = report /\ \A t \in Syncers \ {s} : syncer'[t] = syncer[t]
  BY OneThreadMoves
<1>2. CASE Upsert(s) \/ Snapshot(s) \/ FinishRun(s) \/ ReadCustomers(s) \/ WriteCustomers(s)
           \/ ReadHeaders(s)
  <2>1. syncer'[s].at \in ToCome \cup {"lock", "headers", "lines"}
    BY <1>2, WhereItGoes DEF ToCome
  <2>2. QED
    BY <2>1 DEF LinesCome
<1>3. CASE StaysEarly(s)
  <2>1. Mapped(cache)' = Mapped(cache) /\ (CanonIsGood <=> CanonIsGood')
    BY <1>3, EarlyStepsAre, SumsStay DEF CanonIsGood
  <2>2. QED
    BY <1>3, <2>1, EarlyStepsAre DEF LinesCome, Early, ToCome
<1>4. CASE ReadLines(s)
  <2>1. syncer'[s].at = "commit" /\ syncer'[s].lines = Mapped(cache) /\ cache' = cache
    BY <1>4, WhereItGoes DEF ReadLines, Reads_only
  <2>2. QED
    BY <1>1, <2>1, SumsStay DEF LinesCome
<1>5. CASE CommitRebuild(s)
  <2>1. /\ cache' = cache /\ syncer[s].at = "commit" /\ syncer'[s].at = "idle"
        /\ Mapped(cache)' = Mapped(cache)
    BY <1>1, <1>5, WhereItIs, WhereItGoes, SumsStay DEF CommitRebuild
  <2>2. \A t \in Syncers \ {s} : syncer[t].at # "commit"
    BY <2>1, BooksAssumption DEF WritersHoldTheLock, Writers
  <2>3. CASE \E t \in Syncers : syncer[t].at \in ToCome \cup {"lock", "headers", "lines"}
    BY <1>1, <2>1, <2>3 DEF LinesCome, ToCome
  <2>4. CASE syncer[s].lines = Mapped(cache)
    <3>1. canon' = {c \in canon : \A n \in Mapped(cache) : raw_id(n) # raw_id(c)} \cup Mapped(cache)
      BY <1>5, <2>4, WhatIsCommitted
    <3>2. report # "zoho_invoices" => Mapped(cache) = cache
      BY DEF Mapped
    <3>3. CanonIsGood'
      BY <1>1, <2>1, <3>1, <3>2 DEF CanonIsGood, CanonIsFromTheCache
    <3>4. QED
      BY <1>1, <2>1, <2>2, <3>3 DEF LinesCome
  <2>5. QED
    BY <2>1, <2>2, <2>3, <2>4 DEF LinesCome
<1>6. QED
  BY <1>2, <1>3, <1>4, <1>5 DEF ThreadSteps, GoesOn, StaysEarly

LEMMA HeadsStillCome ==
    ASSUME TablesTyped, WritersHoldTheLock, HeadsCome, NEW s \in Syncers, ThreadSteps(s), ~Cut(s)
    PROVE  HeadsCome'
<1>1. report' = report /\ \A t \in Syncers \ {s} : syncer'[t] = syncer[t]
  BY OneThreadMoves
<1>2. CASE Upsert(s) \/ Snapshot(s) \/ FinishRun(s) \/ ReadCustomers(s) \/ WriteCustomers(s)
  <2>1. syncer'[s].at \in ToCome \cup {"lock", "headers"}
    BY <1>2, WhereItGoes DEF ToCome
  <2>2. QED
    BY <2>1 DEF HeadsCome
<1>3. CASE StaysEarly(s)
  <2>1. Headers(cache)' = Headers(cache)
    BY <1>3, EarlyStepsAre, SumsStay
  <2>2. QED
    BY <1>3, <2>1, EarlyStepsAre DEF HeadsCome, Early, ToCome
<1>4. CASE ReadHeaders(s)
  <2>1. syncer'[s].at = "lines" /\ syncer'[s].heads = Headers(cache) /\ cache' = cache
    BY <1>4, WhereItGoes DEF ReadHeaders, Reads_only
  <2>2. QED
    BY <1>1, <2>1, SumsStay DEF HeadsCome
<1>5. CASE ReadLines(s)
  <2>1. /\ syncer[s].at = "lines" /\ syncer'[s].at = "commit"
        /\ syncer'[s].heads = syncer[s].heads
    BY <1>5, WhereItIs, WhereItGoes
  <2>2. Headers(cache)' = Headers(cache)
    BY <1>1, <1>5, SumsStay DEF ReadLines, Reads_only
  <2>3. CASE \E t \in Syncers : syncer[t].at \in ToCome \cup {"lock", "headers"}
    BY <1>1, <2>1, <2>3 DEF HeadsCome, ToCome
  <2>4. CASE \E t \in Syncers : /\ syncer[t].at \in {"lines", "commit"}
                                /\ syncer[t].heads = Headers(cache)
    BY <1>1, <2>1, <2>2, <2>4 DEF HeadsCome
  <2>5. QED
    BY <2>1, <2>3, <2>4 DEF HeadsCome
<1>6. CASE CommitRebuild(s)
  <2>1. /\ syncer[s].at = "commit" /\ syncer'[s].at = "idle" /\ heads' = syncer[s].heads
        /\ Headers(cache)' = Headers(cache)
    BY <1>1, <1>6, WhereItIs, WhereItGoes, SumsStay DEF CommitRebuild
  <2>2. \A t \in Syncers \ {s} : syncer[t].at \notin {"lines", "commit"}
    BY <2>1, BooksAssumption DEF WritersHoldTheLock, Writers
  <2>3. CASE \E t \in Syncers : syncer[t].at \in ToCome \cup {"lock", "headers"}
    BY <1>1, <2>1, <2>3 DEF HeadsCome, ToCome
  <2>4. CASE syncer[s].heads = Headers(cache)
    BY <1>1, <2>1, <2>2, <2>4 DEF HeadsCome
  <2>5. QED
    BY <2>1, <2>2, <2>3, <2>4 DEF HeadsCome
<1>7. QED
  BY <1>2, <1>3, <1>4, <1>5, <1>6 DEF ThreadSteps, GoesOn, StaysEarly

LEMMA OneStaysOpen ==
    ASSUME TablesTyped, OneIsOpen, NEW s \in Syncers, ThreadSteps(s), ~met'
    PROVE  OneIsOpen'
<1>1. \A t \in Syncers \ {s} : syncer'[t] = syncer[t]
  BY OneThreadMoves
<1>2. CASE ReadCustomers(s)
  <2>1. \A t \in Syncers \ {s} : syncer[t].at \notin Rebuilding
    BY <1>2 DEF ReadCustomers, Rebuilding
  <2>2. QED
    BY <1>1, <2>1 DEF OneIsOpen
<1>3. CASE WriteCustomers(s) \/ ReadHeaders(s) \/ ReadLines(s)
  <2>1. syncer[s].at \in Rebuilding
    BY <1>3, WhereItIs DEF Rebuilding
  <2>2. QED
    BY <1>1, <2>1 DEF OneIsOpen
<1>4. CASE \/ StartRun(s) \/ FetchPage(s) \/ Upsert(s) \/ Snapshot(s) \/ FinishRun(s)
           \/ FetchFails(s) \/ UpsertFails(s) \/ CommitRebuild(s) \/ Cut(s)
  <2>1. syncer'[s].at \notin Rebuilding
    BY <1>4, WhereItGoes DEF Rebuilding
  <2>2. QED
    BY <1>1, <2>1 DEF OneIsOpen
<1>5. QED
  BY <1>2, <1>3, <1>4 DEF ThreadSteps, GoesOn

LEMMA OwesStillCome ==
    ASSUME TablesTyped, OneIsOpen, OwesCome, NEW s \in Syncers, ThreadSteps(s), ~Cut(s)
    PROVE  OwesCome'
<1>1. report' = report /\ \A t \in Syncers \ {s} : syncer'[t] = syncer[t]
  BY OneThreadMoves
<1>2. CASE Upsert(s) \/ Snapshot(s) \/ FinishRun(s)
  <2>1. syncer'[s].at \in ToCome
    BY <1>2, WhereItGoes DEF ToCome
  <2>2. QED
    BY <2>1 DEF OwesCome
<1>3. CASE StaysEarly(s)
  <2>1. Outstanding(cache)' = Outstanding(cache)
    BY <1>3, EarlyStepsAre, SumsStay
  <2>2. QED
    BY <1>3, <2>1, EarlyStepsAre DEF OwesCome, Early, ToCome, Rebuilding
<1>4. CASE ReadCustomers(s)
  <2>1. syncer'[s].at = "lock" /\ syncer'[s].owes = Outstanding(cache) /\ cache' = cache
    BY <1>4, WhereItGoes DEF ReadCustomers
  <2>2. QED
    BY <1>1, <2>1, SumsStay DEF OwesCome, Rebuilding
<1>5. CASE WriteCustomers(s) \/ ReadHeaders(s) \/ ReadLines(s)
  <2>1. /\ syncer[s].at \in Rebuilding /\ syncer'[s].at \in Rebuilding
        /\ syncer'[s].owes = syncer[s].owes
    BY <1>5, WhereItIs, WhereItGoes DEF Rebuilding
  <2>2. Outstanding(cache)' = Outstanding(cache)
    BY <1>1, <1>5, SumsStay DEF WriteCustomers, ReadHeaders, ReadLines, Reads_only
  <2>3. CASE \E t \in Syncers : syncer[t].at \in ToCome
    BY <1>1, <2>1, <2>3 DEF OwesCome, ToCome, Rebuilding
  <2>4. CASE \E t \in Syncers : syncer[t].at \in Rebuilding /\ syncer[t].owes = Outstanding(cache)
    BY <1>1, <2>1, <2>2, <2>4 DEF OwesCome
  <2>5. QED
    BY <2>1, <2>3, <2>4 DEF OwesCome
<1>6. CASE CommitRebuild(s)
  <2>1. /\ syncer[s].at = "commit" /\ syncer'[s].at = "idle" /\ owes' = syncer[s].owes
        /\ Outstanding(cache)' = Outstanding(cache)
    BY <1>1, <1>6, WhereItIs, WhereItGoes, SumsStay DEF CommitRebuild
  <2>2. \A t \in Syncers \ {s} : syncer[t].at \notin Rebuilding
    BY <2>1 DEF OneIsOpen, Rebuilding
  <2>3. CASE \E t \in Syncers : syncer[t].at \in ToCome
    BY <1>1, <2>1, <2>3 DEF OwesCome, ToCome
  <2>4. CASE syncer[s].owes = Outstanding(cache)
    BY <1>1, <2>1, <2>2, <2>4 DEF OwesCome, Rebuilding
  <2>5. QED
    BY <2>1, <2>2, <2>3, <2>4 DEF OwesCome, Rebuilding
<1>7. QED
  BY <1>2, <1>3, <1>4, <1>5, <1>6 DEF ThreadSteps, GoesOn, StaysEarly

LEMMA CanonStays == RowsInv /\ CanonInv /\ [BooksNext]_bookVars => CanonInv'
<1>1. SUFFICES ASSUME RowsInv, CanonInv, [BooksNext]_bookVars PROVE CanonInv'
  OBVIOUS
<1>2. TablesTyped
  BY <1>1 DEF RowsInv
<1>3. CASE UNCHANGED <<report, cache, canon, heads, owes, canon_lock, syncer, missed, met>>
  <2>1. \A r : raw_id(r)' = raw_id(r)
    BY <1>3, KeyStays
  <2>2. Headers(cache)' = Headers(cache) /\ Mapped(cache)' = Mapped(cache)
        /\ Outstanding(cache)' = Outstanding(cache)
    BY <1>3, SumsStay
  <2>3. WritersHoldTheLock' /\ (OneIsOpen <=> OneIsOpen')
    BY <1>1, <1>3 DEF CanonInv, WritersHoldTheLock, OneIsOpen
  <2>4. CanonIsFromTheCache'
    BY <1>1, <1>3, <2>1 DEF CanonInv, CanonIsFromTheCache, At_
  <2>5. (LinesCome <=> LinesCome') /\ (HeadsCome <=> HeadsCome') /\ (OwesCome <=> OwesCome')
    BY <1>3, <2>2 DEF LinesCome, HeadsCome, OwesCome, CanonIsGood
  <2>6. missed' = missed /\ met' = met
    BY <1>3
  <2>7. QED
    BY <1>1, <2>3, <2>4, <2>5, <2>6, Zenon DEF CanonInv
<1>4. CASE UNCHANGED bookVars \/ NextDay \/ \E l \in Lines : SourceChanges(l)
  <2>1. CASE UNCHANGED bookVars
    BY <1>3, <2>1 DEF bookVars
  <2>2. CASE NextDay
    BY <1>3, <2>2 DEF NextDay
  <2>3. CASE \E l \in Lines : SourceChanges(l)
    BY <1>3, <2>3 DEF SourceChanges
  <2>4. QED
    BY <1>4, <2>1, <2>2, <2>3
<1>5. ASSUME NEW s \in Syncers, ThreadSteps(s) PROVE CanonInv'
  <2>1. WritersHoldTheLock' /\ CanonIsFromTheCache'
    BY <1>1, <1>2, <1>5, WritersKeepTheLock, CanonStaysFromTheCache DEF CanonInv
  <2>2. ~missed' => ~missed /\ ~Cut(s)
    BY <1>5, WhatItWrites, Zenon
  <2>3. ASSUME ~missed' PROVE LinesCome' /\ HeadsCome'
    BY <1>1, <1>2, <1>5, <2>2, <2>3, LinesStillCome, HeadsStillCome DEF CanonInv
  <2>4. ASSUME ~missed', ~met' PROVE OneIsOpen' /\ OwesCome'
    <3>1. ReadCustomers(s) => ~met
      BY <2>4 DEF ReadCustomers
    <3>2. ~met
      BY <1>5, <2>4, <3>1, WhatItWrites, Zenon
    <3>3. QED
      BY <1>1, <1>2, <1>5, <2>2, <2>4, <3>2, OneStaysOpen, OwesStillCome DEF CanonInv
  <2>5. QED
    BY <2>1, <2>3, <2>4, Zenon DEF CanonInv
<1>6. QED
  BY <1>1, <1>4, <1>5 DEF BooksNext, ThreadSteps, GoesOn

\* tranzact_canonical.py: one transaction, safe and idempotent.  Once every
\* thread has rebuilt what it stored, the canonical layer says what the cache says,
\* for any report and however many syncs and rebuilds were interleaved.
THEOREM CanonAlwaysCatchesUp == BooksSpec => []CanonCatchesUp
<1>1. CanonInv => CanonCatchesUp
  <2>1. SUFFICES ASSUME CanonInv, \A s \in Syncers : syncer[s].at = "idle", ~missed
                 PROVE  CanonCatchesUp
    BY DEF CanonCatchesUp, Settled, At_
  <2>2. CanonIsGood /\ heads = Headers(cache)
    BY <2>1 DEF CanonInv, LinesCome, HeadsCome, ToCome
  <2>3. ~met => owes = Outstanding(cache)
    BY <2>1 DEF CanonInv, OwesCome, ToCome, Rebuilding
  <2>4. QED
    BY <2>2, <2>3 DEF CanonCatchesUp, CanonIsGood
<1>2. QED
  BY <1>1, RowsAtFirst, RowsStay, CanonAtFirst, CanonStays, PTL DEF BooksSpec
=============================================================================
