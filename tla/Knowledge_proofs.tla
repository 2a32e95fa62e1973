-------------------------- MODULE Knowledge_proofs --------------------------
(***************************************************************************)
(* Where SplitDocument's loop cuts a text, for every text and chunk size,  *)
(* the types and the chunks of Knowledge, and what lone and overlapping    *)
(* Adds of a document leave in the indexes.                                *)
(***************************************************************************)
EXTENDS Knowledge, FiniteSetTheorems, WellFoundedInduction, TLAPS

(* A set of numbers with an upper bound has a greatest one. *)
LEMMA GreatestNumber ==
    ASSUME NEW b \in Nat, NEW T, T \subseteq 0..b, T # {}
    PROVE  \E x \in T : \A y \in T : y <= x
<1> DEFINE S == {b - x : x \in T}
           R == OpToRel(<, Nat)
<1>1. S \subseteq Nat /\ S # {}
  <2>1. \A x \in T : x \in 0..b
    OBVIOUS
  <2>2. \A x \in 0..b : b - x \in Nat
    OBVIOUS
  <2>3. QED
    BY <2>1, <2>2, Zenon
<1>2. \E x \in S : \A y \in S : <<y, x>> \notin R
  BY <1>1, NatLessThanWellFounded, WFMin, Zenon
<1>3. \A x, y \in Nat : y < x => <<y, x>> \in R
  BY DEF OpToRel
<1> HIDE DEF R
<1>4. PICK n \in S : \A m \in S : ~(m < n)
  BY <1>1, <1>2, <1>3
<1>5. PICK x \in T : n = b - x
  BY <1>4
<1>6. \A y \in T : y <= x
  <2> TAKE y \in T
  <2>1. b - y \in S /\ y \in Nat /\ x \in Nat
    OBVIOUS
  <2> HIDE DEF S
  <2>2. ~(b - y < b - x)
    BY <1>4, <1>5, <2>1
  <2>3. QED
    BY <2>1, <2>2
<1>7. QED
  BY <1>6

(* A boundary is found in the part of the window that is searched. *)
LEMMA BoundaryInWindow ==
    ASSUME NEW text, NEW start \in Nat, NEW end \in Nat
    PROVE  \/ FindBoundary(text, start, end) = end
           \/ FindBoundary(text, start, end) \in (start + end \div 4 + 1)..end
<1> DEFINE found == {i \in (start + end \div 4 + 1)..end : Boundary(text, i)}
<1>1. CASE found = {}
  BY <1>1 DEF FindBoundary
<1>2. CASE found # {}
  <2>1. found \subseteq 0..end
    BY DEF found
  <2>2. \E i \in found : \A j \in found : j <= i
    <3> HIDE DEF found
    <3>1. QED
      BY <1>2, <2>1, GreatestNumber
  <2>3. FindBoundary(text, start, end) = CHOOSE i \in found : \A j \in found : j <= i
    BY <1>2 DEF FindBoundary
  <2> HIDE DEF found
  <2>4. FindBoundary(text, start, end) \in found
    BY <2>2, <2>3
  <2>5. QED
    BY <2>4 DEF found
<1>3. QED
  BY <1>1, <1>2

(* A chunk ends behind its start, in the text, and is not longer than max. *)
LEMMA ChunkEnds ==
    ASSUME NEW text \in Seq(Runes), NEW max \in Nat \ {0},
           NEW start \in Nat, start < Len(text)
    PROVE  /\ EndOf(text, start, max) \in (start + 1)..Len(text)
           /\ EndOf(text, start, max) <= start + max
           /\ EndOf(text, start, max) < Len(text) =>
                 \/ EndOf(text, start, max) = start + max
                 \/ EndOf(text, start, max) > start + (start + max) \div 4
<1> DEFINE length == Len(text)
           end == IF start + max > length THEN length ELSE start + max
           boundary == FindBoundary(text, start, end)
<1>1. length \in Nat /\ start < length
  OBVIOUS
<1>2. EndOf(text, start, max) = IF end < length /\ boundary > start THEN boundary ELSE end
  BY DEF EndOf
<1> HIDE DEF length, boundary
<1>3. /\ end \in (start + 1)..length /\ end <= start + max
      /\ end < length => end = start + max
  BY <1>1
<1>4. boundary = end \/ boundary \in (start + end \div 4 + 1)..end
  BY <1>3, BoundaryInWindow DEF boundary
<1> HIDE DEF end
<1>5. QED
  BY <1>1, <1>2, <1>3, <1>4 DEF length

(* Where a chunk ends before its text does, the next one starts further on in *)
(* the text, as long as the overlap is at most a quarter of the chunk size:   *)
(* SplitDocument makes progress and stays in the text.                        *)
THEOREM SplitMakesProgress ==
    ASSUME NEW text \in Seq(Runes), NEW max \in Nat \ {0},
           NEW overlap \in Nat, 4 * overlap <= max,
           NEW start \in Nat, start < Len(text),
           EndOf(text, start, max) < Len(text)
    PROVE  NextStart(EndOf(text, start, max), overlap) \in (start + 1)..(Len(text) - 1)
<1> DEFINE end == EndOf(text, start, max)
           length == Len(text)
<1>1. /\ length \in Nat /\ end \in (start + 1)..length /\ end < length
      /\ end = start + max \/ end > start + (start + max) \div 4
  <2>1. /\ end \in (start + 1)..length
        /\ end < length => end = start + max \/ end > start + (start + max) \div 4
    BY ChunkEnds
  <2>2. length \in Nat /\ end < length
    OBVIOUS
  <2>3. QED
    BY <2>1, <2>2
<1> HIDE DEF end, length
<1>2. end - overlap > start
  <2>1. \A a, o \in Nat : 4 * o <= a => o <= a \div 4
    OBVIOUS
  <2>2. start + max \in Nat /\ 4 * overlap <= start + max
    OBVIOUS
  <2>3. overlap <= (start + max) \div 4 /\ (start + max) \div 4 \in Nat
    BY <2>1, <2>2
  <2>4. overlap < max
    OBVIOUS
  <2> DEFINE q == (start + max) \div 4
  <2> HIDE DEF q
  <2>5. q \in Nat /\ overlap <= q /\ (end = start + max \/ end > start + q)
    BY <1>1, <2>3 DEF q
  <2>6. QED
    BY <1>1, <2>4, <2>5
<1>3. QED
  BY <1>1, <1>2 DEF NextStart, end, length

-----------------------------------------------------------------------------
(* SplitDocument's loop *)

(* What the loop has done when it is about to start a chunk at start. *)
SoFar(text, start, ordinal, chunks) ==
    /\ \A c \in chunks : /\ 1 <= c.from /\ c.from <= c.to /\ c.to <= start
                         /\ c.to - c.from < MaxCharacters
                         /\ c.ordinal < ordinal
    /\ \A i \in 1..start : text[i] # "space" => \E c \in chunks : Holds(c, i)
    /\ \A c, d \in chunks, i \in Nat : Holds(c, i) /\ Holds(d, i) => c = d
    /\ \A c, d \in chunks : c.ordinal = d.ordinal => c = d

(* The chunks after one more iteration. *)
Grown(text, start, ordinal, chunks) ==
    LET end == EndOf(text, start, MaxCharacters)
    IN  IF Blank(text, start, end) THEN chunks
        ELSE chunks \cup {[ordinal |-> ordinal, from |-> start + 1, to |-> end]}

LEMMA SplitOnce ==
    ASSUME NEW text \in Seq(Runes), NEW start \in Nat, start < Len(text),
           NEW ordinal \in Nat, NEW chunks \in SUBSET Chunk,
           SoFar(text, start, ordinal, chunks)
    PROVE  /\ EndOf(text, start, MaxCharacters) \in (start + 1)..Len(text)
           /\ Grown(text, start, ordinal, chunks) \in SUBSET Chunk
           /\ SoFar(text, EndOf(text, start, MaxCharacters), ordinal + 1,
                    Grown(text, start, ordinal, chunks))
<1> DEFINE end == EndOf(text, start, MaxCharacters)
           more == Grown(text, start, ordinal, chunks)
           new == [ordinal |-> ordinal, from |-> start + 1, to |-> end]
<1>1. end \in (start + 1)..Len(text) /\ end <= start + MaxCharacters
  BY KnowledgeAssumption, ChunkEnds
<1>2. end \in Nat /\ Len(text) \in Nat
  BY <1>1
<1>3. /\ new \in Chunk /\ new.ordinal = ordinal /\ new.from = start + 1 /\ new.to = end
  BY <1>2 DEF Chunk
<1>4. \A c \in chunks : c.ordinal \in Nat /\ c.from \in Nat /\ c.to \in Nat
  BY DEF Chunk
<1>5. more = IF Blank(text, start, end) THEN chunks ELSE chunks \cup {new}
  BY DEF Grown
<1> HIDE DEF new, more, end
<1>6. more \in SUBSET Chunk
  BY <1>3, <1>5
<1>7. \A c \in more : c \in chunks \/ c = new
  BY <1>5
<1>8. ASSUME NEW c \in more
      PROVE  /\ 1 <= c.from /\ c.from <= c.to /\ c.to <= end
             /\ c.to - c.from < MaxCharacters
             /\ c.ordinal < ordinal + 1
  <2>1. CASE c \in chunks
    BY <1>1, <1>2, <1>4, <2>1, KnowledgeAssumption DEF SoFar
  <2>2. CASE c = new
    BY <1>1, <1>2, <1>3, <2>2, KnowledgeAssumption
  <2>3. QED
    BY <1>7, <2>1, <2>2
<1>9. ASSUME NEW i \in 1..end, text[i] # "space"
      PROVE  \E c \in more : Holds(c, i)
  <2>1. CASE i <= start
    <3>1. PICK c \in chunks : Holds(c, i)
      BY <1>9, <2>1 DEF SoFar
    <3>2. QED
      BY <1>5, <3>1
  <2>2. CASE start < i
    <3>1. i \in (start + 1)..end
      BY <2>2
    <3>2. ~Blank(text, start, end)
      BY <1>9, <3>1 DEF Blank
    <3>3. new \in more
      BY <1>5, <3>2
    <3>4. Holds(new, i)
      BY <1>3, <3>1 DEF Holds
    <3>5. QED
      BY <3>3, <3>4
  <2>3. QED
    BY <1>2, <2>1, <2>2
<1>10. ASSUME NEW c \in chunks, NEW i \in Nat
       PROVE  /\ ~(Holds(c, i) /\ Holds(new, i))
              /\ c.ordinal # new.ordinal
  BY <1>3, <1>4 DEF Holds, SoFar
<1>11. \A c, d \in more, i \in Nat : Holds(c, i) /\ Holds(d, i) => c = d
  BY <1>7, <1>10 DEF SoFar
<1>12. \A c, d \in more : c.ordinal = d.ordinal => c = d
  BY <1>7, <1>10 DEF SoFar
<1>13. SoFar(text, end, ordinal + 1, more)
  BY <1>8, <1>9, <1>11, <1>12 DEF SoFar
<1>14. QED
  BY <1>1, <1>6, <1>13 DEF end, more

-----------------------------------------------------------------------------
(* The invariant *)

(* What is known of a job apart from its type. *)
Local(x) ==
    /\ x.pc = "split" => /\ x.start <= Len(x.text)
                         /\ x.text # <<>> => x.start < Len(x.text)
                         /\ SoFar(x.text, x.start, x.ordinal, x.chunks)
    /\ x.pc \in {"upsert", "list"} => Covered(x)

JobsFine == job \in [Jobs -> JobState] /\ \A j \in Jobs : Local(job[j])

Fine(index) == index \subseteq Entry /\ OnePerKey(index)
IndexesFine == Fine(vector) /\ Fine(disk) /\ Fine(lexical)

Era == [added : SUBSET SUBSET Entry, failed : BOOLEAN, overlapped : BOOLEAN]

IndInv ==
    /\ persistent \in BOOLEAN
    /\ IndexesFine
    /\ records \in [Ids -> Statuses]
    /\ clock \in Ids
    /\ versions \in [Docs -> Seq(Texts)]
    /\ JobsFine
    /\ restarts \in 0..MaxRestarts
    /\ era \in [Docs -> Era]

LEMMA Implied == IndInv => TypeOK /\ ChunksCover
<1> SUFFICES ASSUME IndInv PROVE TypeOK /\ ChunksCover
  OBVIOUS
<1>1. \A j \in Jobs : At(j, "split") /\ job[j].text # <<>> => job[j].start < Len(job[j].text)
  BY DEF IndInv, JobsFine, Local, At
<1>2. TypeOK
  BY <1>1 DEF IndInv, IndexesFine, Fine, JobsFine, Era, TypeOK
<1>3. ChunksCover
  BY DEF IndInv, JobsFine, Local, ChunksCover
<1>4. QED
  BY <1>2, <1>3

LEMMA IdsAreNumbers == Ids \subseteq Nat /\ 0 \in Ids
<1>1. Cardinality(Jobs) \in Nat
  BY KnowledgeAssumption, FS_CardinalityType
<1>2. QED
  BY <1>1 DEF Ids

(* One job moves on to a state that is fine. *)
LEMMA OneJob ==
    ASSUME JobsFine, NEW j \in Jobs, NEW x \in JobState, Local(x), Becomes(j, x)
    PROVE  JobsFine'
BY DEF JobsFine, Becomes

LEMMA Nonstarting ==
    ASSUME NEW x, x.pc \notin {"split", "upsert", "list"}
    PROVE  Local(x)
BY DEF Local

LEMMA JobFacts ==
    ASSUME JobsFine, NEW j \in Jobs
    PROVE  /\ job[j] \in JobState /\ Local(job[j])
           /\ job[j].doc \in Docs /\ job[j].text \in Seq(Runes) /\ job[j].id \in Nat
           /\ job[j].start \in Nat /\ job[j].ordinal \in Nat
           /\ job[j].chunks \in SUBSET Chunk
           /\ job[j].direct \in BOOLEAN
BY DEF JobsFine, JobState

LEMMA GoesOn ==
    ASSUME JobsFine, NEW j \in Jobs,
           NEW p \in Points \ {"split", "upsert", "list"}, Goes(j, p)
    PROVE  JobsFine'
<1> DEFINE x == [job[j] EXCEPT !.pc = p]
<1>1. x \in JobState /\ x.pc = p
  BY JobFacts DEF JobState
<1>2. Becomes(j, x)
  BY DEF Goes
<1> HIDE DEF x
<1>3. QED
  BY <1>1, <1>2, Nonstarting, OneJob

LEMMA ReturnsFine ==
    ASSUME JobsFine, NEW j \in Jobs, NEW outcome \in Statuses, Returns(j, outcome)
    PROVE  JobsFine'
<1> DEFINE p == IF job[j].direct THEN "ended" ELSE "report"
           x == [job[j] EXCEPT !.pc = p, !.outcome = outcome]
<1>1. p \in Points \ {"split", "upsert", "list"}
  BY DEF Points
<1>2. Becomes(j, x)
  BY DEF Returns
<1> HIDE DEF p
<1>3. x \in JobState /\ x.pc = p
  BY <1>1, JobFacts DEF JobState
<1> HIDE DEF x
<1>4. QED
  BY <1>1, <1>2, <1>3, Nonstarting, OneJob

(* The indexes' operations. *)
LEMMA PutFine ==
    ASSUME NEW index, Fine(index), NEW entries, Fine(entries)
    PROVE  Fine(Put(index, entries))
BY DEF Fine, Put, OnePerKey, SameKey

LEMMA WithoutFine ==
    ASSUME NEW index, Fine(index), NEW d
    PROVE  Fine(Without(index, d))
BY DEF Fine, Without, Of, OnePerKey

LEMMA EntriesFine ==
    ASSUME JobsFine, NEW j \in Jobs, Covered(job[j])
    PROVE  Fine(Entries(j))
<1>1. \A e \in Entries(j) : \E c \in job[j].chunks :
          e = [doc |-> job[j].doc, text |-> job[j].text, chunk |-> c]
  BY DEF Entries
<1>2. Entries(j) \subseteq Entry
  BY <1>1, JobFacts DEF Entry
<1>3. OnePerKey(Entries(j))
  <2> SUFFICES ASSUME NEW e \in Entries(j), NEW f \in Entries(j), SameKey(e, f)
               PROVE  e = f
    BY DEF OnePerKey
  <2>1. PICK c \in job[j].chunks :
            e = [doc |-> job[j].doc, text |-> job[j].text, chunk |-> c]
    BY <1>1
  <2>2. PICK d \in job[j].chunks :
            f = [doc |-> job[j].doc, text |-> job[j].text, chunk |-> d]
    BY <1>1
  <2>3. c.ordinal = d.ordinal
    BY <2>1, <2>2 DEF SameKey
  <2>4. c = d
    BY <2>3 DEF Covered
  <2>5. QED
    BY <2>1, <2>2, <2>4
<1>4. QED
  BY <1>2, <1>3 DEF Fine

LEMMA StoredFine ==
    ASSUME IndexesFine, NEW v, Fine(v), Stored(v) \/ StoreFails(v), UNCHANGED lexical
    PROVE  IndexesFine'
BY DEF IndexesFine, Stored, StoreFails

LEMMA EraFacts ==
    ASSUME era \in [Docs -> Era], NEW j, job[j].doc \in Docs, NEW b \in BOOLEAN
    PROVE  EraOf(j, b) \in Era
<1> DEFINE e == era[job[j].doc]
<1>1. e \in Era
  OBVIOUS
<1>2. [Fresh EXCEPT !.failed = b] \in Era
  BY DEF Fresh, Era
<1>3. [e EXCEPT !.overlapped = TRUE, !.failed = e.failed \/ b] \in Era
  <2>1. \A f \in BOOLEAN : [e EXCEPT !.overlapped = TRUE, !.failed = f] \in Era
    BY <1>1 DEF Era
  <2>2. (e.failed \/ b) \in BOOLEAN
    OBVIOUS
  <2>3. QED
    BY <2>1, <2>2
<1>4. QED
  BY <1>2, <1>3 DEF EraOf

(* Failing, and what an ending Add does to its era. *)
LEMMA EraUpdates ==
    ASSUME era \in [Docs -> Era], NEW d \in Docs
    PROVE  /\ [era EXCEPT ![d].failed = TRUE] \in [Docs -> Era]
           /\ \A entries \in SUBSET Entry :
                 [era EXCEPT ![d].added = @ \cup {entries}] \in [Docs -> Era]
<1>1. era[d] \in Era
  OBVIOUS
<1>2. [era[d] EXCEPT !.failed = TRUE] \in Era
  BY <1>1 DEF Era
<1>3. \A entries \in SUBSET Entry :
         [era[d] EXCEPT !.added = era[d].added \cup {entries}] \in Era
  BY <1>1 DEF Era
<1>4. QED
  BY <1>2, <1>3

-----------------------------------------------------------------------------
(* Every step keeps the invariant *)

LEMMA InitHolds == Init => IndInv
<1> SUFFICES ASSUME Init PROVE IndInv
  OBVIOUS
<1>1. IndexesFine
  BY DEF Init, IndexesFine, Fine, OnePerKey
<1>2. JobsFine
  <2>1. ASSUME NEW j \in Jobs
        PROVE  job[j] \in JobState /\ job[j].pc = "idle"
    <3>1. PICK d \in Docs : job[j] =
             [pc |-> "idle", id |-> 0, doc |-> d, text |-> <<>>, start |-> 0,
              ordinal |-> 0, chunks |-> {}, direct |-> FALSE, outcome |-> "none"]
      BY DEF Init
    <3>2. <<>> \in Seq(Runes) /\ "idle" \in Points /\ "none" \in Statuses
      BY DEF Points, Statuses
    <3>3. QED
      BY <3>1, <3>2 DEF JobState
  <2>2. job \in [Jobs -> JobState]
    BY <2>1 DEF Init
  <2>3. QED
    BY <2>1, <2>2, Nonstarting DEF JobsFine
<1>3. era \in [Docs -> Era]
  BY DEF Init, Fresh, Era
<1>4. QED
  BY <1>1, <1>2, <1>3, IdsAreNumbers, KnowledgeAssumption DEF Init, IndInv, Statuses

LEMMA SubmitHolds == ASSUME IndInv, NEW j \in Jobs, Submit(j) PROVE IndInv'
<1>1. PICK now \in Ids :
          /\ clock' = now /\ records' = [records EXCEPT ![now] = "queued"]
          /\ Becomes(j, [job[j] EXCEPT !.pc = "queued", !.id = now])
  BY DEF Submit
<1> DEFINE x == [job[j] EXCEPT !.pc = "queued", !.id = now]
<1>2. x \in JobState /\ x.pc = "queued"
  BY IdsAreNumbers, JobFacts DEF IndInv, JobState, Points
<1> HIDE DEF x
<1>3. JobsFine'
  BY <1>1, <1>2, Nonstarting, OneJob DEF IndInv, x
<1>4. QED
  BY <1>1, <1>3 DEF Submit, indexes, IndInv, IndexesFine, Statuses

LEMMA RunHolds == ASSUME IndInv, NEW j \in Jobs, Run(j) PROVE IndInv'
<1>1. JobsFine'
  BY GoesOn DEF Run, Goes, IndInv, Points
<1>2. QED
  BY <1>1 DEF Run, indexes, IndInv, IndexesFine, Statuses

LEMMA LoadHolds == ASSUME IndInv, NEW j \in Jobs, Load(j) PROVE IndInv'
<1>1. PICK t \in Texts :
          /\ \/ versions' = versions
             \/ versions' = [versions EXCEPT ![job[j].doc] = Append(versions[job[j].doc], t)]
          /\ Becomes(j, [job[j] EXCEPT !.pc = "remove", !.text = t])
  BY DEF Load
<1> DEFINE x == [job[j] EXCEPT !.pc = "remove", !.text = t]
<1>2. t \in Seq(Runes)
  BY KnowledgeAssumption
<1>3. x \in JobState /\ x.pc = "remove"
  BY <1>2, JobFacts DEF IndInv, JobState, Points
<1> HIDE DEF x
<1>4. JobsFine'
  BY <1>1, <1>3, Nonstarting, OneJob DEF IndInv, x
<1>5. versions' \in [Docs -> Seq(Texts)]
  <2>1. job[j].doc \in Docs
    BY JobFacts DEF IndInv
  <2>2. \A q \in Seq(Texts) : Append(q, t) \in Seq(Texts)
    OBVIOUS
  <2>3. versions \in [Docs -> Seq(Texts)]
    BY DEF IndInv
  <2>4. Append(versions[job[j].doc], t) \in Seq(Texts)
    BY <2>1, <2>2, <2>3
  <2>5. QED
    BY <1>1, <2>1, <2>3, <2>4
<1>6. QED
  BY <1>4, <1>5 DEF Load, indexes, IndInv, IndexesFine

LEMMA LoadFailsHolds == ASSUME IndInv, NEW j \in Jobs, LoadFails(j) PROVE IndInv'
<1> DEFINE x == [job[j] EXCEPT !.pc = "report", !.outcome = "failed"]
<1>1. x \in JobState /\ x.pc = "report"
  BY JobFacts DEF IndInv, JobState, Points, Statuses
<1>2. Becomes(j, x)
  BY DEF LoadFails
<1> HIDE DEF x
<1>3. JobsFine'
  BY <1>1, <1>2, Nonstarting, OneJob DEF IndInv
<1>4. QED
  BY <1>3 DEF LoadFails, indexes, importer, IndInv, IndexesFine

LEMMA ReportHolds == ASSUME IndInv, NEW j \in Jobs, Report(j) PROVE IndInv'
<1>1. JobsFine'
  BY GoesOn DEF Report, IndInv, Points
<1>2. job[j].outcome \in Statuses
  BY DEF IndInv, JobsFine, JobState
<1>3. QED
  BY <1>1, <1>2 DEF Report, indexes, IndInv, IndexesFine

LEMMA CallHolds == ASSUME IndInv, NEW j \in Jobs, Call(j) PROVE IndInv'
<1>1. PICK t \in Texts :
          Becomes(j, [job[j] EXCEPT !.pc = "remove", !.text = t, !.direct = TRUE])
  BY DEF Call
<1> DEFINE x == [job[j] EXCEPT !.pc = "remove", !.text = t, !.direct = TRUE]
<1>2. t \in Seq(Runes)
  BY KnowledgeAssumption
<1>3. x \in JobState /\ x.pc = "remove"
  BY <1>2, JobFacts DEF IndInv, JobState, Points
<1> HIDE DEF x
<1>4. JobsFine'
  BY <1>1, <1>3, Nonstarting, OneJob DEF IndInv, x
<1>5. QED
  BY <1>4 DEF Call, indexes, importer, IndInv, IndexesFine

(* A job that fails. *)
LEMMA FailsFine ==
    ASSUME IndInv, NEW j \in Jobs, Fails(j)
    PROVE  JobsFine' /\ era' \in [Docs -> Era]
<1>1. JobsFine'
  BY ReturnsFine DEF Fails, IndInv, Statuses
<1>2. era' \in [Docs -> Era]
  BY EraUpdates, JobFacts DEF Fails, IndInv
<1>3. QED
  BY <1>1, <1>2

LEMMA RemoveHolds ==
    ASSUME IndInv, NEW j \in Jobs,
           RemoveVectors(j) \/ RemoveVectorsFails(j) \/ RemoveLexical(j)
    PROVE  IndInv'
<1>1. \A index : Fine(index) => Fine(Without(index, job[j].doc))
  BY WithoutFine
<1>2. job[j].doc \in Docs /\ JobsFine /\ IndexesFine
  BY JobFacts DEF IndInv
<1>3. CASE RemoveVectors(j)
  <2>1. IndexesFine'
    BY <1>1, <1>2, <1>3, StoredFine DEF RemoveVectors, IndexesFine
  <2>2. JobsFine'
    BY <1>2, <1>3, GoesOn DEF RemoveVectors, Points
  <2>3. era' \in [Docs -> Era]
    BY <1>2, <1>3, EraFacts DEF RemoveVectors, IndInv
  <2>4. QED
    BY <1>3, <2>1, <2>2, <2>3 DEF RemoveVectors, importer, IndInv
<1>4. CASE RemoveVectorsFails(j)
  <2>1. IndexesFine'
    BY <1>1, <1>2, <1>4, StoredFine DEF RemoveVectorsFails, IndexesFine
  <2>2. JobsFine'
    BY <1>2, <1>4, ReturnsFine DEF RemoveVectorsFails, Statuses
  <2>3. era' \in [Docs -> Era]
    BY <1>2, <1>4, EraFacts DEF RemoveVectorsFails, IndInv
  <2>4. QED
    BY <1>4, <2>1, <2>2, <2>3 DEF RemoveVectorsFails, importer, IndInv
<1>5. CASE RemoveLexical(j)
  <2> DEFINE x == [job[j] EXCEPT !.pc = "split", !.start = 0, !.ordinal = 0, !.chunks = {}]
  <2>1. IndexesFine'
    BY <1>1, <1>2, <1>5 DEF RemoveLexical, IndexesFine
  <2>2. /\ x \in JobState /\ x.pc = "split" /\ x.start = 0 /\ x.ordinal = 0
        /\ x.chunks = {} /\ x.text = job[j].text
    BY <1>2, JobFacts DEF JobState, Points
  <2>3. Becomes(j, x)
    BY <1>5 DEF RemoveLexical
  <2> HIDE DEF x
  <2>4. Local(x)
    <3>1. x.text \in Seq(Runes)
      BY <2>2 DEF JobState
    <3>2. 0 <= Len(x.text) /\ (x.text # <<>> => 0 < Len(x.text))
      BY <3>1
    <3>3. SoFar(x.text, 0, 0, {})
      BY DEF SoFar
    <3>4. QED
      BY <2>2, <3>2, <3>3 DEF Local
  <2>5. JobsFine'
    BY <1>2, <2>2, <2>3, <2>4, OneJob
  <2>6. QED
    BY <1>5, <2>1, <2>5 DEF RemoveLexical, importer, IndInv
<1>6. QED
  BY <1>3, <1>4, <1>5

LEMMA SplitHolds ==
    ASSUME IndInv, NEW j \in Jobs, Split(j) \/ SplitRefused(j)
    PROVE  IndInv'
<1>1. CASE SplitRefused(j)
  <2>1. JobsFine' /\ era' \in [Docs -> Era]
    BY <1>1, FailsFine DEF SplitRefused
  <2>2. QED
    BY <1>1, <2>1 DEF SplitRefused, indexes, importer, IndInv, IndexesFine
<1>2. CASE Split(j)
  <2> DEFINE text == job[j].text
             start == job[j].start
             ordinal == job[j].ordinal
             end == EndOf(text, start, MaxCharacters)
             chunk == [ordinal |-> ordinal, from |-> start + 1, to |-> end]
             more == IF Blank(text, start, end) THEN job[j].chunks
                     ELSE job[j].chunks \cup {chunk}
             last == [job[j] EXCEPT !.pc = "upsert", !.chunks = more]
             next == [job[j] EXCEPT !.chunks = more, !.start = NextStart(end, 0),
                                    !.ordinal = ordinal + 1]
  <2>1. /\ job[j].pc = "split"
        /\ \/ end = Len(text) /\ Becomes(j, last)
           \/ end # Len(text) /\ Becomes(j, next)
        /\ UNCHANGED <<persistent, indexes, importer, restarts, era>>
    BY <1>2 DEF Split, At
  <2>2. /\ job[j] \in JobState /\ text \in Seq(Runes) /\ start \in Nat
        /\ ordinal \in Nat /\ job[j].chunks \in SUBSET Chunk
    BY JobFacts DEF IndInv
  <2>3. start < Len(text) /\ SoFar(text, start, ordinal, job[j].chunks)
    BY <1>2, <2>1, JobFacts DEF IndInv, Local, Split
  <2>4. /\ end \in (start + 1)..Len(text)
        /\ more \in SUBSET Chunk
        /\ SoFar(text, end, ordinal + 1, more)
    <3>1. more = Grown(text, start, ordinal, job[j].chunks)
      BY DEF Grown
    <3> HIDE DEF text, start, ordinal, more, chunk, last, next, IndInv
    <3>2. QED
      BY <2>2, <2>3, <3>1, SplitOnce
  <2>5. NextStart(end, 0) = end /\ end \in Nat /\ Len(text) \in Nat
    <3> HIDE DEF text, start, end
    <3>1. Len(text) \in Nat
      BY <2>2
    <3>2. end \in Nat
      BY <2>2, <2>4, <3>1
    <3>3. QED
      BY <3>1, <3>2 DEF NextStart
  <2>6. ordinal + 1 \in Nat
    BY <2>2
  <2> HIDE DEF end, more, chunk, IndInv
  <2>7. /\ last \in JobState /\ last.pc = "upsert" /\ last.text = text
        /\ last.chunks = more
    BY <2>2, <2>4 DEF JobState, Points
  <2>8. /\ next \in JobState /\ next.pc = "split" /\ next.text = text
        /\ next.chunks = more /\ next.start = end /\ next.ordinal = ordinal + 1
    BY <2>1, <2>2, <2>4, <2>5, <2>6 DEF JobState
  <2> HIDE DEF last, next, text, start, ordinal
  <2>9. ASSUME end = Len(text), Becomes(j, last) PROVE JobsFine'
    <3>1. Covered(last)
      BY <2>4, <2>5, <2>7, <2>9 DEF SoFar, Covered
    <3>2. Local(last)
      BY <2>7, <3>1 DEF Local
    <3>3. QED
      BY <2>7, <2>9, <3>2, OneJob DEF IndInv
  <2>10. ASSUME end # Len(text), Becomes(j, next) PROVE JobsFine'
    <3>1. end < Len(text)
      BY <2>4, <2>10
    <3>2. Local(next)
      BY <2>4, <2>8, <3>1 DEF Local
    <3>3. QED
      BY <2>8, <2>10, <3>2, OneJob DEF IndInv
  <2>11. JobsFine'
    BY <2>1, <2>9, <2>10
  <2>12. QED
    BY <2>1, <2>11 DEF indexes, importer, IndInv, IndexesFine
<1>3. QED
  BY <1>1, <1>2

LEMMA UpsertHolds ==
    ASSUME IndInv, NEW j \in Jobs,
           EmbedFails(j) \/ Upsert(j) \/ UpsertFails(j) \/ UpsertRefused(j)
    PROVE  IndInv'
<1>1. At(j, "upsert") /\ JobsFine /\ IndexesFine
  BY DEF EmbedFails, Upsert, UpsertFails, UpsertRefused, IndInv
<1>2. Covered(job[j])
  BY <1>1 DEF JobsFine, Local, At
<1>3. Fine(Entries(j))
  BY <1>1, <1>2, EntriesFine
<1>4. \A part \in SUBSET Entries(j) : Fine(part)
  BY <1>3 DEF Fine, OnePerKey
<1>5. \A part \in SUBSET Entries(j) : Fine(Put(vector, part))
  BY <1>1, <1>4, PutFine DEF IndexesFine
<1>6. CASE EmbedFails(j)
  <2>1. JobsFine' /\ era' \in [Docs -> Era]
    BY <1>6, FailsFine DEF EmbedFails
  <2>2. QED
    BY <1>6, <2>1 DEF EmbedFails, indexes, importer, IndInv, IndexesFine
<1>7. CASE Upsert(j)
  <2> DEFINE x == [job[j] EXCEPT !.pc = "list"]
  <2>1. IndexesFine'
    BY <1>1, <1>5, <1>7, StoredFine DEF Upsert
  <2>2. /\ x \in JobState /\ x.pc = "list" /\ x.text = job[j].text
        /\ x.chunks = job[j].chunks
    BY <1>1, JobFacts DEF JobState, Points
  <2>3. Becomes(j, x)
    BY <1>7 DEF Upsert, Goes
  <2> HIDE DEF x
  <2>4. Local(x)
    BY <1>2, <2>2 DEF Local, Covered
  <2>5. JobsFine'
    BY <1>1, <2>2, <2>3, <2>4, OneJob
  <2>6. QED
    BY <1>7, <2>1, <2>5 DEF Upsert, importer, IndInv
<1>8. CASE UpsertFails(j)
  <2>1. IndexesFine'
    BY <1>1, <1>5, <1>8, StoredFine DEF UpsertFails
  <2>2. JobsFine' /\ era' \in [Docs -> Era]
    BY <1>8, FailsFine DEF UpsertFails
  <2>3. QED
    BY <1>8, <2>1, <2>2 DEF UpsertFails, importer, IndInv
<1>9. CASE UpsertRefused(j)
  <2>1. \/ vector' = vector
        \/ \E part \in SUBSET Entries(j) : vector' = Put(vector, part)
    BY <1>9 DEF UpsertRefused
  <2>2. IndexesFine'
    BY <1>1, <1>5, <1>9, <2>1 DEF UpsertRefused, IndexesFine
  <2>3. JobsFine' /\ era' \in [Docs -> Era]
    BY <1>9, FailsFine DEF UpsertRefused
  <2>4. QED
    BY <1>9, <2>2, <2>3 DEF UpsertRefused, importer, IndInv
<1>10. QED
  BY <1>6, <1>7, <1>8, <1>9

LEMMA AddLexicalHolds == ASSUME IndInv, NEW j \in Jobs, AddLexical(j) PROVE IndInv'
<1>1. JobsFine /\ IndexesFine /\ Covered(job[j])
  BY DEF AddLexical, IndInv, JobsFine, Local, At
<1>2. Fine(Entries(j))
  BY <1>1, EntriesFine
<1>3. IndexesFine'
  BY <1>1, <1>2, PutFine DEF AddLexical, IndexesFine
<1>4. JobsFine'
  BY <1>1, ReturnsFine DEF AddLexical, Statuses
<1>5. era' \in [Docs -> Era]
  <2>1. Entries(j) \in SUBSET Entry /\ job[j].doc \in Docs
    BY <1>1, <1>2, JobFacts DEF Fine
  <2>2. QED
    BY <2>1, EraUpdates DEF AddLexical, IndInv
<1>6. QED
  BY <1>3, <1>4, <1>5 DEF AddLexical, importer, IndInv

LEMMA ContextEndsHolds == ASSUME IndInv, NEW j \in Jobs, ContextEnds(j) PROVE IndInv'
<1>1. JobsFine' /\ era' \in [Docs -> Era]
  <2>1. CASE Returns(j, "failed") /\ UNCHANGED era
    BY <2>1, ReturnsFine DEF IndInv, Statuses
  <2>2. CASE Fails(j)
    BY <2>2, FailsFine
  <2>3. QED
    BY <2>1, <2>2 DEF ContextEnds
<1>2. QED
  BY <1>1 DEF ContextEnds, indexes, importer, IndInv, IndexesFine

LEMMA RestartHolds == ASSUME IndInv, Restart PROVE IndInv'
<1>1. IndexesFine'
  BY DEF Restart, IndInv, IndexesFine
<1>2. JobsFine'
  <2>1. ASSUME NEW j \in Jobs
        PROVE  job'[j] \in JobState /\ Local(job'[j])
    <3>1. job[j] \in JobState /\ Local(job[j])
      BY JobFacts DEF IndInv
    <3>2. CASE job[j].pc \in {"idle", "ended"}
      BY <3>1, <3>2 DEF Restart
    <3>3. CASE job[j].pc \notin {"idle", "ended"}
      <4> DEFINE x == [job[j] EXCEPT !.pc = "lost"]
      <4>1. x \in JobState /\ x.pc = "lost"
        BY <3>1 DEF JobState, Points
      <4>2. job'[j] = x
        BY <3>3 DEF Restart
      <4> HIDE DEF x
      <4>3. QED
        BY <4>1, <4>2, Nonstarting
    <3>4. QED
      BY <3>2, <3>3
  <2>2. DOMAIN job' = Jobs /\ job' = [j \in Jobs |-> job'[j]]
    BY DEF Restart
  <2>3. QED
    BY <2>1, <2>2 DEF JobsFine
<1>3. era' \in [Docs -> Era]
  <2>1. Fresh \in Era
    BY DEF Fresh, Era
  <2>2. ASSUME NEW d \in Docs
        PROVE  [era[d] EXCEPT !.failed = era[d].failed \/ Adding(d) # {}] \in Era
    <3>1. \A f \in BOOLEAN : [era[d] EXCEPT !.failed = f] \in Era
      BY DEF IndInv, Era
    <3>2. (era[d].failed \/ Adding(d) # {}) \in BOOLEAN
      OBVIOUS
    <3>3. QED
      BY <3>1, <3>2
  <2>3. QED
    BY <2>1, <2>2 DEF Restart
<1>4. records' \in [Ids -> Statuses] /\ versions' \in [Docs -> Seq(Texts)]
  BY DEF Restart, Statuses
<1>5. restarts' \in 0..MaxRestarts
  BY KnowledgeAssumption DEF Restart, IndInv
<1>6. QED
  BY <1>1, <1>2, <1>3, <1>4, <1>5 DEF Restart, IndInv

LEMMA NextHolds == IndInv /\ [Next]_vars => IndInv'
<1> SUFFICES ASSUME IndInv, [Next]_vars PROVE IndInv'
  OBVIOUS
<1>1. ASSUME NEW j \in Jobs, Add(j) PROVE IndInv'
  BY <1>1, RemoveHolds, SplitHolds, UpsertHolds, AddLexicalHolds DEF Add
<1>2. ASSUME NEW j \in Jobs, Works(j) PROVE IndInv'
  BY <1>1, <1>2, RunHolds, LoadHolds, LoadFailsHolds, ReportHolds DEF Works
<1>3. ASSUME NEW j \in Jobs, Submit(j) \/ Call(j) \/ ContextEnds(j) PROVE IndInv'
  BY <1>3, SubmitHolds, CallHolds, ContextEndsHolds
<1>4. CASE UNCHANGED vars
  BY <1>4 DEF vars, indexes, importer, IndInv, IndexesFine, Fine, JobsFine
<1>5. QED
  BY <1>2, <1>3, <1>4, RestartHolds DEF Next

LEMMA Inductive == Spec => []IndInv
BY InitHolds, NextHolds, PTL DEF Spec

-----------------------------------------------------------------------------
(* The variables of an index and its imports keep their types, and an index   *)
(* never holds two entries under one key.                                    *)
THEOREM TypeCorrect == Spec => []TypeOK
BY Inductive, Implied, PTL

(* Whatever the text, the chunk size and the interleaving with other imports, *)
(* what an Add stores covers its document: every rune that is not white space *)
(* is in exactly one chunk, under an ordinal of its own (SplitDocument).      *)
THEOREM ChunksAlwaysCover == Spec => []ChunksCover
BY Inductive, Implied, PTL

-----------------------------------------------------------------------------
(* What a lone Add leaves behind *)

AddingPoints == {"unlist", "split", "upsert", "list"}

(* A document whose era is neither overlapped nor failed: at most one job is  *)
(* at work on it, and how far that job is tells what the indexes hold.        *)
EraInv(d) ==
    ~era[d].failed /\ ~era[d].overlapped =>
        /\ persistent => Of(disk, d) = Of(vector, d)
        /\ \A i, j \in Adding(d) : i = j
        /\ \A j \in Adding(d) :
              /\ era[d].added = {}
              /\ job[j].pc # "list" => Of(vector, d) = {}
              /\ job[j].pc # "unlist" => Of(lexical, d) = {}
              /\ job[j].pc = "list" => Of(vector, d) = Entries(j)
        /\ Adding(d) = {} => \A entries \in era[d].added :
                                Of(vector, d) = entries /\ Of(lexical, d) = entries

WholeInv == IndInv /\ \A d \in Docs : EraInv(d)

LEMMA WholeImplies == WholeInv => CurrentIndexed
BY DEF WholeInv, EraInv, CurrentIndexed, Settled

(* A step leaves what an index holds of d, and the file as good as it was.    *)
Kept(d) ==
    /\ Of(vector', d) = Of(vector, d)
    /\ Of(lexical', d) = Of(lexical, d)
    /\ persistent /\ Of(disk, d) = Of(vector, d) => Of(disk', d) = Of(vector', d)
    /\ era'[d] = era[d]

LEMMA OfPut ==
    ASSUME NEW index, NEW j, NEW part \in SUBSET Entries(j), NEW d
    PROVE  /\ d # job[j].doc => Of(Put(index, part), d) = Of(index, d)
           /\ d = job[j].doc /\ Of(index, d) = {} => Of(Put(index, part), d) = part
<1>1. \A e \in part : e.doc = job[j].doc
  BY DEF Entries
<1>2. QED
  BY <1>1 DEF Of, Put, SameKey

LEMMA OfWithout ==
    ASSUME NEW index, NEW c, NEW d
    PROVE  /\ d # c => Of(Without(index, c), d) = Of(index, d)
           /\ Of(Without(index, d), d) = {}
BY DEF Of, Without

(* One job moves to a point p and stays with its document. *)
Moves(j, p) ==
    /\ job'[j].pc = p /\ job'[j].doc = job[j].doc
    /\ \A k \in Jobs : k # j => job'[k] = job[k]

LEMMA Moving ==
    ASSUME JobsFine, NEW j \in Jobs
    PROVE  /\ \A p : Goes(j, p) => /\ Moves(j, p)
                                   /\ job'[j].text = job[j].text
                                   /\ job'[j].chunks = job[j].chunks
           /\ \A outcome : Returns(j, outcome) =>
                 Moves(j, IF job[j].direct THEN "ended" ELSE "report")
           /\ \A p, t : Becomes(j, [job[j] EXCEPT !.pc = p, !.text = t]) => Moves(j, p)
           /\ \A p, n : Becomes(j, [job[j] EXCEPT !.pc = p, !.id = n]) => Moves(j, p)
           /\ \A p, c : Becomes(j, [job[j] EXCEPT !.pc = p, !.chunks = c]) => Moves(j, p)
<1>1. job \in [Jobs -> JobState] /\ job[j] \in JobState
  BY DEF JobsFine
<1>2. ASSUME NEW x, Becomes(j, x), x.doc = job[j].doc
      PROVE  job'[j] = x /\ Moves(j, x.pc)
  BY <1>1, <1>2 DEF Becomes, Moves
<1>3. ASSUME NEW p, Goes(j, p)
      PROVE  Moves(j, p) /\ job'[j].text = job[j].text /\ job'[j].chunks = job[j].chunks
  <2> DEFINE x == [job[j] EXCEPT !.pc = p]
  <2>1. /\ x.pc = p /\ x.doc = job[j].doc
        /\ x.text = job[j].text /\ x.chunks = job[j].chunks
    BY <1>1 DEF JobState
  <2>2. Becomes(j, x)
    BY <1>3 DEF Goes
  <2> HIDE DEF x
  <2>3. job'[j] = x /\ Moves(j, x.pc)
    BY <1>2, <2>1, <2>2
  <2>4. QED
    BY <2>1, <2>3
<1>4. ASSUME NEW outcome, Returns(j, outcome)
      PROVE  Moves(j, IF job[j].direct THEN "ended" ELSE "report")
  <2> DEFINE p == IF job[j].direct THEN "ended" ELSE "report"
             x == [job[j] EXCEPT !.pc = p, !.outcome = outcome]
  <2>1. Becomes(j, x)
    BY <1>4 DEF Returns
  <2> HIDE DEF p
  <2>2. x.pc = p /\ x.doc = job[j].doc
    BY <1>1 DEF JobState
  <2> HIDE DEF x
  <2>3. Moves(j, p)
    BY <1>2, <2>1, <2>2
  <2>4. QED
    BY <2>3 DEF p
<1>5. ASSUME NEW p, NEW x, Becomes(j, x), x.pc = p, x.doc = job[j].doc
      PROVE  Moves(j, p)
  BY <1>2, <1>5
<1>6. \A p, t : Becomes(j, [job[j] EXCEPT !.pc = p, !.text = t]) => Moves(j, p)
  <2>1. \A p, t : LET x == [job[j] EXCEPT !.pc = p, !.text = t]
                  IN  x.pc = p /\ x.doc = job[j].doc
    BY <1>1 DEF JobState
  <2>2. QED
    BY <1>5, <2>1
<1>7. \A p, n : Becomes(j, [job[j] EXCEPT !.pc = p, !.id = n]) => Moves(j, p)
  <2>1. \A p, n : LET x == [job[j] EXCEPT !.pc = p, !.id = n]
                  IN  x.pc = p /\ x.doc = job[j].doc
    BY <1>1 DEF JobState
  <2>2. QED
    BY <1>5, <2>1
<1>8. \A p, c : Becomes(j, [job[j] EXCEPT !.pc = p, !.chunks = c]) => Moves(j, p)
  <2>1. \A p, c : LET x == [job[j] EXCEPT !.pc = p, !.chunks = c]
                  IN  x.pc = p /\ x.doc = job[j].doc
    BY <1>1 DEF JobState
  <2>2. QED
    BY <1>5, <2>1
<1>9. QED
  BY <1>3, <1>4, <1>6, <1>7, <1>8

(* Which jobs are at work on a document after one of them has moved. *)
LEMMA AddingMoves ==
    ASSUME NEW j \in Jobs, NEW p, Moves(j, p), NEW d
    PROVE  /\ d # job[j].doc => Adding(d)' = Adding(d) /\ j \notin Adding(d)
           /\ d = job[j].doc /\ p \in AddingPoints => Adding(d)' = Adding(d) \cup {j}
           /\ d = job[j].doc /\ p \notin AddingPoints => Adding(d)' = Adding(d) \ {j}
           /\ d = job[j].doc => (j \in Adding(d) <=> job[j].pc \in AddingPoints)
BY DEF Moves, Adding, AddingPoints

(* A step of a job on another document, or before or after its work. *)
LEMMA Elsewhere ==
    ASSUME NEW j \in Jobs, NEW p, Moves(j, p), NEW d \in Docs,
           \/ d # job[j].doc
           \/ p \notin AddingPoints /\ job[j].pc \notin AddingPoints,
           Kept(d), persistent' = persistent, EraInv(d)
    PROVE  EraInv(d)'
<1>1. Adding(d)' = Adding(d) /\ j \notin Adding(d)
  <2>1. CASE d # job[j].doc
    BY <2>1, AddingMoves
  <2>2. CASE d = job[j].doc
    <3>1. j \notin Adding(d) /\ Adding(d)' = Adding(d) \ {j}
      BY <2>2, AddingMoves
    <3>2. QED
      BY <3>1
  <2>3. QED
    BY <2>1, <2>2
<1>2. \A k \in Adding(d) : job'[k] = job[k]
  BY <1>1 DEF Adding, Moves
<1>3. \A k \in Adding(d) : Entries(k)' = Entries(k)
  BY <1>2 DEF Entries
<1>4. /\ Of(vector, d)' = Of(vector, d) /\ Of(lexical, d)' = Of(lexical, d)
      /\ persistent /\ Of(disk, d) = Of(vector, d) => Of(disk, d)' = Of(vector, d)'
      /\ era[d]' = era[d]
  BY DEF Kept, Of
<1>5. QED
  BY <1>1, <1>2, <1>3, <1>4 DEF EraInv

(* A step that spoils the era. *)
LEMMA Spoilt ==
    ASSUME NEW d, era'[d].failed \/ era'[d].overlapped
    PROVE  EraInv(d)'
BY DEF EraInv

(* A job moves on within the work on its document. *)
LEMMA Working ==
    ASSUME NEW j \in Jobs, NEW p \in AddingPoints, Moves(j, p), job[j].pc \in AddingPoints,
           NEW d, d = job[j].doc, persistent' = persistent, era' = era, EraInv(d),
           ~era[d].failed /\ ~era[d].overlapped =>
              /\ persistent => Of(disk, d)' = Of(vector, d)'
              /\ p # "list" => Of(vector, d)' = {}
              /\ p # "unlist" => Of(lexical, d)' = {}
              /\ p = "list" => Of(vector, d)' = Entries(j)'
    PROVE  EraInv(d)'
<1>1. Adding(d)' = Adding(d) /\ j \in Adding(d)
  <2>1. j \in Adding(d) /\ Adding(d)' = Adding(d) \cup {j}
    BY AddingMoves
  <2>2. QED
    BY <2>1
<1>2. ASSUME ~era[d].failed, ~era[d].overlapped
      PROVE  Adding(d) = {j} /\ era[d].added = {}
  BY <1>1, <1>2 DEF EraInv
<1>3. QED
  BY <1>1, <1>2 DEF EraInv, Moves

(* The other documents' entries stay when the vector index changes. *)
LEMMA StoredKeeps ==
    ASSUME NEW v, NEW d, Stored(v) \/ StoreFails(v), Of(v, d) = Of(vector, d),
           Of(lexical', d) = Of(lexical, d), era'[d] = era[d]
    PROVE  Kept(d)
BY DEF Stored, StoreFails, Kept

LEMMA OtherEras ==
    ASSUME era \in [Docs -> Era], NEW c
    PROVE  /\ \A e : era' = [era EXCEPT ![c] = e] =>
                 \A d \in Docs : (d # c => era'[d] = era[d]) /\ (d = c => era'[d] = e)
BY DEF Era

LEMMA FailureSpoils ==
    ASSUME IndInv, NEW j \in Jobs, Fails(j), NEW d \in Docs
    PROVE  /\ d = job[j].doc => EraInv(d)'
           /\ d # job[j].doc => era'[d] = era[d]
           /\ Moves(j, IF job[j].direct THEN "ended" ELSE "report")
<1>1. job[j].doc \in Docs /\ JobsFine /\ era \in [Docs -> Era]
  BY JobFacts DEF IndInv
<1>2. era' = [era EXCEPT ![job[j].doc] = [era[job[j].doc] EXCEPT !.failed = TRUE]]
  BY DEF Fails
<1>3. /\ era'[job[j].doc] = [era[job[j].doc] EXCEPT !.failed = TRUE]
      /\ d # job[j].doc => era'[d] = era[d]
  BY <1>1, <1>2, OtherEras
<1>4. era'[job[j].doc].failed
  BY <1>1, <1>3 DEF Era
<1>5. d = job[j].doc => EraInv(d)'
  BY <1>4, Spoilt
<1>6. Returns(j, "failed")
  BY DEF Fails
<1>7. Moves(j, IF job[j].direct THEN "ended" ELSE "report")
  BY <1>1, <1>6, Moving
<1>8. QED
  BY <1>3, <1>5, <1>7

LEMMA RemoveVectorsWhole ==
    ASSUME WholeInv, NEW j \in Jobs, RemoveVectors(j) \/ RemoveVectorsFails(j),
           NEW d \in Docs
    PROVE  EraInv(d)'
<1> DEFINE c == job[j].doc
           p == IF RemoveVectors(j) THEN "unlist"
                ELSE IF job[j].direct THEN "ended" ELSE "report"
           fails == ~RemoveVectors(j)
<1>1. /\ c \in Docs /\ JobsFine /\ era \in [Docs -> Era] /\ persistent' = persistent
      /\ lexical' = lexical /\ EraInv(d) /\ job[j].pc = "remove"
      /\ Stored(Without(vector, c)) \/ StoreFails(Without(vector, c))
  BY JobFacts DEF WholeInv, IndInv, RemoveVectors, RemoveVectorsFails, At
<1>2. Moves(j, p)
  BY <1>1, Moving DEF RemoveVectors, RemoveVectorsFails
<1>3. /\ d # c => era'[d] = era[d]
      /\ d = c => era'[d] = EraOf(j, fails)
  BY <1>1, OtherEras DEF RemoveVectors, RemoveVectorsFails
<1>4. CASE d # c
  <2>1. Kept(d)
    BY <1>1, <1>3, <1>4, OfWithout, StoredKeeps
  <2>2. QED
    BY <1>1, <1>2, <1>4, <2>1, Elsewhere
<1>5. CASE d = c /\ (Adding(d) # {} \/ fails)
  <2>1. era[d] \in Era /\ fails \in BOOLEAN
    BY <1>1
  <2>2. \A b \in BOOLEAN : [Fresh EXCEPT !.failed = b].failed = b
    BY DEF Fresh
  <2>3. \A e \in Era, b \in BOOLEAN :
           [e EXCEPT !.overlapped = TRUE, !.failed = e.failed \/ b].overlapped
    BY DEF Era
  <2>4. era'[d].failed \/ era'[d].overlapped
    BY <1>3, <1>5, <2>1, <2>2, <2>3 DEF EraOf
  <2>5. QED
    BY <2>4, Spoilt
<1>6. CASE d = c /\ Adding(d) = {} /\ ~fails
  <2>1. era'[d].added = {}
    BY <1>3, <1>6 DEF EraOf, Fresh
  <2>2. Adding(d)' = {j} /\ job'[j].pc = "unlist"
    <3>1. p = "unlist" /\ p \in AddingPoints
      BY <1>6 DEF AddingPoints
    <3>2. Adding(d)' = Adding(d) \cup {j}
      BY <1>2, <1>6, <3>1, AddingMoves
    <3>3. QED
      BY <1>2, <1>6, <3>1, <3>2 DEF Moves
  <2>3. Of(vector, d)' = {} /\ (persistent => Of(disk, d)' = {})
    BY <1>6, OfWithout DEF RemoveVectors, Stored, Of
  <2>4. QED
    BY <1>1, <2>1, <2>2, <2>3 DEF EraInv
<1>7. QED
  BY <1>4, <1>5, <1>6

(* A failing step: it may change the vector index for the document only. *)
LEMMA FailingWhole ==
    ASSUME WholeInv, NEW j \in Jobs,
           SplitRefused(j) \/ EmbedFails(j) \/ UpsertFails(j) \/ UpsertRefused(j),
           NEW d \in Docs
    PROVE  EraInv(d)'
<1> DEFINE p == IF job[j].direct THEN "ended" ELSE "report"
<1>1. /\ IndInv /\ EraInv(d) /\ Fails(j)
      /\ persistent' = persistent /\ lexical' = lexical
  BY DEF WholeInv, SplitRefused, EmbedFails, UpsertFails, UpsertRefused, indexes
<1>2. /\ d = job[j].doc => EraInv(d)'
      /\ d # job[j].doc => era'[d] = era[d]
      /\ Moves(j, p)
  BY <1>1, FailureSpoils
<1>3. CASE d # job[j].doc
  <2>1. \A part \in SUBSET Entries(j) : Of(Put(vector, part), d) = Of(vector, d)
    BY <1>3, OfPut
  <2>2. CASE UpsertFails(j)
    <3>1. Of(Put(vector, Entries(j)), d) = Of(vector, d)
      BY <2>1
    <3>2. Kept(d)
      BY <1>1, <1>2, <1>3, <2>2, <3>1, StoredKeeps DEF UpsertFails
    <3>3. QED
      BY <1>1, <1>2, <1>3, <3>2, Elsewhere
  <2>3. CASE ~UpsertFails(j)
    <3>1. disk' = disk
      BY <2>3 DEF SplitRefused, EmbedFails, UpsertRefused, indexes
    <3>2. \/ vector' = vector
          \/ \E part \in SUBSET Entries(j) : vector' = Put(vector, part)
      BY <2>3 DEF SplitRefused, EmbedFails, UpsertRefused, indexes
    <3>3. Of(vector', d) = Of(vector, d)
      BY <2>1, <3>2
    <3>4. Kept(d)
      BY <1>1, <1>2, <1>3, <3>1, <3>3 DEF Kept
    <3>5. QED
      BY <1>1, <1>2, <1>3, <3>4, Elsewhere
  <2>4. QED
    BY <2>2, <2>3
<1>4. QED
  BY <1>2, <1>3

LEMMA RemoveLexicalWhole ==
    ASSUME WholeInv, NEW j \in Jobs, RemoveLexical(j), NEW d \in Docs
    PROVE  EraInv(d)'
<1>1. /\ IndInv /\ JobsFine /\ EraInv(d) /\ job[j].pc = "unlist" /\ era' = era
      /\ persistent' = persistent /\ vector' = vector /\ disk' = disk
      /\ lexical' = Without(lexical, job[j].doc)
  BY DEF WholeInv, IndInv, RemoveLexical, At, importer
<1>2. Moves(j, "split")
  BY <1>1 DEF RemoveLexical, Becomes, Moves, JobsFine, JobState
<1>3. CASE d # job[j].doc
  <2>1. Kept(d)
    BY <1>1, <1>3, OfWithout DEF Kept
  <2>2. QED
    BY <1>1, <1>2, <1>3, <2>1, Elsewhere
<1>4. CASE d = job[j].doc
  <2>1. j \in Adding(d)
    BY <1>1, <1>4 DEF Adding
  <2>2. Of(vector, d)' = Of(vector, d) /\ Of(disk, d)' = Of(disk, d) /\ Of(lexical, d)' = {}
    BY <1>1, <1>4, OfWithout DEF Of
  <2>3. ~era[d].failed /\ ~era[d].overlapped =>
           /\ persistent => Of(disk, d)' = Of(vector, d)'
           /\ Of(vector, d)' = {}
    BY <1>1, <2>1, <2>2 DEF EraInv
  <2>4. "split" \in AddingPoints /\ job[j].pc \in AddingPoints
    BY <1>1 DEF AddingPoints
  <2>5. QED
    BY <1>1, <1>2, <1>4, <2>2, <2>3, <2>4, Working
<1>5. QED
  BY <1>3, <1>4

LEMMA SplitWhole ==
    ASSUME WholeInv, NEW j \in Jobs, Split(j), NEW d \in Docs
    PROVE  EraInv(d)'
<1>1. /\ IndInv /\ JobsFine /\ EraInv(d) /\ job[j].pc = "split" /\ era' = era
      /\ persistent' = persistent /\ vector' = vector /\ disk' = disk
      /\ lexical' = lexical
  BY DEF WholeInv, IndInv, Split, At, indexes, importer
<1>2. \E p \in {"split", "upsert"} : Moves(j, p)
  <2>1. job[j] \in JobState /\ job \in [Jobs -> JobState]
    BY <1>1 DEF JobsFine
  <2>2. \/ \E c : Becomes(j, [job[j] EXCEPT !.pc = "upsert", !.chunks = c])
        \/ \E c, s, o : Becomes(j, [job[j] EXCEPT !.chunks = c, !.start = s, !.ordinal = o])
    BY DEF Split
  <2>3. \A c, s, o : Becomes(j, [job[j] EXCEPT !.chunks = c, !.start = s, !.ordinal = o])
                        => Moves(j, "split")
    BY <1>1, <2>1 DEF Moves, Becomes, JobState
  <2>4. QED
    BY <1>1, <2>2, <2>3, Moving
<1>3. CASE d # job[j].doc
  <2>1. Kept(d)
    BY <1>1 DEF Kept
  <2>2. QED
    BY <1>1, <1>2, <1>3, <2>1, Elsewhere
<1>4. CASE d = job[j].doc
  <2>1. j \in Adding(d)
    BY <1>1, <1>4 DEF Adding
  <2>2. /\ Of(vector, d)' = Of(vector, d) /\ Of(disk, d)' = Of(disk, d)
        /\ Of(lexical, d)' = Of(lexical, d)
    BY <1>1 DEF Of
  <2>3. ~era[d].failed /\ ~era[d].overlapped =>
           /\ persistent => Of(disk, d)' = Of(vector, d)'
           /\ Of(vector, d)' = {}
           /\ Of(lexical, d)' = {}
    BY <1>1, <2>1, <2>2 DEF EraInv
  <2>4. \A p \in {"split", "upsert"} : p \in AddingPoints /\ p # "list"
    BY DEF AddingPoints
  <2>5. job[j].pc \in AddingPoints
    BY <1>1 DEF AddingPoints
  <2>6. QED
    BY <1>1, <1>2, <1>4, <2>3, <2>4, <2>5, Working
<1>5. QED
  BY <1>3, <1>4

LEMMA UpsertWhole ==
    ASSUME WholeInv, NEW j \in Jobs, Upsert(j), NEW d \in Docs
    PROVE  EraInv(d)'
<1>1. /\ IndInv /\ JobsFine /\ EraInv(d) /\ job[j].pc = "upsert" /\ era' = era
      /\ persistent' = persistent /\ Stored(Put(vector, Entries(j)))
      /\ lexical' = lexical /\ Goes(j, "list")
  BY DEF WholeInv, IndInv, Upsert, At, importer
<1>2. /\ Moves(j, "list") /\ job'[j].text = job[j].text
      /\ job'[j].chunks = job[j].chunks
  BY <1>1, Moving
<1>3. CASE d # job[j].doc
  <2>1. Of(Put(vector, Entries(j)), d) = Of(vector, d)
    BY <1>3, OfPut
  <2>2. Kept(d)
    BY <1>1, <2>1, StoredKeeps
  <2>3. QED
    BY <1>1, <1>2, <1>3, <2>2, Elsewhere
<1>4. CASE d = job[j].doc
  <2>1. j \in Adding(d)
    BY <1>1, <1>4 DEF Adding
  <2>2. ~era[d].failed /\ ~era[d].overlapped =>
           Of(vector, d) = {} /\ Of(lexical, d) = {}
    BY <1>1, <2>1 DEF EraInv
  <2>3. Of(vector, d) = {} => Of(Put(vector, Entries(j)), d) = Entries(j)
    BY <1>4, OfPut
  <2>4. /\ Of(vector, d)' = Of(Put(vector, Entries(j)), d)
        /\ persistent => Of(disk, d)' = Of(vector, d)'
        /\ Of(lexical, d)' = Of(lexical, d)
    BY <1>1 DEF Stored, Of
  <2>5. Entries(j)' = Entries(j)
    BY <1>2 DEF Entries, Moves
  <2>6. "list" \in AddingPoints /\ job[j].pc \in AddingPoints
    BY <1>1 DEF AddingPoints
  <2>7. QED
    BY <1>1, <1>2, <1>4, <2>2, <2>3, <2>4, <2>5, <2>6, Working
<1>5. QED
  BY <1>3, <1>4

LEMMA AddLexicalWhole ==
    ASSUME WholeInv, NEW j \in Jobs, AddLexical(j), NEW d \in Docs
    PROVE  EraInv(d)'
<1> DEFINE c == job[j].doc
           p == IF job[j].direct THEN "ended" ELSE "report"
           e == [era[c] EXCEPT !.added = era[c].added \cup {Entries(j)}]
<1>1. /\ IndInv /\ JobsFine /\ EraInv(d) /\ job[j].pc = "list"
      /\ era' = [era EXCEPT ![c] = e]
      /\ persistent' = persistent /\ vector' = vector /\ disk' = disk
      /\ lexical' = Put(lexical, Entries(j)) /\ Returns(j, "completed")
  BY DEF WholeInv, IndInv, AddLexical, At
<1>2. Moves(j, p) /\ p \notin AddingPoints
  BY <1>1, Moving DEF AddingPoints
<1>3. (d # c => era'[d] = era[d]) /\ (d = c => era'[d] = e)
  BY <1>1, OtherEras DEF IndInv
<1>4. CASE d # c
  <2>1. Of(Put(lexical, Entries(j)), d) = Of(lexical, d)
    BY <1>4, OfPut
  <2>2. Kept(d)
    BY <1>1, <1>3, <1>4, <2>1 DEF Kept
  <2>3. QED
    BY <1>1, <1>2, <1>4, <2>2, Elsewhere
<1>5. CASE d = c
  <2>1. j \in Adding(d) /\ Adding(d)' = Adding(d) \ {j}
    BY <1>1, <1>2, <1>5, AddingMoves DEF AddingPoints
  <2>2. /\ e.added = era[d].added \cup {Entries(j)} /\ e.failed = era[d].failed
        /\ e.overlapped = era[d].overlapped
    <3>1. era[d] \in Era
      BY <1>1 DEF IndInv
    <3>2. QED
      BY <1>5, <3>1 DEF Era
  <2>3. Of(lexical, d) = {} => Of(lexical, d)' = Entries(j)
    <3>1. Of(lexical, d) = {} => Of(Put(lexical, Entries(j)), d) = Entries(j)
      BY <1>5, OfPut
    <3>2. QED
      BY <1>1, <3>1 DEF Of
  <2>4. Of(vector, d)' = Of(vector, d) /\ Of(disk, d)' = Of(disk, d)
    BY <1>1 DEF Of
  <2>5. ASSUME ~era[d].failed, ~era[d].overlapped
        PROVE  /\ Adding(d) = {j} /\ era[d].added = {}
               /\ Of(vector, d) = Entries(j) /\ Of(lexical, d) = {}
               /\ persistent => Of(disk, d) = Of(vector, d)
    BY <1>1, <2>1, <2>5 DEF EraInv
  <2> HIDE DEF e
  <2>6. QED
    BY <1>1, <1>3, <1>5, <2>1, <2>2, <2>3, <2>4, <2>5 DEF EraInv
<1>6. QED
  BY <1>4, <1>5

(* The steps before and after the work on the indexes. *)
Outside(j) ==
    Submit(j) \/ Run(j) \/ Load(j) \/ LoadFails(j) \/ Report(j) \/ Call(j)

LEMMA OutsideMoves ==
    ASSUME JobsFine, NEW j \in Jobs, Outside(j)
    PROVE  /\ job[j].pc \notin AddingPoints
           /\ \E p : p \notin AddingPoints /\ Moves(j, p)
<1>0. job \in [Jobs -> JobState] /\ job[j] \in JobState
  BY DEF JobsFine
<1>1. CASE Submit(j) \/ Run(j) \/ Load(j)
  <2>1. \E n, t : \/ Becomes(j, [job[j] EXCEPT !.pc = "queued", !.id = n])
                  \/ Goes(j, "load")
                  \/ Becomes(j, [job[j] EXCEPT !.pc = "remove", !.text = t])
    BY <1>1 DEF Submit, Run, Load, Goes
  <2>2. \E p \in {"queued", "load", "remove"} : Moves(j, p)
    BY <2>1, Moving
  <2>3. QED
    BY <1>1, <2>2 DEF Submit, Run, Load, At, AddingPoints
<1>2. CASE Report(j)
  BY <1>2, Moving DEF Report, At, AddingPoints
<1>3. CASE LoadFails(j)
  <2>1. Moves(j, "report")
    BY <1>0, <1>3 DEF LoadFails, Moves, Becomes, JobState
  <2>2. QED
    BY <1>3, <2>1 DEF LoadFails, At, AddingPoints
<1>4. CASE Call(j)
  <2>1. Moves(j, "remove")
    BY <1>0, <1>4 DEF Call, Moves, Becomes, JobState
  <2>2. QED
    BY <1>4, <2>1 DEF Call, At, AddingPoints
<1>5. QED
  BY <1>1, <1>2, <1>3, <1>4 DEF Outside

LEMMA OutsideWhole ==
    ASSUME WholeInv, NEW j \in Jobs, Outside(j), NEW d \in Docs
    PROVE  EraInv(d)'
<1>1. /\ JobsFine /\ EraInv(d) /\ era' = era /\ persistent' = persistent
      /\ vector' = vector /\ disk' = disk /\ lexical' = lexical
  BY DEF Outside, WholeInv, IndInv, Submit, Run, Load, LoadFails, Report, Call, indexes
<1>2. /\ job[j].pc \notin AddingPoints
      /\ \E p : p \notin AddingPoints /\ Moves(j, p)
  BY <1>1, OutsideMoves
<1>3. Kept(d)
  BY <1>1 DEF Kept
<1>4. QED
  BY <1>1, <1>2, <1>3, Elsewhere

LEMMA ContextEndsWhole ==
    ASSUME WholeInv, NEW j \in Jobs, ContextEnds(j), NEW d \in Docs
    PROVE  EraInv(d)'
<1> DEFINE p == IF job[j].direct THEN "ended" ELSE "report"
<1>1. /\ IndInv /\ JobsFine /\ EraInv(d) /\ persistent' = persistent
      /\ vector' = vector /\ disk' = disk /\ lexical' = lexical
  BY DEF WholeInv, IndInv, ContextEnds, indexes
<1>2. CASE At(j, "remove") /\ Returns(j, "failed") /\ UNCHANGED era
  <2>1. Moves(j, p)
    BY <1>1, <1>2, Moving
  <2>2. p \notin AddingPoints /\ job[j].pc \notin AddingPoints
    BY <1>2 DEF At, AddingPoints
  <2>3. Kept(d)
    BY <1>1, <1>2 DEF Kept
  <2>4. QED
    BY <1>1, <2>1, <2>2, <2>3, Elsewhere
<1>3. CASE Fails(j)
  <2>1. /\ d = job[j].doc => EraInv(d)'
        /\ d # job[j].doc => era'[d] = era[d]
        /\ Moves(j, p)
    BY <1>1, <1>3, FailureSpoils
  <2>2. d # job[j].doc => Kept(d)
    BY <1>1, <2>1 DEF Kept
  <2>3. QED
    BY <1>1, <2>1, <2>2, Elsewhere
<1>4. QED
  BY <1>2, <1>3 DEF ContextEnds

LEMMA RestartWhole ==
    ASSUME WholeInv, Restart, NEW d \in Docs
    PROVE  EraInv(d)'
<1>1. EraInv(d) /\ era[d] \in Era /\ persistent' = persistent /\ disk' = disk
  BY DEF WholeInv, IndInv, Restart
<1>2. Adding(d)' = {}
  BY DEF Restart, Adding
<1>3. /\ Of(vector, d)' = Of(disk, d) /\ Of(lexical, d)' = Of(disk, d)
      /\ Of(disk, d)' = Of(disk, d)
  BY DEF Restart, Of
<1>4. CASE ~persistent
  <2>1. era'[d] = Fresh
    BY <1>4 DEF Restart
  <2>2. QED
    BY <1>1, <1>2, <1>4, <2>1 DEF EraInv, Fresh
<1>5. CASE persistent
  <2>1. era'[d] = [era[d] EXCEPT !.failed = era[d].failed \/ Adding(d) # {}]
    BY <1>5 DEF Restart
  <2>2. /\ era'[d].added = era[d].added /\ era'[d].overlapped = era[d].overlapped
        /\ era'[d].failed <=> (era[d].failed \/ Adding(d) # {})
    <3>1. \A f \in BOOLEAN : /\ [era[d] EXCEPT !.failed = f].added = era[d].added
                             /\ [era[d] EXCEPT !.failed = f].overlapped = era[d].overlapped
                             /\ [era[d] EXCEPT !.failed = f].failed = f
      BY <1>1 DEF Era
    <3>2. QED
      BY <2>1, <3>1
  <2>3. QED
    BY <1>1, <1>2, <1>3, <1>5, <2>2 DEF EraInv
<1>6. QED
  BY <1>4, <1>5

LEMMA NextWhole == WholeInv /\ [Next]_vars => WholeInv'
<1> SUFFICES ASSUME WholeInv, [Next]_vars PROVE WholeInv'
  OBVIOUS
<1>1. IndInv'
  BY NextHolds DEF WholeInv
<1>2. ASSUME NEW d \in Docs PROVE EraInv(d)'
  <2>1. ASSUME NEW j \in Jobs, Add(j) PROVE EraInv(d)'
    BY <2>1, RemoveVectorsWhole, RemoveLexicalWhole, SplitWhole, UpsertWhole,
       AddLexicalWhole, FailingWhole DEF Add
  <2>2. ASSUME NEW j \in Jobs, Outside(j) \/ ContextEnds(j) PROVE EraInv(d)'
    BY <2>2, OutsideWhole, ContextEndsWhole
  <2>3. CASE Restart
    BY <2>3, RestartWhole
  <2>4. CASE UNCHANGED vars
    <3>1. /\ Adding(d)' = Adding(d) /\ Of(vector, d)' = Of(vector, d)
          /\ Of(lexical, d)' = Of(lexical, d) /\ Of(disk, d)' = Of(disk, d)
          /\ \A j \in Jobs : Entries(j)' = Entries(j)
          /\ era' = era /\ job' = job /\ persistent' = persistent
      BY <2>4 DEF vars, indexes, Adding, Of, Entries
    <3>2. EraInv(d) /\ Adding(d) \subseteq Jobs
      BY DEF WholeInv, Adding
    <3>3. QED
      BY <3>1, <3>2 DEF EraInv
  <2>5. QED
    BY <2>1, <2>2, <2>3, <2>4 DEF Next, Works, Outside
<1>3. QED
  BY <1>1, <1>2 DEF WholeInv

LEMMA InitWhole == Init => WholeInv
<1> SUFFICES ASSUME Init PROVE WholeInv
  OBVIOUS
<1>1. ASSUME NEW d \in Docs PROVE EraInv(d)
  <2>1. \A j \in Jobs : job[j].pc = "idle"
    BY DEF Init
  <2>2. Adding(d) = {} /\ era[d].added = {} /\ Of(disk, d) = Of(vector, d)
    BY <2>1 DEF Init, Adding, Of, Fresh
  <2>3. QED
    BY <2>2 DEF EraInv
<1>2. QED
  BY <1>1, InitHolds DEF WholeInv

(* When the last Add of a document succeeded and no other Add of it ran at    *)
(* the same time, both indexes, and the file, hold exactly its chunks: for    *)
(* all documents, texts, jobs and failures, and through restarts.             *)
THEOREM LastAddStands == Spec => []CurrentIndexed
BY InitWhole, NextWhole, WholeImplies, PTL DEF Spec

-----------------------------------------------------------------------------
(* What overlapping Adds leave behind                                         *)

(* While no Add of the document's era has failed: somebody at work has yet to *)
(* store its chunks, or has stored them last, or one that has succeeded has;  *)
(* and the last to leave has listed its chunks.                               *)
OverlapInv(d) ==
    ~era[d].failed =>
        /\ persistent => Of(disk, d) = Of(vector, d)
        /\ \/ \E j \in Adding(d) : job[j].pc # "list"
           \/ \E j \in Adding(d) : Entries(j) \subseteq Of(vector, d)
           \/ \E entries \in era[d].added : entries \subseteq Of(vector, d)
           \/ Adding(d) = {} /\ era[d].added = {}
        /\ Adding(d) = {} => \/ era[d].added = {}
                             \/ \E entries \in era[d].added : entries \subseteq Of(lexical, d)

OverlapWhole == IndInv /\ \A d \in Docs : OverlapInv(d)

LEMMA OverlapImplies == OverlapWhole => OverlapKeepsOne
<1> SUFFICES ASSUME OverlapWhole, NEW d \in Docs, Settled(d), era[d].added # {}
             PROVE  /\ \E entries \in era[d].added : entries \subseteq vector
                    /\ \E entries \in era[d].added : entries \subseteq lexical
                    /\ persistent => \E entries \in era[d].added : entries \subseteq disk
  BY DEF OverlapKeepsOne
<1>1. Adding(d) = {} /\ ~era[d].failed /\ OverlapInv(d)
  BY DEF Settled, OverlapWhole
<1>2. /\ persistent => Of(disk, d) = Of(vector, d)
      /\ \E entries \in era[d].added : entries \subseteq Of(vector, d)
      /\ \E entries \in era[d].added : entries \subseteq Of(lexical, d)
  BY <1>1 DEF OverlapInv
<1>3. Of(vector, d) \subseteq vector /\ Of(lexical, d) \subseteq lexical
      /\ Of(disk, d) \subseteq disk
  BY DEF Of
<1>4. QED
  BY <1>2, <1>3

LEMMA OverlapElsewhere ==
    ASSUME NEW j \in Jobs, NEW p, Moves(j, p), NEW d \in Docs,
           \/ d # job[j].doc
           \/ p \notin AddingPoints /\ job[j].pc \notin AddingPoints,
           Kept(d), persistent' = persistent, OverlapInv(d)
    PROVE  OverlapInv(d)'
<1>1. Adding(d)' = Adding(d) /\ j \notin Adding(d)
  <2>1. CASE d # job[j].doc
    BY <2>1, AddingMoves
  <2>2. CASE d = job[j].doc
    <3>1. j \notin Adding(d) /\ Adding(d)' = Adding(d) \ {j}
      BY <2>2, AddingMoves
    <3>2. QED
      BY <3>1
  <2>3. QED
    BY <2>1, <2>2
<1>2. \A k \in Adding(d) : job'[k] = job[k]
  BY <1>1 DEF Adding, Moves
<1>3. \A k \in Adding(d) : Entries(k)' = Entries(k)
  BY <1>2 DEF Entries
<1>4. /\ Of(vector, d)' = Of(vector, d) /\ Of(lexical, d)' = Of(lexical, d)
      /\ persistent /\ Of(disk, d) = Of(vector, d) => Of(disk, d)' = Of(vector, d)'
      /\ era[d]' = era[d]
  BY DEF Kept, Of
<1>5. QED
  BY <1>1, <1>2, <1>3, <1>4 DEF OverlapInv

LEMMA OverlapWorking ==
    ASSUME NEW j \in Jobs, NEW p \in AddingPoints, Moves(j, p),
           NEW d, d = job[j].doc,
           era'[d].failed \/ (persistent' => Of(disk, d)' = Of(vector, d)'),
           p # "list" \/ Entries(j)' \subseteq Of(vector, d)'
    PROVE  OverlapInv(d)'
<1>1. j \in Adding(d)' /\ job'[j].pc = p
  <2>1. Adding(d)' = Adding(d) \cup {j}
    BY AddingMoves
  <2>2. QED
    BY <2>1 DEF Moves
<1>2. QED
  BY <1>1 DEF OverlapInv

LEMMA FailureMarks ==
    ASSUME IndInv, NEW j \in Jobs, Fails(j), NEW d \in Docs
    PROVE  /\ d = job[j].doc => OverlapInv(d)'
           /\ d # job[j].doc => era'[d] = era[d]
           /\ Moves(j, IF job[j].direct THEN "ended" ELSE "report")
<1>1. job[j].doc \in Docs /\ era \in [Docs -> Era]
  BY JobFacts DEF IndInv
<1>2. era' = [era EXCEPT ![job[j].doc] = [era[job[j].doc] EXCEPT !.failed = TRUE]]
  BY DEF Fails
<1>3. era'[job[j].doc] = [era[job[j].doc] EXCEPT !.failed = TRUE]
  BY <1>1, <1>2, OtherEras
<1>4. era'[job[j].doc].failed
  BY <1>1, <1>3 DEF Era
<1>5. d = job[j].doc => OverlapInv(d)'
  BY <1>4 DEF OverlapInv
<1>6. QED
  BY <1>5, FailureSpoils

LEMMA RemoveVectorsOverlap ==
    ASSUME OverlapWhole, NEW j \in Jobs, RemoveVectors(j) \/ RemoveVectorsFails(j),
           NEW d \in Docs
    PROVE  OverlapInv(d)'
<1> DEFINE c == job[j].doc
           p == IF RemoveVectors(j) THEN "unlist"
                ELSE IF job[j].direct THEN "ended" ELSE "report"
           fails == ~RemoveVectors(j)
<1>1. /\ c \in Docs /\ JobsFine /\ era \in [Docs -> Era] /\ persistent' = persistent
      /\ lexical' = lexical /\ OverlapInv(d)
      /\ Stored(Without(vector, c)) \/ StoreFails(Without(vector, c))
  BY JobFacts DEF OverlapWhole, IndInv, RemoveVectors, RemoveVectorsFails
<1>2. Moves(j, p)
  BY <1>1, Moving DEF RemoveVectors, RemoveVectorsFails
<1>3. /\ d # c => era'[d] = era[d]
      /\ d = c => era'[d] = EraOf(j, fails)
  BY <1>1, OtherEras DEF RemoveVectors, RemoveVectorsFails
<1>4. CASE d # c
  <2>1. Kept(d)
    BY <1>1, <1>3, <1>4, OfWithout, StoredKeeps
  <2>2. QED
    BY <1>1, <1>2, <1>4, <2>1, OverlapElsewhere
<1>5. CASE d = c /\ fails
  <2>1. era[d] \in Era
    BY <1>1
  <2>2. [Fresh EXCEPT !.failed = TRUE].failed
    BY DEF Fresh
  <2>3. \A e \in Era :
           [e EXCEPT !.overlapped = TRUE, !.failed = e.failed \/ TRUE].failed
    BY DEF Era
  <2>4. era'[d].failed
    BY <1>3, <1>5, <2>1, <2>2, <2>3 DEF EraOf
  <2>5. QED
    BY <2>4 DEF OverlapInv
<1>6. CASE d = c /\ ~fails
  <2>1. p = "unlist" /\ p \in AddingPoints /\ p # "list"
    BY <1>6 DEF AddingPoints
  <2>2. persistent' => Of(disk, d)' = Of(vector, d)'
    BY <1>1, <1>6 DEF RemoveVectors, Stored, Of
  <2>3. QED
    BY <1>2, <1>6, <2>1, <2>2, OverlapWorking
<1>7. QED
  BY <1>4, <1>5, <1>6

LEMMA FailingOverlap ==
    ASSUME OverlapWhole, NEW j \in Jobs,
           SplitRefused(j) \/ EmbedFails(j) \/ UpsertFails(j) \/ UpsertRefused(j),
           NEW d \in Docs
    PROVE  OverlapInv(d)'
<1> DEFINE p == IF job[j].direct THEN "ended" ELSE "report"
<1>1. /\ IndInv /\ OverlapInv(d) /\ Fails(j)
      /\ persistent' = persistent /\ lexical' = lexical
  BY DEF OverlapWhole, SplitRefused, EmbedFails, UpsertFails, UpsertRefused, indexes
<1>2. /\ d = job[j].doc => OverlapInv(d)'
      /\ d # job[j].doc => era'[d] = era[d]
      /\ Moves(j, p)
  BY <1>1, FailureMarks
<1>3. CASE d # job[j].doc
  <2>1. \A part \in SUBSET Entries(j) : Of(Put(vector, part), d) = Of(vector, d)
    BY <1>3, OfPut
  <2>2. Kept(d)
    <3>1. CASE UpsertFails(j)
      <4>1. Of(Put(vector, Entries(j)), d) = Of(vector, d)
        BY <2>1
      <4>2. QED
        BY <1>1, <1>2, <1>3, <3>1, <4>1, StoredKeeps DEF UpsertFails
    <3>2. CASE ~UpsertFails(j)
      <4>1. disk' = disk
        BY <3>2 DEF SplitRefused, EmbedFails, UpsertRefused, indexes
      <4>2. \/ vector' = vector
            \/ \E part \in SUBSET Entries(j) : vector' = Put(vector, part)
        BY <3>2 DEF SplitRefused, EmbedFails, UpsertRefused, indexes
      <4>3. Of(vector', d) = Of(vector, d)
        BY <2>1, <4>2
      <4>4. QED
        BY <1>1, <1>2, <1>3, <4>1, <4>3 DEF Kept
    <3>3. QED
      BY <3>1, <3>2
  <2>3. QED
    BY <1>1, <1>2, <1>3, <2>2, OverlapElsewhere
<1>4. QED
  BY <1>2, <1>3

(* The steps in the middle of an Add. *)
LEMMA MiddleOverlap ==
    ASSUME OverlapWhole, NEW j \in Jobs, RemoveLexical(j) \/ Split(j), NEW d \in Docs
    PROVE  OverlapInv(d)'
<1>1. /\ JobsFine /\ OverlapInv(d) /\ job[j].pc \in {"unlist", "split"} /\ era' = era
      /\ persistent' = persistent /\ vector' = vector /\ disk' = disk
      /\ lexical' = lexical \/ lexical' = Without(lexical, job[j].doc)
  BY DEF OverlapWhole, IndInv, RemoveLexical, Split, At, importer, indexes
<1>2. \E p \in {"split", "upsert"} : Moves(j, p)
  <2>1. job[j] \in JobState /\ job \in [Jobs -> JobState]
    BY <1>1 DEF JobsFine
  <2>2. CASE RemoveLexical(j)
    BY <2>1, <2>2 DEF RemoveLexical, Becomes, Moves, JobState
  <2>3. CASE Split(j)
    <3>1. \/ \E c : Becomes(j, [job[j] EXCEPT !.pc = "upsert", !.chunks = c])
          \/ \E c, s, o : Becomes(j, [job[j] EXCEPT !.chunks = c, !.start = s, !.ordinal = o])
      BY <2>3 DEF Split
    <3>2. job[j].pc = "split"
      BY <2>3 DEF Split, At
    <3>3. \A c, s, o : Becomes(j, [job[j] EXCEPT !.chunks = c, !.start = s, !.ordinal = o])
                          => Moves(j, "split")
      BY <2>1, <3>2 DEF Moves, Becomes, JobState
    <3>4. QED
      BY <1>1, <3>1, <3>3, Moving
  <2>4. QED
    BY <2>2, <2>3
<1>3. CASE d # job[j].doc
  <2>1. Of(lexical', d) = Of(lexical, d)
    BY <1>1, <1>3, OfWithout
  <2>2. Kept(d)
    BY <1>1, <2>1 DEF Kept
  <2>3. QED
    BY <1>1, <1>2, <1>3, <2>2, OverlapElsewhere
<1>4. CASE d = job[j].doc
  <2>1. era'[d].failed \/ (persistent' => Of(disk, d)' = Of(vector, d)')
    BY <1>1 DEF OverlapInv, Of
  <2>2. \A p \in {"split", "upsert"} : p \in AddingPoints /\ p # "list"
    BY DEF AddingPoints
  <2>3. QED
    BY <1>2, <1>4, <2>1, <2>2, OverlapWorking
<1>5. QED
  BY <1>3, <1>4

LEMMA UpsertOverlap ==
    ASSUME OverlapWhole, NEW j \in Jobs, Upsert(j), NEW d \in Docs
    PROVE  OverlapInv(d)'
<1>1. /\ JobsFine /\ OverlapInv(d) /\ era' = era
      /\ persistent' = persistent /\ Stored(Put(vector, Entries(j)))
      /\ lexical' = lexical /\ Goes(j, "list")
  BY DEF OverlapWhole, IndInv, Upsert, importer
<1>2. /\ Moves(j, "list") /\ job'[j].text = job[j].text
      /\ job'[j].chunks = job[j].chunks
  BY <1>1, Moving
<1>3. CASE d # job[j].doc
  <2>1. Of(Put(vector, Entries(j)), d) = Of(vector, d)
    BY <1>3, OfPut
  <2>2. Kept(d)
    BY <1>1, <2>1, StoredKeeps
  <2>3. QED
    BY <1>1, <1>2, <1>3, <2>2, OverlapElsewhere
<1>4. CASE d = job[j].doc
  <2>1. persistent' => Of(disk, d)' = Of(vector, d)'
    BY <1>1 DEF Stored, Of
  <2>2. Entries(j)' = Entries(j)
    BY <1>2 DEF Entries, Moves
  <2>3. Entries(j) \subseteq Of(vector, d)'
    BY <1>1, <1>4 DEF Stored, Put, Of, Entries
  <2>4. "list" \in AddingPoints
    BY DEF AddingPoints
  <2>5. QED
    BY <1>2, <1>4, <2>1, <2>2, <2>3, <2>4, OverlapWorking
<1>5. QED
  BY <1>3, <1>4

LEMMA AddLexicalOverlap ==
    ASSUME OverlapWhole, NEW j \in Jobs, AddLexical(j), NEW d \in Docs
    PROVE  OverlapInv(d)'
<1> DEFINE c == job[j].doc
           p == IF job[j].direct THEN "ended" ELSE "report"
           e == [era[c] EXCEPT !.added = era[c].added \cup {Entries(j)}]
<1>1. /\ JobsFine /\ OverlapInv(d) /\ job[j].pc = "list"
      /\ era \in [Docs -> Era] /\ era' = [era EXCEPT ![c] = e]
      /\ persistent' = persistent /\ vector' = vector /\ disk' = disk
      /\ lexical' = Put(lexical, Entries(j)) /\ Returns(j, "completed")
  BY DEF OverlapWhole, IndInv, AddLexical, At
<1>2. Moves(j, p) /\ p \notin AddingPoints
  BY <1>1, Moving DEF AddingPoints
<1>3. (d # c => era'[d] = era[d]) /\ (d = c => era'[d] = e)
  BY <1>1, OtherEras
<1>4. CASE d # c
  <2>1. Of(Put(lexical, Entries(j)), d) = Of(lexical, d)
    BY <1>4, OfPut
  <2>2. Kept(d)
    BY <1>1, <1>3, <1>4, <2>1 DEF Kept
  <2>3. QED
    BY <1>1, <1>2, <1>4, <2>2, OverlapElsewhere
<1>5. CASE d = c
  <2>1. j \in Adding(d) /\ Adding(d)' = Adding(d) \ {j}
    BY <1>1, <1>2, <1>5, AddingMoves DEF AddingPoints
  <2>2. e.added = era[d].added \cup {Entries(j)} /\ e.failed = era[d].failed
    <3>1. era[d] \in Era
      BY <1>1
    <3>2. QED
      BY <1>5, <3>1 DEF Era
  <2>3. Entries(j) \subseteq Of(lexical, d)'
    BY <1>1, <1>5 DEF Put, Of, Entries
  <2>4. Of(vector, d)' = Of(vector, d) /\ Of(disk, d)' = Of(disk, d)
    BY <1>1 DEF Of
  <2>5. \A k \in Adding(d)' : job'[k] = job[k] /\ Entries(k)' = Entries(k)
    <3>1. \A k \in Adding(d)' : job'[k] = job[k]
      BY <1>2, <2>1 DEF Moves, Adding
    <3>2. QED
      BY <3>1 DEF Entries
  <2> HIDE DEF e
  <2>6. ASSUME ~era'[d].failed
        PROVE  \/ \E k \in Adding(d)' : job'[k].pc # "list"
               \/ \E k \in Adding(d)' : Entries(k)' \subseteq Of(vector, d)'
               \/ \E entries \in era'[d].added : entries \subseteq Of(vector, d)'
    <3>1. \/ \E k \in Adding(d) : job[k].pc # "list"
          \/ \E k \in Adding(d) : Entries(k) \subseteq Of(vector, d)
          \/ \E entries \in era[d].added : entries \subseteq Of(vector, d)
      BY <1>1, <1>3, <1>5, <2>1, <2>2, <2>6 DEF OverlapInv
    <3>2. CASE \E k \in Adding(d) : job[k].pc # "list"
      BY <1>1, <2>1, <2>5, <3>2
    <3>3. CASE \E k \in Adding(d) : Entries(k) \subseteq Of(vector, d)
      BY <1>3, <1>5, <2>1, <2>2, <2>4, <2>5, <3>3
    <3>4. CASE \E entries \in era[d].added : entries \subseteq Of(vector, d)
      BY <1>3, <1>5, <2>2, <2>4, <3>4
    <3>5. QED
      BY <3>1, <3>2, <3>3, <3>4
  <2>7. Entries(j) \in era'[d].added
    BY <1>3, <1>5, <2>2
  <2>8. ~era'[d].failed => (persistent' => Of(disk, d)' = Of(vector, d)')
    BY <1>1, <1>3, <1>5, <2>2, <2>4 DEF OverlapInv
  <2>9. QED
    BY <2>3, <2>6, <2>7, <2>8 DEF OverlapInv
<1>6. QED
  BY <1>4, <1>5

LEMMA OutsideOverlap ==
    ASSUME OverlapWhole, NEW j \in Jobs, Outside(j), NEW d \in Docs
    PROVE  OverlapInv(d)'
<1>1. /\ JobsFine /\ OverlapInv(d) /\ era' = era /\ persistent' = persistent
      /\ vector' = vector /\ disk' = disk /\ lexical' = lexical
  BY DEF Outside, OverlapWhole, IndInv, Submit, Run, Load, LoadFails, Report, Call, indexes
<1>2. /\ job[j].pc \notin AddingPoints
      /\ \E p : p \notin AddingPoints /\ Moves(j, p)
  BY <1>1, OutsideMoves
<1>3. Kept(d)
  BY <1>1 DEF Kept
<1>4. QED
  BY <1>1, <1>2, <1>3, OverlapElsewhere

LEMMA ContextEndsOverlap ==
    ASSUME OverlapWhole, NEW j \in Jobs, ContextEnds(j), NEW d \in Docs
    PROVE  OverlapInv(d)'
<1> DEFINE p == IF job[j].direct THEN "ended" ELSE "report"
<1>1. /\ IndInv /\ JobsFine /\ OverlapInv(d) /\ persistent' = persistent
      /\ vector' = vector /\ disk' = disk /\ lexical' = lexical
  BY DEF OverlapWhole, IndInv, ContextEnds, indexes
<1>2. CASE At(j, "remove") /\ Returns(j, "failed") /\ UNCHANGED era
  <2>1. Moves(j, p)
    BY <1>1, <1>2, Moving
  <2>2. p \notin AddingPoints /\ job[j].pc \notin AddingPoints
    BY <1>2 DEF At, AddingPoints
  <2>3. Kept(d)
    BY <1>1, <1>2 DEF Kept
  <2>4. QED
    BY <1>1, <2>1, <2>2, <2>3, OverlapElsewhere
<1>3. CASE Fails(j)
  <2>1. /\ d = job[j].doc => OverlapInv(d)'
        /\ d # job[j].doc => era'[d] = era[d]
        /\ Moves(j, p)
    BY <1>1, <1>3, FailureMarks
  <2>2. d # job[j].doc => Kept(d)
    BY <1>1, <2>1 DEF Kept
  <2>3. QED
    BY <1>1, <2>1, <2>2, OverlapElsewhere
<1>4. QED
  BY <1>2, <1>3 DEF ContextEnds

LEMMA RestartOverlap ==
    ASSUME OverlapWhole, Restart, NEW d \in Docs
    PROVE  OverlapInv(d)'
<1>1. OverlapInv(d) /\ era[d] \in Era /\ persistent' = persistent
  BY DEF OverlapWhole, IndInv, Restart
<1>2. Adding(d)' = {}
  BY DEF Restart, Adding
<1>3. /\ Of(vector, d)' = Of(disk, d) /\ Of(lexical, d)' = Of(disk, d)
      /\ Of(disk, d)' = Of(disk, d)
  BY DEF Restart, Of
<1>4. CASE ~persistent
  <2>1. era'[d] = Fresh
    BY <1>4 DEF Restart
  <2>2. QED
    BY <1>1, <1>2, <1>4, <2>1 DEF OverlapInv, Fresh
<1>5. CASE persistent
  <2>1. era'[d] = [era[d] EXCEPT !.failed = era[d].failed \/ Adding(d) # {}]
    BY <1>5 DEF Restart
  <2>2. /\ era'[d].added = era[d].added
        /\ era'[d].failed <=> (era[d].failed \/ Adding(d) # {})
    <3>1. \A f \in BOOLEAN : /\ [era[d] EXCEPT !.failed = f].added = era[d].added
                             /\ [era[d] EXCEPT !.failed = f].failed = f
      BY <1>1 DEF Era
    <3>2. QED
      BY <2>1, <3>1
  <2>3. QED
    BY <1>1, <1>2, <1>3, <1>5, <2>2 DEF OverlapInv
<1>6. QED
  BY <1>4, <1>5

LEMMA NextOverlap == OverlapWhole /\ [Next]_vars => OverlapWhole'
<1> SUFFICES ASSUME OverlapWhole, [Next]_vars PROVE OverlapWhole'
  OBVIOUS
<1>1. IndInv'
  BY NextHolds DEF OverlapWhole
<1>2. ASSUME NEW d \in Docs PROVE OverlapInv(d)'
  <2>1. ASSUME NEW j \in Jobs, Add(j) PROVE OverlapInv(d)'
    BY <2>1, RemoveVectorsOverlap, MiddleOverlap, UpsertOverlap, AddLexicalOverlap,
       FailingOverlap DEF Add
  <2>2. ASSUME NEW j \in Jobs, Outside(j) \/ ContextEnds(j) PROVE OverlapInv(d)'
    BY <2>2, OutsideOverlap, ContextEndsOverlap
  <2>3. CASE Restart
    BY <2>3, RestartOverlap
  <2>4. CASE UNCHANGED vars
    <3>1. /\ Adding(d)' = Adding(d) /\ Of(vector, d)' = Of(vector, d)
          /\ Of(lexical, d)' = Of(lexical, d) /\ Of(disk, d)' = Of(disk, d)
          /\ \A j \in Jobs : Entries(j)' = Entries(j)
          /\ era' = era /\ job' = job /\ persistent' = persistent
      BY <2>4 DEF vars, indexes, Adding, Of, Entries
    <3>2. OverlapInv(d) /\ Adding(d) \subseteq Jobs
      BY DEF OverlapWhole, Adding
    <3>3. QED
      BY <3>1, <3>2 DEF OverlapInv
  <2>5. QED
    BY <2>1, <2>2, <2>3, <2>4 DEF Next, Works, Outside
<1>3. QED
  BY <1>1, <1>2 DEF OverlapWhole

LEMMA InitOverlap == Init => OverlapWhole
<1> SUFFICES ASSUME Init PROVE OverlapWhole
  OBVIOUS
<1>1. ASSUME NEW d \in Docs PROVE OverlapInv(d)
  <2>1. \A j \in Jobs : job[j].pc = "idle"
    BY DEF Init
  <2>2. Adding(d) = {} /\ era[d].added = {} /\ Of(disk, d) = Of(vector, d)
    BY <2>1 DEF Init, Adding, Of, Fresh
  <2>3. QED
    BY <2>2 DEF OverlapInv
<1>2. QED
  BY <1>1, InitHolds DEF OverlapWhole

(* When Adds of a document overlap, and none of them fails, each index and    *)
(* the file end up with all chunks of one of them, however the removals and   *)
(* insertions interleave.                                                     *)
THEOREM OverlapLeavesOne == Spec => []OverlapKeepsOne
BY InitOverlap, NextOverlap, OverlapImplies, PTL DEF Spec
=============================================================================
