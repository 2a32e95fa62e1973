------------------------------ MODULE Knowledge ------------------------------
(***************************************************************************)
(* Documents on their way into a HybridIndex: the jobs of an AsyncImporter *)
(* and direct calls of Add, over a vector index that is in memory or kept  *)
(* in a file.                                                              *)
(*                                                                         *)
(* HybridIndex.Add holds no lock of its own.  It removes the document's    *)
(* chunks from the vector index and then from the lexical one, splits the  *)
(* text, asks for the embeddings and puts the chunks into the vector index *)
(* and then into the lexical one; only each of these operations is atomic. *)
(***************************************************************************)
EXTENDS Chunker, FiniteSets

CONSTANTS
    Docs,           \* document ids; a loader uses the path
    Texts,          \* what a document may contain
    Jobs,           \* imports, and calls of Add by others (whose context may end)
    MaxCharacters,  \* the size of a chunk when the options leave it out (1200)
    MaxRestarts     \* how often the process is restarted (an environment bound)

ASSUME KnowledgeAssumption ==
    /\ Texts \subseteq {t \in Seq(Runes) : Trimmed(t)}
    /\ IsFiniteSet(Jobs)
    /\ MaxCharacters \in Nat \ {0}
    /\ MaxRestarts \in Nat

VARIABLES
    persistent,     \* the vector index is a FileVectorIndex, fixed
    vector,         \* its entries
    disk,           \* the entries in its file
    lexical,        \* InMemoryIndex.chunks
    records,        \* AsyncImporter.jobs, by job id
    clock,          \* the last time a job id was made of
    versions,       \* VersionStore.versions
    job,            \* the local state of every import and call
    restarts,
    era             \* what has been added to a document, for the properties

vars == <<persistent, vector, disk, lexical, records, clock, versions, job,
          restarts, era>>
indexes == <<vector, disk, lexical>>
importer == <<records, clock, versions>>

Statuses == {"none", "queued", "running", "completed", "failed"}
Ids == 0..Cardinality(Jobs)

(* A chunk is runes from..to of its text; a key of the indexes' maps is a    *)
(* document and an ordinal.                                                  *)
Chunk == [ordinal : Nat, from : Nat, to : Nat]
Entry == [doc : Docs, text : Seq(Runes), chunk : Chunk]

Points == {"idle", "queued", "load", "remove", "unlist", "split",
           "upsert", "list", "report", "ended", "lost"}
JobState == [pc : Points, id : Nat, doc : Docs, text : Seq(Runes), start : Nat,
             ordinal : Nat, chunks : SUBSET Chunk, direct : BOOLEAN, outcome : Statuses]

At(j, point) == job[j].pc = point
Becomes(j, state) == job' = [job EXCEPT ![j] = state]

(* Between its first and its last change of an index. *)
Adding(d) ==
    {j \in Jobs : job[j].doc = d
                  /\ job[j].pc \in {"unlist", "split", "upsert", "list"}}

(* The entries of a document in an index. *)
Of(index, d) == {e \in index : e.doc = d}

(* A chunk's ID is made of its document's and its ordinal. *)
SameKey(e, f) == e.doc = f.doc /\ e.chunk.ordinal = f.chunk.ordinal

(* Variant of Put whose keys tell the texts of chunks apart. *)
PutBeside(index, entries) == index \cup entries

(* i.entries and i.chunks are maps: what is put under a key replaces what was *)
(* there.                                                                    *)
Put(index, entries) ==
    {e \in index : \A f \in entries : ~SameKey(e, f)} \cup entries
Without(index, d) == index \ Of(index, d)

Entries(j) ==
    {[doc |-> job[j].doc, text |-> job[j].text, chunk |-> c] : c \in job[j].chunks}

Fresh == [added |-> {}, failed |-> FALSE, overlapped |-> FALSE]

Init ==
    /\ persistent \in BOOLEAN
    /\ vector = {} /\ disk = {} /\ lexical = {}
    /\ records = [i \in Ids |-> "none"]
    /\ clock = 0
    /\ versions = [d \in Docs |-> <<>>]
    /\ job \in [Jobs -> {[pc |-> "idle", id |-> 0, doc |-> d, text |-> <<>>, start |-> 0,
                          ordinal |-> 0, chunks |-> {}, direct |-> FALSE,
                          outcome |-> "none"] : d \in Docs}]
    /\ restarts = 0
    /\ era = [d \in Docs |-> Fresh]

-----------------------------------------------------------------------------
(* A job id is made of the time in nanoseconds, which two calls may share.   *)
Submit(j) ==
    /\ At(j, "idle")
    /\ \E now \in {clock, clock + 1} \cap Ids :
          /\ clock' = now
          /\ records' = [records EXCEPT ![now] = "queued"]
          /\ Becomes(j, [job[j] EXCEPT !.pc = "queued", !.id = now])
    /\ UNCHANGED <<persistent, indexes, versions, restarts, era>>

Run(j) ==
    /\ At(j, "queued")
    /\ records' = [records EXCEPT ![job[j].id] = "running"]
    /\ Becomes(j, [job[j] EXCEPT !.pc = "load"])
    /\ UNCHANGED <<persistent, indexes, clock, versions, restarts, era>>

(* What the loader finds is kept as a new version unless it is what the last  *)
(* version holds.                                                            *)
Load(j) ==
    /\ At(j, "load")
    /\ \E t \in Texts :
          LET list == versions[job[j].doc]
          IN  /\ versions' = IF list # <<>> /\ list[Len(list)] = t THEN versions
                             ELSE [versions EXCEPT ![job[j].doc] = Append(list, t)]
              /\ Becomes(j, [job[j] EXCEPT !.pc = "remove", !.text = t])
    /\ UNCHANGED <<persistent, indexes, records, clock, restarts, era>>

LoadFails(j) ==
    /\ At(j, "load")
    /\ Becomes(j, [job[j] EXCEPT !.pc = "report", !.outcome = "failed"])
    /\ UNCHANGED <<persistent, indexes, importer, restarts, era>>

-----------------------------------------------------------------------------
(* HybridIndex.Add *)

Goes(j, point) == Becomes(j, [job[j] EXCEPT !.pc = point])

(* Add returns: to AsyncImporter.run, or to its caller. *)
Returns(j, outcome) ==
    Becomes(j, [job[j] EXCEPT !.pc = IF job[j].direct THEN "ended" ELSE "report",
                          !.outcome = outcome])

Fails(j) ==
    /\ Returns(j, "failed")
    /\ era' = [era EXCEPT ![job[j].doc].failed = TRUE]

(* The vector index becomes v and, when it has a file, writes it: the file is *)
(* replaced as a whole by a rename, or the write fails and it stays.          *)
Stored(v) == vector' = v /\ disk' = IF persistent THEN v ELSE disk
StoreFails(v) == persistent /\ vector' = v /\ disk' = disk

(* An Add that starts while no other is changing the document opens an era.  *)
EraOf(j, failed) ==
    LET d == job[j].doc
    IN  IF Adding(d) = {} THEN [Fresh EXCEPT !.failed = failed]
        ELSE [era[d] EXCEPT !.overlapped = TRUE, !.failed = @ \/ failed]

RemoveVectors(j) ==
    /\ At(j, "remove")
    /\ Stored(Without(vector, job[j].doc))
    /\ Goes(j, "unlist")
    /\ era' = [era EXCEPT ![job[j].doc] = EraOf(j, FALSE)]
    /\ UNCHANGED <<persistent, lexical, importer, restarts>>

RemoveVectorsFails(j) ==
    /\ At(j, "remove")
    /\ StoreFails(Without(vector, job[j].doc))
    /\ Returns(j, "failed")
    /\ era' = [era EXCEPT ![job[j].doc] = EraOf(j, TRUE)]
    /\ UNCHANGED <<persistent, lexical, importer, restarts>>

(* Variant of RemoveLexical that leaves the lexical index as it is. *)
RemoveLexicalNot(j) ==
    /\ At(j, "unlist")
    /\ Becomes(j, [job[j] EXCEPT !.pc = "split", !.start = 0, !.ordinal = 0,
                                 !.chunks = {}])
    /\ UNCHANGED <<persistent, indexes, importer, restarts, era>>

RemoveLexical(j) ==
    /\ At(j, "unlist")
    /\ lexical' = Without(lexical, job[j].doc)
    /\ Becomes(j, [job[j] EXCEPT !.pc = "split", !.start = 0, !.ordinal = 0,
                                 !.chunks = {}])
    /\ UNCHANGED <<persistent, vector, disk, importer, restarts, era>>

SplitRefused(j) ==
    /\ At(j, "split")
    /\ job[j].text = <<>>
    /\ Fails(j)
    /\ UNCHANGED <<persistent, indexes, importer, restarts>>

(* One iteration of SplitDocument's loop, with the default options. *)
Split(j) ==
    LET text == job[j].text
        start == job[j].start
        end == EndOf(text, start, MaxCharacters)
        chunk == [ordinal |-> job[j].ordinal, from |-> start + 1, to |-> end]
        chunks == IF Blank(text, start, end) THEN job[j].chunks
                  ELSE job[j].chunks \cup {chunk}
    IN  /\ At(j, "split")
        /\ text # <<>>
        /\ \/ /\ end = Len(text)
              /\ Becomes(j, [job[j] EXCEPT !.pc = "upsert", !.chunks = chunks])
           \/ /\ end # Len(text)
              /\ Becomes(j, [job[j] EXCEPT !.chunks = chunks, !.start = NextStart(end, 0),
                                           !.ordinal = job[j].ordinal + 1])
        /\ UNCHANGED <<persistent, indexes, importer, restarts, era>>

(* Variant of EmbedFails that drops the error. *)
EmbedFailsUnseen(j) ==
    /\ At(j, "upsert")
    /\ Returns(j, "completed")
    /\ era' = [era EXCEPT ![job[j].doc].added = @ \cup {Entries(j)}]
    /\ UNCHANGED <<persistent, indexes, importer, restarts>>

EmbedFails(j) ==
    /\ At(j, "upsert")
    /\ Fails(j)
    /\ UNCHANGED <<persistent, indexes, importer, restarts>>

(* The embedding model answers, and the vectors are stored. *)
Upsert(j) ==
    /\ At(j, "upsert")
    /\ Stored(Put(vector, Entries(j)))
    /\ Goes(j, "list")
    /\ UNCHANGED <<persistent, lexical, importer, restarts, era>>

UpsertFails(j) ==
    /\ At(j, "upsert")
    /\ StoreFails(Put(vector, Entries(j)))
    /\ Fails(j)
    /\ UNCHANGED <<persistent, lexical, importer, restarts>>

(* An embedding that is empty or zero, of the chunk with ordinal n: the index *)
(* in memory looks at all of them first, the one with a file as it goes.      *)
UpsertRefused(j) ==
    /\ At(j, "upsert")
    /\ \E c \in job[j].chunks :
          LET before == {e \in Entries(j) : e.chunk.ordinal < c.ordinal}
          IN  vector' = IF persistent THEN Put(vector, before) ELSE vector
    /\ Fails(j)
    /\ UNCHANGED <<persistent, disk, lexical, importer, restarts>>

AddLexical(j) ==
    /\ At(j, "list")
    /\ lexical' = Put(lexical, Entries(j))
    /\ Returns(j, "completed")
    /\ era' = [era EXCEPT ![job[j].doc].added = @ \cup {Entries(j)}]
    /\ UNCHANGED <<persistent, vector, disk, importer, restarts>>

(* The caller's context ends: every operation on an index looks at it first. *)
ContextEnds(j) ==
    /\ job[j].direct
    /\ \/ /\ At(j, "remove")
          /\ Returns(j, "failed")
          /\ UNCHANGED era
       \/ /\ job[j].pc \in {"unlist", "upsert", "list"}
          /\ Fails(j)
    /\ UNCHANGED <<persistent, indexes, importer, restarts>>

Add(j) ==
    \/ RemoveVectors(j) \/ RemoveVectorsFails(j) \/ RemoveLexical(j)
    \/ SplitRefused(j) \/ Split(j)
    \/ EmbedFails(j) \/ Upsert(j) \/ UpsertFails(j) \/ UpsertRefused(j)
    \/ AddLexical(j)

-----------------------------------------------------------------------------
(* Variant of Report that tells of success only. *)
ReportSuccess(j) ==
    /\ At(j, "report")
    /\ records' = IF job[j].outcome = "failed" THEN records
                  ELSE [records EXCEPT ![job[j].id] = job[j].outcome]
    /\ Goes(j, "ended")
    /\ UNCHANGED <<persistent, indexes, clock, versions, restarts, era>>

Report(j) ==
    /\ At(j, "report")
    /\ records' = [records EXCEPT ![job[j].id] = job[j].outcome]
    /\ Goes(j, "ended")
    /\ UNCHANGED <<persistent, indexes, clock, versions, restarts, era>>

(* A call of Add with a document of the caller's. *)
Call(j) ==
    /\ At(j, "idle")
    /\ \E t \in Texts :
          Becomes(j, [job[j] EXCEPT !.pc = "remove", !.text = t, !.direct = TRUE])
    /\ UNCHANGED <<persistent, indexes, importer, restarts, era>>

(* The process dies at any point and is started again: OpenFileVectorIndex    *)
(* reads the file, and NewPersistentHybridIndex fills the lexical index from  *)
(* it.  Without a file everything starts empty.                              *)
Restart ==
    /\ restarts < MaxRestarts
    /\ restarts' = restarts + 1
    /\ vector' = disk /\ lexical' = disk
    /\ records' = [i \in Ids |-> "none"]
    /\ versions' = [d \in Docs |-> <<>>]
    /\ job' = [j \in Jobs |-> IF job[j].pc \in {"idle", "ended"} THEN job[j]
                              ELSE [job[j] EXCEPT !.pc = "lost"]]
    /\ era' = [d \in Docs |->
                  IF persistent THEN [era[d] EXCEPT !.failed = @ \/ Adding(d) # {}]
                  ELSE Fresh]
    /\ UNCHANGED <<persistent, disk, clock>>

Works(j) == Run(j) \/ Load(j) \/ LoadFails(j) \/ Add(j) \/ Report(j)

Next ==
    \/ \E j \in Jobs : Submit(j) \/ Call(j) \/ Works(j) \/ ContextEnds(j)
    \/ Restart

Spec == Init /\ [][Next]_vars

(* Goroutines are scheduled; the loader and the embedding model return.       *)
FairSpec ==
    /\ Spec
    /\ \A j \in Jobs : WF_vars(Works(j))

-----------------------------------------------------------------------------
(* The variables' types; an index holds one entry per key, and the splitting  *)
(* loop is only entered before the end of its text.                          *)
OnePerKey(index) == \A e, f \in index : SameKey(e, f) => e = f

TypeOK ==
    /\ persistent \in BOOLEAN
    /\ vector \subseteq Entry /\ OnePerKey(vector)
    /\ disk \subseteq Entry /\ OnePerKey(disk)
    /\ lexical \subseteq Entry /\ OnePerKey(lexical)
    /\ records \in [Ids -> Statuses]
    /\ clock \in Ids
    /\ versions \in [Docs -> Seq(Texts)]
    /\ job \in [Jobs -> JobState]
    /\ \A j \in Jobs : At(j, "split") /\ job[j].text # <<>>
                           => job[j].start < Len(job[j].text)
    /\ restarts \in 0..MaxRestarts
    /\ era \in [Docs -> [added : SUBSET SUBSET Entry, failed : BOOLEAN,
                         overlapped : BOOLEAN]]

(* Every rune of a document that is not white space is in exactly one of the  *)
(* chunks that are embedded and stored for it, and no chunk is longer than    *)
(* the limit (SplitDocument, with boundaries anywhere in the text).           *)
Holds(c, i) == c.from <= i /\ i <= c.to

Covered(state) ==
    /\ \A i \in 1..Len(state.text) : state.text[i] # "space" =>
          \E c \in state.chunks : Holds(c, i)
    /\ \A c, d \in state.chunks, i \in 1..Len(state.text) :
          Holds(c, i) /\ Holds(d, i) => c = d
    /\ \A c, d \in state.chunks : c.ordinal = d.ordinal => c = d
    /\ \A c \in state.chunks : c.to - c.from < MaxCharacters

ChunksCover == \A j \in Jobs : job[j].pc \in {"upsert", "list"} => Covered(job[j])

(* Nobody is changing the document, and no Add of its era has failed. *)
Settled(d) == Adding(d) = {} /\ ~era[d].failed

(* A document whose last Add succeeded, with no other Add of it at the same   *)
(* time, is in both indexes with exactly the chunks of that Add, nothing is   *)
(* left of earlier ones, and its file says so too: through failing Adds and   *)
(* failing writes of other documents, and through restarts.                   *)
CurrentIndexed ==
    \A d \in Docs : Settled(d) /\ ~era[d].overlapped =>
        \A entries \in era[d].added :
            /\ Of(vector, d) = entries
            /\ Of(lexical, d) = entries
            /\ persistent => Of(disk, d) = entries

(* Adds of one document that overlap may mix their chunks, but when all of    *)
(* them have succeeded all chunks of one of them are in each index.           *)
OverlapKeepsOne ==
    \A d \in Docs : Settled(d) /\ era[d].added # {} =>
        /\ \E entries \in era[d].added : entries \subseteq vector
        /\ \E entries \in era[d].added : entries \subseteq lexical
        /\ persistent => \E entries \in era[d].added : entries \subseteq disk

(* A job that was accepted is reported as completed or failed, whatever step  *)
(* of it fails, unless the process dies.                                      *)
JobsEnd ==
    \A j \in Jobs : At(j, "queued") ~>
        \/ At(j, "lost")
        \/ At(j, "ended") /\ records[job[j].id] \in {"completed", "failed"}
=============================================================================
