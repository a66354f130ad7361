----------------------------- MODULE KnowledgeBase -----------------------------
(***************************************************************************)
(* KnowledgeBaseService (kb.py): a JSON file that describes the knowledge  *)
(* bases, and one vector collection for each of them in Qdrant.            *)
(*                                                                         *)
(* A handler reads the file, works on what it has read, and writes it back *)
(* at the end.  The handlers are coroutines that never await in between,   *)
(* so one job runs at a time; but it changes collection and file one after *)
(* the other, and it may fail, or the process may be killed, after each    *)
(* step.  The uploaded files themselves are written and never read.        *)
(***************************************************************************)
EXTENDS Naturals

CONSTANTS
  KBs,           \* ids of knowledge bases
  Files,         \* ids of uploads
  Textless,      \* those whose document has no text, and so no chunks
  Models,        \* embedding models
  DefaultModel,  \* "text-embedding-v4"
  NoModel,       \* the empty string: the field of the form was cleared
  Choices,       \* what the users write into that field
  Size,          \* the length of the vectors of each model
  Null           \* Python's None; also a job, a collection or a file there is none of

ASSUME FilesAssumption == Textless \subseteq Files
ASSUME ModelsAssumption ==
  /\ DefaultModel \in Models /\ NoModel \notin Models
  /\ Choices \subseteq Models \cup {NoModel}
  /\ Size \in [Models -> Nat \ {0}]

VARIABLES
  disk,        \* what knowledge_bases.json says of each id, or Null while it is torn
  collection,  \* the collection of each id, or Null
  job          \* the handler at work, or Null

vars == <<disk, collection, job>>

\* The vectors of one upload, and the model that made them.
Point == [file : Files, model : Models]
Collection == [size : Nat, points : SUBSET Point]

\* An id that was never created is Null in a store.
KB == [embedding_model : Models \cup {NoModel}, vector_size : Nat \cup {Null},
       documents : SUBSET Files]
Store == [KBs -> KB \cup {Null}]

\* _get_kb_embeddings.
Effective(kb) == IF kb.embedding_model = NoModel THEN DefaultModel ELSE kb.embedding_model
SizeOf(kb) == Size[Effective(kb)]

Init ==
  /\ disk = [k \in KBs |-> Null]
  /\ collection = [k \in KBs |-> Null]
  /\ job = Null

----------------------------------------------------------------------------
(* A job holds the store it has read, and has changed since.               *)

Save(store) == [step |-> "save", store |-> store]
Upload(step, k, f, store) == [step |-> step, kb |-> k, file |-> f, store |-> store]

\* _read_store raises when the file is torn: then no handler gets anywhere.
Idle == job = Null /\ disk # Null
Known(k) == disk[k] # Null
At(step) == job # Null /\ job.step = step

CreateKB(k, choice) ==
  /\ Idle /\ ~Known(k)
  /\ job' = Save([disk EXCEPT ![k] =
       [embedding_model |-> choice, vector_size |-> Null, documents |-> {}]])
  /\ UNCHANGED <<disk, collection>>

\* Mutant: another model, the old vectors.
Configured_KeepsVectors(kb, choice) == [kb EXCEPT !.embedding_model = choice]

\* Mutant: the size is reset to the empty string.
Configured_EmptySize(kb, choice) ==
  [kb EXCEPT !.embedding_model = choice,
             !.vector_size = IF choice # NoModel /\ choice # kb.embedding_model
                             THEN NoModel ELSE @]

\* update_kb, as far as the vectors are concerned.
Configured(kb, choice) ==
  [kb EXCEPT !.embedding_model = choice,
             !.vector_size = IF choice # NoModel /\ choice # kb.embedding_model
                             THEN Null ELSE @]

UpdateKB(k, choice) ==
  /\ Idle /\ Known(k)
  /\ job' = Save([disk EXCEPT ![k] = Configured(@, choice)])
  /\ UNCHANGED <<disk, collection>>

\* recall_test: a search, and counters in the file.
RecallTest(k) ==
  /\ Idle /\ Known(k) /\ disk[k].vector_size # Null
  /\ collection[k] # Null /\ collection[k].size = SizeOf(disk[k])
  /\ job' = Save(disk)
  /\ UNCHANGED <<disk, collection>>

\* add_document up to the vectors; f was never used, file ids being random.
Unused(f) ==
  /\ \A k \in KBs : Known(k) => f \notin disk[k].documents
  /\ \A k \in KBs : collection[k] # Null => \A p \in collection[k].points : p.file # f

AddDocument(k, f) ==
  /\ Idle /\ Known(k) /\ Unused(f)
  /\ job' = Upload("embedded", k, f, disk)
  /\ UNCHANGED <<disk, collection>>

\* Mutant: the collection is always made anew.
DropCollection_Always ==
  /\ At("embedded")
  /\ collection' = [collection EXCEPT ![job.kb] = Null]
  /\ job' = [job EXCEPT !.step = "dropped"]
  /\ UNCHANGED disk

\* Vectors of another length than the collection's: recreate_collection.
DropCollection ==
  /\ At("embedded")
  /\ job.store[job.kb].vector_size # SizeOf(job.store[job.kb])
  /\ collection' = [collection EXCEPT ![job.kb] = Null]
  /\ job' = [job EXCEPT !.step = "dropped"]
  /\ UNCHANGED disk

MakeCollection ==
  /\ At("dropped")
  /\ collection' = [collection EXCEPT ![job.kb] =
                      [size |-> SizeOf(job.store[job.kb]), points |-> {}]]
  /\ job' = [job EXCEPT !.step = "embedded",
                        !.store[job.kb].vector_size = SizeOf(job.store[job.kb])]
  /\ UNCHANGED disk

Listed(store, k, f) == [store EXCEPT ![k].documents = @ \cup {f}]

\* The points of an upload.
PointsOf(f, kb) == IF f \in Textless THEN {} ELSE {[file |-> f, model |-> Effective(kb)]}

\* Mutant: a collection of another size is never recreated.
Upsert_AnySize ==
  /\ At("embedded")
  /\ collection[job.kb] # Null
  /\ collection' = [collection EXCEPT ![job.kb].points =
                      @ \cup PointsOf(job.file, job.store[job.kb])]
  /\ job' = Save([Listed(job.store, job.kb, job.file) EXCEPT
                   ![job.kb].vector_size = SizeOf(job.store[job.kb])])
  /\ UNCHANGED disk

\* The chunks go into the collection, and the document into the list.
Upsert ==
  /\ At("embedded")
  /\ job.store[job.kb].vector_size = SizeOf(job.store[job.kb])
  /\ collection[job.kb] # Null /\ collection[job.kb].size = SizeOf(job.store[job.kb])
  /\ collection' = [collection EXCEPT ![job.kb].points =
                      @ \cup PointsOf(job.file, job.store[job.kb])]
  /\ job' = Save(Listed(job.store, job.kb, job.file))
  /\ UNCHANGED disk

\* _write_store: the file is truncated, then written.
Truncate ==
  /\ At("save")
  /\ disk' = Null
  /\ job' = [job EXCEPT !.step = "write"]
  /\ UNCHANGED collection

Write ==
  /\ At("write")
  /\ disk' = job.store
  /\ job' = Null
  /\ UNCHANGED collection

\* A call fails and the handler answers 500, or the process dies and is restarted.
Abandon ==
  /\ job # Null
  /\ job' = Null
  /\ UNCHANGED <<disk, collection>>

Next ==
  \/ \E k \in KBs : \/ \E choice \in Choices : CreateKB(k, choice) \/ UpdateKB(k, choice)
                    \/ RecallTest(k)
                    \/ \E f \in Files : AddDocument(k, f)
  \/ DropCollection
  \/ MakeCollection
  \/ Upsert
  \/ Truncate
  \/ Write
  \/ Abandon

Spec == Init /\ [][Next]_vars

----------------------------------------------------------------------------
Job == [step : {"save", "write"}, store : Store]
         \cup [step : {"embedded", "dropped"}, kb : KBs, file : Files, store : Store]

ASSUME NullAssumption ==
  /\ Null \notin KB /\ Null \notin Store /\ Null \notin Collection /\ Null \notin Job
  /\ Null \notin Nat

\* Every variable has its type.
KBTypeOK ==
  /\ disk \in Store \cup {Null}
  /\ collection \in [KBs -> Collection \cup {Null}]
  /\ job \in Job \cup {Null}

----------------------------------------------------------------------------
(* What a search relies on.  search_kbs takes the knowledge bases whose     *)
(* vector_size is set, and raises, failing the agent that asked, when one   *)
(* of them cannot be searched.                                             *)

Searched(k) == disk # Null /\ disk[k] # Null /\ disk[k].vector_size # Null

\* The collection of a knowledge base that is searched exists and takes the vectors of
\* the query, whatever failed and however often the model was changed.
SearchesSucceed ==
  \A k \in KBs : Searched(k) =>
    /\ collection[k] # Null
    /\ collection[k].size = SizeOf(disk[k])

\* A query is compared with vectors of its own model only.
VectorsOfOneModel ==
  \A k \in KBs : Searched(k) /\ collection[k] # Null =>
    \A p \in collection[k].points : p.model = Effective(disk[k])

\* While a knowledge base is searched, nothing that can be found is lost.
VectorsAreKept ==
  [][\A k \in KBs : Searched(k) /\ collection[k] # Null =>
       collection'[k] # Null /\ collection[k].points \subseteq collection'[k].points]_vars

=============================================================================
