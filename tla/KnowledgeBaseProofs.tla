-------------------------- MODULE KnowledgeBaseProofs --------------------------
(***************************************************************************)
(* What the file says of a knowledge base agrees with its collection,      *)
(* whatever fails: for any knowledge bases, uploads and models.            *)
(***************************************************************************)
EXTENDS KnowledgeBase, TLAPS

Uploading == job # Null /\ job.step \in {"embedded", "dropped"}

\* An upload is for a knowledge base the file knows.
UploadKnown ==
  Uploading => disk # Null /\ disk[job.kb] # Null /\ job.store[job.kb] # Null

TypeInv == KBTypeOK /\ UploadKnown

\* The description kb of a knowledge base agrees with the collection c: once it has a
\* size, c exists with that size and holds vectors of its model only.
Sound(kb, c) ==
  kb # Null /\ kb.vector_size # Null =>
    /\ kb.vector_size = SizeOf(kb)
    /\ c # Null
    /\ c.size = SizeOf(kb)
    /\ \A p \in c.points : p.model = Effective(kb)

DiskSound == disk # Null => \A k \in KBs : Sound(disk[k], collection[k])
StoreSound == job # Null => \A k \in KBs : Sound(job.store[k], collection[k])

\* An upload works with the model of the file, and drops the collection only if the file
\* gives it no size.
UploadFollows ==
  Uploading =>
    /\ job.store[job.kb].embedding_model = disk[job.kb].embedding_model
    /\ disk[job.kb].vector_size # Null => job.store[job.kb].vector_size # Null
    /\ job.step = "dropped" => job.store[job.kb].vector_size = Null

KBInv == TypeInv /\ DiskSound /\ StoreSound /\ UploadFollows

----------------------------------------------------------------------------
(* Types. *)

\* The size of the vectors of a knowledge base is a positive number, kb.py:220-222.
LEMMA SizeOfType ==
  ASSUME NEW kb \in KB
  PROVE  Effective(kb) \in Models /\ SizeOf(kb) \in Nat /\ SizeOf(kb) # Null
BY ModelsAssumption, NullAssumption DEF Effective, SizeOf, KB

\* A job has a store and a step; one that uploads has a knowledge base and a file.
LEMMA JobType ==
  ASSUME KBTypeOK, job # Null
  PROVE  /\ job.store \in Store
         /\ job.step \in {"save", "write"} =>
              job \in [step : {"save", "write"}, store : Store]
         /\ job.step \in {"embedded", "dropped"} =>
              job \in [step : {"embedded", "dropped"}, kb : KBs, file : Files,
                       store : Store]
         /\ job.step \in {"save", "write", "embedded", "dropped"}
BY DEF KBTypeOK, Job

\* What an upload has: its knowledge base is described on disk and in its store.
LEMMA UploadType ==
  ASSUME TypeInv, Uploading
  PROVE  /\ job \in [step : {"embedded", "dropped"}, kb : KBs, file : Files,
                     store : Store]
         /\ disk \in Store /\ disk[job.kb] \in KB /\ job.store[job.kb] \in KB
BY JobType DEF TypeInv, KBTypeOK, Uploading, UploadKnown, Store

\* Creating, changing and testing a knowledge base give the file's types to the job.
LEMMA SavedType ==
  ASSUME KBTypeOK, NEW store \in Store, job' = Save(store), UNCHANGED <<disk, collection>>
  PROVE  TypeInv' /\ job' \in Job
BY DEF TypeInv, KBTypeOK, Job, Save, UploadKnown, Uploading

\* Each step of a handler keeps the types and the knowledge base of an upload.
LEMMA TypeStep == TypeInv /\ [Next]_vars => TypeInv'
<1> SUFFICES ASSUME TypeInv, [Next]_vars PROVE TypeInv'
  OBVIOUS
<1>k. KBTypeOK
  BY DEF TypeInv
<1>1. ASSUME NEW k \in KBs, NEW choice \in Choices, CreateKB(k, choice) PROVE TypeInv'
  <2>1. disk \in Store
    BY <1>1, <1>k DEF CreateKB, Idle, KBTypeOK
  <2>2. [embedding_model |-> choice, vector_size |-> Null, documents |-> {}] \in KB
    BY ModelsAssumption DEF KB
  <2>3. [disk EXCEPT ![k] = [embedding_model |-> choice, vector_size |-> Null,
                             documents |-> {}]] \in Store
    BY <2>1, <2>2 DEF Store
  <2> QED BY <1>1, <1>k, <2>3, SavedType DEF CreateKB
<1>2. ASSUME NEW k \in KBs, NEW choice \in Choices, UpdateKB(k, choice) PROVE TypeInv'
  <2>1. disk \in Store /\ disk[k] \in KB
    BY <1>2, <1>k DEF UpdateKB, Idle, Known, KBTypeOK, Store
  <2>2. Configured(disk[k], choice) \in KB
    BY <2>1, ModelsAssumption DEF KB, Configured
  <2>3. [disk EXCEPT ![k] = Configured(disk[k], choice)] \in Store
    BY <2>1, <2>2 DEF Store
  <2> QED BY <1>2, <1>k, <2>3, SavedType DEF UpdateKB
<1>3. ASSUME NEW k \in KBs, RecallTest(k) PROVE TypeInv'
  <2>1. disk \in Store
    BY <1>3, <1>k DEF RecallTest, Idle, KBTypeOK
  <2> QED BY <1>3, <1>k, <2>1, SavedType DEF RecallTest
<1>4. ASSUME NEW k \in KBs, NEW f \in Files, AddDocument(k, f) PROVE TypeInv'
  BY <1>4, <1>k DEF TypeInv, KBTypeOK, Job, AddDocument, Upload, Idle, Known,
                    UploadKnown, Uploading
<1>5. CASE DropCollection
  <2>1. Uploading /\ job.kb \in KBs
    BY <1>5, UploadType DEF DropCollection, At, Uploading
  <2>2. job' \in Job /\ job'.kb = job.kb /\ job'.store = job.store
    BY <1>5, <2>1, UploadType DEF DropCollection, Job
  <2>3. collection' \in [KBs -> Collection \cup {Null}]
    BY <1>5, <1>k, <2>1 DEF DropCollection, KBTypeOK
  <2> QED BY <1>5, <1>k, <2>1, <2>2, <2>3
             DEF TypeInv, KBTypeOK, DropCollection, UploadKnown, Uploading
<1>6. CASE MakeCollection
  <2> DEFINE k == job.kb
             kb == job.store[k]
             n == SizeOf(kb)
  <2>1. Uploading
    BY <1>6 DEF MakeCollection, At, Uploading
  <2>2. kb \in KB /\ k \in KBs /\ n \in Nat /\ job.store \in Store
    BY <2>1, UploadType, SizeOfType
  <2>3. [kb EXCEPT !.vector_size = n] \in KB
    BY <2>2 DEF KB
  <2>4. [job.store EXCEPT ![k] = [kb EXCEPT !.vector_size = n]] \in Store
    BY <2>2, <2>3 DEF Store
  <2>5. /\ job'.kb = k /\ job'.step = "embedded" /\ job' \in Job
        /\ job'.store = [job.store EXCEPT ![k] = [kb EXCEPT !.vector_size = n]]
    BY <1>6, <2>1, <2>4, UploadType DEF MakeCollection, Job
  <2>6. [size |-> n, points |-> {}] \in Collection
    BY <2>2 DEF Collection
  <2>7. collection' \in [KBs -> Collection \cup {Null}]
    BY <1>6, <1>k, <2>6 DEF MakeCollection, KBTypeOK
  <2>8. job'.store[k] # Null
    BY <2>2, <2>3, <2>5, NullAssumption DEF Store
  <2> QED BY <1>6, <1>k, <2>1, <2>5, <2>7, <2>8
             DEF TypeInv, KBTypeOK, MakeCollection, UploadKnown, Uploading
<1>7. CASE Upsert
  <2> DEFINE k == job.kb
             kb == job.store[k]
             c == collection[k]
  <2>1. Uploading
    BY <1>7 DEF Upsert, At, Uploading
  <2>2. kb \in KB /\ k \in KBs /\ job.store \in Store /\ job.file \in Files
    BY <2>1, UploadType
  <2>3. c \in Collection /\ collection \in [KBs -> Collection \cup {Null}]
    BY <1>7, <1>k, <2>2 DEF Upsert, KBTypeOK
  <2>4. PointsOf(job.file, kb) \subseteq Point
    BY <2>2, SizeOfType DEF PointsOf, Point
  <2>5. [c EXCEPT !.points = @ \cup PointsOf(job.file, kb)] \in Collection
    BY <2>3, <2>4 DEF Collection
  <2>6. collection' \in [KBs -> Collection \cup {Null}]
    BY <1>7, <2>2, <2>3, <2>5 DEF Upsert
  <2>7. [kb EXCEPT !.documents = @ \cup {job.file}] \in KB
    BY <2>2 DEF KB
  <2>8. Listed(job.store, k, job.file) \in Store
    BY <2>2, <2>7 DEF Listed, Store
  <2> QED BY <1>7, <1>k, <2>6, <2>8
             DEF TypeInv, KBTypeOK, Upsert, Job, Save, UploadKnown, Uploading
<1>8. CASE Truncate
  BY <1>8, <1>k, JobType DEF TypeInv, KBTypeOK, Job, Truncate, At, UploadKnown, Uploading
<1>9. CASE Write
  BY <1>9, <1>k, JobType DEF TypeInv, KBTypeOK, Write, At, UploadKnown, Uploading
<1>10. CASE Abandon
  BY <1>10 DEF TypeInv, KBTypeOK, Abandon, UploadKnown, Uploading
<1>11. CASE UNCHANGED vars
  BY <1>11 DEF TypeInv, KBTypeOK, vars, UploadKnown, Uploading
<1> QED BY <1>1, <1>2, <1>3, <1>4, <1>5, <1>6, <1>7, <1>8, <1>9, <1>10, <1>11 DEF Next

\* The types hold at the start.
LEMMA TypeInit == Init => TypeInv
BY DEF Init, TypeInv, KBTypeOK, Store, UploadKnown, Uploading

\* The types, and that an upload is for a knowledge base the file knows, are invariant.
LEMMA TypeInvariant == Spec => []TypeInv
BY TypeInit, TypeStep, PTL DEF Spec

\* Every variable of the knowledge base service keeps its type, kb.py:285-512.
THEOREM KBTypeCorrect == Spec => []KBTypeOK
<1>1. TypeInv => KBTypeOK
  BY DEF TypeInv
<1> QED BY <1>1, TypeInvariant, PTL

----------------------------------------------------------------------------
(* File and collection.  The field of the model is never cleared: update_kb  *)
(* resets the size only for a model that is named (kb.py:387).               *)

\* Another field than model and size does not matter for agreement.
LEMMA SoundByModelAndSize ==
  ASSUME NEW kb \in KB, NEW kc \in KB, NEW c,
         kb.embedding_model = kc.embedding_model, kb.vector_size = kc.vector_size,
         Sound(kb, c)
  PROVE  Sound(kc, c)
BY NullAssumption DEF Sound, SizeOf, Effective, KB

\* Creating, changing and testing a knowledge base: the new store agrees as the file did.
LEMMA SavedSound ==
  ASSUME KBInv, TypeInv', NEW store, job' = Save(store), UNCHANGED <<disk, collection>>,
         \A k \in KBs : Sound(store[k], collection[k])
  PROVE  KBInv'
<1>1. DiskSound'
  BY DEF KBInv, DiskSound
<1>2. StoreSound'
  BY DEF StoreSound, Save
<1>3. UploadFollows'
  BY DEF UploadFollows, Uploading, Save
<1> QED BY <1>1, <1>2, <1>3 DEF KBInv

\* The agreement is kept by each step of a handler, and by its failure.
LEMMA AgreementStep ==
  ASSUME NoModel \notin Choices, KBInv, [Next]_vars
  PROVE  KBInv'
<1>t. TypeInv /\ TypeInv' /\ KBTypeOK
  BY TypeStep DEF KBInv, TypeInv
<1>1. ASSUME NEW k \in KBs, NEW choice \in Choices, CreateKB(k, choice) PROVE KBInv'
  <2> DEFINE kb == [embedding_model |-> choice, vector_size |-> Null, documents |-> {}]
  <2>1. disk \in Store /\ \A h \in KBs : Sound(disk[h], collection[h])
    BY <1>1, <1>t DEF CreateKB, Idle, KBTypeOK, KBInv, DiskSound
  <2>2. Sound(kb, collection[k])
    BY DEF Sound
  <2>3. \A h \in KBs : Sound([disk EXCEPT ![k] = kb][h], collection[h])
    BY <2>1, <2>2 DEF Store
  <2> QED BY <1>1, <1>t, <2>3, SavedSound DEF CreateKB
<1>2. ASSUME NEW k \in KBs, NEW choice \in Choices, UpdateKB(k, choice) PROVE KBInv'
  <2> DEFINE kb == disk[k]
             kc == Configured(kb, choice)
  <2>1. disk \in Store /\ kb \in KB /\ \A h \in KBs : Sound(disk[h], collection[h])
    BY <1>2, <1>t DEF UpdateKB, Idle, Known, KBTypeOK, KBInv, DiskSound, Store
  <2>2. kc \in KB
    BY <2>1, ModelsAssumption DEF KB, Configured
  <2>3. Sound(kc, collection[k])
    <3>1. CASE choice = kb.embedding_model
      <4>1. kc.embedding_model = kb.embedding_model /\ kc.vector_size = kb.vector_size
        BY <2>1, <3>1 DEF Configured, KB
      <4> QED BY <2>1, <2>2, <4>1, SoundByModelAndSize
    <3>2. CASE choice # kb.embedding_model
      <4>1. kc.vector_size = Null
        BY <2>1, <3>2, NoModel \notin Choices DEF Configured, KB
      <4> QED BY <4>1 DEF Sound
    <3> QED BY <3>1, <3>2
  <2>4. \A h \in KBs : Sound([disk EXCEPT ![k] = kc][h], collection[h])
    BY <2>1, <2>3 DEF Store
  <2> QED BY <1>2, <1>t, <2>4, SavedSound DEF UpdateKB
<1>3. ASSUME NEW k \in KBs, RecallTest(k) PROVE KBInv'
  <2>1. \A h \in KBs : Sound(disk[h], collection[h])
    BY <1>3 DEF RecallTest, Idle, KBInv, DiskSound
  <2> QED BY <1>3, <1>t, <2>1, SavedSound DEF RecallTest
<1>4. ASSUME NEW k \in KBs, NEW f \in Files, AddDocument(k, f) PROVE KBInv'
  <2>1. DiskSound' /\ StoreSound'
    BY <1>4 DEF AddDocument, Upload, Idle, KBInv, DiskSound, StoreSound
  <2>2. UploadFollows'
    BY <1>4 DEF AddDocument, Upload, UploadFollows
  <2> QED BY <1>t, <2>1, <2>2 DEF KBInv
<1>5. CASE DropCollection
  <2> DEFINE k == job.kb
  <2>1. /\ Uploading /\ k \in KBs /\ collection \in [KBs -> Collection \cup {Null}]
        /\ job.step = "embedded"
    BY <1>5, <1>t, UploadType DEF DropCollection, At, Uploading, KBTypeOK
  <2>2. job'.kb = k /\ job'.store = job.store /\ job'.step = "dropped" /\ disk' = disk
    BY <1>5, <1>t, <2>1, UploadType DEF DropCollection
  <2>3. job.store[k].vector_size = Null
    BY <1>5, <1>t, <2>1 DEF DropCollection, KBInv, StoreSound, Sound, Uploading, UploadKnown,
                            TypeInv
  <2>4. disk[k].vector_size = Null
    BY <2>1, <2>3 DEF KBInv, UploadFollows
  <2>5. \A h \in KBs \ {k} : collection'[h] = collection[h]
    BY <1>5, <2>1 DEF DropCollection
  <2>6. DiskSound'
    BY <2>2, <2>4, <2>5 DEF KBInv, DiskSound, Sound
  <2>7. StoreSound'
    BY <2>1, <2>2, <2>3, <2>5 DEF KBInv, StoreSound, Sound, Uploading
  <2>8. UploadFollows'
    BY <2>1, <2>2, <2>3, <2>4 DEF KBInv, UploadFollows
  <2> QED BY <1>t, <2>6, <2>7, <2>8 DEF KBInv
<1>6. CASE MakeCollection
  <2> DEFINE k == job.kb
             kb == job.store[k]
             n == SizeOf(kb)
             kc == [kb EXCEPT !.vector_size = n]
  <2>1. /\ Uploading /\ k \in KBs /\ collection \in [KBs -> Collection \cup {Null}]
        /\ job.step = "dropped" /\ job.store \in Store /\ kb \in KB
        /\ disk \in Store /\ disk[k] \in KB
    BY <1>6, <1>t, UploadType DEF MakeCollection, At, Uploading, KBTypeOK
  <2>2. job'.kb = k /\ job'.store = [job.store EXCEPT ![k] = kc] /\ disk' = disk
    BY <1>6, <1>t, <2>1, UploadType DEF MakeCollection
  <2>3. kc.vector_size = n /\ kc.embedding_model = kb.embedding_model /\ kc \in KB
    BY <2>1, SizeOfType DEF KB
  <2>4. disk[k].vector_size = Null
    BY <2>1 DEF KBInv, UploadFollows
  <2>5. /\ \A h \in KBs \ {k} : collection'[h] = collection[h]
        /\ collection'[k] = [size |-> n, points |-> {}]
    BY <1>6, <2>1 DEF MakeCollection
  <2>6. DiskSound'
    BY <2>2, <2>4, <2>5 DEF KBInv, DiskSound, Sound
  <2>7. Sound(kc, collection'[k])
    <3>1. SizeOf(kc) = n
      BY <2>3 DEF SizeOf, Effective
    <3>2. [size |-> n, points |-> {}] \in Collection
      BY <2>1, SizeOfType DEF Collection
    <3> QED BY <2>3, <2>5, <3>1, <3>2, NullAssumption DEF Sound
  <2>8. StoreSound'
    <3>1. \A h \in KBs \ {k} : job'.store[h] = job.store[h]
      BY <2>1, <2>2 DEF Store
    <3>2. job'.store[k] = kc
      BY <2>1, <2>2 DEF Store
    <3> QED BY <2>1, <2>5, <2>7, <3>1, <3>2 DEF KBInv, StoreSound, Uploading
  <2>9. UploadFollows'
    <3>1. job'.step = "embedded"
      BY <1>6, <1>t, <2>1, UploadType DEF MakeCollection
    <3>2. job'.store[k] = kc
      BY <2>1, <2>2 DEF Store
    <3> QED BY <2>1, <2>2, <2>3, <2>4, <3>1, <3>2 DEF KBInv, UploadFollows
  <2> QED BY <1>t, <2>6, <2>8, <2>9 DEF KBInv
<1>7. CASE Upsert
  <2> DEFINE k == job.kb
             kb == job.store[k]
             c == collection[k]
             kc == [kb EXCEPT !.documents = @ \cup {job.file}]
  <2>1. /\ Uploading /\ k \in KBs /\ collection \in [KBs -> Collection \cup {Null}]
        /\ job.store \in Store /\ kb \in KB /\ disk \in Store /\ disk[k] \in KB
    BY <1>7, <1>t, UploadType DEF Upsert, At, Uploading, KBTypeOK
  <2>2. c \in Collection /\ c # Null
    BY <1>7, <2>1 DEF Upsert
  <2>3. /\ \A h \in KBs \ {k} : collection'[h] = collection[h]
        /\ collection'[k] = [c EXCEPT !.points = @ \cup PointsOf(job.file, kb)]
    BY <1>7, <2>1 DEF Upsert
  <2>4. /\ collection'[k] # Null /\ collection'[k].size = c.size
        /\ collection'[k].points = c.points \cup PointsOf(job.file, kb)
    <3>1. PointsOf(job.file, kb) \subseteq Point
      BY <1>t, <2>1, SizeOfType, UploadType DEF PointsOf, Point
    <3>2. collection'[k] \in Collection
      BY <2>2, <2>3, <3>1 DEF Collection
    <3> QED BY <2>2, <2>3, <3>2, NullAssumption DEF Collection
  <2>5. \A p \in PointsOf(job.file, kb) : p.model = Effective(kb)
    BY DEF PointsOf
  <2>6. Effective(disk[k]) = Effective(kb)
    BY <2>1 DEF KBInv, UploadFollows, Effective
  <2>7. DiskSound'
    <3>1. disk' = disk /\ disk # Null
      BY <1>7, <2>1 DEF Upsert, KBInv, TypeInv, UploadKnown
    <3>2. Sound(disk[k], collection'[k])
      BY <2>1, <2>4, <2>5, <2>6, <3>1 DEF KBInv, DiskSound, Sound
    <3> QED BY <2>3, <3>1, <3>2 DEF KBInv, DiskSound
  <2>8. kc \in KB /\ kc.embedding_model = kb.embedding_model /\ kc.vector_size = kb.vector_size
    BY <1>t, <2>1, UploadType DEF KB
  <2>9. Sound(kb, collection'[k])
    BY <2>1, <2>4, <2>5 DEF KBInv, StoreSound, Sound, Uploading
  <2>10. Sound(kc, collection'[k])
    BY <2>1, <2>8, <2>9, SoundByModelAndSize
  <2>11. StoreSound'
    <3>1. job' = Save(Listed(job.store, k, job.file))
      BY <1>7 DEF Upsert
    <3>2. job'.store = [job.store EXCEPT ![k] = kc]
      BY <3>1 DEF Save, Listed
    <3>3. job'.store[k] = kc /\ \A h \in KBs \ {k} : job'.store[h] = job.store[h]
      BY <2>1, <3>2 DEF Store
    <3> QED BY <2>1, <2>3, <2>10, <3>3 DEF KBInv, StoreSound, Uploading
  <2>12. UploadFollows'
    BY <1>7 DEF Upsert, Save, UploadFollows, Uploading
  <2> QED BY <1>t, <2>7, <2>11, <2>12 DEF KBInv
<1>8. CASE Truncate
  <2>1. job # Null /\ job'.store = job.store /\ job'.step = "write" /\ disk' = Null
        /\ collection' = collection
    BY <1>8, <1>t, JobType DEF Truncate, At
  <2> QED BY <1>t, <2>1 DEF KBInv, DiskSound, StoreSound, UploadFollows, Uploading
<1>9. CASE Write
  BY <1>9, <1>t DEF Write, At, KBInv, DiskSound, StoreSound, UploadFollows, Uploading
<1>10. CASE Abandon
  BY <1>10, <1>t DEF Abandon, KBInv, DiskSound, StoreSound, UploadFollows, Uploading
<1>11. CASE UNCHANGED vars
  BY <1>11, <1>t DEF vars, KBInv, DiskSound, StoreSound, UploadFollows, Uploading
<1> QED BY <1>1, <1>2, <1>3, <1>4, <1>5, <1>6, <1>7, <1>8, <1>9, <1>10, <1>11 DEF Next

\* At the start there is nothing to agree.
LEMMA AgreementInit == Init => KBInv
BY TypeInit DEF Init, KBInv, DiskSound, StoreSound, UploadFollows, Uploading, Sound

\* The inductive invariant: file, collection and the job between them agree, as long as no
\* user clears the field of the model.
THEOREM KBInvariant ==
  ASSUME NoModel \notin Choices
  PROVE  Spec => []KBInv
<1>1. KBInv /\ [Next]_vars => KBInv'
  BY AgreementStep
<1> QED BY AgreementInit, <1>1, PTL DEF Spec

\* A search never fails for want of a collection, or for its size, kb.py:329-360.
THEOREM SearchesAlwaysSucceed ==
  ASSUME NoModel \notin Choices
  PROVE  Spec => []SearchesSucceed
<1>1. KBInv => SearchesSucceed
  BY DEF KBInv, DiskSound, Sound, SearchesSucceed, Searched
<1> QED BY <1>1, KBInvariant, PTL

\* A query meets vectors of its own model only, kb.py:337-344, 387-388.
THEOREM OneModelPerCollection ==
  ASSUME NoModel \notin Choices
  PROVE  Spec => []VectorsOfOneModel
<1>1. KBInv => VectorsOfOneModel
  BY DEF KBInv, DiskSound, Sound, VectorsOfOneModel, Searched
<1> QED BY <1>1, KBInvariant, PTL

\* No step takes vectors from a knowledge base that is searched, kb.py:429-450.
THEOREM NothingIsLost ==
  ASSUME NoModel \notin Choices
  PROVE  Spec => VectorsAreKept
<1> DEFINE Kept == \A k \in KBs : Searched(k) /\ collection[k] # Null =>
       collection'[k] # Null /\ collection[k].points \subseteq collection'[k].points
<1>1. KBInv /\ KBInv' /\ [Next]_vars => [Kept]_vars
  <2> SUFFICES ASSUME KBInv, KBInv', [Next]_vars, NEW k \in KBs,
                      Searched(k), collection[k] # Null
               PROVE  /\ collection'[k] # Null
                      /\ collection[k].points \subseteq collection'[k].points
    OBVIOUS
  <2>t. TypeInv /\ collection \in [KBs -> Collection \cup {Null}]
    BY DEF KBInv, TypeInv, KBTypeOK
  <2>1. CASE collection' = collection
    BY <2>1
  <2>2. CASE DropCollection
    <3>1. Uploading /\ job.kb \in KBs /\ job.store[job.kb] # Null
      BY <2>2, <2>t, UploadType DEF DropCollection, At, Uploading, TypeInv, UploadKnown
    <3>2. job.store[job.kb].vector_size = Null
      BY <2>2, <3>1 DEF DropCollection, KBInv, StoreSound, Sound, Uploading
    <3>3. disk[job.kb].vector_size = Null
      BY <3>1, <3>2 DEF KBInv, UploadFollows
    <3> QED BY <2>2, <2>t, <3>1, <3>3 DEF DropCollection, Searched
  <2>3. CASE MakeCollection
    <3>1. Uploading /\ job.step = "dropped" /\ job.kb \in KBs
      BY <2>3, <2>t, UploadType DEF MakeCollection, At, Uploading
    <3>2. disk[job.kb].vector_size = Null
      BY <3>1 DEF KBInv, UploadFollows
    <3> QED BY <2>3, <2>t, <3>1, <3>2 DEF MakeCollection, Searched
  <2>4. CASE Upsert
    <3> DEFINE c == collection[k]
               new == PointsOf(job.file, job.store[job.kb])
    <3>1. collection'[k] = c \/ collection'[k] = [c EXCEPT !.points = @ \cup new]
      BY <2>4, <2>t DEF Upsert
    <3>2. c \in Collection
      BY <2>t
    <3>3. Uploading
      BY <2>4 DEF Upsert, At, Uploading
    <3>4. new \subseteq Point
      BY <2>t, <3>3, UploadType, SizeOfType DEF PointsOf, Point
    <3>5. /\ [c EXCEPT !.points = @ \cup new] \in Collection
          /\ [c EXCEPT !.points = @ \cup new].points = c.points \cup new
      BY <3>2, <3>4 DEF Collection
    <3> QED BY <3>1, <3>2, <3>5, NullAssumption
  <2> QED BY <2>1, <2>2, <2>3, <2>4
          DEF Next, CreateKB, UpdateKB, RecallTest, AddDocument, Truncate, Write, Abandon, vars
<1> QED BY <1>1, KBInvariant, PTL DEF Spec, VectorsAreKept
=============================================================================
