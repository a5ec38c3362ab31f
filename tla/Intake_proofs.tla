---------------------------- MODULE Intake_proofs ----------------------------
(***************************************************************************)
(* Proofs about Intake, for any number of clients, contents and files, any *)
(* limit and any window.                                                   *)
(*                                                                         *)
(* DuplicatesExplained is not inductive: an upload that is past the        *)
(* duplicate test has yet to commit its row.  RaceInv adds what is then    *)
(* known of it: if a row with the same content has been committed by now,  *)
(* the content is among those that were raced for.                         *)
(*                                                                         *)
(* WindowKept speaks of the checks of the last Window ticks only.  Within  *)
(* ties them to the window of the row: how many can be of it, how many of  *)
(* the one before, and when those before that are out of sight.            *)
(***************************************************************************)
EXTENDS Intake, FiniteSetTheorems, TLAPS

Records == [key : 1..saved, content : Contents]

\* A saved file belongs to one upload or to one row.
KeyInv ==
  /\ \A u \in Uploaders : upload[u].stage = "saved" =>
       /\ upload[u].key \in 1..saved
       /\ \A d \in documents : d.key # upload[u].key
  /\ \A u, v \in Uploaders :
       upload[u].stage = "saved" /\ upload[v].stage = "saved"
         /\ upload[u].key = upload[v].key => u = v
  /\ \A d, e \in documents : d.key = e.key => d = e

RaceInv ==
  \A u \in Uploaders : \A d \in documents :
    PastTest(u) /\ upload[u].content = d.content => d.content \in raced

StoreTypes ==
  /\ saved \in 0..MaxFiles
  /\ files = 1..saved
  /\ documents \subseteq Records /\ IsFiniteSet(documents)
  /\ outbox = {d.key : d \in documents}
  /\ upload \in [Uploaders -> PostedUploads]
  /\ \A u \in Uploaders : upload[u].stage # "none" => upload[u].content \in Contents
  /\ raced \subseteq Contents /\ refusing \subseteq Contents

StoreInv == StoreTypes /\ KeyInv /\ RaceInv /\ DuplicatesExplained

LEMMA StoreImplies == StoreInv => UploadsKept
<1> SUFFICES ASSUME StoreInv PROVE UploadsKept
  OBVIOUS
<1>1. outbox \subseteq files
  BY DEF StoreInv, StoreTypes, Records
<1> QED BY <1>1 DEF StoreInv, StoreTypes, KeyInv, UploadsKept, DocumentsWhole

LEMMA InitStore == Init => StoreInv
<1> SUFFICES ASSUME Init PROVE StoreInv
  OBVIOUS
<1>1. IsFiniteSet(documents) /\ documents = {}
  BY FS_EmptySet DEF Init, UploadInit
<1>2. upload \in [Uploaders -> PostedUploads]
      /\ \A u \in Uploaders : upload[u].stage = "none"
  BY DEF Init, UploadInit, NoUpload, PostedUploads
<1>3. saved \in 0..MaxFiles /\ files = 1..saved /\ outbox = {}
  BY UploadAssumption DEF Init, UploadInit
<1>4. raced = {} /\ refusing = {}
  BY DEF Init, UploadInit
<1>5. StoreTypes
  BY <1>1, <1>2, <1>3, <1>4 DEF StoreTypes
<1>6. KeyInv /\ RaceInv
  BY <1>1, <1>2 DEF KeyInv, RaceInv
<1>7. DuplicatesExplained
  BY <1>1, <1>4 DEF DuplicatesExplained
<1> QED BY <1>5, <1>6, <1>7 DEF StoreInv

-----------------------------------------------------------------------------
(***************************************************************************)
(* One upload                                                              *)
(***************************************************************************)
\* An upload takes another record and nothing is stored.
LEMMA UploadStep ==
  ASSUME StoreInv, NEW u \in Uploaders, NEW x \in PostedUploads,
         upload' = [upload EXCEPT ![u] = x],
         x.stage \in {"none", "posted", "new"},
         x.stage # "none" => x.content \in Contents,
         x.stage = "new" => \A d \in documents :
                              x.content = d.content => d.content \in raced,
         refusing' \subseteq raced, refusing' \subseteq Contents,
         UNCHANGED <<files, saved, documents, outbox, raced>>
  PROVE  StoreInv'
<1>1. /\ StoreTypes /\ KeyInv /\ RaceInv /\ DuplicatesExplained
  BY DEF StoreInv
<1>2. /\ upload' \in [Uploaders -> PostedUploads] /\ upload'[u] = x
      /\ \A v \in Uploaders \ {u} : upload'[v] = upload[v]
  BY <1>1 DEF StoreTypes
<1>3. StoreTypes'
  <2>1. \A v \in Uploaders : upload'[v].stage # "none" => upload'[v].content \in Contents
    BY <1>1, <1>2 DEF StoreTypes
  <2>2. Records' = Records
    BY DEF Records
  <2> QED BY <1>1, <1>2, <2>1, <2>2 DEF StoreTypes
<1>4. KeyInv'
  BY <1>1, <1>2 DEF KeyInv
<1>5. RaceInv'
  BY <1>1, <1>2 DEF RaceInv, PastTest
<1>6. DuplicatesExplained'
  BY <1>1 DEF DuplicatesExplained
<1> QED BY <1>3, <1>4, <1>5, <1>6 DEF StoreInv

LEMMA NoUploadIs ==
  NoUpload \in PostedUploads /\ NoUpload.stage = "none"
BY DEF NoUpload, PostedUploads

\* A set with more than one row has two different ones.
LEMMA TwoRows ==
  ASSUME NEW S, IsFiniteSet(S), Cardinality(S) > 1
  PROVE  \E d, e \in S : d # e
<1> SUFFICES ASSUME \A d, e \in S : d = e PROVE FALSE
  OBVIOUS
<1>1. CASE S = {}
  BY <1>1, FS_EmptySet
<1>2. CASE S # {}
  <2>1. PICK d \in S : TRUE
    BY <1>2
  <2>2. S = {d}
    BY <2>1
  <2> QED BY <2>2, FS_Singleton
<1> QED BY <1>1, <1>2

LEMMA PostStep ==
  ASSUME StoreInv, NEW u \in Uploaders, NEW content \in Contents, Post(u, content)
  PROVE  StoreInv'
<1> DEFINE x == [stage |-> "posted", content |-> content, key |-> 0]
<1>1. /\ x \in PostedUploads /\ x.stage = "posted" /\ x.content \in Contents
      /\ upload' = [upload EXCEPT ![u] = x]
      /\ UNCHANGED <<files, saved, documents, outbox, raced, refusing>>
  BY DEF Post, PostedUploads
<1> HIDE DEF x
<1> QED BY <1>1, UploadStep DEF StoreInv, StoreTypes, DuplicatesExplained

LEMMA FindNoneStep ==
  ASSUME StoreInv, NEW u \in Uploaders, FindNone(u)
  PROVE  StoreInv'
<1>1. upload \in [Uploaders -> PostedUploads] /\ upload[u] \in PostedUploads
      /\ upload[u].stage = "posted" /\ upload[u].content \in Contents
  BY DEF StoreInv, StoreTypes, FindNone
<1>2. PICK x : x = [upload[u] EXCEPT !.stage = "new"]
  OBVIOUS
<1>3. x \in PostedUploads /\ x.stage = "new" /\ x.content = upload[u].content
  BY <1>1, <1>2 DEF PostedUploads
<1>4. upload' = [upload EXCEPT ![u] = x]
  BY <1>1, <1>2 DEF FindNone
<1>5. \A d \in documents : d.content # x.content
  BY <1>3 DEF FindNone, Found, Same
<1>6. UNCHANGED <<files, saved, documents, outbox, raced, refusing>>
  BY DEF FindNone
<1> QED BY <1>1, <1>3, <1>4, <1>5, <1>6, UploadStep
        DEF StoreInv, StoreTypes, DuplicatesExplained

LEMMA EndStep ==
  ASSUME StoreInv, NEW u \in Uploaders,
         AnswerDuplicate(u) \/ RaiseMultiple(u) \/ AbandonUpload(u)
  PROVE  StoreInv'
<1>1. /\ upload' = [upload EXCEPT ![u] = NoUpload]
      /\ UNCHANGED <<files, saved, documents, outbox, raced>>
  BY DEF AnswerDuplicate, RaiseMultiple, AbandonUpload
<1>2. refusing' \subseteq raced /\ refusing' \subseteq Contents
  <2>1. CASE RaiseMultiple(u)
    <3>1. /\ Cardinality(Same(upload[u].content)) > 1
          /\ refusing' = refusing \cup {upload[u].content}
          /\ upload[u].content \in Contents
      BY <2>1 DEF RaiseMultiple, Found, StoreInv, StoreTypes
    <3>2. IsFiniteSet(Same(upload[u].content))
      BY FS_Subset DEF Same, StoreInv, StoreTypes
    <3>3. PICK d \in Same(upload[u].content), e \in Same(upload[u].content) : d # e
      BY <3>1, <3>2, TwoRows
    <3>4. upload[u].content \in raced
      BY <3>3 DEF Same, StoreInv, DuplicatesExplained
    <3> QED BY <3>1, <3>4 DEF StoreInv, StoreTypes, DuplicatesExplained
  <2>2. CASE AnswerDuplicate(u) \/ AbandonUpload(u)
    BY <2>2 DEF AnswerDuplicate, AbandonUpload, StoreInv, StoreTypes,
       DuplicatesExplained
  <2> QED BY <2>1, <2>2
<1> QED BY <1>1, <1>2, NoUploadIs, UploadStep

LEMMA SaveFileStep ==
  ASSUME StoreInv, NEW u \in Uploaders, SaveFile(u)
  PROVE  StoreInv'
<1>1. /\ StoreTypes /\ KeyInv /\ RaceInv /\ DuplicatesExplained
  BY DEF StoreInv
<1>2. /\ upload[u] \in PostedUploads /\ upload[u].stage = "new"
      /\ upload[u].content \in Contents /\ saved + 1 \in Nat /\ saved + 1 \in 0..MaxFiles
      /\ UNCHANGED <<documents, outbox, raced, refusing>>
      /\ saved' = saved + 1 /\ files' = files \cup {saved + 1}
  BY <1>1, UploadAssumption DEF SaveFile, Written, StoreTypes
<1>3. PICK x : x = [upload[u] EXCEPT !.stage = "saved", !.key = saved + 1]
  OBVIOUS
<1>4. /\ x \in PostedUploads /\ x.stage = "saved" /\ x.key = saved + 1
      /\ x.content = upload[u].content
  <2> DEFINE y == upload[u]
             n == saved + 1
  <2>1. y \in PostedUploads /\ n \in Nat /\ x = [y EXCEPT !.stage = "saved", !.key = n]
    BY <1>2, <1>3
  <2> HIDE DEF y, n
  <2>2. x \in PostedUploads /\ x.stage = "saved" /\ x.key = n /\ x.content = y.content
    BY <2>1 DEF PostedUploads
  <2> QED BY <2>2 DEF y, n
<1>5. upload' = [upload EXCEPT ![u] = x]
  BY <1>1, <1>3 DEF SaveFile, StoreTypes
<1>6. /\ upload' \in [Uploaders -> PostedUploads] /\ upload'[u] = x
      /\ \A v \in Uploaders \ {u} : upload'[v] = upload[v]
  BY <1>1, <1>4, <1>5 DEF StoreTypes
<1>7. StoreTypes'
  <2>1. files' = 1..saved'
    BY <1>1, <1>2 DEF StoreTypes
  <2>2. documents' \subseteq Records' /\ IsFiniteSet(documents')
    BY <1>1, <1>2 DEF StoreTypes, Records
  <2>3. \A v \in Uploaders : upload'[v].stage # "none" => upload'[v].content \in Contents
    BY <1>1, <1>2, <1>4, <1>6 DEF StoreTypes
  <2> QED BY <1>1, <1>2, <1>6, <2>1, <2>2, <2>3 DEF StoreTypes
<1>8. KeyInv'
  <2>1. saved \in Nat /\ \A d \in documents : d.key \in 1..saved
    BY <1>1, UploadAssumption DEF StoreTypes, Records
  <2>2. ASSUME NEW v \in Uploaders, upload'[v].stage = "saved", v # u
        PROVE  /\ upload'[v] = upload[v] /\ upload[v].stage = "saved"
               /\ upload[v].key \in 1..saved /\ upload[v].key # saved + 1
               /\ \A d \in documents : d.key # upload[v].key
    BY <1>1, <1>6, <2>1, <2>2 DEF KeyInv
  <2>3. \A v \in Uploaders : upload'[v].stage = "saved" =>
          /\ upload'[v].key \in 1..saved'
          /\ \A d \in documents' : d.key # upload'[v].key
    <3> SUFFICES ASSUME NEW v \in Uploaders, upload'[v].stage = "saved"
                 PROVE  /\ upload'[v].key \in 1..saved'
                        /\ \A d \in documents' : d.key # upload'[v].key
      OBVIOUS
    <3>1. CASE v = u
      BY <1>2, <1>4, <1>6, <2>1, <3>1
    <3>2. CASE v # u
      BY <1>2, <2>1, <2>2, <3>2
    <3> QED BY <3>1, <3>2
  <2>4. \A v, w \in Uploaders :
          upload'[v].stage = "saved" /\ upload'[w].stage = "saved"
            /\ upload'[v].key = upload'[w].key => v = w
    BY <1>1, <1>4, <1>6, <2>2 DEF KeyInv
  <2>5. \A d, e \in documents' : d.key = e.key => d = e
    BY <1>1, <1>2 DEF KeyInv
  <2> QED BY <2>3, <2>4, <2>5 DEF KeyInv
<1>9. RaceInv'
  BY <1>1, <1>2, <1>4, <1>6 DEF RaceInv, PastTest
<1>10. DuplicatesExplained'
  BY <1>1, <1>2 DEF DuplicatesExplained
<1> QED BY <1>7, <1>8, <1>9, <1>10 DEF StoreInv

\* The row: a second one of its content, if there is one, was raced for, and
\* whoever is past the test with this content races with it from now on.
LEMMA CommitDocumentStep ==
  ASSUME StoreInv, NEW u \in Uploaders, CommitDocument(u)
  PROVE  StoreInv'
<1>1. /\ StoreTypes /\ KeyInv /\ RaceInv /\ DuplicatesExplained
  BY DEF StoreInv
<1> DEFINE row == [key |-> upload[u].key, content |-> upload[u].content]
<1>2. /\ upload[u].stage = "saved" /\ upload[u].content \in Contents
      /\ upload[u].key \in 1..saved
      /\ \A d \in documents : d.key # upload[u].key
  BY <1>1 DEF CommitDocument, StoreTypes, KeyInv
<1>3. /\ row \in Records /\ row.key = upload[u].key
      /\ row.content = upload[u].content
  BY <1>2 DEF Records
<1>4. /\ documents' = documents \cup {row} /\ outbox' = outbox \cup {row.key}
      /\ upload' = [upload EXCEPT ![u] = NoUpload]
      /\ UNCHANGED <<files, saved, refusing>>
  BY DEF CommitDocument
<1>5. /\ raced \subseteq raced' /\ raced' \subseteq raced \cup {row.content}
      /\ \A v \in Uploaders \ {u} :
           PastTest(v) /\ upload[v].content = row.content => row.content \in raced'
  BY DEF CommitDocument
<1> HIDE DEF row
<1>6. /\ upload' \in [Uploaders -> PostedUploads] /\ upload'[u] = NoUpload
      /\ \A v \in Uploaders \ {u} : upload'[v] = upload[v]
  BY <1>1, <1>4, NoUploadIs DEF StoreTypes
<1>7. StoreTypes'
  <2>1. IsFiniteSet(documents') /\ documents' \subseteq Records'
    BY <1>1, <1>3, <1>4, FS_AddElement DEF StoreTypes, Records
  <2>2. outbox' = {d.key : d \in documents'}
    BY <1>1, <1>4 DEF StoreTypes
  <2>3. raced' \subseteq Contents
    BY <1>1, <1>2, <1>3, <1>5 DEF StoreTypes
  <2>4. \A v \in Uploaders : upload'[v].stage # "none" => upload'[v].content \in Contents
    BY <1>1, <1>6, NoUploadIs DEF StoreTypes
  <2> QED BY <1>1, <1>4, <1>6, <2>1, <2>2, <2>3, <2>4 DEF StoreTypes
<1>8. KeyInv'
  <2>1. ASSUME NEW v \in Uploaders, upload'[v].stage = "saved"
        PROVE  /\ v # u /\ upload'[v] = upload[v] /\ upload[v].stage = "saved"
               /\ upload[v].key \in 1..saved' /\ upload[v].key # row.key
               /\ \A d \in documents : d.key # upload[v].key
    BY <1>1, <1>2, <1>3, <1>4, <1>6, <2>1, NoUploadIs DEF KeyInv
  <2>2. \A v \in Uploaders : upload'[v].stage = "saved" =>
          /\ upload'[v].key \in 1..saved'
          /\ \A d \in documents' : d.key # upload'[v].key
    BY <1>4, <2>1
  <2>3. \A v, w \in Uploaders :
          upload'[v].stage = "saved" /\ upload'[w].stage = "saved"
            /\ upload'[v].key = upload'[w].key => v = w
    BY <1>1, <2>1 DEF KeyInv
  <2>4. \A d, e \in documents' : d.key = e.key => d = e
    BY <1>1, <1>2, <1>3, <1>4 DEF KeyInv
  <2> QED BY <2>2, <2>3, <2>4 DEF KeyInv
<1>9. RaceInv'
  <2> SUFFICES ASSUME NEW v \in Uploaders, NEW d \in documents', PastTest(v)',
                      upload'[v].content = d.content
               PROVE  d.content \in raced'
    BY DEF RaceInv
  <2>1. v # u /\ PastTest(v) /\ upload[v].content = d.content
    BY <1>6, NoUploadIs DEF PastTest
  <2>2. CASE d = row
    BY <1>5, <2>1, <2>2
  <2>3. CASE d \in documents
    BY <1>1, <1>5, <2>1, <2>3 DEF RaceInv
  <2> QED BY <1>4, <2>2, <2>3
<1>10. DuplicatesExplained'
  <2>1. \A d \in documents : d.content = row.content => row.content \in raced
    BY <1>1, <1>2, <1>3 DEF RaceInv, PastTest
  <2> QED BY <1>1, <1>4, <1>5, <2>1 DEF DuplicatesExplained
<1> QED BY <1>7, <1>8, <1>9, <1>10 DEF StoreInv

LEMMA NextStore == StoreInv /\ [Next]_vars => StoreInv'
<1> SUFFICES ASSUME StoreInv, [Next]_vars PROVE StoreInv'
  OBVIOUS
<1>1. CASE UNCHANGED uploadVars
  BY <1>1 DEF uploadVars, StoreInv, StoreTypes, Records, KeyInv, RaceInv, PastTest,
     DuplicatesExplained
<1>2. ASSUME NEW u \in Uploaders,
             (\E content \in Contents : Post(u, content)) \/ Upload(u) \/ AbandonUpload(u)
      PROVE  StoreInv'
  BY <1>2, PostStep, FindNoneStep, EndStep, SaveFileStep, CommitDocumentStep
     DEF Upload
<1> QED BY <1>1, <1>2 DEF Next, vars

\* Row, event and file of a document go together, and only a race at the
\* duplicate test stores the same bytes twice or has an upload answered 500.
THEOREM UploadsStayWhole == Spec => []UploadsKept
<1>1. Spec => []StoreInv
  BY InitStore, NextStore, PTL DEF Spec
<1> QED BY <1>1, StoreImplies, PTL

-----------------------------------------------------------------------------
(***************************************************************************)
(* Types                                                                   *)
(***************************************************************************)
Checks == [at : (clock - Window)..clock, number : Nat]

LimiterTypes ==
  /\ clock \in 0..MaxTime
  /\ bucket \in Buckets \cup {NoBucket}
  /\ login \in [Clients -> Logins]
  /\ signedIn \subseteq Clients
  /\ checks \subseteq Checks /\ IsFiniteSet(checks)
  /\ waited \in BOOLEAN
  /\ refused \in [last : Nat, until : Nat]
  /\ bucket # NoBucket => bucket.start <= clock
  /\ \A c \in Clients : login[c].at <= clock

\* Only who holds a token has an upload in flight.
Entitled == \A u \in Uploaders : upload[u] # NoUpload => u \in signedIn

TypeInv == StoreInv /\ LimiterTypes /\ Entitled

LEMMA TypeImplies == TypeInv => TypeOK
BY DEF TypeInv, StoreInv, StoreTypes, Records, LimiterTypes, Checks, Entitled, TypeOK

LEMMA WindowType == Window \in Nat
BY LimiterAssumption DEF Window

LEMMA Times == ASSUME NEW a \in Nat, NEW b \in Nat PROVE a * b \in Nat
OBVIOUS

LEMMA InitTypes == Init => LimiterTypes /\ Entitled
<1> SUFFICES ASSUME Init PROVE LimiterTypes /\ Entitled
  OBVIOUS
<1>1. checks \subseteq Checks /\ IsFiniteSet(checks)
  BY FS_EmptySet DEF Init, LimiterInit
<1>2. login \in [Clients -> Logins] /\ \A c \in Clients : login[c].at = 0
  BY DEF Init, LimiterInit, Idle, Logins
<1>3. clock \in 0..MaxTime /\ clock = 0
  BY LimiterAssumption DEF Init, LimiterInit
<1>4. refused \in [last : Nat, until : Nat]
  BY DEF Init, LimiterInit, NoRefusal
<1>5. bucket = NoBucket /\ signedIn = {} /\ waited \in BOOLEAN
  BY DEF Init, LimiterInit
<1>6. Entitled
  BY DEF Init, UploadInit, Entitled
<1> QED BY <1>1, <1>2, <1>3, <1>4, <1>5, <1>6 DEF LimiterTypes

LEMMA TickTypes ==
  ASSUME LimiterTypes, Tick
  PROVE  LimiterTypes'
<1>1. clock' \in 0..MaxTime /\ clock' = clock + 1 /\ clock \in Nat
  BY LimiterAssumption DEF Tick, LimiterTypes
<1>2. UNCHANGED <<bucket, login, signedIn, waited, refused>>
  BY DEF Tick
<1>3. checks' \subseteq Checks' /\ IsFiniteSet(checks')
  <2>1. checks' = {x \in checks : x.at > clock - Window}
    BY DEF Tick
  <2>2. ASSUME NEW x \in checks, x.at > clock - Window
        PROVE  x \in [at : (clock' - Window)..clock', number : Nat]
    BY <1>1, <2>2, WindowType DEF LimiterTypes, Checks
  <2>3. IsFiniteSet(checks')
    BY <2>1, FS_Subset DEF LimiterTypes
  <2> QED BY <2>1, <2>2, <2>3 DEF Checks
<1>4. bucket # NoBucket => bucket.start <= clock'
  BY <1>1 DEF LimiterTypes, Buckets
<1>5. \A c \in Clients : login[c].at <= clock'
  BY <1>1 DEF LimiterTypes, Logins
<1> QED BY <1>1, <1>2, <1>3, <1>4, <1>5 DEF LimiterTypes

\* The counter is capped one above the limit, and the window does not begin
\* in the future.
LEMMA RowTypes ==
  ASSUME LimiterTypes, NEW c \in Clients
  PROVE  /\ Capped(Consumed(login[c].at)) \in Buckets
         /\ Consumed(login[c].at).start \in Nat
         /\ Capped(Consumed(login[c].at)).start <= clock
         /\ login[c].at \in Nat /\ Limit \in Nat
<1>1. login[c].at \in Nat /\ login[c].at <= clock /\ clock \in Nat
  BY LimiterAssumption DEF LimiterTypes, Logins
<1>2. Limit \in Nat /\ Limit >= 1
  BY LimiterAssumption
<1> DEFINE row == Consumed(login[c].at)
<1>3. /\ row \in [start : Nat, attempts : Nat \ {0}] /\ row.start <= clock
  <2>1. CASE bucket = NoBucket \/ WindowOver(login[c].at)
    BY <1>1, <2>1 DEF Consumed
  <2>2. CASE ~(bucket = NoBucket \/ WindowOver(login[c].at))
    <3>1. bucket \in Buckets /\ bucket.start <= clock
      BY <2>2 DEF LimiterTypes
    <3> QED BY <1>2, <2>2, <3>1 DEF Consumed, Buckets
  <2> QED BY <2>1, <2>2
<1> HIDE DEF row
<1>4. Capped(row) \in Buckets /\ Capped(row).start <= clock
  BY <1>2, <1>3 DEF Capped, Buckets
<1> QED BY <1>1, <1>2, <1>3, <1>4 DEF row

LEMMA RefuseTypes ==
  ASSUME refused \in [last : Nat, until : Nat], NEW now \in Nat, NEW row,
         row.start \in Nat
  PROVE  Refuse(now, RetryAfterSeconds(row, now)) \in [last : Nat, until : Nat]
<1>1. RetryAfterSeconds(row, now) \in Nat
  <2> DEFINE n == 2 * (row.start + Window - now) + Second
             d == 2 * Second
  <2>1. n \in Int /\ d \in Nat /\ d > 0
    BY WindowType, LimiterAssumption
  <2>2. n \div d \in Int
    <3> HIDE DEF n, d
    <3> QED BY <2>1
  <2> QED BY <2>2 DEF RetryAfterSeconds, Rounded
<1>2. RetryAfterSeconds(row, now) * Second \in Nat
  BY <1>1, LimiterAssumption, Times
<1>3. now + RetryAfterSeconds(row, now) * Second \in Nat
  BY <1>2
<1> QED BY <1>3 DEF Refuse

LEMMA NewCheckType ==
  ASSUME LimiterTypes
  PROVE  NewCheck \in Checks /\ NewCheck.at = clock
<1>1. IsFiniteSet({x \in checks : x.at = clock})
  BY FS_Subset DEF LimiterTypes
<1>2. Cardinality({x \in checks : x.at = clock}) \in Nat
  BY <1>1, FS_CardinalityType
<1>3. clock \in (clock - Window)..clock
  BY WindowType, LimiterAssumption DEF LimiterTypes
<1> QED BY <1>2, <1>3 DEF NewCheck, Checks

LEMMA ConsumeTypes ==
  ASSUME LimiterTypes, NEW c \in Clients, Consume(c)
  PROVE  LimiterTypes'
<1> DEFINE row == Consumed(login[c].at)
<1>1. /\ Capped(row) \in Buckets /\ Capped(row).start <= clock
      /\ row.start \in Nat /\ login[c].at \in Nat
  BY RowTypes
<1>2. /\ bucket' = Capped(row) /\ UNCHANGED <<clock, signedIn>>
      /\ clock \in Nat
  BY LimiterAssumption DEF Consume, LimiterTypes
<1>3. login' \in [Clients -> Logins] /\ \A b \in Clients : login'[b].at <= clock
  <2>1. PICK x : /\ login' = [login EXCEPT ![c] = x]
                 /\ x = Idle \/ x = [stage |-> "allowed", at |-> 0]
    BY DEF Consume
  <2>2. x \in Logins /\ x.at = 0
    BY <2>1 DEF Idle, Logins
  <2> QED BY <1>2, <2>1, <2>2 DEF LimiterTypes
<1>4. checks' \subseteq Checks' /\ IsFiniteSet(checks')
  <2>1. checks' = checks \/ checks' = checks \cup {NewCheck}
    BY DEF Consume
  <2>2. Checks' = Checks /\ checks \subseteq Checks /\ IsFiniteSet(checks)
    BY <1>2 DEF LimiterTypes, Checks, Window
  <2>3. NewCheck \in Checks
    BY <1>2, NewCheckType
  <2> QED BY <2>1, <2>2, <2>3, FS_AddElement
<1>5. refused' \in [last : Nat, until : Nat]
  <2>1. Refuse(login[c].at, RetryAfterSeconds(row, login[c].at))
          \in [last : Nat, until : Nat]
    BY <1>1, RefuseTypes DEF LimiterTypes
  <2>2. NoRefusal \in [last : Nat, until : Nat]
    BY DEF NoRefusal
  <2> QED BY <2>1, <2>2 DEF Consume, LimiterTypes
<1>6. waited' \in BOOLEAN
  <2>1. waited' = (waited \/ login[c].at < clock)
    BY DEF Consume
  <2> QED BY <2>1, Zenon
<1> HIDE DEF row
<1> QED BY <1>1, <1>2, <1>3, <1>4, <1>5, <1>6 DEF LimiterTypes

LEMMA LimiterStep == LimiterTypes /\ LimiterNext => LimiterTypes' /\ signedIn \subseteq signedIn'
<1> SUFFICES ASSUME LimiterTypes, LimiterNext
             PROVE  LimiterTypes' /\ signedIn \subseteq signedIn'
  OBVIOUS
<1>1. CASE Tick
  BY <1>1, TickTypes DEF Tick
<1>2. ASSUME NEW c \in Clients, BeginLogin(c)
      PROVE  LimiterTypes' /\ signedIn \subseteq signedIn'
  BY <1>2, LimiterAssumption DEF BeginLogin, LimiterTypes, Checks, Logins
<1>3. ASSUME NEW c \in Clients, Consume(c)
      PROVE  LimiterTypes' /\ signedIn \subseteq signedIn'
  BY <1>3, ConsumeTypes DEF Consume
<1>4. ASSUME NEW c \in Clients, WrongPassword(c)
      PROVE  LimiterTypes' /\ signedIn \subseteq signedIn'
  BY <1>4, LimiterAssumption DEF WrongPassword, LimiterTypes, Checks, Logins, Idle
<1>5. ASSUME NEW c \in Clients, RightPassword(c)
      PROVE  LimiterTypes' /\ signedIn \subseteq signedIn'
  BY <1>5, LimiterAssumption, FS_EmptySet
     DEF RightPassword, LimiterTypes, Checks, Logins, Idle, NoRefusal
<1> QED BY <1>1, <1>2, <1>3, <1>4, <1>5 DEF LimiterNext

LEMMA NextTypes == TypeInv /\ [Next]_vars => TypeInv'
<1> SUFFICES ASSUME TypeInv, [Next]_vars PROVE TypeInv'
  OBVIOUS
<1>1. StoreInv'
  BY NextStore DEF TypeInv
<1>2. CASE LimiterNext /\ UNCHANGED uploadVars
  BY <1>1, <1>2, LimiterStep DEF TypeInv, Entitled, uploadVars
<1>3. ASSUME NEW u \in Uploaders, UNCHANGED limiterVars,
             \/ u \in signedIn /\ \E content \in Contents : Post(u, content)
             \/ Upload(u) \/ AbandonUpload(u)
      PROVE  TypeInv'
  <2>1. u \in signedIn /\ \E x : upload' = [upload EXCEPT ![u] = x]
    <3>1. CASE u \in signedIn /\ \E content \in Contents : Post(u, content)
      BY <3>1 DEF Post
    <3>2. CASE Upload(u) \/ AbandonUpload(u)
      <4>1. upload[u].stage # "none" \/ upload[u] # NoUpload
        BY <3>2 DEF Upload, FindNone, AnswerDuplicate, RaiseMultiple, SaveFile,
           CommitDocument, AbandonUpload
      <4>2. u \in signedIn
        BY <4>1, NoUploadIs DEF TypeInv, Entitled
      <4>3. upload \in [Uploaders -> PostedUploads]
        BY DEF TypeInv, StoreInv, StoreTypes
      <4>4. CASE FindNone(u)
        BY <4>2, <4>3, <4>4 DEF FindNone
      <4>5. CASE SaveFile(u)
        BY <4>2, <4>3, <4>5 DEF SaveFile
      <4>6. CASE AnswerDuplicate(u) \/ RaiseMultiple(u) \/ CommitDocument(u)
                   \/ AbandonUpload(u)
        BY <4>2, <4>6 DEF AnswerDuplicate, RaiseMultiple, CommitDocument, AbandonUpload
      <4> QED BY <3>2, <4>4, <4>5, <4>6 DEF Upload
    <3> QED BY <1>3, <3>1, <3>2
  <2>2. \A v \in Uploaders \ {u} : upload'[v] = upload[v]
    BY <2>1 DEF TypeInv, StoreInv, StoreTypes
  <2>3. Entitled'
    BY <1>3, <2>1, <2>2 DEF TypeInv, Entitled, limiterVars
  <2>4. LimiterTypes'
    BY <1>3 DEF limiterVars, LimiterTypes, Checks, TypeInv
  <2> QED BY <1>1, <2>3, <2>4 DEF TypeInv
<1>4. CASE UNCHANGED vars
  BY <1>1, <1>4 DEF vars, limiterVars, uploadVars, TypeInv, LimiterTypes, Checks, Entitled
<1> QED BY <1>2, <1>3, <1>4 DEF Next

\* The types hold: the counter stays one above the limit at most, no window
\* begins in the future, and only who holds a token uploads.
THEOREM TypeCorrect == Spec => []TypeOK
<1>1. Init => TypeInv
  BY InitStore, InitTypes DEF TypeInv
<1> QED BY <1>1, NextTypes, TypeImplies, PTL DEF Spec

-----------------------------------------------------------------------------
(***************************************************************************)
(* The throttle                                                            *)
(***************************************************************************)
\* Of the checks in S, those after time s + d are among the n that the window
\* since s has let through; those of the Window before are of this one or of
\* the one before it; all are of this window or the two before it.
Within(S, s, n, d) ==
  /\ Cardinality({x \in S : x.at > s + d}) <= n
  /\ Cardinality({x \in S : x.at >= s + d - Window}) <= n + Limit
  /\ Cardinality(S) <= n + 2 * Limit

\* Checks that the window of a row has let through.
LetThrough(row) == IF row.attempts <= Limit THEN row.attempts ELSE Limit

\* By how much an upsert may be later than its now().
Delay == IF waited THEN MaxWait ELSE 0

WaitInv ==
  \A c \in Clients : login[c].stage = "begun" => clock <= login[c].at + MaxWait

BurstInv ==
  IF bucket = NoBucket THEN checks = {}
  ELSE Within(checks, bucket.start, LetThrough(bucket), Delay)

\* Whoever was told to come back was told of the end of the window, rounded.
RetryInv ==
  IF bucket = NoBucket THEN refused = NoRefusal
  ELSE /\ refused.last <= bucket.start + Window
       /\ IF refused.until = 0 THEN refused.last = 0
          ELSE 2 * (bucket.start + Window) <= 2 * refused.until + Second

LEMMA Fewer ==
  ASSUME NEW T, IsFiniteSet(T), NEW S, S \subseteq T
  PROVE  Cardinality(S) <= Cardinality(T) /\ Cardinality(S) \in Nat /\ Cardinality(T) \in Nat
BY FS_Subset, FS_CardinalityType

LEMMA OneMore ==
  ASSUME NEW T, IsFiniteSet(T), NEW x, NEW S, S \subseteq T \cup {x}
  PROVE  Cardinality(S) <= Cardinality(T) + 1 /\ Cardinality(S) \in Nat
<1>1. IsFiniteSet(T \cup {x}) /\ Cardinality(T) \in Nat
      /\ Cardinality(T \cup {x}) = IF x \in T THEN Cardinality(T) ELSE Cardinality(T) + 1
  BY FS_AddElement, FS_CardinalityType
<1>2. Cardinality(S) <= Cardinality(T \cup {x}) /\ Cardinality(S) \in Nat
  BY <1>1, Fewer
<1> QED BY <1>1, <1>2

LEMMA WithinShrinks ==
  ASSUME NEW S, IsFiniteSet(S), \A x \in S : x.at \in Int, NEW T, T \subseteq S,
         NEW s \in Nat, NEW n \in Nat, NEW d \in Nat, NEW e \in Nat, d <= e,
         Within(S, s, n, d)
  PROVE  Within(T, s, n, e)
<1>1. Limit \in Nat /\ Window \in Nat
  BY LimiterAssumption, WindowType
<1>2. /\ {x \in T : x.at > s + e} \subseteq {x \in S : x.at > s + d}
      /\ {x \in T : x.at >= s + e - Window} \subseteq {x \in S : x.at >= s + d - Window}
  BY <1>1
<1>3. /\ IsFiniteSet({x \in S : x.at > s + d})
      /\ IsFiniteSet({x \in S : x.at >= s + d - Window})
  BY FS_Subset
<1>4. /\ Cardinality({x \in T : x.at > s + e}) <= Cardinality({x \in S : x.at > s + d})
      /\ Cardinality({x \in T : x.at > s + e}) \in Nat
      /\ Cardinality({x \in S : x.at > s + d}) \in Nat
  BY <1>2, <1>3, Fewer
<1>5. /\ Cardinality({x \in T : x.at >= s + e - Window})
           <= Cardinality({x \in S : x.at >= s + d - Window})
      /\ Cardinality({x \in T : x.at >= s + e - Window}) \in Nat
      /\ Cardinality({x \in S : x.at >= s + d - Window}) \in Nat
  BY <1>2, <1>3, Fewer
<1>6. Cardinality(T) <= Cardinality(S) /\ Cardinality(T) \in Nat /\ Cardinality(S) \in Nat
  BY Fewer
<1> QED BY <1>1, <1>4, <1>5, <1>6 DEF Within

LEMMA WithinAdds ==
  ASSUME NEW S, IsFiniteSet(S), NEW z, NEW s \in Nat, NEW n \in Nat, NEW d \in Nat,
         Within(S, s, n, d)
  PROVE  Within(S \cup {z}, s, n + 1, d)
<1>1. Limit \in Nat
  BY LimiterAssumption
<1>2. PICK T : T = S \cup {z}
  OBVIOUS
<1>3. PICK A, B : A = {x \in S : x.at > s + d} /\ B = {x \in S : x.at >= s + d - Window}
  OBVIOUS
<1>4. PICK C, D : C = {x \in T : x.at > s + d} /\ D = {x \in T : x.at >= s + d - Window}
  OBVIOUS
<1>5. IsFiniteSet(A) /\ IsFiniteSet(B)
  BY <1>3, FS_Subset
<1>6. C \subseteq A \cup {z} /\ D \subseteq B \cup {z}
  BY <1>2, <1>3, <1>4
<1>7. Cardinality(C) <= Cardinality(A) + 1 /\ Cardinality(C) \in Nat
  BY <1>5, <1>6, OneMore
<1>8. Cardinality(D) <= Cardinality(B) + 1 /\ Cardinality(D) \in Nat
  BY <1>5, <1>6, OneMore
<1>9. Cardinality(T) <= Cardinality(S) + 1 /\ Cardinality(T) \in Nat
  BY <1>2, OneMore
<1>10. Cardinality(A) \in Nat /\ Cardinality(B) \in Nat /\ Cardinality(S) \in Nat
  BY <1>5, FS_CardinalityType
<1>11. Cardinality(A) <= n /\ Cardinality(B) <= n + Limit /\ Cardinality(S) <= n + 2 * Limit
  BY <1>3 DEF Within
<1>12. /\ Cardinality(C) <= n + 1 /\ Cardinality(D) <= (n + 1) + Limit
       /\ Cardinality(T) <= (n + 1) + 2 * Limit
  BY <1>1, <1>7, <1>8, <1>9, <1>10, <1>11
<1> QED BY <1>2, <1>4, <1>12 DEF Within

\* A new window: with it the one before the last goes out of sight.
LEMMA WithinMoves ==
  ASSUME NEW S, IsFiniteSet(S), NEW z, NEW s \in Nat, NEW n \in Nat, n <= Limit,
         NEW d \in Nat, d <= Window + 1, Within(S, s, n, d),
         NEW now \in Nat, s < now - Window, NEW t \in Nat, now <= t, t <= now + d,
         z.at = t, \A x \in S : x.at \in Int /\ t - Window <= x.at /\ x.at <= t
  PROVE  Within(S \cup {z}, now, 1, d)
<1>1. Limit \in Nat /\ Window \in Nat
  BY LimiterAssumption, WindowType
<1>2. PICK T : T = S \cup {z}
  OBVIOUS
<1>3. PICK A, B : A = {x \in S : x.at > s + d} /\ B = {x \in S : x.at >= s + d - Window}
  OBVIOUS
<1>4. PICK C, D : C = {x \in T : x.at > now + d} /\ D = {x \in T : x.at >= now + d - Window}
  OBVIOUS
<1>5. IsFiniteSet(A) /\ IsFiniteSet(B)
  BY <1>3, FS_Subset
<1>6. C = {}
  BY <1>2, <1>4
<1>7. D \subseteq A \cup {z}
  BY <1>1, <1>2, <1>3, <1>4
<1>8. T \subseteq B \cup {z}
  BY <1>1, <1>2, <1>3
<1>9. Cardinality(C) = 0
  BY <1>6, FS_EmptySet
<1>10. Cardinality(D) <= Cardinality(A) + 1 /\ Cardinality(D) \in Nat
  BY <1>5, <1>7, OneMore
<1>11. Cardinality(T) <= Cardinality(B) + 1 /\ Cardinality(T) \in Nat
  BY <1>5, <1>8, OneMore
<1>12. Cardinality(A) \in Nat /\ Cardinality(B) \in Nat
  BY <1>5, FS_CardinalityType
<1>13. Cardinality(A) <= n /\ Cardinality(B) <= n + Limit
  BY <1>3 DEF Within
<1>14. /\ Cardinality(C) <= 1 /\ Cardinality(D) <= 1 + Limit
       /\ Cardinality(T) <= 1 + 2 * Limit
  BY <1>1, <1>9, <1>10, <1>11, <1>12, <1>13
<1> QED BY <1>2, <1>4, <1>14 DEF Within

LEMMA WithinFirst ==
  ASSUME NEW z, NEW s \in Nat, NEW d \in Nat, z.at \in Nat
  PROVE  Within({z}, s, 1, d)
<1>1. Limit \in Nat
  BY LimiterAssumption
<1>2. IsFiniteSet({z}) /\ Cardinality({z}) = 1
  BY FS_Singleton
<1>3. PICK C, D : C = {x \in {z} : x.at > s + d} /\ D = {x \in {z} : x.at >= s + d - Window}
  OBVIOUS
<1>4. Cardinality(C) <= 1 /\ Cardinality(D) <= 1 /\ Cardinality(D) \in Nat
  BY <1>2, <1>3, Fewer
<1> QED BY <1>1, <1>2, <1>3, <1>4 DEF Within

\* What consume() may come to: a new window, an attempt within the limit, or
\* one above it.
LEMMA ConsumeCases ==
  ASSUME LimiterTypes, NEW c \in Clients, Consume(c), NEW now, now = login[c].at
  PROVE  \/ /\ bucket = NoBucket \/ bucket.start < now - Window
            /\ bucket' = [start |-> now, attempts |-> 1]
            /\ checks' = checks \cup {NewCheck} /\ refused' = NoRefusal
         \/ /\ bucket # NoBucket /\ bucket.start >= now - Window
            /\ bucket.attempts < Limit
            /\ bucket' = [start |-> bucket.start, attempts |-> bucket.attempts + 1]
            /\ checks' = checks \cup {NewCheck} /\ refused' = refused
         \/ /\ bucket # NoBucket /\ bucket.start >= now - Window
            /\ bucket.attempts >= Limit
            /\ bucket' = [start |-> bucket.start, attempts |-> Limit + 1]
            /\ checks' = checks
            /\ \E row : /\ row.start = bucket.start
                        /\ refused' = Refuse(now, RetryAfterSeconds(row, now))
<1>1. now \in Nat /\ Limit \in Nat /\ Limit >= 1 /\ Window \in Nat
  BY RowTypes, LimiterAssumption, WindowType
<1>2. PICK row : row = Consumed(now)
  OBVIOUS
<1>3. /\ bucket' = Capped(row)
      /\ IF row.attempts <= Limit
         THEN /\ checks' = checks \cup {NewCheck}
              /\ refused' = IF row.attempts = 1 THEN NoRefusal ELSE refused
         ELSE checks' = checks /\ refused' = Refuse(now, RetryAfterSeconds(row, now))
  BY <1>2 DEF Consume
<1>4. CASE bucket = NoBucket \/ bucket.start < now - Window
  <2>1. row = [start |-> now, attempts |-> 1]
    BY <1>2, <1>4 DEF Consumed, WindowOver
  <2>2. Capped(row) = row
    BY <1>1, <2>1 DEF Capped
  <2> QED BY <1>1, <1>3, <1>4, <2>1, <2>2
<1>5. CASE bucket # NoBucket /\ ~(bucket.start < now - Window)
  <2>1. PICK b : b = bucket /\ b \in Buckets
    BY <1>5 DEF LimiterTypes
  <2>2. b.start \in Nat /\ b.attempts \in 1..(Limit + 1)
    BY <2>1 DEF Buckets
  <2>3. row = [start |-> b.start, attempts |-> b.attempts + 1]
    BY <1>2, <1>5, <2>1 DEF Consumed, WindowOver
  <2>4. b.start >= now - Window
    BY <1>1, <1>5, <2>1, <2>2
  <2>5. CASE b.attempts < Limit
    <3>1. Capped(row) = row /\ row.attempts <= Limit /\ row.attempts # 1
      BY <1>1, <2>2, <2>3, <2>5 DEF Capped
    <3> QED BY <1>3, <1>5, <2>1, <2>3, <2>4, <2>5, <3>1
  <2>6. CASE b.attempts >= Limit
    <3>1. /\ Capped(row) = [start |-> b.start, attempts |-> Limit + 1]
          /\ ~(row.attempts <= Limit) /\ row.start = b.start
      BY <1>1, <2>2, <2>3, <2>6 DEF Capped
    <3> QED BY <1>3, <1>5, <2>1, <2>4, <2>6, <3>1
  <2> QED BY <1>1, <2>2, <2>5, <2>6
<1> QED BY <1>4, <1>5

\* Retry-After is the end of the window, give or take half a second, and one
\* second at least.
LEMMA RetryRounds ==
  ASSUME NEW row, row.start \in Nat, NEW now \in Nat
  PROVE  LET back == now + RetryAfterSeconds(row, now) * Second IN
         /\ back \in Nat /\ back > 0
         /\ 2 * (row.start + Window) <= 2 * back + Second
<1> DEFINE r == RetryAfterSeconds(row, now)
           left == row.start + Window - now
           n == 2 * left + Second
           q == n \div (2 * Second)
<1>1. Second \in Nat /\ Second > 0 /\ Window \in Nat /\ left \in Int
  BY LimiterAssumption, WindowType
<1>2. q \in Int /\ n < (q + 1) * (2 * Second)
  <2> HIDE DEF left
  <2>1. n \in Int /\ 2 * Second \in Nat /\ 2 * Second > 0
    BY <1>1
  <2>2. ASSUME NEW a \in Int, NEW b \in Nat, b > 0
        PROVE  a \div b \in Int /\ a < (a \div b + 1) * b
    BY <2>2
  <2> HIDE DEF n
  <2> QED BY <2>1, <2>2
<1>3. r = IF q < 1 THEN 1 ELSE q
  BY DEF RetryAfterSeconds, Rounded
<1>4. r \in Int /\ r >= 1 /\ r >= q
  <2> HIDE DEF q, r
  <2> QED BY <1>2, <1>3
<1>5. r * Second \in Int /\ r * Second >= Second
      /\ (q + 1) * (2 * Second) <= 2 * (r * Second) + 2 * Second
  <2> HIDE DEF q, r
  <2>1. ASSUME NEW a \in Int, NEW b \in Int, NEW s \in Nat, a >= 1, a >= b
        PROVE  a * s \in Int /\ a * s >= s /\ (b + 1) * (2 * s) <= 2 * (a * s) + 2 * s
    BY <2>1
  <2> QED BY <1>1, <1>2, <1>4, <2>1
<1>6. n <= 2 * (r * Second) + 2 * Second
  <2> HIDE DEF q, r, n
  <2>1. n \in Int
    BY <1>1 DEF n
  <2> QED BY <1>1, <1>2, <1>5, <2>1
<1>7. PICK p \in Int : p = r * Second
  BY <1>5
<1>8. 2 * left + Second <= 2 * p + 2 * Second /\ p >= Second
  BY <1>5, <1>6, <1>7
<1> HIDE DEF r
<1> QED BY <1>1, <1>7, <1>8 DEF r

ThrottleInv == WaitInv /\ BurstInv /\ RetryInv

LEMMA ThrottleTypes ==
  ASSUME LimiterTypes
  PROVE  /\ Window \in Nat /\ Limit \in Nat /\ Limit >= 1 /\ MaxWait \in Nat
         /\ Second \in Nat /\ clock \in Nat
         /\ Delay \in Nat /\ (waited = TRUE \/ Delay = 0) /\ Delay <= MaxWait
         /\ IsFiniteSet(checks)
         /\ \A x \in checks : x.at \in Int /\ clock - Window <= x.at /\ x.at <= clock
         /\ bucket # NoBucket =>
              /\ bucket.start \in Nat /\ bucket.start <= clock /\ bucket.attempts \in Nat
              /\ LetThrough(bucket) \in Nat /\ LetThrough(bucket) <= Limit
         /\ refused.last \in Nat /\ refused.until \in Nat
<1>1. Window \in Nat /\ Limit \in Nat /\ Limit >= 1 /\ MaxWait \in Nat /\ Second \in Nat
  BY LimiterAssumption, WindowType
<1>2. clock \in Nat
  BY LimiterAssumption DEF LimiterTypes
<1>3. /\ IsFiniteSet(checks)
      /\ \A x \in checks : x.at \in Int /\ clock - Window <= x.at /\ x.at <= clock
  BY <1>1, <1>2 DEF LimiterTypes, Checks
<1>4. ASSUME bucket # NoBucket
      PROVE  /\ bucket.start \in Nat /\ bucket.start <= clock /\ bucket.attempts \in Nat
             /\ LetThrough(bucket) \in Nat /\ LetThrough(bucket) <= Limit
  BY <1>1, <1>4 DEF LimiterTypes, Buckets, LetThrough
<1>5. refused.last \in Nat /\ refused.until \in Nat
  BY DEF LimiterTypes
<1>6. Delay \in Nat /\ (waited = TRUE \/ Delay = 0) /\ Delay <= MaxWait
  BY <1>1 DEF LimiterTypes, Delay
<1> QED BY <1>1, <1>2, <1>3, <1>4, <1>5, <1>6

LEMMA TickThrottle ==
  ASSUME LimiterTypes, ThrottleInv, Tick
  PROVE  ThrottleInv'
<1>1. /\ clock' = clock + 1 /\ checks' \subseteq checks
      /\ UNCHANGED <<bucket, login, waited, refused>>
      /\ \A c \in Clients : login[c].stage = "begun" => clock - login[c].at < MaxWait
  BY DEF Tick
<1>2. WaitInv'
  <2> SUFFICES ASSUME NEW c \in Clients, login[c].stage = "begun"
               PROVE  clock + 1 <= login[c].at + MaxWait
    BY <1>1 DEF WaitInv
  <2>1. login[c].at \in Nat
    BY DEF LimiterTypes, Logins
  <2> QED BY <1>1, <2>1, ThrottleTypes
<1>3. BurstInv'
  <2>1. CASE bucket = NoBucket
    BY <1>1, <2>1 DEF ThrottleInv, BurstInv
  <2>2. CASE bucket # NoBucket
    <3>1. Within(checks, bucket.start, LetThrough(bucket), Delay)
      BY <2>2 DEF ThrottleInv, BurstInv
    <3>2. PICK T : T = checks'
      OBVIOUS
    <3>3. Within(T, bucket.start, LetThrough(bucket), Delay)
      BY <1>1, <2>2, <3>1, <3>2, ThrottleTypes, WithinShrinks
    <3>4. Delay' = Delay
      BY <1>1 DEF Delay
    <3> QED BY <1>1, <2>2, <3>2, <3>3, <3>4 DEF BurstInv
  <2> QED BY <2>1, <2>2
<1>4. RetryInv'
  BY <1>1 DEF ThrottleInv, RetryInv, Window
<1> QED BY <1>2, <1>3, <1>4 DEF ThrottleInv

LEMMA ConsumeThrottle ==
  ASSUME LimiterTypes, ThrottleInv, NEW c \in Clients, Consume(c), MaxWait <= Window + 1
  PROVE  ThrottleInv'
<1>1. PICK now : now = login[c].at
  OBVIOUS
<1>2. /\ login[c].stage = "begun" /\ UNCHANGED clock
      /\ waited' = (waited \/ now < clock)
      /\ \E x : login' = [login EXCEPT ![c] = x] /\ x.stage # "begun"
  <2>1. login[c].stage = "begun" /\ UNCHANGED clock
    BY DEF Consume
  <2>2. waited' = (waited \/ now < clock)
    BY <1>1 DEF Consume
  <2>3. PICK x \in {Idle, [stage |-> "allowed", at |-> 0]} : login' = [login EXCEPT ![c] = x]
    BY DEF Consume
  <2>4. x.stage # "begun"
    BY DEF Idle
  <2> QED BY <2>1, <2>2, <2>3, <2>4
<1>3. now \in Nat /\ now <= clock /\ clock <= now + MaxWait
  BY <1>1, <1>2, RowTypes DEF LimiterTypes, ThrottleInv, WaitInv
<1>4. WaitInv'
  BY <1>2 DEF LimiterTypes, ThrottleInv, WaitInv
<1>5. PICK d : d = Delay'
  OBVIOUS
<1>6. /\ d \in Nat /\ d <= Window + 1 /\ Delay <= d /\ clock <= now + d
  <2>1. CASE waited'
    BY <1>2, <1>3, <1>5, <2>1, ThrottleTypes DEF Delay
  <2>2. CASE ~waited'
    <3>1. ~waited /\ ~(now < clock)
      BY <1>2, <2>2, Zenon
    <3>2. d = 0 /\ Delay = 0
      BY <1>5, <2>2, <3>1 DEF Delay
    <3> QED BY <1>3, <3>1, <3>2, ThrottleTypes
  <2> QED BY <2>1, <2>2
<1>7. ASSUME bucket # NoBucket
      PROVE  Within(checks, bucket.start, LetThrough(bucket), d)
  BY <1>6, <1>7, ThrottleTypes, WithinShrinks DEF ThrottleInv, BurstInv
<1>8. NewCheck.at = clock
  BY NewCheckType
<1>9. CASE /\ bucket = NoBucket \/ bucket.start < now - Window
           /\ bucket' = [start |-> now, attempts |-> 1]
           /\ checks' = checks \cup {NewCheck} /\ refused' = NoRefusal
  <2>1. bucket' # NoBucket
    BY <1>3, <1>9, LimiterAssumption
  <2>2. PICK T : T = checks'
    OBVIOUS
  <2>3. LetThrough(bucket') = 1
    BY <1>9, ThrottleTypes DEF LetThrough
  <2>4. Within(T, now, 1, d)
    <3>1. CASE bucket = NoBucket
      <4>1. T = {NewCheck}
        BY <1>9, <2>2, <3>1 DEF ThrottleInv, BurstInv
      <4> QED BY <1>3, <1>6, <1>8, <4>1, ThrottleTypes, WithinFirst
    <3>2. CASE bucket # NoBucket
      BY <1>3, <1>6, <1>7, <1>8, <1>9, <2>2, <3>2, ThrottleTypes, WithinMoves
    <3> QED BY <3>1, <3>2
  <2>5. BurstInv'
    BY <1>5, <1>9, <2>1, <2>2, <2>3, <2>4 DEF BurstInv
  <2>6. RetryInv'
    BY <1>3, <1>9, <2>1, ThrottleTypes DEF RetryInv, NoRefusal, Window
  <2> QED BY <1>4, <2>5, <2>6 DEF ThrottleInv
<1>10. CASE /\ bucket # NoBucket /\ bucket.start >= now - Window
            /\ bucket.attempts < Limit
            /\ bucket' = [start |-> bucket.start, attempts |-> bucket.attempts + 1]
            /\ checks' = checks \cup {NewCheck} /\ refused' = refused
  <2>1. bucket' # NoBucket
    BY <1>10, ThrottleTypes, LimiterAssumption
  <2>2. PICK T : T = checks'
    OBVIOUS
  <2>3. LetThrough(bucket') = LetThrough(bucket) + 1
    BY <1>10, ThrottleTypes DEF LetThrough
  <2>4. Within(T, bucket.start, LetThrough(bucket) + 1, d)
    BY <1>6, <1>7, <1>10, <2>2, ThrottleTypes, WithinAdds
  <2>5. BurstInv'
    BY <1>5, <1>10, <2>1, <2>2, <2>3, <2>4 DEF BurstInv
  <2>6. RetryInv'
    BY <1>10, <2>1 DEF ThrottleInv, RetryInv, Window
  <2> QED BY <1>4, <2>5, <2>6 DEF ThrottleInv
<1>11. CASE /\ bucket # NoBucket /\ bucket.start >= now - Window
            /\ bucket.attempts >= Limit
            /\ bucket' = [start |-> bucket.start, attempts |-> Limit + 1]
            /\ checks' = checks
            /\ \E row : /\ row.start = bucket.start
                        /\ refused' = Refuse(now, RetryAfterSeconds(row, now))
  <2>1. bucket' # NoBucket
    BY <1>11, ThrottleTypes, LimiterAssumption
  <2>2. LetThrough(bucket') = Limit /\ LetThrough(bucket) = Limit
    BY <1>11, ThrottleTypes DEF LetThrough
  <2>3. BurstInv'
    BY <1>5, <1>7, <1>11, <2>1, <2>2 DEF BurstInv
  <2>4. PICK row : row.start = bucket.start /\ refused' = Refuse(now, RetryAfterSeconds(row, now))
    BY <1>11
  <2>5. PICK back : back = now + RetryAfterSeconds(row, now) * Second
    OBVIOUS
  <2>6. back \in Nat /\ back > 0 /\ 2 * (bucket.start + Window) <= 2 * back + Second
    BY <1>3, <1>11, <2>4, <2>5, RetryRounds, ThrottleTypes
  <2>7. /\ refused'.last = IF now > refused.last THEN now ELSE refused.last
        /\ refused'.until = IF refused.until = 0 \/ back < refused.until THEN back
                            ELSE refused.until
    BY <2>4, <2>5 DEF Refuse
  <2>8. RetryInv'
    <3>1. refused'.last <= bucket.start + Window
      BY <1>3, <1>11, <2>7, ThrottleTypes DEF ThrottleInv, RetryInv
    <3>2. refused'.until # 0 /\ 2 * (bucket.start + Window) <= 2 * refused'.until + Second
      BY <1>11, <2>6, <2>7, ThrottleTypes DEF ThrottleInv, RetryInv
    <3> QED BY <1>11, <2>1, <3>1, <3>2 DEF RetryInv, Window
  <2> QED BY <1>4, <2>3, <2>8 DEF ThrottleInv
<1> QED BY <1>1, <1>9, <1>10, <1>11, ConsumeCases

LEMMA ThrottleStep ==
  ASSUME LimiterTypes, ThrottleInv, LimiterNext, MaxWait <= Window + 1
  PROVE  ThrottleInv'
<1>1. CASE Tick
  BY <1>1, TickThrottle
<1>2. ASSUME NEW c \in Clients, Consume(c)
      PROVE  ThrottleInv'
  BY <1>2, ConsumeThrottle
<1>3. ASSUME UNCHANGED <<bucket, checks, waited, refused>>
      PROVE  BurstInv' /\ RetryInv'
  BY <1>3 DEF ThrottleInv, BurstInv, RetryInv, Within, Delay, LetThrough, Window
<1>4. ASSUME NEW c \in Clients, BeginLogin(c)
      PROVE  ThrottleInv'
  <2>1. WaitInv'
    <3> SUFFICES ASSUME NEW b \in Clients, login'[b].stage = "begun"
                 PROVE  clock <= login'[b].at + MaxWait
      BY <1>4 DEF BeginLogin, WaitInv
    <3>1. CASE b = c
      <4>1. login'[b].at = clock
        BY <1>4, <3>1 DEF BeginLogin, LimiterTypes
      <4> QED BY <4>1, ThrottleTypes
    <3>2. CASE b # c
      BY <1>4, <3>2 DEF BeginLogin, LimiterTypes, ThrottleInv, WaitInv
    <3> QED BY <3>1, <3>2
  <2> QED BY <1>3, <1>4, <2>1 DEF BeginLogin, ThrottleInv
<1>5. ASSUME NEW c \in Clients, WrongPassword(c)
      PROVE  ThrottleInv'
  <2>1. WaitInv'
    BY <1>5 DEF WrongPassword, Idle, ThrottleInv, WaitInv, LimiterTypes
  <2> QED BY <1>3, <1>5, <2>1 DEF WrongPassword, ThrottleInv
<1>6. ASSUME NEW c \in Clients, RightPassword(c)
      PROVE  ThrottleInv'
  <2>1. WaitInv'
    BY <1>6 DEF RightPassword, Idle, ThrottleInv, WaitInv, LimiterTypes
  <2> QED BY <1>6, <2>1 DEF RightPassword, ThrottleInv, BurstInv, RetryInv
<1> QED BY <1>1, <1>2, <1>4, <1>5, <1>6 DEF LimiterNext

\* models/rate_limit.py:12-13: what the throttle lets through in the length of
\* a window is twice the limit at most, three times if an upsert waited, and
\* Retry-After is the end of the window; for any limit, window and number of
\* callers.  Waits longer than a window would let as many windows through in
\* one go as have passed meanwhile.
THEOREM WindowHolds == ASSUME MaxWait <= Window + 1 PROVE Spec => []WindowKept
<1>1. Init => ThrottleInv
  BY DEF Init, LimiterInit, Idle, ThrottleInv, WaitInv, BurstInv, RetryInv
<1>2. TypeInv /\ ThrottleInv /\ [Next]_vars => ThrottleInv'
  <2> SUFFICES ASSUME TypeInv, ThrottleInv, [Next]_vars PROVE ThrottleInv'
    OBVIOUS
  <2>1. CASE UNCHANGED limiterVars
    BY <2>1 DEF limiterVars, ThrottleInv, WaitInv, BurstInv, RetryInv, Within, Delay,
         LetThrough, Window
  <2> QED BY <2>1, ThrottleStep DEF Next, vars, TypeInv
<1>3. TypeInv /\ ThrottleInv => WindowKept
  <2> SUFFICES ASSUME TypeInv, ThrottleInv PROVE WindowKept
    OBVIOUS
  <2> USE DEF TypeInv
  <2>1. BurstBounded
    <3>1. CASE bucket = NoBucket
      <4>1. Cardinality(checks) = 0
        BY <3>1, FS_EmptySet DEF ThrottleInv, BurstInv
      <4> QED BY <4>1, ThrottleTypes DEF BurstBounded
    <3>2. CASE bucket # NoBucket
      <4>1. Within(checks, bucket.start, LetThrough(bucket), Delay)
        BY <3>2 DEF ThrottleInv, BurstInv
      <4>2. Cardinality(checks) \in Nat
        BY ThrottleTypes, FS_CardinalityType
      <4>3. CASE waited
        BY <3>2, <4>1, <4>2, <4>3, ThrottleTypes DEF Within, BurstBounded
      <4>4. CASE ~waited
        <5>1. {x \in checks : x.at >= bucket.start + Delay - Window} = checks
          <6>1. Delay = 0
            BY <4>4 DEF Delay
          <6>2. \A x \in checks : x.at >= bucket.start + 0 - Window
            BY <3>2, ThrottleTypes
          <6> QED BY <6>1, <6>2
        <5> QED BY <3>2, <4>1, <4>2, <4>4, <5>1, ThrottleTypes DEF Within, BurstBounded
      <4> QED BY <4>3, <4>4
    <3> QED BY <3>1, <3>2
  <2>2. RetryAfterHonoured
    <3>1. /\ Second \in Nat /\ Second \div 2 \in Nat /\ Second <= 2 * (Second \div 2) + 1
      BY LimiterAssumption
    <3>2. CASE bucket = NoBucket
      BY <3>1, <3>2 DEF ThrottleInv, RetryInv, NoRefusal, RetryAfterHonoured
    <3>3. CASE bucket # NoBucket
      BY <3>1, <3>3, ThrottleTypes DEF ThrottleInv, RetryInv, RetryAfterHonoured
    <3> QED BY <3>2, <3>3
  <2> QED BY <2>1, <2>2 DEF WindowKept
<1>4. Init => TypeInv
  BY InitStore, InitTypes DEF TypeInv
<1> QED BY <1>1, <1>2, <1>3, <1>4, NextTypes, PTL DEF Spec
=============================================================================
