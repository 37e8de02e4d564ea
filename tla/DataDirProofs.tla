---------------------------- MODULE DataDirProofs ----------------------------
(***************************************************************************)
(* Proofs about the data directory, for any number of processes, uploads    *)
(* and runs and any names.                                                  *)
(*                                                                         *)
(* DirInv says, of each upload, how far it has come; of each file whose     *)
(* uploads one process took, that it holds what its opener has written; and *)
(* of each engine, whose chunks it has read.                                *)
(***************************************************************************)
EXTENDS DataDir, SequenceTheorems, TLAPS

Owners == Uploads \cup {NoOne}

Chunks == [of : Owners \cup {"nobody"}, at : Nat]

DirType ==
  /\ DOMAIN dir \subseteq Stems /\ \A s \in DOMAIN dir : dir[s] \in Seq(Chunks)
  /\ upload \in [Uploads -> {"none", "opening", "opened", "writing", "answered", "failed"}]
  /\ DOMAIN sent = Uploads
  /\ written \in [Uploads -> Nat]
  /\ run \in [Runs -> {"none", "accepted", "refused", "loading", "loaded", "missing", "dead"}]
  /\ DOMAIN asked = Runs
  /\ rows \in [Runs -> Seq(Chunks)]
  /\ opener \in [Stems -> Owners]

\* The event loop of a process is in one upload at a time.
OneHandler ==
  \A u, v \in Uploads :
    InHandler(u) /\ InHandler(v) /\ sent[u].host = sent[v].host => u = v

\* How far an upload has come.
UploadInv(u) ==
  /\ upload[u] # "none" => sent[u] \in [name : Stems, size : Nat, host : Processes]
  /\ upload[u] \in {"none", "opening", "opened"} => written[u] = 0
  /\ upload[u] \in {"opened", "writing", "answered"} => Target(u) \in DOMAIN dir
  /\ upload[u] = "answered" => written[u] = sent[u].size
  /\ upload[u] \in {"opened", "writing"} /\ ServedBy(Target(u), sent[u].host) =>
       opener[Target(u)] = u

\* A file holds what its opener has written.
FileInv(s) ==
  /\ opener[s] # NoOne => /\ opener[s] \in UploadsOf(s)
                          /\ upload[opener[s]] # "opening"
  /\ \A p \in Processes :
       s \in DOMAIN dir /\ ServedBy(s, p) =>
         /\ BeginningOf(dir[s], opener[s])
         /\ opener[s] # NoOne => Len(dir[s]) = written[opener[s]]

\* An engine has read chunks of one owner: of the file's opener, unless that
\* has opened the file under the engine and cannot go on.
Reads(r, s) ==
  \E w \in Owners :
    /\ BeginningOf(rows[r], w)
    /\ \/ run[r] = "loaded" \/ w = opener[s]
       \/ opener[s] # NoOne /\ upload[opener[s]] = "opened"

RunInv(r) ==
  LET s == asked[r].symbol
  IN  /\ run[r] # "none" => asked[r] \in [symbol : Stems, host : Processes]
      /\ run[r] \in {"accepted", "loading", "loaded"} => s \in DOMAIN dir
      /\ run[r] # "missing"
      /\ run[r] \in {"none", "accepted"} => rows[r] = <<>>
      /\ run[r] \in {"loading", "loaded"} /\ ServedBy(s, asked[r].host) => Reads(r, s)

DirInv ==
  /\ DirType /\ OneHandler
  /\ \A u \in Uploads : UploadInv(u)
  /\ \A s \in Stems : FileInv(s)
  /\ \A r \in Runs : RunInv(r)

-----------------------------------------------------------------------------
(* What all steps share.                                                    *)

\* An upload that has come stays what it is.
Later ==
  \A u \in Uploads : upload[u] # "none" => upload'[u] # "none" /\ sent'[u] = sent[u]

\* A file that one process serves after a step was served by it before.
LEMMA ServedBefore ==
  ASSUME Later, NEW s, NEW p, ServedBy(s, p)'
  PROVE  ServedBy(s, p)
<1>1. ASSUME NEW u \in UploadsOf(s)
      PROVE  u \in Uploads /\ u \in UploadsOf(s)' /\ sent'[u] = sent[u]
  BY DEF Later, UploadsOf, Target, SymbolOf
<1> QED
  BY <1>1 DEF ServedBy

\* A target is a name.
LEMMA TargetIsStem ==
  ASSUME NEW u \in Uploads, UploadInv(u), upload[u] # "none"
  PROVE  Target(u) \in Stems /\ u \in UploadsOf(Target(u))
BY DataDirAssumption DEF UploadInv, Target, SymbolOf, UploadsOf

\* A write at the end of a file appends.
LEMMA WriteAppends ==
  ASSUME NEW file \in Seq(Chunks), NEW c \in Chunks
  PROVE  /\ WriteAt(file, Len(file) + 1, c) \in Seq(Chunks)
         /\ Len(WriteAt(file, Len(file) + 1, c)) = Len(file) + 1
         /\ \A i \in 1..Len(file) : WriteAt(file, Len(file) + 1, c)[i] = file[i]
         /\ WriteAt(file, Len(file) + 1, c)[Len(file) + 1] = c
<1>1. PICK n \in Nat : n = Len(file) + 1
  OBVIOUS
<1>2. Len(file) \in Nat /\ Len(file) < n
  BY <1>1
<1>3. Max({Len(file), n}) = n
  BY <1>2 DEF Max
<1>4. WriteAt(file, n, c) =
        [j \in 1..n |-> IF j = n THEN c ELSE IF j <= Len(file) THEN file[j] ELSE Hole]
  BY <1>3, Zenon DEF WriteAt
<1>5. \A j \in 1..n : j # n => j <= Len(file) /\ file[j] \in Chunks
  BY <1>1, <1>2, ElementOfSeq
<1>6. WriteAt(file, n, c) \in [1..n -> Chunks]
  BY <1>4, <1>5
<1>7. /\ WriteAt(file, n, c) \in Seq(Chunks)
      /\ Len(WriteAt(file, n, c)) = n
  BY <1>6
<1>8. /\ \A i \in 1..Len(file) : WriteAt(file, n, c)[i] = file[i]
      /\ WriteAt(file, n, c)[n] = c
  BY <1>1, <1>2, <1>4
<1> QED
  BY <1>1, <1>7, <1>8

\* A write anywhere leaves a sequence of chunks.
LEMMA WriteIsFile ==
  ASSUME NEW file \in Seq(Chunks), NEW n \in Nat, n > 0, NEW c \in Chunks
  PROVE  WriteAt(file, n, c) \in Seq(Chunks)
<1>1. Len(file) \in Nat
  OBVIOUS
<1>2. PICK m \in Nat : m = Max({Len(file), n})
  BY <1>1 DEF Max
<1>3. WriteAt(file, n, c) =
        [j \in 1..m |-> IF j = n THEN c ELSE IF j <= Len(file) THEN file[j] ELSE Hole]
  BY <1>2, Zenon DEF WriteAt
<1>4. \A j \in 1..m : j <= Len(file) => file[j] \in Chunks
  BY <1>1, ElementOfSeq
<1>5. Hole \in Chunks
  BY DEF Hole, Chunks
<1>6. WriteAt(file, n, c) \in [1..m -> Chunks]
  BY <1>3, <1>4, <1>5
<1> QED
  BY <1>6

\* What a run's engine has read stays right in a step that neither moves the
\* run nor lets the opener of its file go on.
LEMMA ReadsStay ==
  ASSUME DirInv, Later, NEW r \in Runs,
         run'[r] = run[r], asked' = asked, rows' = rows,
         NEW s, s = asked[r].symbol,
         s \in DOMAIN dir => s \in DOMAIN dir',
         run[r] = "loading" /\ ServedBy(s, asked[r].host) =>
           \/ opener'[s] = opener[s] /\ upload'[opener[s]] = upload[opener[s]]
           \/ opener'[s] # NoOne /\ upload'[opener'[s]] = "opened"
  PROVE  RunInv(r)'
<1>1. RunInv(r)
  BY DEF DirInv
<1>2. ASSUME run[r] \in {"loading", "loaded"}, ServedBy(s, asked[r].host)'
      PROVE  Reads(r, s)'
  <2>1. ServedBy(s, asked[r].host)
    <3>1. PICK p : p = asked[r].host
      OBVIOUS
    <3> QED
      BY <1>2, <3>1, ServedBefore
  <2>2. Reads(r, s)
    BY <1>1, <1>2, <2>1 DEF RunInv
  <2> QED
    BY <1>2, <2>1, <2>2 DEF Reads, BeginningOf
<1> QED
  BY <1>1, <1>2 DEF RunInv

-----------------------------------------------------------------------------
(* One lemma for each action.                                               *)

LEMMA ReceiveUploadKeeps ==
  ASSUME DirInv, NEW u \in Uploads, NEW p \in Processes, ReceiveUpload(u, p)
  PROVE  DirInv'
<1> USE DEF DirInv
<1>1. PICK name \in Stems, size \in 0..MaxChunks :
        sent' = [sent EXCEPT ![u] = [name |-> name, size |-> size, host |-> p]]
  BY DEF ReceiveUpload
<1>2. /\ upload[u] = "none" /\ LoopFree(p)
      /\ upload' = [upload EXCEPT ![u] = "opening"]
      /\ dir' = dir /\ written' = written /\ opener' = opener
      /\ run' = run /\ asked' = asked /\ rows' = rows
  BY DEF ReceiveUpload, run_vars
<1>3. DirType'
  BY <1>1, <1>2 DEF DirType
<1>4. /\ Later
      /\ \A v \in Uploads \ {u} : sent'[v] = sent[v] /\ upload'[v] = upload[v]
      /\ upload'[u] = "opening" /\ sent'[u] = [name |-> name, size |-> size, host |-> p]
  BY <1>1, <1>2 DEF DirType, Later
<1>5. OneHandler'
  BY <1>2, <1>4 DEF OneHandler, InHandler, LoopFree
<1>6. ASSUME NEW v \in Uploads
      PROVE  UploadInv(v)'
  <2>1. CASE v = u
    BY <1>2, <1>4, <2>1, DataDirAssumption DEF UploadInv
  <2>2. CASE v # u
    <3>1. UploadInv(v) /\ Target(v)' = Target(v)
      BY <1>4, <2>2 DEF Target
    <3>2. ServedBy(Target(v), sent[v].host)' => ServedBy(Target(v), sent[v].host)
      BY <1>4, <2>2, <3>1, ServedBefore
    <3> QED
      BY <1>2, <1>4, <2>2, <3>1, <3>2 DEF UploadInv
  <2> QED
    BY <2>1, <2>2
<1>7. ASSUME NEW s \in Stems
      PROVE  FileInv(s)'
  <2>1. FileInv(s)
    OBVIOUS
  <2>2. opener[s] # NoOne => opener[s] \in Uploads \ {u}
    BY <1>2, <2>1 DEF FileInv, UploadsOf
  <2>3. ASSUME NEW q, ServedBy(s, q)'
        PROVE  ServedBy(s, q)
    BY <1>4, <2>3, ServedBefore
  <2>4. opener[s] # NoOne => opener[s] \in UploadsOf(s)' /\ upload'[opener[s]] # "opening"
    BY <1>4, <2>1, <2>2 DEF FileInv, UploadsOf, Target
  <2> QED
    BY <1>2, <2>1, <2>3, <2>4 DEF FileInv, BeginningOf
<1>8. ASSUME NEW r \in Runs
      PROVE  RunInv(r)'
  <2>1. PICK s : s = asked[r].symbol
    OBVIOUS
  <2>2. run[r] = "loading" => s \in Stems /\ opener[s] # u
    <3>1. RunInv(r)
      OBVIOUS
    <3> QED
      BY <1>2, <2>1, <3>1, DataDirAssumption DEF RunInv, FileInv, UploadsOf
  <2>3. run[r] = "loading" => upload'[opener[s]] = upload[opener[s]]
    BY <1>2, <2>2 DEF DirType
  <2> QED
    BY <1>2, <1>4, <2>1, <2>3, ReadsStay
<1> QED
  BY <1>3, <1>5, <1>6, <1>7, <1>8

LEMMA OpenKeeps ==
  ASSUME DirInv, NEW u \in Uploads, Open(u)
  PROVE  DirInv'
<1> USE DEF DirInv
<1>1. PICK t : t = Target(u)
  OBVIOUS
<1>2. /\ upload[u] = "opening"
      /\ upload' = [upload EXCEPT ![u] = "opened"]
      /\ dir' = TruncatedIn(dir, t)
      /\ opener' = [opener EXCEPT ![t] = u]
      /\ sent' = sent /\ written' = written
      /\ run' = run /\ asked' = asked /\ rows' = rows
  BY <1>1 DEF Open, run_vars
<1>3. UploadInv(u) /\ t \in Stems /\ u \in UploadsOf(t)
  BY <1>1, <1>2, TargetIsStem
<1>4. /\ DOMAIN dir' = DOMAIN dir \cup {t} /\ dir'[t] = <<>>
      /\ \A s \in DOMAIN dir \ {t} : dir'[s] = dir[s]
  BY <1>2 DEF TruncatedIn
<1>5. DirType'
  <2>1. DOMAIN dir' \subseteq Stems
    BY <1>3, <1>4 DEF DirType
  <2>2. ASSUME NEW s \in DOMAIN dir'
        PROVE  dir'[s] \in Seq(Chunks)
    <3>1. CASE s = t
      BY <1>4, <3>1
    <3>2. CASE s # t
      BY <1>4, <3>2 DEF DirType
    <3> QED
      BY <3>1, <3>2
  <2> QED
    BY <1>2, <1>3, <2>1, <2>2 DEF DirType, Owners
<1>6. /\ Later /\ upload'[u] = "opened"
      /\ \A v \in Uploads \ {u} : upload'[v] = upload[v]
      /\ opener'[t] = u /\ \A s \in Stems \ {t} : opener'[s] = opener[s]
  BY <1>2, <1>3 DEF DirType, Later
<1>7. OneHandler'
  BY <1>2, <1>6 DEF OneHandler, InHandler
<1>8. ASSUME NEW v \in Uploads
      PROVE  UploadInv(v)'
  <2>1. Target(v)' = Target(v) /\ UploadInv(v)
    BY <1>2 DEF Target
  <2>2. CASE v = u
    BY <1>1, <1>2, <1>3, <1>4, <1>6, <2>1, <2>2 DEF UploadInv
  <2>3. CASE v # u
    <3>1. ASSUME upload[v] \in {"opened", "writing"}, ServedBy(Target(v), sent[v].host)'
          PROVE  opener'[Target(v)] = v
      <4>1. ServedBy(Target(v), sent[v].host)
        <5>1. PICK s, p : s = Target(v) /\ p = sent[v].host
          OBVIOUS
        <5> QED
          BY <1>2, <1>6, <2>1, <3>1, <5>1, ServedBefore
      <4>2. Target(v) # t
        <5>1. SUFFICES ASSUME Target(v) = t
                       PROVE  FALSE
          OBVIOUS
        <5>2. sent[u].host = sent[v].host
          BY <1>3, <4>1, <5>1 DEF ServedBy
        <5> QED
          BY <1>2, <2>3, <3>1, <5>2 DEF OneHandler, InHandler
      <4>3. Target(v) \in Stems
        BY <2>1, <3>1, TargetIsStem
      <4> QED
        BY <1>6, <2>1, <3>1, <4>1, <4>2, <4>3 DEF UploadInv
    <3> QED
      BY <1>2, <1>4, <1>6, <2>1, <2>3, <3>1 DEF UploadInv
  <2> QED
    BY <2>2, <2>3
<1>9. ASSUME NEW s \in Stems
      PROVE  FileInv(s)'
  <2>1. UploadsOf(s) = UploadsOf(s)' /\ FileInv(s)
    BY <1>2, <1>6 DEF UploadsOf, Target
  <2>2. CASE s = t
    BY <1>2, <1>3, <1>4, <1>6, <2>1, <2>2 DEF FileInv, BeginningOf, UploadInv
  <2>3. CASE s # t
    <3>1. opener[s] # NoOne => opener[s] \in Uploads \ {u}
      BY <1>1, <2>1, <2>3 DEF FileInv, UploadsOf
    <3>2. ASSUME NEW p, ServedBy(s, p)'
          PROVE  ServedBy(s, p)
      BY <1>6, <3>2, ServedBefore
    <3> QED
      BY <1>2, <1>4, <1>6, <2>1, <2>3, <3>1, <3>2 DEF FileInv, BeginningOf
  <2> QED
    BY <2>2, <2>3
<1>10. ASSUME NEW r \in Runs
       PROVE  RunInv(r)'
  <2>1. PICK s : s = asked[r].symbol
    OBVIOUS
  <2>2. run[r] = "loading" => s \in Stems
    <3>1. RunInv(r)
      OBVIOUS
    <3> QED
      BY <2>1, <3>1 DEF RunInv
  <2>3. run[r] = "loading" =>
          \/ opener'[s] = opener[s] /\ upload'[opener[s]] = upload[opener[s]]
          \/ opener'[s] # NoOne /\ upload'[opener'[s]] = "opened"
    <3>1. CASE s = t
      BY <1>6, <3>1, DataDirAssumption
    <3>2. CASE s # t /\ run[r] = "loading"
      <4>1. FileInv(s) /\ opener'[s] = opener[s]
        BY <1>6, <2>2, <3>2
      <4>2. opener[s] # u
        BY <1>1, <3>2, <4>1, DataDirAssumption DEF FileInv, UploadsOf
      <4> QED
        BY <1>2, <4>1, <4>2 DEF DirType
    <3> QED
      BY <3>1, <3>2
  <2>4. s \in DOMAIN dir => s \in DOMAIN dir'
    BY <1>4
  <2> QED
    BY <1>2, <1>4, <1>6, <2>1, <2>3, <2>4, ReadsStay
<1> QED
  BY <1>5, <1>7, <1>8, <1>9, <1>10

LEMMA StartWritingKeeps ==
  ASSUME DirInv, NEW u \in Uploads, StartWriting(u)
  PROVE  DirInv'
<1> USE DEF DirInv
<1>1. /\ upload[u] = "opened" /\ LockFree(sent[u].host)
      /\ upload' = [upload EXCEPT ![u] = "writing"]
      /\ dir' = dir /\ sent' = sent /\ written' = written /\ opener' = opener
      /\ run' = run /\ asked' = asked /\ rows' = rows
  BY DEF StartWriting, run_vars
<1>2. DirType'
  BY <1>1 DEF DirType
<1>3. /\ Later /\ upload'[u] = "writing"
      /\ \A v \in Uploads \ {u} : upload'[v] = upload[v]
  BY <1>1 DEF DirType, Later
<1>4. OneHandler'
  BY <1>1, <1>3 DEF OneHandler, InHandler
<1>5. \A s, p : ServedBy(s, p)' = ServedBy(s, p)
  BY <1>1, <1>3 DEF ServedBy, UploadsOf, Target
<1>6. ASSUME NEW v \in Uploads
      PROVE  UploadInv(v)'
  <2>1. UploadInv(v) /\ Target(v)' = Target(v)
    BY <1>1 DEF Target
  <2>2. ServedBy(Target(v), sent[v].host)' = ServedBy(Target(v), sent[v].host)
    BY <1>1, <1>3 DEF ServedBy, UploadsOf, Target
  <2> QED
    BY <1>1, <1>3, <2>1, <2>2 DEF UploadInv
<1>7. ASSUME NEW s \in Stems
      PROVE  FileInv(s)'
  <2>1. FileInv(s) /\ UploadsOf(s)' = UploadsOf(s)
    BY <1>1, <1>3 DEF UploadsOf, Target
  <2>2. opener[s] # NoOne => upload'[opener[s]] # "opening"
    BY <1>3, <2>1 DEF FileInv, UploadsOf
  <2> QED
    BY <1>1, <1>5, <2>1, <2>2 DEF FileInv, BeginningOf
<1>8. ASSUME NEW r \in Runs
      PROVE  RunInv(r)'
  <2>1. PICK s : s = asked[r].symbol
    OBVIOUS
  <2>2. ASSUME run[r] = "loading", ServedBy(s, asked[r].host)
        PROVE  upload'[opener[s]] = upload[opener[s]]
    <3>1. RunInv(r)
      OBVIOUS
    <3>2. FileInv(s)
      BY <2>1, <2>2, <3>1 DEF RunInv
    <3>3. opener[s] # u
      BY <1>1, <2>2, <3>2, DataDirAssumption DEF FileInv, ServedBy, LockFree
    <3> QED
      BY <1>1, <3>3 DEF DirType
  <2> QED
    BY <1>1, <1>3, <2>1, <2>2, ReadsStay
<1> QED
  BY <1>2, <1>4, <1>6, <1>7, <1>8

LEMMA EndUploadKeeps ==
  ASSUME DirInv, NEW u \in Uploads, EndUpload(u)
  PROVE  DirInv'
<1> USE DEF DirInv
<1>1. PICK outcome \in {"answered", "failed"} :
        /\ outcome = "answered" => written[u] = sent[u].size
        /\ upload' = [upload EXCEPT ![u] = outcome]
  BY DEF EndUpload
<1>2. /\ upload[u] = "writing"
      /\ dir' = dir /\ sent' = sent /\ written' = written /\ opener' = opener
      /\ run' = run /\ asked' = asked /\ rows' = rows
  BY DEF EndUpload, run_vars
<1>3. DirType'
  BY <1>1, <1>2 DEF DirType
<1>4. /\ Later /\ upload'[u] = outcome
      /\ \A v \in Uploads \ {u} : upload'[v] = upload[v]
  BY <1>1, <1>2 DEF DirType, Later
<1>5. OneHandler'
  BY <1>1, <1>2, <1>4 DEF OneHandler, InHandler
<1>6. \A s, p : ServedBy(s, p)' = ServedBy(s, p)
  BY <1>2, <1>4 DEF ServedBy, UploadsOf, Target
<1>7. ASSUME NEW v \in Uploads
      PROVE  UploadInv(v)'
  <2>1. UploadInv(v) /\ Target(v)' = Target(v)
    BY <1>2 DEF Target
  <2>2. ServedBy(Target(v), sent[v].host)' = ServedBy(Target(v), sent[v].host)
    BY <1>2, <1>4 DEF ServedBy, UploadsOf, Target
  <2> QED
    BY <1>1, <1>2, <1>4, <2>1, <2>2 DEF UploadInv
<1>8. ASSUME NEW s \in Stems
      PROVE  FileInv(s)'
  <2>1. FileInv(s) /\ UploadsOf(s)' = UploadsOf(s)
    BY <1>2, <1>4 DEF UploadsOf, Target
  <2>2. opener[s] # NoOne => upload'[opener[s]] # "opening"
    BY <1>1, <1>4, <2>1 DEF FileInv, UploadsOf
  <2> QED
    BY <1>2, <1>6, <2>1, <2>2 DEF FileInv, BeginningOf
<1>9. ASSUME NEW r \in Runs
      PROVE  RunInv(r)'
  <2>1. PICK s : s = asked[r].symbol
    OBVIOUS
  <2>2. RunInv(r)
    OBVIOUS
  <2>3. ASSUME run[r] \in {"loading", "loaded"}, ServedBy(s, asked[r].host)'
        PROVE  Reads(r, s)'
    <3>1. Reads(r, s) /\ s \in Stems
      BY <1>6, <2>1, <2>2, <2>3, <1>2 DEF RunInv
    <3>2. FileInv(s)
      BY <3>1
    <3>3. opener[s] # NoOne /\ upload[opener[s]] = "opened" => upload'[opener[s]] = "opened"
      BY <1>2, <1>4, <3>2 DEF FileInv, UploadsOf
    <3> QED
      BY <1>2, <3>1, <3>3 DEF Reads, BeginningOf
  <2> QED
    BY <1>2, <2>1, <2>2, <2>3 DEF RunInv
<1> QED
  BY <1>3, <1>5, <1>7, <1>8, <1>9

LEMMA WriteChunkKeeps ==
  ASSUME DirInv, NEW u \in Uploads, WriteChunk(u)
  PROVE  DirInv'
<1> USE DEF DirInv
<1>1. PICK t, n : t = Target(u) /\ n = written[u] + 1
  OBVIOUS
<1>2. /\ upload[u] = "writing"
      /\ written' = [written EXCEPT ![u] = n]
      /\ upload' = upload /\ sent' = sent /\ opener' = opener
      /\ run' = run /\ asked' = asked /\ rows' = rows
  BY <1>1 DEF WriteChunk, run_vars
<1>3. /\ UploadInv(u) /\ t \in Stems /\ u \in UploadsOf(t) /\ t \in DOMAIN dir
      /\ written[u] \in Nat /\ n \in Nat /\ n > 0 /\ written'[u] = n
      /\ \A v \in Uploads \ {u} : written'[v] = written[v]
  <2>1. UploadInv(u) /\ t \in Stems /\ u \in UploadsOf(t)
    BY <1>1, <1>2, TargetIsStem
  <2> QED
    BY <1>1, <1>2, <2>1 DEF UploadInv, DirType
<1>4. /\ DOMAIN dir' = DOMAIN dir
      /\ dir'[t] = WriteAt(dir[t], n, Chunk(u, n))
      /\ \A s \in DOMAIN dir \ {t} : dir'[s] = dir[s]
  BY <1>1, <1>3 DEF WriteChunk, Contents
<1>5. dir[t] \in Seq(Chunks) /\ Chunk(u, n) \in Chunks
  BY <1>3 DEF DirType, Chunk, Chunks, Owners
<1>6. dir'[t] \in Seq(Chunks)
  BY <1>3, <1>4, <1>5, WriteIsFile
<1>7. DirType'
  <2>1. \A s \in DOMAIN dir' : dir'[s] \in Seq(Chunks)
    BY <1>4, <1>6 DEF DirType
  <2> QED
    BY <1>2, <1>3, <1>4, <2>1 DEF DirType
<1>8. Later /\ OneHandler'
  BY <1>2 DEF Later, OneHandler, InHandler
<1>9. \A s, p : ServedBy(s, p)' = ServedBy(s, p)
  BY <1>2 DEF ServedBy, UploadsOf, Target
<1>10. ASSUME NEW v \in Uploads
       PROVE  UploadInv(v)'
  <2>1. UploadInv(v) /\ Target(v)' = Target(v)
    BY <1>2 DEF Target
  <2>2. ServedBy(Target(v), sent[v].host)' = ServedBy(Target(v), sent[v].host)
    BY <1>2 DEF ServedBy, UploadsOf, Target
  <2>3. v # u => written'[v] = written[v]
    BY <1>3
  <2> QED
    BY <1>2, <1>4, <2>1, <2>2, <2>3 DEF UploadInv
<1>11. ASSUME NEW s \in Stems
       PROVE  FileInv(s)'
  <2>1. FileInv(s) /\ UploadsOf(s)' = UploadsOf(s)
    BY <1>2 DEF UploadsOf, Target
  <2>2. CASE s = t
    <3>1. ASSUME NEW p \in Processes, ServedBy(s, p)
          PROVE  BeginningOf(dir[s], u)' /\ Len(dir'[s]) = n /\ opener[s] = u
      <4>1. sent[u].host = p
        BY <1>3, <2>2, <3>1 DEF ServedBy
      <4>2. opener[s] = u
        BY <1>1, <1>2, <1>3, <2>2, <3>1, <4>1 DEF UploadInv
      <4>3. BeginningOf(dir[s], u) /\ Len(dir[s]) = written[u] /\ n = Len(dir[s]) + 1
        BY <1>1, <1>3, <2>1, <2>2, <3>1, <4>2, DataDirAssumption DEF FileInv
      <4>4. /\ Len(dir'[s]) = n /\ dir'[s] \in Seq(Chunks)
            /\ \A i \in 1..Len(dir[s]) : dir'[s][i] = dir[s][i]
            /\ dir'[s][n] = Chunk(u, n)
        <5>1. PICK file \in Seq(Chunks), c \in Chunks : file = dir[s] /\ c = Chunk(u, n)
          BY <1>5, <2>2
        <5>2. n = Len(file) + 1 /\ dir'[s] = WriteAt(file, Len(file) + 1, c)
          BY <1>4, <2>2, <4>3, <5>1
        <5>3. /\ WriteAt(file, Len(file) + 1, c) \in Seq(Chunks)
              /\ Len(WriteAt(file, Len(file) + 1, c)) = Len(file) + 1
              /\ \A i \in 1..Len(file) : WriteAt(file, Len(file) + 1, c)[i] = file[i]
              /\ WriteAt(file, Len(file) + 1, c)[Len(file) + 1] = c
          BY WriteAppends
        <5> QED
          BY <5>1, <5>2, <5>3
      <4>5. ASSUME NEW i \in DOMAIN dir'[s]
            PROVE  dir'[s][i] = Chunk(u, i)
        <5>1. i \in 1..n
          BY <4>4, <4>5
        <5>2. CASE i = n
          BY <4>4, <5>2
        <5>3. CASE i # n
          <6>1. i \in 1..Len(dir[s]) /\ i \in DOMAIN dir[s]
            BY <1>5, <2>2, <4>3, <5>1, <5>3
          <6> QED
            BY <4>3, <4>4, <6>1 DEF BeginningOf
        <5> QED
          BY <5>2, <5>3
      <4>6. BeginningOf(dir[s], u)'
        BY <4>5 DEF BeginningOf, Chunk
      <4> QED
        BY <4>2, <4>4, <4>6
    <3> QED
      BY <1>2, <1>3, <1>9, <2>1, <3>1 DEF FileInv, BeginningOf
  <2>3. CASE s # t
    <3>1. opener[s] # NoOne => written'[opener[s]] = written[opener[s]]
      BY <1>1, <1>3, <2>1, <2>3 DEF FileInv, UploadsOf
    <3> QED
      BY <1>2, <1>4, <1>9, <2>1, <2>3, <3>1 DEF FileInv, BeginningOf
  <2> QED
    BY <2>2, <2>3
<1>12. ASSUME NEW r \in Runs
       PROVE  RunInv(r)'
  <2>1. PICK s : s = asked[r].symbol
    OBVIOUS
  <2> QED
    BY <1>2, <1>4, <1>8, <2>1, ReadsStay
<1> QED
  BY <1>7, <1>8, <1>10, <1>11, <1>12

\* What a step of an engine leaves alone.
LEMMA UploadsStay ==
  ASSUME DirInv, UNCHANGED <<dir, upload_vars>>
  PROVE  /\ OneHandler' /\ \A u \in Uploads : UploadInv(u)'
         /\ \A s \in Stems : FileInv(s)'
         /\ \A s, p : ServedBy(s, p)' = ServedBy(s, p)
<1>1. /\ dir' = dir /\ upload' = upload /\ sent' = sent
      /\ written' = written /\ opener' = opener
  BY DEF upload_vars
<1>2. OneHandler'
  BY <1>1 DEF DirInv, OneHandler, InHandler
<1>3. \A u \in Uploads : UploadInv(u)'
  BY <1>1 DEF DirInv, UploadInv, ServedBy, UploadsOf, Target
<1>4. \A s \in Stems : FileInv(s)'
  BY <1>1 DEF DirInv, FileInv, BeginningOf, ServedBy, UploadsOf, Target
<1>5. \A s, p : ServedBy(s, p)' = ServedBy(s, p)
  BY <1>1 DEF ServedBy, UploadsOf, Target
<1> QED
  BY <1>2, <1>3, <1>4, <1>5

LEMMA CheckSymbolKeeps ==
  ASSUME DirInv, NEW r \in Runs, NEW p \in Processes, CheckSymbol(r, p)
  PROVE  DirInv'
<1> USE DEF DirInv
<1>1. PICK name \in Stems :
        /\ asked' = [asked EXCEPT ![r] = [symbol |-> RequestSymbol(name), host |-> p]]
        /\ run' = [run EXCEPT ![r] = IF RequestSymbol(name) \in DOMAIN dir
                                     THEN "accepted" ELSE "refused"]
  BY DEF CheckSymbol
<1>2. /\ run[r] = "none" /\ dir' = dir /\ upload' = upload /\ sent' = sent
      /\ written' = written /\ opener' = opener /\ rows' = rows
  BY DEF CheckSymbol, upload_vars
<1>3. RequestSymbol(name) \in Stems
  BY DataDirAssumption DEF RequestSymbol
<1>4. DirType'
  BY <1>1, <1>2 DEF DirType
<1>5. UNCHANGED <<dir, upload_vars>>
  BY <1>2 DEF upload_vars
<1>6. ASSUME NEW q \in Runs
      PROVE  RunInv(q)'
  <2>1. RunInv(q)
    OBVIOUS
  <2>2. CASE q = r
    BY <1>1, <1>2, <1>3, <2>1, <2>2 DEF RunInv, DirType
  <2>3. CASE q # r
    <3>1. run'[q] = run[q] /\ asked'[q] = asked[q]
      BY <1>1, <2>3 DEF DirType
    <3>2. PICK s : s = asked[q].symbol
      OBVIOUS
    <3>3. ServedBy(s, asked[q].host)' = ServedBy(s, asked[q].host)
      BY <1>2, <3>1 DEF ServedBy, UploadsOf, Target
    <3>4. Reads(q, s)' = Reads(q, s)
      BY <1>2, <3>1 DEF Reads, BeginningOf
    <3> QED
      BY <1>2, <2>1, <3>1, <3>2, <3>3, <3>4 DEF RunInv
  <2> QED
    BY <2>2, <2>3
<1> QED
  BY <1>4, <1>5, <1>6, UploadsStay

LEMMA OpenFileKeeps ==
  ASSUME DirInv, NEW r \in Runs, OpenFile(r)
  PROVE  DirInv'
<1> USE DEF DirInv
<1>1. PICK t : t = asked[r].symbol
  OBVIOUS
<1>2. /\ run[r] = "accepted" /\ asked' = asked /\ rows' = rows
      /\ run' = [run EXCEPT ![r] = IF t \in DOMAIN dir THEN "loading" ELSE "missing"]
      /\ dir' = dir /\ upload' = upload /\ sent' = sent
      /\ written' = written /\ opener' = opener
  BY <1>1 DEF OpenFile, upload_vars
<1>3. DirType'
  BY <1>2 DEF DirType
<1>4. UNCHANGED <<dir, upload_vars>>
  BY <1>2 DEF upload_vars
<1>5. ASSUME NEW q \in Runs
      PROVE  RunInv(q)'
  <2>1. RunInv(q)
    OBVIOUS
  <2>2. CASE q = r
    <3>1. run'[q] = "loading" /\ rows[q] = <<>> /\ t \in Stems
      BY <1>1, <1>2, <2>1, <2>2 DEF RunInv, DirType
    <3>2. Reads(q, t)'
      BY <1>2, <3>1 DEF Reads, BeginningOf, DirType
    <3> QED
      BY <1>1, <1>2, <2>1, <2>2, <3>1, <3>2 DEF RunInv
  <2>3. CASE q # r
    <3>1. run'[q] = run[q]
      BY <1>2, <2>3 DEF DirType
    <3>2. PICK s : s = asked[q].symbol
      OBVIOUS
    <3> QED
      BY <1>2, <1>4, <2>1, <3>1, <3>2, ReadsStay DEF Later
  <2> QED
    BY <2>2, <2>3
<1> QED
  BY <1>3, <1>4, <1>5, UploadsStay

LEMMA ReadChunkKeeps ==
  ASSUME DirInv, NEW r \in Runs, ReadChunk(r)
  PROVE  DirInv'
<1> USE DEF DirInv
<1>1. PICK t, next : t = asked[r].symbol /\ next = Len(rows[r]) + 1
  OBVIOUS
<1>2. /\ run[r] = "loading" /\ asked' = asked /\ dir' = dir /\ upload' = upload
      /\ sent' = sent /\ written' = written /\ opener' = opener
      /\ IF next <= Len(Contents(t))
         THEN rows' = [rows EXCEPT ![r] = Append(@, Contents(t)[next])] /\ run' = run
         ELSE run' = [run EXCEPT ![r] = "loaded"] /\ rows' = rows
  BY <1>1 DEF ReadChunk, upload_vars
<1>3. /\ RunInv(r) /\ t \in DOMAIN dir /\ t \in Stems /\ asked[r].host \in Processes
      /\ Contents(t) = dir[t] /\ dir[t] \in Seq(Chunks)
      /\ rows[r] \in Seq(Chunks) /\ next \in Nat /\ next > 0
  BY <1>1, <1>2 DEF RunInv, DirType, Contents
<1>4. next <= Len(dir[t]) => dir[t][next] \in Chunks /\ next \in DOMAIN dir[t]
  BY <1>3
<1>5. DirType'
  <2>1. rows' \in [Runs -> Seq(Chunks)]
    <3>1. CASE next <= Len(dir[t])
      <4>1. Append(rows[r], dir[t][next]) \in Seq(Chunks)
        BY <1>3, <1>4, <3>1
      <4>2. rows' = [rows EXCEPT ![r] = Append(rows[r], dir[t][next])]
        BY <1>2, <1>3, <3>1
      <4> QED
        BY <4>1, <4>2 DEF DirType
    <3>2. CASE ~(next <= Len(dir[t]))
      BY <1>2, <1>3, <3>2 DEF DirType
    <3> QED
      BY <3>1, <3>2
  <2>2. run' \in [Runs -> {"none", "accepted", "refused", "loading", "loaded", "missing", "dead"}]
    BY <1>2 DEF DirType
  <2> QED
    BY <1>2, <2>1, <2>2 DEF DirType
<1>6. UNCHANGED <<dir, upload_vars>>
  BY <1>2 DEF upload_vars
<1>7. ASSUME NEW q \in Runs
      PROVE  RunInv(q)'
  <2>1. RunInv(q)
    OBVIOUS
  <2>2. CASE q = r /\ next <= Len(dir[t])
    <3>1. /\ run' = run
          /\ rows'[q] = Append(rows[q], dir[t][next])
      BY <1>2, <1>3, <2>2 DEF DirType
    <3>2. ASSUME ServedBy(t, asked[q].host)
          PROVE  Reads(q, t)'
      <4>1. /\ FileInv(t) /\ BeginningOf(dir[t], opener[t]) /\ opener[t] \in Owners
            /\ opener[t] # NoOne => opener[t] \in Uploads /\ Len(dir[t]) = written[opener[t]]
        BY <1>3, <2>2, <3>2 DEF FileInv, DirType, Owners
      <4>2. opener[t] # NoOne => upload[opener[t]] # "opened"
        <5>1. SUFFICES ASSUME opener[t] # NoOne, upload[opener[t]] = "opened"
                       PROVE  FALSE
          OBVIOUS
        <5>2. written[opener[t]] = 0
          BY <4>1, <5>1 DEF UploadInv
        <5> QED
          BY <1>3, <2>2, <4>1, <5>1, <5>2
      <4>3. BeginningOf(rows[q], opener[t])
        BY <1>1, <1>2, <2>1, <2>2, <3>2, <4>2 DEF RunInv, Reads
      <4>4. dir[t][next] = Chunk(opener[t], next)
        BY <1>4, <2>2, <4>1 DEF BeginningOf
      <4>5. ASSUME NEW i \in DOMAIN rows'[q]
            PROVE  rows'[q][i] = Chunk(opener[t], i)
        BY <1>1, <1>3, <1>4, <2>2, <3>1, <4>3, <4>4, <4>5 DEF BeginningOf
      <4> QED
        BY <1>2, <4>1, <4>5 DEF Reads, BeginningOf, Chunk
    <3>3. ServedBy(t, asked[q].host)' = ServedBy(t, asked[q].host)
      BY <1>2 DEF ServedBy, UploadsOf, Target
    <3> QED
      BY <1>1, <1>2, <2>1, <2>2, <3>1, <3>2, <3>3 DEF RunInv
  <2>3. CASE q = r /\ ~(next <= Len(dir[t]))
    <3>1. run'[q] = "loaded" /\ rows' = rows
      BY <1>2, <1>3, <2>3 DEF DirType
    <3>2. ServedBy(t, asked[q].host)' = ServedBy(t, asked[q].host)
      BY <1>2 DEF ServedBy, UploadsOf, Target
    <3>3. Reads(q, t) => Reads(q, t)'
      BY <1>2, <3>1 DEF Reads, BeginningOf
    <3> QED
      BY <1>1, <1>2, <2>1, <2>3, <3>1, <3>2, <3>3 DEF RunInv
  <2>4. CASE q # r
    <3>1. run'[q] = run[q] /\ rows'[q] = rows[q]
      BY <1>2, <2>4 DEF DirType
    <3>2. PICK s : s = asked[q].symbol
      OBVIOUS
    <3>3. ServedBy(s, asked[q].host)' = ServedBy(s, asked[q].host)
      BY <1>2 DEF ServedBy, UploadsOf, Target
    <3>4. Reads(q, s)' = Reads(q, s)
      BY <1>2, <3>1 DEF Reads, BeginningOf
    <3> QED
      BY <1>2, <2>1, <3>1, <3>2, <3>3, <3>4 DEF RunInv
  <2> QED
    BY <2>2, <2>3, <2>4
<1> QED
  BY <1>5, <1>6, <1>7, UploadsStay

LEMMA RestartKeeps ==
  ASSUME DirInv, NEW p \in Processes, Restart(p)
  PROVE  DirInv'
<1> USE DEF DirInv
<1>1. /\ upload' = [u \in Uploads |-> IF InHandler(u) /\ sent[u].host = p THEN "failed"
                                      ELSE upload[u]]
      /\ run' = [r \in Runs |-> IF run[r] \in {"accepted", "loading"} /\ asked[r].host = p
                                THEN "dead" ELSE run[r]]
      /\ dir' = dir /\ sent' = sent /\ written' = written /\ opener' = opener
      /\ asked' = asked /\ rows' = rows
  BY DEF Restart
<1>2. DirType'
  <2>1. upload' \in [Uploads -> {"none", "opening", "opened", "writing", "answered", "failed"}]
    BY <1>1 DEF DirType
  <2>2. run' \in [Runs -> {"none", "accepted", "refused", "loading", "loaded", "missing", "dead"}]
    BY <1>1 DEF DirType
  <2> QED
    BY <1>1, <2>1, <2>2 DEF DirType
<1>3. \A u \in Uploads : \/ upload'[u] = upload[u] /\ ~(InHandler(u) /\ sent[u].host = p)
                         \/ upload'[u] = "failed" /\ InHandler(u) /\ sent[u].host = p
  BY <1>1
<1>4. OneHandler'
  BY <1>1, <1>3 DEF OneHandler, InHandler
<1>5. /\ \A s : UploadsOf(s)' = UploadsOf(s)
      /\ \A s, q : ServedBy(s, q)' = ServedBy(s, q)
  BY <1>1, <1>3 DEF ServedBy, UploadsOf, Target, InHandler
<1>6. ASSUME NEW v \in Uploads
      PROVE  UploadInv(v)'
  <2>1. UploadInv(v) /\ Target(v)' = Target(v)
    BY <1>1 DEF Target
  <2>2. ServedBy(Target(v), sent[v].host)' = ServedBy(Target(v), sent[v].host)
    BY <1>1, <1>3 DEF ServedBy, UploadsOf, Target, InHandler
  <2> QED
    BY <1>1, <1>3, <2>1, <2>2 DEF UploadInv, InHandler
<1>7. ASSUME NEW s \in Stems
      PROVE  FileInv(s)'
  <2>1. FileInv(s) /\ UploadsOf(s)' = UploadsOf(s)
    BY <1>5
  <2>2. opener[s] # NoOne => upload'[opener[s]] # "opening"
    BY <1>3, <2>1 DEF FileInv, UploadsOf
  <2> QED
    BY <1>1, <1>5, <2>1, <2>2 DEF FileInv, BeginningOf
<1>8. ASSUME NEW r \in Runs
      PROVE  RunInv(r)'
  <2>1. RunInv(r)
    OBVIOUS
  <2>2. \/ run'[r] = "dead"
        \/ run'[r] = run[r] /\ ~(run[r] = "loading" /\ asked[r].host = p)
    BY <1>1
  <2>3. CASE run'[r] = "dead"
    BY <1>1, <2>1, <2>3 DEF RunInv
  <2>4. CASE run'[r] = run[r] /\ ~(run[r] = "loading" /\ asked[r].host = p)
    <3>1. PICK s : s = asked[r].symbol
      OBVIOUS
    <3>2. ASSUME run[r] \in {"loading", "loaded"}, ServedBy(s, asked[r].host)
          PROVE  Reads(r, s)'
      <4>1. Reads(r, s) /\ s \in Stems
        BY <2>1, <3>1, <3>2 DEF RunInv
      <4>2. ASSUME run[r] = "loading", opener[s] # NoOne, upload[opener[s]] = "opened"
            PROVE  upload'[opener[s]] = "opened"
        <5>1. FileInv(s)
          BY <4>1
        <5>2. opener[s] \in Uploads /\ sent[opener[s]].host # p
          BY <2>4, <3>2, <4>2, <5>1 DEF FileInv, UploadsOf, ServedBy
        <5> QED
          BY <1>3, <4>2, <5>2
      <4> QED
        BY <1>1, <2>4, <3>2, <4>1, <4>2 DEF Reads, BeginningOf
    <3>3. ServedBy(s, asked[r].host)' = ServedBy(s, asked[r].host)
      BY <1>1, <1>3 DEF ServedBy, UploadsOf, Target, InHandler
    <3> QED
      BY <1>1, <2>1, <2>4, <3>1, <3>2, <3>3 DEF RunInv
  <2> QED
    BY <2>2, <2>3, <2>4
<1> QED
  BY <1>2, <1>4, <1>6, <1>7, <1>8

-----------------------------------------------------------------------------
(* The invariant, and what follows from it.                                 *)

LEMMA DirInvInit == Init => DirInv
<1> SUFFICES ASSUME Init
             PROVE  DirInv
  OBVIOUS
<1>1. PICK there \in Placed :
        dir = [s \in there |-> [i \in 1..MaxChunks |-> Chunk(NoOne, i)]]
  BY DEF Init
<1>2. /\ there \subseteq Stems /\ DOMAIN dir = there
      /\ \A s \in there : dir[s] = [i \in 1..MaxChunks |-> Chunk(NoOne, i)]
  BY <1>1, DataDirAssumption
<1>3. ASSUME NEW s \in there
      PROVE  dir[s] \in Seq(Chunks) /\ BeginningOf(dir[s], NoOne)
  <2>1. \A i \in 1..MaxChunks : Chunk(NoOne, i) \in Chunks
    BY DEF Chunk, Chunks, Owners
  <2>2. dir[s] \in [1..MaxChunks -> Chunks]
    BY <1>2, <2>1
  <2> QED
    BY <1>2, <2>2, DataDirAssumption DEF BeginningOf
<1>4. DirType
  <2>1. DOMAIN dir \subseteq Stems /\ \A s \in DOMAIN dir : dir[s] \in Seq(Chunks)
    BY <1>2, <1>3
  <2>2. /\ upload \in [Uploads -> {"none", "opening", "opened", "writing", "answered", "failed"}]
        /\ DOMAIN sent = Uploads /\ written \in [Uploads -> Nat]
    BY DEF Init
  <2>3. /\ run \in [Runs -> {"none", "accepted", "refused", "loading", "loaded", "missing", "dead"}]
        /\ DOMAIN asked = Runs
    BY DEF Init
  <2>4. rows \in [Runs -> Seq(Chunks)]
    <3>1. <<>> \in Seq(Chunks)
      OBVIOUS
    <3>2. rows = [r \in Runs |-> <<>>]
      BY DEF Init
    <3> QED
      BY <3>1, <3>2
  <2>5. opener \in [Stems -> Owners]
    BY DEF Init, Owners
  <2> QED
    BY <2>1, <2>2, <2>3, <2>4, <2>5 DEF DirType
<1>5. OneHandler
  BY DEF Init, OneHandler, InHandler
<1>6. \A u \in Uploads : UploadInv(u)
  BY DEF Init, UploadInv
<1>7. \A s \in Stems : FileInv(s)
  BY <1>2, <1>3 DEF Init, FileInv
<1>8. \A r \in Runs : RunInv(r)
  BY DEF Init, RunInv
<1> QED
  BY <1>4, <1>5, <1>6, <1>7, <1>8 DEF DirInv

LEMMA DirInvStays == DirInv /\ UNCHANGED vars => DirInv'
<1> SUFFICES ASSUME DirInv, UNCHANGED vars
             PROVE  DirInv'
  OBVIOUS
<1>1. UNCHANGED <<dir, upload_vars>> /\ run' = run /\ asked' = asked /\ rows' = rows
  BY DEF vars, run_vars
<1>2. DirType'
  BY <1>1 DEF DirInv, DirType, upload_vars
<1>3. \A r \in Runs : RunInv(r)'
  BY <1>1 DEF DirInv, RunInv, Reads, BeginningOf, ServedBy, UploadsOf, Target, upload_vars
<1> QED
  BY <1>1, <1>2, <1>3, UploadsStay DEF DirInv

LEMMA DirInvKept == DirInv /\ [Next]_vars => DirInv'
<1> SUFFICES ASSUME DirInv, [Next]_vars
             PROVE  DirInv'
  OBVIOUS
<1>1. ASSUME NEW u \in Uploads, NEW p \in Processes, ReceiveUpload(u, p)
      PROVE  DirInv'
  BY <1>1, ReceiveUploadKeeps
<1>2. ASSUME NEW u \in Uploads, Open(u)
      PROVE  DirInv'
  BY <1>2, OpenKeeps
<1>3. ASSUME NEW u \in Uploads, StartWriting(u)
      PROVE  DirInv'
  BY <1>3, StartWritingKeeps
<1>4. ASSUME NEW u \in Uploads, WriteChunk(u)
      PROVE  DirInv'
  BY <1>4, WriteChunkKeeps
<1>5. ASSUME NEW u \in Uploads, EndUpload(u)
      PROVE  DirInv'
  BY <1>5, EndUploadKeeps
<1>6. ASSUME NEW r \in Runs, NEW p \in Processes, CheckSymbol(r, p)
      PROVE  DirInv'
  BY <1>6, CheckSymbolKeeps
<1>7. ASSUME NEW r \in Runs, OpenFile(r)
      PROVE  DirInv'
  BY <1>7, OpenFileKeeps
<1>8. ASSUME NEW r \in Runs, ReadChunk(r)
      PROVE  DirInv'
  BY <1>8, ReadChunkKeeps
<1>9. ASSUME NEW p \in Processes, Restart(p)
      PROVE  DirInv'
  BY <1>9, RestartKeeps
<1>10. CASE UNCHANGED vars
  BY <1>10, DirInvStays
<1> QED
  BY <1>1, <1>2, <1>3, <1>4, <1>5, <1>6, <1>7, <1>8, <1>9, <1>10 DEF Next

LEMMA DirInvHolds == Spec => []DirInv
BY DirInvInit, DirInvKept, PTL DEF Spec

\* An engine never mixes two uploads of its symbol when its own process took
\* them all (main.py:175, bindings.cpp:103).
THEOREM EnginesLoadOneUpload == Spec => []LoadsOneUpload
<1>1. DirInv => LoadsOneUpload
  <2> SUFFICES ASSUME DirInv, NEW r \in Runs, run[r] = "loaded",
                      ServedBy(asked[r].symbol, asked[r].host)
               PROVE  \E u \in Uploads \cup {NoOne} : BeginningOf(rows[r], u)
    BY DEF LoadsOneUpload
  <2>1. RunInv(r)
    BY DEF DirInv
  <2> QED
    BY <2>1 DEF RunInv, Reads, Owners
<1> QED
  BY <1>1, DirInvHolds, PTL

\* A file whose uploads one process takes holds the beginning of the last one
\* to have opened it, and all of it once that has been answered (main.py:175).
THEOREM AnsweredUploadsStored == Spec => []AnsweredIsStored
<1>1. DirInv => AnsweredIsStored
  <2> SUFFICES ASSUME DirInv, NEW s \in DOMAIN dir, NEW p \in Processes,
                      ServedBy(s, p), opener[s] # NoOne
               PROVE  /\ BeginningOf(dir[s], opener[s])
                      /\ upload[opener[s]] = "answered" =>
                           Len(dir[s]) = sent[opener[s]].size
    BY DEF AnsweredIsStored
  <2>1. FileInv(s) /\ s \in Stems
    BY DEF DirInv, DirType
  <2>2. opener[s] \in Uploads
    BY <2>1 DEF FileInv, UploadsOf
  <2>3. UploadInv(opener[s])
    BY <2>2 DEF DirInv
  <2> QED
    BY <2>1, <2>3 DEF FileInv, UploadInv
<1> QED
  BY <1>1, DirInvHolds, PTL

\* The engine of an accepted request finds its file, however late it starts
\* (main.py:197, DataHandler.cpp:62).
THEOREM AcceptedRunsFindFile == Spec => []AcceptedFindsFile
<1>1. DirInv => AcceptedFindsFile
  BY DEF DirInv, RunInv, AcceptedFindsFile
<1> QED
  BY <1>1, DirInvHolds, PTL

\* A file uploaded under a name without blanks at its ends can be run, by the
\* name it was stored under and by the name it was sent with (main.py:172,
\* models.py:46).
THEOREM UploadsAreRunnable == Spec => []UploadedIsRunnable
<1>1. DirInv => UploadedIsRunnable
  <2> SUFFICES ASSUME DirInv, NEW u \in Uploads, upload[u] = "answered",
                      Strip[Target(u)] = Target(u)
               PROVE  /\ Target(u) \in ListSymbols
                      /\ {RequestSymbol(Target(u)), RequestSymbol(sent[u].name)}
                           \subseteq DOMAIN dir
    BY DEF UploadedIsRunnable
  <2>1. UploadInv(u)
    BY DEF DirInv
  <2>2. Target(u) \in DOMAIN dir /\ sent[u].name \in Stems
    BY <2>1 DEF UploadInv
  <2>3. Target(u) = Upper[sent[u].name] /\ Upper[Target(u)] = Target(u)
    BY <2>2, UpperAssumption DEF Target, SymbolOf
  <2> QED
    BY <2>2, <2>3 DEF RequestSymbol, ListSymbols
<1> QED
  BY <1>1, DirInvHolds, PTL
=============================================================================
