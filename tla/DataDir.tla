------------------------------- MODULE DataDir -------------------------------
(***************************************************************************)
(* The data directory that API processes and engines share: the upload and  *)
(* the listing of CSV files and the check of a request's symbol             *)
(* (api/main.py), and the engine's reading of a file (load_csv in           *)
(* cpp-engine/src/DataHandler.cpp, called with the interpreter lock held).   *)
(*                                                                         *)
(* A file is a sequence of chunks; what one write or read call moves.  The  *)
(* part of the upload handler that writes has no await, so it keeps the     *)
(* event loop of its process from start to end, but Python gives up the     *)
(* interpreter lock inside open() and write(): a call under way goes on     *)
(* while an engine of the same process reads, and the next call has to      *)
(* wait for the lock.                                                      *)
(***************************************************************************)
EXTENDS Integers, SequencesExt

CONSTANTS
  Stems,            \* names of files, without .csv
  Upper, Strip,     \* str.upper and str.strip on these names
  Placed,           \* the sets of files that may be there from the start
  Processes,        \* API processes
  Uploads,          \* uploads that may be made
  Runs,             \* runs that may be requested
  MaxChunks         \* bound: chunks of one upload

NoOne == "placed"

ASSUME DataDirAssumption ==
  /\ Upper \in [Stems -> Stems] /\ Strip \in [Stems -> Stems]
  /\ Placed \subseteq SUBSET Stems
  /\ MaxChunks \in Nat \ {0}
  /\ NoOne \notin Uploads

ASSUME UpperAssumption == \A name \in Stems : Upper[Upper[name]] = Upper[name]

VARIABLES
  dir,              \* the files there are and their chunks
  upload,           \* where each upload is
  sent,             \* [name, size, host] of each upload, once it has come
  written,          \* chunks each upload has written
  run,              \* where each run is
  asked,            \* [symbol, host] of each run, once it has been requested
  rows,             \* the chunks each engine has read
  opener            \* history: the last upload to have opened each file

upload_vars == <<upload, sent, written, opener>>
run_vars == <<run, asked, rows>>
vars == <<dir, upload_vars, run_vars>>

Chunk(u, i) == [of |-> u, at |-> i]

Hole == [of |-> "nobody", at |-> 0]

Contents(s) == IF s \in DOMAIN dir THEN dir[s] ELSE <<>>

\* A write at offset i; beyond the end of the file it leaves a hole.
WriteAt(file, i, chunk) ==
  [j \in 1..Max({Len(file), i}) |->
     IF j = i THEN chunk ELSE IF j <= Len(file) THEN file[j] ELSE Hole]

Init ==
  /\ \E there \in Placed : dir = [s \in there |-> [i \in 1..MaxChunks |-> Chunk(NoOne, i)]]
  /\ upload = [u \in Uploads |-> "none"]
  /\ sent = [u \in Uploads |-> [name |-> "", size |-> 0, host |-> ""]]
  /\ written = [u \in Uploads |-> 0]
  /\ run = [r \in Runs |-> "none"]
  /\ asked = [r \in Runs |-> [symbol |-> "", host |-> ""]]
  /\ rows = [r \in Runs |-> <<>>]
  /\ opener = [s \in Stems |-> NoOne]

\* An engine holds the interpreter lock of its process while it loads.
LockFree(p) == \A r \in Runs : run[r] = "loading" => asked[r].host # p

InHandler(u) == upload[u] \in {"opening", "opened", "writing"}

LoopFree(p) == LockFree(p) /\ \A u \in Uploads : InHandler(u) => sent[u].host # p

-----------------------------------------------------------------------------
(* POST /data/upload, once the content has been received.                   *)

\* Mutant: the name is kept as it was sent.
SymbolAsSent(name) == name

SymbolOf(name) == Upper[name]

ReceiveUpload(u, p) ==
  /\ upload[u] = "none" /\ LoopFree(p)
  /\ upload' = [upload EXCEPT ![u] = "opening"]
  /\ \E name \in Stems, size \in 0..MaxChunks :
       sent' = [sent EXCEPT ![u] = [name |-> name, size |-> size, host |-> p]]
  /\ UNCHANGED <<dir, written, opener, run_vars>>

Target(u) == SymbolOf(sent[u].name)

\* Mutants: the old file is removed first; is not truncated.
RemovedFrom(files, t) == [s \in DOMAIN files \ {t} |-> files[s]]

KeptIn(files, t) == [s \in DOMAIN files \cup {t} |-> Contents(s)]

\* open(dest, "wb") creates the file or truncates it.
TruncatedIn(files, t) ==
  [s \in DOMAIN files \cup {t} |-> IF s = t THEN <<>> ELSE files[s]]

Open(u) ==
  /\ upload[u] = "opening"
  /\ upload' = [upload EXCEPT ![u] = "opened"]
  /\ dir' = TruncatedIn(dir, Target(u))
  /\ opener' = [opener EXCEPT ![Target(u)] = u]
  /\ UNCHANGED <<sent, written, run_vars>>

\* Mutant: the engine does not keep the lock from Python.
StartWritingUnlocked(u) ==
  /\ upload[u] = "opened"
  /\ upload' = [upload EXCEPT ![u] = "writing"]
  /\ UNCHANGED <<dir, sent, written, opener, run_vars>>

StartWriting(u) ==
  /\ upload[u] = "opened" /\ LockFree(sent[u].host)
  /\ upload' = [upload EXCEPT ![u] = "writing"]
  /\ UNCHANGED <<dir, sent, written, opener, run_vars>>

WriteChunk(u) ==
  /\ upload[u] = "writing" /\ written[u] < sent[u].size
  /\ written' = [written EXCEPT ![u] = @ + 1]
  /\ dir' = [s \in DOMAIN dir \cup {Target(u)} |->
               IF s = Target(u) THEN WriteAt(Contents(s), written'[u], Chunk(u, written'[u]))
               ELSE dir[s]]
  /\ UNCHANGED <<upload, sent, opener, run_vars>>

\* The handler answers, or raises: from a write, or from decoding the content
\* once the file has been written.
EndUpload(u) ==
  /\ upload[u] = "writing" /\ LockFree(sent[u].host)
  /\ \E outcome \in {"answered", "failed"} :
       /\ outcome = "answered" => written[u] = sent[u].size
       /\ upload' = [upload EXCEPT ![u] = outcome]
  /\ UNCHANGED <<dir, sent, written, opener, run_vars>>

-----------------------------------------------------------------------------
(* GET /data/symbols; POST /backtests and the engine that loads the file.   *)

ListSymbols == DOMAIN dir

RequestSymbol(name) == Strip[Upper[name]]

CheckSymbol(r, p) ==
  /\ run[r] = "none" /\ LoopFree(p)
  /\ \E name \in Stems :
       /\ asked' = [asked EXCEPT ![r] = [symbol |-> RequestSymbol(name), host |-> p]]
       /\ run' = [run EXCEPT ![r] = IF RequestSymbol(name) \in DOMAIN dir THEN "accepted"
                                                                         ELSE "refused"]
  /\ UNCHANGED <<dir, upload_vars, rows>>

\* load_csv throws when the file cannot be opened.
OpenFile(r) ==
  /\ run[r] = "accepted" /\ LockFree(asked[r].host)
  /\ run' = [run EXCEPT ![r] = IF asked[r].symbol \in DOMAIN dir THEN "loading"
                                                                 ELSE "missing"]
  /\ UNCHANGED <<dir, upload_vars, asked, rows>>

\* The engine reads on until it is at the end of the file as it is then.
ReadChunk(r) ==
  LET file == Contents(asked[r].symbol)
      next == Len(rows[r]) + 1
  IN  /\ run[r] = "loading"
      /\ IF next <= Len(file)
         THEN rows' = [rows EXCEPT ![r] = Append(@, file[next])] /\ UNCHANGED run
         ELSE run' = [run EXCEPT ![r] = "loaded"] /\ UNCHANGED rows
      /\ UNCHANGED <<dir, upload_vars, asked>>

\* A process that dies leaves its files as they are.
Restart(p) ==
  /\ upload' = [u \in Uploads |-> IF InHandler(u) /\ sent[u].host = p THEN "failed"
                                  ELSE upload[u]]
  /\ run' = [r \in Runs |-> IF run[r] \in {"accepted", "loading"} /\ asked[r].host = p
                            THEN "dead" ELSE run[r]]
  /\ UNCHANGED <<dir, sent, written, opener, asked, rows>>

Next ==
  \/ \E u \in Uploads : \/ \E p \in Processes : ReceiveUpload(u, p)
                        \/ Open(u) \/ StartWriting(u) \/ WriteChunk(u) \/ EndUpload(u)
  \/ \E r \in Runs : \/ \E p \in Processes : CheckSymbol(r, p)
                     \/ OpenFile(r) \/ ReadChunk(r)
  \/ \E p \in Processes : Restart(p)

Spec == Init /\ [][Next]_vars

-----------------------------------------------------------------------------
(* Properties.                                                              *)

\* The uploads that have come for file s.
UploadsOf(s) == {u \in Uploads : upload[u] # "none" /\ Target(u) = s}

ServedBy(s, p) == \A u \in UploadsOf(s) : sent[u].host = p

\* file is the beginning of what u sent.
BeginningOf(file, u) == \A i \in DOMAIN file : file[i] = Chunk(u, i)

\* An engine never mixes two uploads of its symbol when its own process took
\* them all: it loads the beginning of one of them, or of the file that was
\* there before.  The lock it never gives up (bindings.cpp:103) is what keeps
\* an upload from truncating and rewriting under it (main.py:175).
LoadsOneUpload ==
  \A r \in Runs :
    LET s == asked[r].symbol
    IN  run[r] = "loaded" /\ ServedBy(s, asked[r].host)
          => \E u \in Uploads \cup {NoOne} : BeginningOf(rows[r], u)

\* When one process takes the uploads of a symbol, the file is never anything
\* but the beginning of the last one to have opened it, and the whole of it
\* once that has been answered, whatever writes fail and whenever the process
\* dies (main.py:175-179).
AnsweredIsStored ==
  \A s \in DOMAIN dir, p \in Processes :
    ServedBy(s, p) /\ opener[s] # NoOne =>
      /\ BeginningOf(dir[s], opener[s])
      /\ upload[opener[s]] = "answered" => Len(dir[s]) = sent[opener[s]].size

\* The engine of a request that was accepted finds the file that the request
\* was checked for, however late it starts (main.py:197, DataHandler.cpp:62).
AcceptedFindsFile == \A r \in Runs : run[r] # "missing"

\* What was uploaded can be run: the symbol the upload answered with is
\* listed, and a request for it, or for the name as it was sent, is accepted,
\* unless the name has blanks at an end, which the upload keeps and a request
\* loses (main.py:172, models.py:46).
UploadedIsRunnable ==
  \A u \in Uploads :
    LET symbol == Target(u)
    IN  upload[u] = "answered" /\ Strip[symbol] = symbol =>
          /\ symbol \in ListSymbols
          /\ {RequestSymbol(symbol), RequestSymbol(sent[u].name)} \subseteq DOMAIN dir
=============================================================================
