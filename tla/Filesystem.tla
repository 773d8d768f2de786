----------------------------- MODULE Filesystem -----------------------------
(***************************************************************************)
(* The file system storage (pkg/storage_providers/filesystem.go) and the   *)
(* worker pool it runs on (pkg/concur/workerpools.go): a channel with      *)
(* Buffer places, PoolSize workers, one mutex, one field that names the    *)
(* file being written, and the files.                                      *)
(*                                                                         *)
(* A document is what Out returns of a payload: the message, which names   *)
(* the file, and the data.  F_ marks what concerns this module's variables *)
(* as a whole; the actions leave all others to the module that extends it. *)
(***************************************************************************)
EXTENDS Naturals, Sequences, Processors

CONSTANTS PoolSize,     \* workers of the pool
          Buffer,       \* capacity of inCh
          Names,        \* names files can get: messages, and NoMessage
          WriteFaults   \* what may go wrong when a file is written

WriteFaultKinds == {"open",   \* the file cannot be opened
                    "write"}  \* it was opened, and writing fails

ASSUME FilesystemAssumption == /\ PoolSize \in Nat \ {0}
                               /\ Buffer \in Nat
                               /\ Names \subseteq Nat /\ NoMessage \in Names
                               /\ WriteFaults \subseteq WriteFaultKinds

VARIABLES
  inCh,        \* documents in f.inCh
  worker,      \* where each worker of the pool is
  task,        \* the document each worker has
  mu,          \* the worker that holds f.mu, or 0
  file,        \* f.file
  files,       \* the disk: what is in each file
  failed       \* names of files whose write returned an error

F_memory == <<inCh, worker, task, mu, file>>
F_vars == <<F_memory, files, failed>>

Pool == 1 .. PoolSize
Documents == [msg : Names, data : DataKinds]
NoDocument == [msg |-> NoMessage, data |-> "unset"]
WorkerPCs == {"recv", "lock", "open", "write"}

\* NewFilesystemClient: an empty channel, and the workers wait for tasks.
F_Fresh ==
  /\ inCh = <<>>
  /\ worker = [w \in Pool |-> "recv"]
  /\ task = [w \in Pool |-> NoDocument]
  /\ mu = 0 /\ file = NoDocument

F_Init ==
  /\ F_Fresh
  /\ files = [n \in Names |-> "absent"]
  /\ failed = {}

Give(w, d) ==
  /\ worker' = [worker EXCEPT ![w] = "lock"]
  /\ task' = [task EXCEPT ![w] = d]

\* Mutant: a channel that always has room.
DrainUnbounded(d) ==
  /\ inCh' = Append(inCh, d)
  /\ UNCHANGED <<worker, task, mu, file, files, failed>>

\* f.inCh <- p: into the buffer, or to a worker that waits.  Nothing but
\* room in the channel ends it.
DrainTo(d) ==
  /\ \/ /\ Len(inCh) < Buffer
        /\ inCh' = Append(inCh, d)
        /\ UNCHANGED <<worker, task>>
     \/ /\ inCh = <<>>
        /\ \E w \in Pool : worker[w] = "recv" /\ Give(w, d)
        /\ UNCHANGED inCh
  /\ UNCHANGED <<mu, file, files, failed>>

\* runTask takes the next task; Write reads the payload with Out.
Receive(w) ==
  /\ worker[w] = "recv" /\ inCh # <<>>
  /\ Give(w, Head(inCh))
  /\ inCh' = Tail(inCh)
  /\ UNCHANGED <<mu, file, files, failed>>

\* Mutant: f.file is set without the mutex.
NoLock(w) ==
  /\ worker[w] = "lock"
  /\ mu' = w /\ file' = task[w]
  /\ worker' = [worker EXCEPT ![w] = "open"]
  /\ UNCHANGED <<inCh, task, files, failed>>

\* f.mu.Lock(), and the file is set in the field that all workers share.
\* The limiter has burst 0: Wait returns an error at once, and is ignored.
Lock(w) ==
  /\ worker[w] = "lock" /\ mu = 0
  /\ mu' = w /\ file' = task[w]
  /\ worker' = [worker EXCEPT ![w] = "open"]
  /\ UNCHANGED <<inCh, task, files, failed>>

\* WriteFile opens the file, which empties it; its arguments are read from
\* f.file before.  The payload of a chain without a normalizer has no name,
\* and its path is a directory.
Open(w) ==
  /\ worker[w] = "open" /\ file.data # "unset"
  /\ worker' = [worker EXCEPT ![w] = "write"]
  /\ task' = [task EXCEPT ![w] = file]
  /\ files' = [files EXCEPT ![file.msg] = "partial"]
  /\ UNCHANGED <<inCh, mu, file, failed>>

\* The deferred Unlock, and the worker is back in its loop.
Return(w) ==
  /\ mu' = 0
  /\ worker' = [worker EXCEPT ![w] = "recv"]
  /\ task' = [task EXCEPT ![w] = NoDocument]

Save(w) ==
  /\ worker[w] = "write"
  /\ files' = [files EXCEPT ![task[w].msg] = task[w].data]
  /\ Return(w)
  /\ UNCHANGED <<inCh, file, failed>>

\* Mutant: the mutex is not released when a write fails.
FailLocked(w) ==
  /\ \/ worker[w] = "open" /\ (file.data = "unset" \/ "open" \in WriteFaults)
     \/ worker[w] = "write" /\ "write" \in WriteFaults
  /\ failed' = failed \cup {task[w].msg}
  /\ worker' = [worker EXCEPT ![w] = "recv"]
  /\ task' = [task EXCEPT ![w] = NoDocument]
  /\ UNCHANGED <<inCh, mu, file, files>>

\* The first error is the last attempt, as retry >= limit; the pool logs it.
\* What was written of the file stays.
Fail(w) ==
  /\ \/ worker[w] = "open" /\ (file.data = "unset" \/ "open" \in WriteFaults)
     \/ worker[w] = "write" /\ "write" \in WriteFaults
  /\ failed' = failed \cup {task[w].msg}
  /\ Return(w)
  /\ UNCHANGED <<inCh, file, files>>

Write(w) == Lock(w) \/ Open(w) \/ Save(w) \/ Fail(w)

F_Next == \E w \in Pool : Receive(w) \/ Write(w)

\* The process is gone, the files stay.
F_Down ==
  /\ inCh' = <<>>
  /\ worker' = [w \in Pool |-> "recv"]
  /\ task' = [w \in Pool |-> NoDocument]
  /\ mu' = 0 /\ file' = NoDocument
  /\ UNCHANGED <<files, failed>>

F_TypeOK ==
  /\ inCh \in Seq(Documents) /\ Len(inCh) <= Buffer
  /\ worker \in [Pool -> WorkerPCs]
  /\ task \in [Pool -> Documents]
  /\ mu \in 0 .. PoolSize /\ file \in Documents
  /\ files \in [Names -> {"absent", "partial"} \cup DataKinds]
  /\ failed \subseteq Names

WithWorker(m) == \E w \in Pool : worker[w] # "recv" /\ task[w].msg = m

InStorage(m) == WithWorker(m) \/ \E i \in DOMAIN inCh : inCh[i].msg = m

Whole(m) == files[m] \in {"value", "stamped"}
=============================================================================
