----------------------------- MODULE AuditStore -----------------------------
(***************************************************************************)
(* FsAuditStore::persist (agentmesh-host audit.rs): how the sidecar of a   *)
(* run gets to <parent>/<day>/<run id>/full.json, one file-system call at  *)
(* a time.  Each process persists one sidecar; processes that were given   *)
(* the same run id (RunConfig.run_id) on one day share its directory and   *)
(* the name of its temporary file, one after another or at the same time:  *)
(* nothing is locked.  (The ids that the command line generates differ.)   *)
(* A process may be killed between any two calls, and any call may fail.   *)
(*                                                                         *)
(* The file system keeps directory entries and inodes apart: opening a     *)
(* name that exists truncates the inode it names, and an open file goes on *)
(* writing to its inode whatever that inode is called by then.             *)
(***************************************************************************)
EXTENDS Naturals, FiniteSets

CONSTANTS
    NoEntry,
    Torn,           \* bytes that are not all those of one process
    Processes,
    RunIds

ASSUME NoEntryAssumption ==
    NoEntry \notin Processes \cup RunIds \cup {Torn} /\ Torn \notin Processes

\* Inodes: one per process is enough, a process creates at most one.
Inodes == Processes

VARIABLES
    run,            \* the run id of a process, NoEntry before it starts
    at,             \* where a process is in persist
    open,           \* the inode its temporary file was opened on
    tmp, final,     \* directory entries of a run: inode or NoEntry
    content,        \* of an inode: the process whose bytes it holds whole, Torn,
                    \* or NoEntry while it is empty
    raced           \* history: the ids of which a process found the name free
                    \* while another was between its own look and its end

process == <<run, at, open>>
files == <<tmp, final, content>>
auditVars == <<process, files, raced>>

AuditTypeOK ==
    /\ run \in [Processes -> RunIds \cup {NoEntry}]
    /\ at \in [Processes -> {"new", "check", "create", "write", "sync", "rename",
                             "unlink", "committed", "exists", "failed", "killed"}]
    /\ open \in [Processes -> Inodes \cup {NoEntry}]
    /\ tmp \in [RunIds -> Inodes \cup {NoEntry}]
    /\ final \in [RunIds -> Inodes \cup {NoEntry}]
    /\ content \in [Inodes -> Processes \cup {Torn, NoEntry}]
    /\ raced \subseteq RunIds
    \* a file is written to only once it is open
    /\ \A p \in Processes :
         at[p] \in {"write", "sync", "rename", "unlink", "committed"} => open[p] # NoEntry

AuditInit ==
    /\ run = [p \in Processes |-> NoEntry]
    /\ at = [p \in Processes |-> "new"]
    /\ open = [p \in Processes |-> NoEntry]
    /\ tmp = [r \in RunIds |-> NoEntry]
    /\ final = [r \in RunIds |-> NoEntry]
    /\ content = [i \in Inodes |-> NoEntry]
    /\ raced = {}

-----------------------------------------------------------------------------
Ended == {"new", "committed", "exists", "failed", "killed"}
Goes(p, where) == at' = [at EXCEPT ![p] = where]

\* The run comes to persist its sidecar, under an id that others may have.
Start(p, r) ==
    /\ at[p] = "new"
    /\ run' = [run EXCEPT ![p] = r]
    /\ Goes(p, "check")
    /\ UNCHANGED <<open, files, raced>>

\* Faulty variant: nobody looks whether a sidecar is there.
NeverTaken(r) == FALSE
\* dest.exists().
Taken(r) == final[r] # NoEntry

\* Between the look and the end of the call, the process counts on a free name.
Committing == {"create", "write", "sync", "rename", "unlink"}
OthersCommit(p) == \E q \in Processes \ {p} : run[q] = run[p] /\ at[q] \in Committing

\* The cap, the directories and the escape checks may fail; then the
\* destination must be free.
Check(p) ==
    /\ at[p] = "check"
    /\ \/ Goes(p, "failed") /\ UNCHANGED raced
       \/ Taken(run[p]) /\ Goes(p, "exists") /\ UNCHANGED raced
       \/ /\ ~Taken(run[p]) /\ Goes(p, "create")
          /\ raced' = IF OthersCommit(p) THEN raced \cup {run[p]} ELSE raced
    /\ UNCHANGED <<run, open, files>>

\* File::create(.full.<run id>.tmp): the inode the name has, or a new one.
Create(p) ==
    /\ at[p] = "create"
    /\ LET r == run[p]
           i == IF tmp[r] # NoEntry THEN tmp[r] ELSE p
       IN  \/ Goes(p, "failed") /\ UNCHANGED <<open, files>>
           \/ /\ open' = [open EXCEPT ![p] = i]
              /\ tmp' = [tmp EXCEPT ![r] = i]
              /\ content' = [content EXCEPT ![i] = NoEntry]
              /\ Goes(p, "write")
              /\ UNCHANGED final
    /\ UNCHANGED <<run, raced>>

Holding(p, bytes) == content' = [content EXCEPT ![open[p]] = bytes]

\* write_all, in full or not; over the bytes of another process, which may be
\* longer, a file can hold some of each.
Write(p) ==
    /\ at[p] = "write"
    /\ \/ Holding(p, Torn) /\ Goes(p, "failed")
       \/ UNCHANGED content /\ Goes(p, "failed")
       \/ Holding(p, p) /\ Goes(p, "sync")
       \/ content[open[p]] # NoEntry /\ Holding(p, Torn) /\ Goes(p, "sync")
    /\ UNCHANGED <<run, open, tmp, final, raced>>

\* sync_all, and the file is closed.
Sync(p) ==
    /\ at[p] = "sync"
    /\ \E where \in {"failed", "rename"} : Goes(p, where)
    /\ UNCHANGED <<run, open, files, raced>>

\* Faulty variant: the name is given before the bytes are written.
BeforeWriting(p) == at[p] \in {"write", "rename"}
\* The file is renamed once it is written, synced and closed.
MayRename(p) == at[p] = "rename"

\* rename gives the final name to whatever has the temporary one, and replaces
\* what had it.
Rename(p) ==
    /\ MayRename(p)
    /\ LET r == run[p]
       IN  \/ /\ tmp[r] # NoEntry
              /\ final' = [final EXCEPT ![r] = tmp[r]]
              /\ tmp' = [tmp EXCEPT ![r] = NoEntry]
              /\ Goes(p, "committed")
           \/ /\ Goes(p, "unlink")
              /\ UNCHANGED <<tmp, final>>
    /\ UNCHANGED <<run, open, content, raced>>

\* When the rename failed, what has the temporary name is removed; an error is
\* ignored.
Unlink(p) ==
    /\ at[p] = "unlink"
    /\ \/ tmp' = [tmp EXCEPT ![run[p]] = NoEntry]
       \/ UNCHANGED tmp
    /\ Goes(p, "failed")
    /\ UNCHANGED <<run, open, final, content, raced>>

\* The host is killed, in the middle of its write perhaps.
KillProcess(p) ==
    /\ at[p] \notin Ended
    /\ \/ UNCHANGED content
       \/ at[p] = "write" /\ Holding(p, Torn)
    /\ Goes(p, "killed")
    /\ UNCHANGED <<run, open, tmp, final, raced>>

AuditNext == \E p \in Processes :
            \/ \E r \in RunIds : Start(p, r)
            \/ Check(p) \/ Create(p) \/ Write(p) \/ Sync(p) \/ Rename(p) \/ Unlink(p)
            \/ KillProcess(p)

AuditSpec == AuditInit /\ [][AuditNext]_auditVars

-----------------------------------------------------------------------------
(* Properties.  Runs of one id may be live together; what is promised of the
   sidecar of an id holds unless two of them found its name free in time to
   commit both (raced). *)

\* A sidecar that can be seen under its final name is complete: it holds all
\* the bytes of one run of its id, whatever was killed or failed on the way and
\* whatever temporary an earlier run left behind (docs/threat-model-v0.md:46,
\* "visible finals are complete JSON only"), unless the id was raced; and what
\* a run was told it committed is what the sidecar of its id holds.  A race
\* hurts no other id, and who was told that it committed, or that a sidecar
\* exists, can count on one being there.
FinalsAreComplete ==
    /\ AuditTypeOK
    /\ \A r \in RunIds : final[r] # NoEntry =>
         /\ content[final[r]] \in Processes => run[content[final[r]]] = r
         /\ r \notin raced => content[final[r]] \in Processes
    /\ \A p \in Processes :
         /\ at[p] \in {"committed", "exists"} => final[run[p]] # NoEntry
         /\ at[p] = "committed" /\ run[p] \notin raced => content[final[run[p]]] = p

\* A committed sidecar never goes away, and it is neither replaced nor altered
\* (docs/threat-model-v0.md:37, "Write-once no-overwrite sidecar commit") unless
\* its id was raced: the look and the rename are two calls, and the rename
\* replaces.
WriteOnce ==
    [][\A r \in RunIds : final[r] # NoEntry =>
          /\ final'[r] # NoEntry
          /\ r \notin raced =>
               final'[r] = final[r] /\ content'[final[r]] = content[final[r]]]_auditVars

\* What the documentation promises of the commit itself (docs/protocol-v0.md:126,
\* "renames with create-new/no-overwrite"): of the runs of one id, one at most
\* is told that it committed.  A race breaks it: rename replaces.
OneRunCommits ==
    \A p, q \in Processes :
        at[p] = "committed" /\ at[q] = "committed" /\ run[p] = run[q] => p = q
=============================================================================
