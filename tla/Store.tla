-------------------------------- MODULE Store --------------------------------
(***************************************************************************)
(* The JSON document store (src/management/store.go): View, Update,        *)
(* Replace and OpenStore over a document in memory and its file.           *)
(*                                                                         *)
(* Updates copy the document, change the copy, write it to a temporary     *)
(* file and rename that onto the store's path, under a write lock.  The    *)
(* program may be killed between any two steps.  Replace is an update      *)
(* whose function ignores the document it is given.  Save writes a dirty   *)
(* document, and no method leaves one.                                     *)
(***************************************************************************)
EXTENDS FiniteSets

CONSTANTS Clients, Updates, Docs, Reject, Noop,
          Empty,          \* the document of a store that was never written
          Torn,           \* a file with part of a document in it
          Nobody          \* the holder of a free lock

ASSUME StoreAssumption ==
  /\ Empty \in Docs
  /\ Updates \subseteq [Docs -> Docs \cup {Reject, Noop}]
  /\ {Reject, Noop, Torn, Nobody} \cap Docs = {}
  /\ Reject # Noop
  /\ Nobody \notin Clients

VARIABLES file,           \* what is at the store's path; Nobody: no file
          temp,           \* the temporary file of the write under way
          mem,            \* s.data
          writer,         \* who holds s.mu for writing
          up,             \* OpenStore has succeeded
          call            \* per client: the call under way

vars == <<file, temp, mem, writer, up, call>>
NoFile == Nobody
Idle    == [at |-> "idle"]
Asks(f) == [at |-> "asked", f |-> f]
Writes(f, d) == [at |-> "writes", f |-> f, copy |-> d]
Renamed(d) == [at |-> "renamed", copy |-> d]
Ends(r) == [at |-> "ended", result |-> r]
Goto(c, r) == call' = [call EXCEPT ![c] = r]

Ok  == [kind |-> "ok"]
Err == [kind |-> "error"]
Got(d) == [kind |-> "read", doc |-> d]
Results == {Ok, Err} \cup {Got(d) : d \in Docs}
TypeOK ==
  /\ file \in Docs \cup {NoFile} /\ mem \in Docs
  /\ temp \in Docs \cup {Torn, NoFile}
  /\ up \in BOOLEAN
  /\ writer \in Clients \cup {Nobody}
  /\ call \in [Clients -> {Idle} \cup {Asks(f) : f \in Updates}
                 \cup {Writes(f, d) : f \in Updates, d \in Docs} \cup {Renamed(d) : d \in Docs}
                 \cup {Ends(r) : r \in Results}]

Init == /\ file \in Docs \cup {NoFile} /\ temp = NoFile
        /\ mem = Empty /\ writer = Nobody /\ up = FALSE
        /\ call = [c \in Clients |-> Idle]

\* OpenStore with a file: what it says becomes the document.
Open == /\ ~up /\ file \in Docs
        /\ mem' = file /\ up' = TRUE
        /\ UNCHANGED <<file, temp, writer, call>>

\* OpenStore without one: the empty document is written first.
Create == /\ ~up /\ file = NoFile
          /\ file' = Empty /\ mem' = Empty /\ up' = TRUE
          /\ UNCHANGED <<temp, writer, call>>

Ask(c, f) == /\ up /\ call[c] = Idle
             /\ Goto(c, Asks(f))
             /\ UNCHANGED <<file, temp, mem, writer, up>>

\* Mutant of Run.
Swap_BeforeRename(c) == \E f \in Updates :
  /\ call[c] = Asks(f) /\ writer = Nobody
  /\ f[mem] \in Docs
  /\ writer' = c /\ temp' = Torn /\ mem' = f[mem]
  /\ Goto(c, Writes(f, f[mem]))
  /\ UNCHANGED <<file, up>>
\* Update takes the lock, copies the document and runs its callback on the
\* copy.  An error or errNoop ends the call with nothing written.
Run(c) == \E f \in Updates :
  /\ call[c] = Asks(f) /\ writer = Nobody
  /\ \/ f[mem] = Reject /\ Goto(c, Ends(Err)) /\ UNCHANGED <<writer, temp>>
     \/ f[mem] = Noop /\ Goto(c, Ends(Ok)) /\ UNCHANGED <<writer, temp>>
     \/ /\ f[mem] \in Docs
        /\ writer' = c /\ temp' = Torn
        /\ Goto(c, Writes(f, f[mem]))
  /\ UNCHANGED <<file, mem, up>>

\* writeFileAtomic: the temporary file holds the whole document once it is
\* written, synced and closed.
WriteTemp(c) == /\ call[c].at = "writes" /\ temp = Torn
                /\ temp' = call[c].copy
                /\ UNCHANGED <<file, mem, writer, up, call>>

\* Mutant of WriteFails.
WriteFails_KeepsLock(c) == /\ call[c].at = "writes"
                           /\ temp' = NoFile
                           /\ Goto(c, Ends(Err))
                           /\ UNCHANGED <<file, mem, writer, up>>
\* A failure of the write, or the fourth of the rename: the temporary file is
\* removed and Update returns the error before it touches s.data.
WriteFails(c) == /\ call[c].at = "writes"
                 /\ temp' = NoFile /\ writer' = Nobody
                 /\ Goto(c, Ends(Err))
                 /\ UNCHANGED <<file, mem, up>>

\* Mutant of Rename.
Rename_Torn(c) == /\ call[c].at = "writes"
                  /\ file' = temp /\ temp' = NoFile
                  /\ Goto(c, Renamed(call[c].copy))
                  /\ UNCHANGED <<mem, writer, up>>
Rename(c) == /\ call[c].at = "writes" /\ temp = call[c].copy
             /\ file' = temp /\ temp' = NoFile
             /\ Goto(c, Renamed(call[c].copy))
             /\ UNCHANGED <<mem, writer, up>>

\* The copy becomes the live document and the lock is released.
Swap(c) == /\ call[c].at = "renamed"
           /\ mem' = call[c].copy /\ writer' = Nobody
           /\ Goto(c, Ends(Ok))
           /\ UNCHANGED <<file, temp, up>>

\* View and Snapshot: the read lock excludes a writer.
View(c) == /\ up /\ call[c] = Idle /\ writer = Nobody
           /\ Goto(c, Ends(Got(mem)))
           /\ UNCHANGED <<file, temp, mem, writer, up>>

Consume(c) == /\ call[c].at = "ended"
              /\ Goto(c, Idle)
              /\ UNCHANGED <<file, temp, mem, writer, up>>

\* The program is killed.  A temporary file it leaves is nobody's: the next
\* write makes one with another name.
Crash == /\ up
         /\ mem' = Empty /\ writer' = Nobody /\ up' = FALSE
         /\ temp' = NoFile
         /\ call' = [c \in Clients |-> Idle]
         /\ UNCHANGED file

Next == Open \/ Create \/ Crash \/ \E c \in Clients :
  \/ \E f \in Updates : Ask(c, f)
  \/ Run(c) \/ WriteTemp(c) \/ WriteFails(c) \/ Rename(c) \/ Swap(c)
  \/ View(c) \/ Consume(c)

\* A goroutine goes on, and sync.RWMutex hands the lock to who waits for it.
Fairness == \A c \in Clients :
  /\ SF_vars(Run(c))
  /\ WF_vars(WriteTemp(c) \/ Rename(c) \/ WriteFails(c) \/ Swap(c))

Spec == Init /\ [][Next]_vars
FairSpec == Spec /\ Fairness

-----------------------------------------------------------------------------
(* Refinement.  The document is what is in the file: nobody can read the   *)
(* memory between the rename and the swap.  A call is applied by its       *)
(* rename.                                                                 *)

DocBar == IF file = NoFile THEN Empty ELSE file
CallBar == [c \in Clients |->
  CASE call[c].at = "writes" -> Asks(call[c].f)
    [] call[c].at = "renamed" -> [at |-> "applied"]
    [] OTHER -> call[c]]
A == INSTANCE AtomicStore WITH doc <- DocBar, call <- CallBar

\* Every execution of the store, with its failures and crashes, is one of the
\* atomic store: an update that returned nil is in the file whatever happens
\* next, one that returned an error never was, no update is applied to an older
\* document than the one it replaces, and a reader sees the document.
Atomic == A!Spec

\* Update gives its lock back on every path: a call ends, unless the program does.
EveryCallEnds == \A c \in Clients :
  (call[c].at = "asked") ~> (call[c].at \in {"ended", "idle"})
=============================================================================
