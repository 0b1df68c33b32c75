--------------------------- MODULE BackgroundProofs ---------------------------
(***************************************************************************)
(* Proofs about what goes on in the background, each for any number of     *)
(* goroutines, clients, messages, handlers, callers, documents and         *)
(* programmes: that the document store implements the atomic one           *)
(* (AtomicStore), with writes that fail and crashes at any step; the       *)
(* scheduler's loop with the shutdown (RunLoop); the fan-out of the core's *)
(* messages (FanOut); and the player adapter over the engine's own moves   *)
(* (PlayerAdapter).                                                        *)
(***************************************************************************)
EXTENDS Background, FiniteSets, FiniteSetTheorems, TLAPS

-----------------------------------------------------------------------------
(* The store *)

\* The mapping to AtomicStore takes the file for the document. A step that
\* reads the memory or replaces the file maps to one that reads or changes the
\* document because of what IInv says: the memory is the file, except for the
\* one writer between its rename and its swap.

USE StoreAssumption
USE DEF vars, NoFile

\* The lock is held by exactly the client that writes.
LockInv == \A c \in Clients : (call[c].at \in {"writes", "renamed"}) <=> (writer = c)

\* A store that is not open has no calls, and an open one has a file.
OpenInv == /\ ~up => call = [c \in Clients |-> Idle] /\ writer = Nobody
           /\ up => file \in Docs

\* The memory is the file, except between the rename and the swap, when the
\* file is the copy; the copy was made from the memory as it is.
CopyInv ==
  /\ up /\ (\A c \in Clients : call[c].at # "renamed") => mem = file
  /\ \A c \in Clients :
       /\ call[c].at = "renamed" => file = call[c].copy
       /\ call[c].at = "writes" =>
            call[c].f \in Updates /\ call[c].copy = call[c].f[mem] /\ call[c].copy \in Docs

IInv == TypeOK /\ LockInv /\ OpenInv /\ CopyInv

-----------------------------------------------------------------------------
(* The records of calls *)

Calls == {Idle} \cup {Asks(f) : f \in Updates}
           \cup {Writes(f, d) : f \in Updates, d \in Docs} \cup {Renamed(d) : d \in Docs}
           \cup {Ends(r) : r \in Results}

\* The labels of the constructors.
LEMMA Labels ==
  /\ Idle.at = "idle" /\ Idle \in Calls
  /\ \A f \in Updates : Asks(f).at = "asked" /\ Asks(f) \in Calls /\ Asks(f).f = f
  /\ \A f \in Updates, d \in Docs :
       /\ Writes(f, d).at = "writes" /\ Writes(f, d).f = f /\ Writes(f, d).copy = d
       /\ Writes(f, d) \in Calls
  /\ \A d \in Docs : Renamed(d).at = "renamed" /\ Renamed(d).copy = d /\ Renamed(d) \in Calls
  /\ \A s \in Results : Ends(s).at = "ended" /\ Ends(s) \in Calls
<1>1. Idle.at = "idle" /\ Idle \in Calls
  BY DEF Calls, Idle
<1>2. \A f \in Updates : Asks(f).at = "asked" /\ Asks(f) \in Calls /\ Asks(f).f = f
  BY DEF Calls, Asks
<1>3. \A f \in Updates, d \in Docs :
        /\ Writes(f, d).at = "writes" /\ Writes(f, d).f = f /\ Writes(f, d).copy = d
        /\ Writes(f, d) \in Calls
  <2>1. \A f \in Updates, d \in Docs : Writes(f, d) \in Calls
    BY DEF Calls
  <2>. QED BY <2>1 DEF Writes
<1>4. \A d \in Docs : Renamed(d).at = "renamed" /\ Renamed(d).copy = d /\ Renamed(d) \in Calls
  BY DEF Calls, Renamed
<1>5. \A s \in Results : Ends(s).at = "ended" /\ Ends(s) \in Calls
  BY DEF Calls, Ends
<1>. QED BY <1>1, <1>2, <1>3, <1>4, <1>5

\* The results of calls.
LEMMA ResultsType == Ok \in Results /\ Err \in Results /\ \A d \in Docs : Got(d) \in Results
  BY DEF Results

\* TypeOK, with a name for the set of calls, now and after a step.
LEMMA TypeCalls ==
  TypeOK <=> /\ file \in Docs \cup {Nobody} /\ mem \in Docs
             /\ temp \in Docs \cup {Torn, Nobody}
             /\ up \in BOOLEAN
             /\ writer \in Clients \cup {Nobody}
             /\ call \in [Clients -> Calls]
  BY DEF TypeOK, Calls

\* The same of the next state.
LEMMA TypePrime ==
  TypeOK' <=> /\ file' \in Docs \cup {Nobody} /\ mem' \in Docs
              /\ temp' \in Docs \cup {Torn, Nobody}
              /\ up' \in BOOLEAN
              /\ writer' \in Clients \cup {Nobody}
              /\ call' \in [Clients -> Calls]
  BY DEF TypeOK, Calls

-----------------------------------------------------------------------------
(* The invariant *)

\* It holds at the start.
LEMMA InitInv == Init => IInv
<1>0. Init => call \in [Clients -> Calls]
  BY Labels DEF Init
<1>1. Init => TypeOK
  BY <1>0, TypeCalls DEF Init
<1>2. Init => LockInv
  BY Labels DEF Init, LockInv
<1>3. Init => OpenInv
  BY DEF Init, OpenInv
<1>4. Init => CopyInv
  BY Labels DEF Init, CopyInv
<1>. QED BY <1>1, <1>2, <1>3, <1>4 DEF IInv

\* The action of each client, and of the program, keeps the invariant.
LEMMA StepInv == IInv /\ [Next]_vars => IInv'
<1> SUFFICES ASSUME IInv, [Next]_vars PROVE IInv'
  OBVIOUS
<1> USE Labels, ResultsType
<1>t. call \in [Clients -> Calls]
  BY TypeCalls DEF IInv
<1>1. CASE Open
  BY <1>1 DEF Open, IInv, TypeOK, LockInv, OpenInv, CopyInv
<1>2. CASE Create
  BY <1>2 DEF Create, IInv, TypeOK, LockInv, OpenInv, CopyInv
<1>3. CASE Crash
  <2>. USE <1>3 DEF Crash
  <2>0. (call \in [Clients -> Calls])'
    OBVIOUS
  <2>1. TypeOK'
    <3>1. mem' \in Docs /\ file' \in Docs \cup {Nobody} /\ temp' = Nobody /\ writer' = Nobody /\ up' = FALSE
      BY TypeCalls DEF IInv
    <3>. QED BY <2>0, <3>1, TypePrime
  <2>2. LockInv'
    BY DEF LockInv
  <2>3. OpenInv'
    BY DEF OpenInv
  <2>4. CopyInv'
    BY DEF CopyInv
  <2>. QED BY <2>1, <2>2, <2>3, <2>4 DEF IInv
<1>4. ASSUME NEW c \in Clients, NEW f \in Updates, Ask(c, f) PROVE IInv'
  BY <1>4, <1>t DEF Ask, Goto, IInv, TypeOK, LockInv, OpenInv, CopyInv
<1>5. ASSUME NEW c \in Clients, Run(c) PROVE IInv'
  <2>1. PICK f \in Updates : Run(c)!(f)
    BY <1>5 DEF Run
  <2>2. /\ up /\ call[c].at = "asked" /\ c # Nobody
        /\ mem \in Docs /\ mem = file
    BY <2>1, <1>t DEF IInv, TypeOK, LockInv, OpenInv, CopyInv
  <2>3. CASE f[mem] = Reject /\ Goto(c, Ends(Err)) /\ UNCHANGED <<writer, temp>>
    BY <2>1, <2>2, <2>3, <1>t DEF Goto, IInv, TypeOK, LockInv, OpenInv, CopyInv
  <2>4. CASE f[mem] = Noop /\ Goto(c, Ends(Ok)) /\ UNCHANGED <<writer, temp>>
    BY <2>1, <2>2, <2>4, <1>t DEF Goto, IInv, TypeOK, LockInv, OpenInv, CopyInv
  <2>5. CASE /\ f[mem] \in Docs
             /\ writer' = c /\ temp' = Torn
             /\ Goto(c, Writes(f, f[mem]))
    <3>1. call' = [call EXCEPT ![c] = Writes(f, f[mem])] /\ Writes(f, f[mem]) \in Calls
      BY <2>5 DEF Goto
    <3>2. TypeOK'
      BY <2>1, <2>5, <3>1 DEF IInv, TypeOK
    <3>3. LockInv'
      BY <2>1, <2>2, <2>5, <3>1, <1>t DEF IInv, LockInv
    <3>4. OpenInv' /\ CopyInv'
      BY <2>1, <2>2, <2>5, <3>1, <1>t DEF IInv, OpenInv, CopyInv
    <3>. QED BY <3>2, <3>3, <3>4 DEF IInv
  <2>. QED BY <2>1, <2>3, <2>4, <2>5
<1>6. ASSUME NEW c \in Clients, WriteTemp(c) PROVE IInv'
  BY <1>6, <1>t DEF WriteTemp, IInv, TypeOK, LockInv, OpenInv, CopyInv
<1>7. ASSUME NEW c \in Clients, WriteFails(c) PROVE IInv'
  BY <1>7, <1>t DEF WriteFails, Goto, IInv, TypeOK, LockInv, OpenInv, CopyInv
<1>8. ASSUME NEW c \in Clients, Rename(c) PROVE IInv'
  BY <1>8, <1>t DEF Rename, Goto, IInv, TypeOK, LockInv, OpenInv, CopyInv
<1>9. ASSUME NEW c \in Clients, Swap(c) PROVE IInv'
  BY <1>9, <1>t DEF Swap, Goto, IInv, TypeOK, LockInv, OpenInv, CopyInv
<1>10. ASSUME NEW c \in Clients, View(c) PROVE IInv'
  BY <1>10, <1>t DEF View, Goto, IInv, TypeOK, LockInv, OpenInv, CopyInv
<1>11. ASSUME NEW c \in Clients, Consume(c) PROVE IInv'
  BY <1>11, <1>t DEF Consume, Goto, IInv, TypeOK, LockInv, OpenInv, CopyInv
<1>12. CASE UNCHANGED vars
  BY <1>12 DEF IInv, TypeOK, LockInv, OpenInv, CopyInv
<1>. QED
  BY <1>1, <1>2, <1>3, <1>4, <1>5, <1>6, <1>7, <1>8, <1>9, <1>10, <1>11, <1>12 DEF Next

-----------------------------------------------------------------------------
(* The refinement *)

\* A call ends the same way in both modules.
LEMMA SameResults ==
  /\ A!Ends(A!Ok) = Ends(Ok) /\ A!Ends(A!Err) = Ends(Err)
  /\ \A d : A!Ends(A!Got(d)) = Ends(Got(d))
  BY DEF A!Ends, Ends, A!Ok, Ok, A!Err, Err, A!Got, Got

\* The mapped initial states are initial.
LEMMA InitRefines == Init => A!Init
  BY Labels DEF Init, A!Init, DocBar, CallBar, A!Idle, Idle

\* Every step is one of the atomic store, or none.
LEMMA StepRefines == IInv /\ IInv' /\ [Next]_vars => [A!Next]_<<DocBar, CallBar>>
<1> SUFFICES ASSUME IInv, IInv', [Next]_vars PROVE [A!Next]_<<DocBar, CallBar>>
  OBVIOUS
<1> USE Labels
<1>t. call \in [Clients -> Calls] /\ call' \in [Clients -> Calls]
  BY TypeCalls DEF IInv, TypeOK, Calls
<1>d. /\ up => DocBar = file
      /\ up' => DocBar' = file'
  BY DEF IInv, OpenInv, DocBar
<1>o. \A c \in Clients : call[c] # Idle => up
  BY DEF IInv, OpenInv
<1>1. CASE Open
  <2>1. DocBar' = DocBar /\ CallBar' = CallBar
    BY <1>1 DEF Open, DocBar, CallBar
  <2>. QED BY <2>1
<1>2. CASE Create
  <2>1. DocBar' = DocBar /\ CallBar' = CallBar
    BY <1>2 DEF Create, DocBar, CallBar
  <2>. QED BY <2>1
<1>3. CASE Crash
  <2>1. DocBar' = DocBar
    BY <1>3 DEF Crash, DocBar
  <2>2. CallBar' = [c \in Clients |-> A!Idle]
    BY <1>3 DEF Crash, CallBar, A!Idle, Idle
  <2>. QED BY <2>1, <2>2 DEF A!Next, A!Crash
<1>4. ASSUME NEW c \in Clients, NEW f \in Updates, Ask(c, f)
      PROVE  A!Ask(c, f)
  <2>1. DocBar' = DocBar /\ CallBar[c] = Idle
    BY <1>4 DEF Ask, DocBar, CallBar
  <2>2. CallBar' = [CallBar EXCEPT ![c] = Asks(f)]
    BY <1>4, <1>t DEF Ask, Goto, CallBar
  <2>. QED BY <2>1, <2>2 DEF A!Ask, A!Idle, Idle, A!Asks, Asks
<1>5. ASSUME NEW c \in Clients, Run(c) PROVE [A!Next]_<<DocBar, CallBar>>
  <2>1. PICK f \in Updates : Run(c)!(f)
    BY <1>5 DEF Run
  <2>2. up /\ mem = file /\ CallBar[c] = A!Asks(f) /\ DocBar' = DocBar
    BY <2>1, <1>o, <1>t, <1>d, <1>5 DEF IInv, LockInv, CopyInv, CallBar, A!Asks, Asks, Run, DocBar
  <2>3. CASE f[mem] = Reject /\ Goto(c, Ends(Err)) /\ UNCHANGED <<writer, temp>>
    <3>1. CallBar' = [CallBar EXCEPT ![c] = Ends(Err)]
      BY <2>3, <1>t, ResultsType DEF Goto, CallBar
    <3>2. A!Fail(c)
      BY <2>1, <2>2, <3>1, SameResults DEF A!Fail
    <3>. QED BY <3>2 DEF A!Next
  <2>4. CASE f[mem] = Noop /\ Goto(c, Ends(Ok)) /\ UNCHANGED <<writer, temp>>
    <3>1. CallBar' = [CallBar EXCEPT ![c] = Ends(Ok)]
      BY <2>4, <1>t, ResultsType DEF Goto, CallBar
    <3>2. f[DocBar] = Noop
      BY <2>2, <2>4, <1>d
    <3>3. A!Succeed(c)
      BY <2>1, <2>2, <3>1, <3>2, SameResults DEF A!Succeed
    <3>. QED BY <3>3 DEF A!Next
  <2>5. CASE /\ f[mem] \in Docs
             /\ writer' = c /\ temp' = Torn
             /\ Goto(c, Writes(f, f[mem]))
    <3>1. CallBar' = CallBar
      BY <2>1, <2>5, <1>t DEF Goto, CallBar, Asks, Writes
    <3>. QED BY <2>2, <3>1
  <2>. QED BY <2>1, <2>3, <2>4, <2>5
<1>6. ASSUME NEW c \in Clients, WriteTemp(c) PROVE UNCHANGED <<DocBar, CallBar>>
  BY <1>6 DEF WriteTemp, DocBar, CallBar
<1>7. ASSUME NEW c \in Clients, WriteFails(c) PROVE A!Fail(c)
  <2>1. call[c].f \in Updates /\ CallBar[c] = A!Asks(call[c].f) /\ DocBar' = DocBar
    BY <1>7 DEF WriteFails, IInv, CopyInv, CallBar, A!Asks, Asks, DocBar
  <2>2. CallBar' = [CallBar EXCEPT ![c] = Ends(Err)]
    BY <1>7, <1>t, ResultsType DEF WriteFails, Goto, CallBar
  <2>. QED BY <2>1, <2>2, SameResults DEF A!Fail
<1>8. ASSUME NEW c \in Clients, Rename(c) PROVE A!Apply(c)
  <2>1. /\ call[c].f \in Updates /\ CallBar[c] = A!Asks(call[c].f)
        /\ call[c].copy = call[c].f[mem] /\ call[c].copy \in Docs
    BY <1>8 DEF Rename, IInv, CopyInv, CallBar, A!Asks, Asks
  <2>2. up /\ mem = file
    BY <1>8, <1>o DEF Rename, IInv, LockInv, CopyInv
  <2>3. DocBar' = call[c].copy
    BY <1>8, <2>2, <1>d DEF Rename
  <2>4. CallBar' = [CallBar EXCEPT ![c] = A!Applied]
    BY <1>8, <1>t, <2>1 DEF Rename, Goto, CallBar, A!Applied
  <2>. QED BY <2>1, <2>2, <2>3, <2>4, <1>d DEF A!Apply
<1>9. ASSUME NEW c \in Clients, Swap(c) PROVE A!Succeed(c)
  <2>1. CallBar[c] = A!Applied /\ DocBar' = DocBar
    BY <1>9 DEF Swap, CallBar, A!Applied, DocBar
  <2>2. CallBar' = [CallBar EXCEPT ![c] = Ends(Ok)]
    BY <1>9, <1>t, ResultsType DEF Swap, Goto, CallBar
  <2>. QED BY <2>1, <2>2, SameResults DEF A!Succeed
<1>10. ASSUME NEW c \in Clients, View(c) PROVE A!Read(c)
  <2>1. CallBar[c] = A!Idle /\ DocBar' = DocBar
    BY <1>10 DEF View, CallBar, A!Idle, Idle, DocBar
  <2>2. mem = DocBar /\ mem \in Docs
    BY <1>10, <1>d DEF View, IInv, LockInv, CopyInv, OpenInv, TypeOK
  <2>3. CallBar' = [CallBar EXCEPT ![c] = Ends(Got(mem))]
    BY <1>10, <1>t, <2>2, ResultsType DEF View, Goto, CallBar
  <2>. QED BY <2>1, <2>2, <2>3, SameResults DEF A!Read
<1>11. ASSUME NEW c \in Clients, Consume(c) PROVE A!Consume(c)
  <2>1. CallBar[c].at = "ended" /\ DocBar' = DocBar
    BY <1>11 DEF Consume, CallBar, DocBar
  <2>2. CallBar' = [CallBar EXCEPT ![c] = A!Idle]
    BY <1>11, <1>t DEF Consume, Goto, CallBar, A!Idle, Idle
  <2>. QED BY <2>1, <2>2 DEF A!Consume
<1>12. CASE UNCHANGED vars
  BY <1>12 DEF DocBar, CallBar
<1>. QED
  BY <1>1, <1>2, <1>3, <1>4, <1>5, <1>6, <1>7, <1>8, <1>9, <1>10, <1>11, <1>12
  DEF Next, A!Next

-----------------------------------------------------------------------------
\* The lock, the memory and the file are what IInv says, whatever fails.
THEOREM Invariant == Spec => []IInv
<1>. QED BY InitInv, StepInv, PTL DEF Spec

\* The store implements the atomic store: every update that returned nil is in
\* the file whatever happens next, one that returned an error never was, and a
\* reader sees the document.
THEOREM Implements == Spec => Atomic
<1>1. Spec => []IInv
  BY Invariant
<1>. QED BY <1>1, InitRefines, StepRefines, PTL DEF Spec, Atomic, A!Spec

HIDE StoreAssumption
HIDE DEF vars, NoFile

-----------------------------------------------------------------------------
(* The scheduler's loop, the fan-out and the player adapter *)

\* A module that is instantiated counts as this one does.
LEMMA Counts == \A S : /\ R!Cardinality(S) = Cardinality(S)
                     /\ P!Cardinality(S) = Cardinality(S)
<1>1. \A S : R!Cardinality(S) = Cardinality(S)
  BY DEF R!Cardinality, Cardinality
<1>2. \A S : P!Cardinality(S) = Cardinality(S)
  BY DEF P!Cardinality, Cardinality
<1>. QED BY <1>1, <1>2

-----------------------------------------------------------------------------
(* RunLoop *)

\* What a loop can be.
LoopStates == {R!Off} \cup [at : {"top", "tick"}] \cup [at : {"select"}, on : 1..MaxStarts]
LoopTypes ==
  /\ running \in BOOLEAN /\ done \in 1..MaxStarts /\ closed \subseteq 1..MaxStarts
  /\ loop \in [Loops -> LoopStates]
  /\ stopping \subseteq Requests \cup {Main}
  /\ server \in {"up", "stop", "quiet", "down"}

\* A loop that was told to stop is waited for until it has ended.
Awaited == ~running /\ R!Live # {} => stopping # {}
\* Without a Start while a Stop waits, a Start finds no loop.
AtMostOne == ~overlapped => \A a, b \in R!Live : a = b
\* After the shutdown's Stop nothing runs, and who waits for the last loop is
\* the server.
WindsDown == server # "up" /\ ~excused =>
  /\ ~running /\ (R!Live # {} => Main \in stopping)
  /\ server \in {"quiet", "down"} => R!Live = {}

LoopInv == LoopTypes /\ Awaited /\ AtMostOne /\ WindsDown

\* A loop that moves is of its type; only Exits ends one.
LEMMA LoopMoves ==
  ASSUME LoopInv, NEW l \in Loops, R!run(l)
  PROVE  /\ UNCHANGED <<running, done, closed, stopping, server, overlapped, excused>>
         /\ loop' \in [Loops -> LoopStates]
         /\ R!Live' \subseteq R!Live
<1>1. /\ [at |-> "select", on |-> done] \in LoopStates \ {R!Off}
      /\ [at |-> "tick"] \in LoopStates \ {R!Off} /\ [at |-> "top"] \in LoopStates \ {R!Off}
      /\ R!Off \in LoopStates
  BY DEF LoopInv, LoopTypes, LoopStates, R!Off
<1>2. loop[l] # R!Off
  BY DEF R!run, R!Top, R!Exits, R!Ticks, R!TickEnds, R!Off
<1>3. PICK r \in LoopStates : R!Moves(l, r)
  BY <1>1 DEF R!run, R!Top, R!Exits, R!Ticks, R!TickEnds
<1>4. loop' = [loop EXCEPT ![l] = r] /\ loop \in [Loops -> LoopStates]
  BY <1>3 DEF R!Moves, LoopInv, LoopTypes
<1>5. R!Live' \subseteq R!Live
  BY <1>2, <1>4 DEF R!Live, R!Off
<1>6. UNCHANGED <<running, done, closed, stopping, server, overlapped, excused>>
  BY <1>3 DEF R!Moves
<1>. QED BY <1>4, <1>5, <1>6

\* What Start does to the loops: one more, unless the goroutine had been live.
LEMMA StartAdds ==
  ASSUME LoopInv, R!Start
  PROVE  /\ loop' \in [Loops -> LoopStates]
         /\ \E l \in Loops : R!Live' = R!Live \cup {l}
<1>1. PICK l \in Loops : loop' = [loop EXCEPT ![l] = [at |-> "top"]]
  BY DEF R!Start
<1>2. [at |-> "top"] \in LoopStates \ {R!Off}
  BY DEF LoopStates, R!Off
<1>3. loop \in [Loops -> LoopStates]
  BY DEF LoopInv, LoopTypes
<1>. QED BY <1>1, <1>2, <1>3 DEF R!Live

LEMMA LoopStart == ASSUME MaxStarts \in Nat \ {0}, LoopInv, R!Start PROVE LoopInv'
<1>1. /\ ~running /\ done < MaxStarts /\ running' = TRUE /\ done' = done + 1
      /\ overlapped' = (overlapped \/ stopping # {})
      /\ excused' = (excused \/ server # "up")
      /\ UNCHANGED <<closed, stopping, server>>
  BY DEF R!Start
<1>2. PICK l \in Loops : R!Live' = R!Live \cup {l}
  BY StartAdds
<1>3. LoopTypes'
  <2>1. running' \in BOOLEAN
    BY <1>1, Zenon
  <2>2. loop' \in [Loops -> LoopStates]
    BY StartAdds
  <2>3. done' \in 1..MaxStarts
    BY <1>1 DEF LoopInv, LoopTypes
  <2>. QED BY <1>1, <2>1, <2>2, <2>3 DEF LoopInv, LoopTypes
<1>4. Awaited' /\ WindsDown'
  BY <1>1 DEF LoopInv, Awaited, WindsDown
<1>5. AtMostOne'
  <2>1. ASSUME ~overlapped' PROVE R!Live = {}
    BY <1>1, <2>1 DEF LoopInv, Awaited
  <2>. QED BY <1>2, <2>1 DEF AtMostOne
<1>. QED BY <1>3, <1>4, <1>5 DEF LoopInv

LEMMA LoopStop ==
  ASSUME LoopInv, NEW c \in Requests \cup {Main}, R!StopSection(c)
  PROVE  /\ running' = FALSE /\ UNCHANGED <<done, loop, overlapped>>
         /\ closed' \subseteq 1..MaxStarts /\ stopping \subseteq stopping'
         /\ stopping' \subseteq Requests \cup {Main}
         /\ running => c \in stopping'
         /\ R!Live' = R!Live
  BY DEF R!StopSection, LoopInv, LoopTypes, R!Live, R!Off

LEMMA LoopHandled == ASSUME MaxStarts \in Nat \ {0}, LoopInv, R!handleScheduler PROVE LoopInv'
<1>1. CASE R!Start
  BY <1>1, LoopStart
<1>2. ASSUME NEW c \in Requests \ stopping, R!StopSection(c), UNCHANGED <<server, excused>>
      PROVE  LoopInv'
  <2>1. /\ running' = FALSE /\ UNCHANGED <<done, loop, overlapped>>
        /\ closed' \subseteq 1..MaxStarts /\ stopping \subseteq stopping'
        /\ stopping' \subseteq Requests \cup {Main}
        /\ running => c \in stopping'
        /\ R!Live' = R!Live
    BY <1>2, LoopStop
  <2>2. LoopTypes'
    BY <2>1, <1>2 DEF LoopInv, LoopTypes
  <2>3. Awaited' /\ AtMostOne' /\ WindsDown'
    BY <2>1, <1>2 DEF LoopInv, LoopTypes, Awaited, AtMostOne, WindsDown
  <2>. QED BY <2>2, <2>3 DEF LoopInv
<1>. QED BY <1>1, <1>2 DEF R!handleScheduler

LEMMA LoopShutDown == ASSUME LoopInv, R!ShutDown PROVE LoopInv'
<1>1. /\ server = "up" /\ server' = "stop" /\ excused' = (excused \/ stopping # {})
      /\ R!StopSection(Main)
  BY DEF R!ShutDown
<1>2. /\ running' = FALSE /\ UNCHANGED <<done, loop, overlapped>>
      /\ closed' \subseteq 1..MaxStarts /\ stopping \subseteq stopping'
      /\ stopping' \subseteq Requests \cup {Main}
      /\ running => Main \in stopping'
      /\ R!Live' = R!Live
  BY <1>1, LoopStop
<1>3. LoopTypes'
  BY <1>1, <1>2 DEF LoopInv, LoopTypes
<1>4. Awaited' /\ AtMostOne' /\ WindsDown'
  BY <1>1, <1>2 DEF LoopInv, LoopTypes, Awaited, AtMostOne, WindsDown
<1>. QED BY <1>3, <1>4 DEF LoopInv

\* A Stop returns, and the server moves on, once there is no loop.
LEMMA LoopReturns ==
  ASSUME LoopInv, NEW c \in Requests \cup {Main}, R!StopReturns(c) PROVE LoopInv'
<1>1. /\ R!Live = {} /\ R!Live' = {} /\ stopping' = stopping \ {c}
      /\ UNCHANGED <<running, done, closed, loop, server, overlapped, excused>>
  BY DEF R!StopReturns, R!Live, R!Off
<1>. QED BY <1>1 DEF LoopInv, LoopTypes, Awaited, AtMostOne, WindsDown

LEMMA LoopServer == ASSUME LoopInv, R!Quiet \/ R!Close PROVE LoopInv'
<1>1. /\ R!Live' = R!Live /\ server # "up"
      /\ \/ Main \notin stopping /\ server' = "quiet"
         \/ server = "quiet" /\ server' = "down"
      /\ UNCHANGED <<running, done, closed, loop, stopping, overlapped, excused>>
  BY DEF R!Quiet, R!Close, R!Live, R!Off
<1>. QED BY <1>1 DEF LoopInv, LoopTypes, Awaited, AtMostOne, WindsDown

LEMMA LoopInit == ASSUME MaxStarts \in Nat \ {0}, R!Init PROVE LoopInv
<1>1. PICK l \in Loops : loop = [k \in Loops |-> IF k = l THEN [at |-> "top"] ELSE R!Off]
  BY DEF R!Init
<1>2. [at |-> "top"] \in LoopStates \ {R!Off} /\ R!Off \in LoopStates
  BY DEF LoopStates, R!Off
<1>3. R!Live = {l} /\ loop \in [Loops -> LoopStates]
  BY <1>1, <1>2 DEF R!Live
<1>4. /\ running = TRUE /\ done = 1 /\ closed = {} /\ stopping = {}
      /\ server = "up" /\ overlapped = FALSE /\ excused = FALSE
  BY DEF R!Init
<1>5. LoopTypes
  <2>1. running \in BOOLEAN
    BY <1>4, Zenon
  <2>. QED BY <1>3, <1>4, <2>1 DEF LoopTypes
<1>. QED BY <1>3, <1>4, <1>5 DEF LoopInv, Awaited, AtMostOne, WindsDown

LEMMA LoopNext ==
  ASSUME MaxStarts \in Nat \ {0}, LoopInv, [R!Next]_R!loopVars PROVE LoopInv'
<1>1. ASSUME NEW l \in Loops, R!run(l) PROVE LoopInv'
  BY <1>1, LoopMoves DEF LoopInv, LoopTypes, Awaited, AtMostOne, WindsDown
<1>2. CASE UNCHANGED R!loopVars
  <2>1. /\ UNCHANGED <<running, done, closed, loop, stopping, server, overlapped, excused>>
        /\ R!Live' = R!Live
    BY <1>2 DEF R!loopVars, R!Live, R!Off
  <2>. QED BY <2>1 DEF LoopInv, LoopTypes, Awaited, AtMostOne, WindsDown
<1>. QED BY <1>1, <1>2, LoopHandled, LoopReturns, LoopShutDown, LoopServer DEF R!Next

LEMMA LoopsInv == ASSUME MaxStarts \in Nat \ {0} PROVE R!Spec => []LoopInv
<1>1. R!Init => LoopInv
  BY LoopInit
<1>2. LoopInv /\ [R!Next]_R!loopVars => LoopInv'
  BY LoopNext
<1>. QED BY <1>1, <1>2, PTL DEF R!Spec

\* Every variable of the run loop has its type.
THEOREM LoopTypeCorrect == R!Spec => []R!TypeOK
<1>0. MaxStarts \in Nat \ {0}
  BY BackgroundAssumption
<1>. USE <1>0
<1>1. LoopInv => R!TypeOK
  BY DEF LoopInv, LoopTypes, LoopStates, R!TypeOK, R!Off
<1>. QED BY <1>1, LoopsInv, PTL

\* However requests, loops and the shutdown interleave: one loop evaluates the
\* schedule unless a Start came while a Stop was waiting, and none is left once
\* the shutdown's Stop has returned, unless a request has started it again or
\* another Stop was waiting.
THEOREM LoopsEnd == R!Spec => []OneLoop
<1>0. MaxStarts \in Nat \ {0}
  BY BackgroundAssumption
<1>. USE <1>0
<1>1. LoopInv => R!OneLoop
  <2> SUFFICES ASSUME LoopInv, ~overlapped PROVE Cardinality(R!Live) <= 1
    BY Counts, Zenon DEF R!OneLoop
  <2>1. CASE R!Live = {}
    BY <2>1, FS_EmptySet
  <2>2. CASE \E a \in R!Live : R!Live = {a}
    <3>1. PICK a : R!Live = {a}
      BY <2>2
    <3>2. Cardinality({a}) = 1
      BY FS_Singleton
    <3>. QED BY <3>1, <3>2
  <2>. QED BY <2>1, <2>2 DEF LoopInv, AtMostOne
<1>2. LoopInv => R!QuietShutdown
  BY DEF LoopInv, WindsDown, R!QuietShutdown
<1>3. LoopInv => OneLoop
  BY <1>1, <1>2 DEF OneLoop
<1>. QED BY <1>3, LoopsInv, PTL

-----------------------------------------------------------------------------
(* FanOut *)

FanTypes ==
  /\ sending \in [Messages -> {"none", "spawned", "sends", "sent"}]
  /\ left \in [Messages -> SUBSET Handlers]
  /\ subscribeMutex \in Messages \cup {Nobody}
  /\ channel \in [Handlers -> Seq(Messages)]
  /\ \A h \in Handlers : Len(channel[h]) <= ChannelCap
  /\ handler \in [Handlers -> {"off", "reading", "writing", "leaving", "gone"}]

\* A goroutine that sends holds the mutex, and who takes it off the map or
\* comes into it has to hold it too.
OneSends == \A m \in Messages : sending[m] = "sends" <=> subscribeMutex = m

FanInv == FanTypes /\ OneSends /\ F!NeverClosed

LEMMA FanMessage ==
  ASSUME ChannelCap \in Nat, Nobody \notin Messages,
         FanInv, NEW m \in Messages, F!messageConsumer(m)
  PROVE  FanInv'
<1>1. CASE F!Spawn(m)
  BY <1>1 DEF F!Spawn, FanInv, FanTypes, OneSends, F!NeverClosed, F!Subscribed
<1>2. CASE F!Lock(m)
  BY <1>2 DEF F!Lock, FanInv, FanTypes, OneSends, F!NeverClosed, F!Subscribed
<1>3. CASE F!Send(m)
  <2>1. PICK h \in left[m] :
          /\ sending[m] = "sends" /\ Len(channel[h]) < ChannelCap
          /\ channel' = [channel EXCEPT ![h] = Append(@, m)]
          /\ left' = [left EXCEPT ![m] = @ \ {h}]
          /\ UNCHANGED <<sending, subscribeMutex, handler>>
    BY <1>3 DEF F!Send
  <2>2. h \in Handlers
    BY <2>1 DEF FanInv, FanTypes
  <2>3. /\ channel[h] \in Seq(Messages)
        /\ Append(channel[h], m) \in Seq(Messages)
        /\ Len(Append(channel[h], m)) <= ChannelCap
    BY <2>1, <2>2 DEF FanInv, FanTypes
  <2>4. FanTypes'
    BY <2>1, <2>2, <2>3 DEF FanInv, FanTypes
  <2>5. OneSends' /\ F!NeverClosed'
    BY <2>1 DEF FanInv, FanTypes, OneSends, F!NeverClosed, F!Subscribed
  <2>. QED BY <2>4, <2>5 DEF FanInv
<1>4. CASE F!Unlock(m)
  BY <1>4 DEF F!Unlock, FanInv, FanTypes, OneSends, F!NeverClosed, F!Subscribed
<1>. QED BY <1>1, <1>2, <1>3, <1>4 DEF F!messageConsumer

LEMMA FanHandler ==
  ASSUME ChannelCap \in Nat, Nobody \notin Messages,
         FanInv, NEW h \in Handlers, F!websocket(h)
  PROVE  FanInv'
<1>1. CASE F!SubscribeMessage(h)
  BY <1>1 DEF F!SubscribeMessage, FanInv, FanTypes, OneSends, F!NeverClosed, F!Subscribed
<1>2. CASE F!Receive(h)
  <2>1. /\ channel[h] \in Seq(Messages) /\ channel[h] # <<>> /\ Len(channel[h]) <= ChannelCap
        /\ handler[h] = "reading"
        /\ channel' = [channel EXCEPT ![h] = Tail(@)]
        /\ handler' = [handler EXCEPT ![h] = "writing"]
        /\ UNCHANGED <<sending, left, subscribeMutex>>
    BY <1>2 DEF F!Receive, FanInv, FanTypes
  <2>2. Tail(channel[h]) \in Seq(Messages) /\ Len(Tail(channel[h])) <= ChannelCap
    BY <2>1
  <2>3. FanTypes'
    BY <2>1, <2>2 DEF FanInv, FanTypes
  <2>4. OneSends' /\ F!NeverClosed'
    BY <2>1 DEF FanInv, FanTypes, OneSends, F!NeverClosed, F!Subscribed
  <2>. QED BY <2>3, <2>4 DEF FanInv
<1>3. CASE F!Write(h)
  BY <1>3 DEF F!Write, FanInv, FanTypes, OneSends, F!NeverClosed, F!Subscribed
<1>4. CASE F!CancelSubscribeMessage(h)
  BY <1>4 DEF F!CancelSubscribeMessage, FanInv, FanTypes, OneSends, F!NeverClosed, F!Subscribed
<1>. QED BY <1>1, <1>2, <1>3, <1>4 DEF F!websocket

LEMMA FansInv ==
  ASSUME ChannelCap \in Nat, Nobody \notin Messages PROVE F!Spec => []FanInv
<1>1. F!Init => FanInv
  BY DEF F!Init, FanInv, FanTypes, OneSends, F!NeverClosed, F!Subscribed
<1>2. FanInv /\ [F!Next]_F!fanVars => FanInv'
  <2>1. FanInv /\ UNCHANGED F!fanVars => FanInv'
    BY DEF F!fanVars, FanInv, FanTypes, OneSends, F!NeverClosed, F!Subscribed
  <2>. QED BY <2>1, FanMessage, FanHandler DEF F!Next
<1>. QED BY <1>1, <1>2, PTL DEF F!Spec

\* Every variable of the fan-out has its type: no channel holds more than it can.
THEOREM FanTypeCorrect == F!Spec => []F!TypeOK
<1>0. ChannelCap \in Nat /\ Nobody \notin Messages
  BY BackgroundAssumption
<1>. USE <1>0
<1>1. FanInv => F!TypeOK
  BY DEF FanInv, FanTypes, F!TypeOK
<1>. QED BY <1>1, FansInv, PTL

\* A goroutine that hands out a message never sends on a channel that its
\* handler has cancelled, whatever handlers come, read, fail and leave.
THEOREM NoClosedSend == F!Spec => []F!NeverClosed
<1>0. ChannelCap \in Nat /\ Nobody \notin Messages
  BY BackgroundAssumption
<1>. USE <1>0
<1>1. FanInv => F!NeverClosed
  BY DEF FanInv
<1>. QED BY <1>1, FansInv, PTL

-----------------------------------------------------------------------------
(* PlayerAdapter *)

PlayerCalls == {P!Idle} \cup [at : {"play", "queued"}, programme : Programmes, loop : BOOLEAN]
                  \cup [at : {"skip", "startAt", "start"}, item : P!Items]

QueueTypes == /\ queue \in Programmes \cup {<<>>} /\ queueIdx \in 1..(Len(queue) + 1)
              /\ queueMu \in Callers \cup {Nobody}
EngineTypes == /\ engine \in [queue : P!Queues \cup {<<>>}, idx : Nat, loop : BOOLEAN]
               /\ engine.idx \in 1..(Len(engine.queue) + 1)
               /\ \A i \in {playing, resume, source} : i \in P!Items \cup {Nobody}
TimerTypes == timers \subseteq P!Timer /\ Cardinality(timers) <= MaxTimers
PlayerTypes == QueueTypes /\ EngineTypes /\ TimerTypes /\ player \in [Callers -> PlayerCalls]

\* What is of the programme Skip works on; an empty one says nothing.
Listed(i) == queue = <<>> \/ \E k \in DOMAIN queue : queue[k] = i
EngineListed == \A k \in DOMAIN engine.queue : Listed(engine.queue[k])
AllListed == /\ \A i \in {playing, resume, source} \ {Nobody} : Listed(i)
             /\ EngineListed
             /\ \A t \in timers : Listed(t.item)

\* Between the two steps of a start the queues differ; what is about to be
\* started is of the adapter's.
Starts(c) == player[c].at \in {"queued", "start"}
CallAgrees(c) ==
  /\ player[c].at = "queued" => queue = player[c].programme
  /\ player[c].at = "start" => Listed(player[c].item) /\ EngineListed
  /\ player[c].at \in {"skip", "startAt"} => Listed(player[c].item)
Alone == /\ \A a, b \in P!Busy : a = b
         /\ P!Busy # {} => timers = {}
Agrees == ~disturbed =>
  /\ Alone
  /\ (\A c \in Callers : ~Starts(c)) => AllListed
  /\ \A c \in Callers : CallAgrees(c)

\* A pause ends with whatever is started next, which is the engine's source.
OneItem == playing # Nobody => resume = Nobody /\ source = playing

PlayerInv == PlayerTypes /\ OneItem /\ Agrees

\* The calls, by where they are.
LEMMA CallKinds ==
  ASSUME NEW r \in PlayerCalls
  PROVE  /\ r.at \in {"idle", "play", "queued", "skip", "startAt", "start"}
         /\ r = P!Idle <=> r.at = "idle"
         /\ r.at \in {"play", "queued"} => r.programme \in Programmes /\ r.loop \in BOOLEAN
         /\ r.at \in {"skip", "startAt", "start"} => r.item \in P!Items
<1>1. P!Idle.at = "idle"
  BY DEF P!Idle
<1>. QED BY <1>1 DEF PlayerCalls

LEMMA MadeCalls ==
  /\ P!Idle \in PlayerCalls /\ P!Idle.at = "idle"
  /\ \A at \in {"play", "queued"}, p \in Programmes, l \in BOOLEAN :
       /\ [at |-> at, programme |-> p, loop |-> l] \in PlayerCalls
       /\ [at |-> at, programme |-> p, loop |-> l] # P!Idle
  /\ \A at \in {"skip", "startAt", "start"}, i \in P!Items :
       /\ [at |-> at, item |-> i] \in PlayerCalls
       /\ [at |-> at, item |-> i] # P!Idle
<1>1. P!Idle \in PlayerCalls /\ P!Idle.at = "idle"
  BY DEF P!Idle, PlayerCalls
<1>2. \A at \in {"play", "queued"}, p \in Programmes, l \in BOOLEAN :
       /\ [at |-> at, programme |-> p, loop |-> l] \in PlayerCalls
       /\ [at |-> at, programme |-> p, loop |-> l].at # "idle"
  BY DEF PlayerCalls
<1>3. \A at \in {"skip", "startAt", "start"}, i \in P!Items :
       /\ [at |-> at, item |-> i] \in PlayerCalls
       /\ [at |-> at, item |-> i].at # "idle"
  BY DEF PlayerCalls
<1>. QED BY <1>1, <1>2, <1>3

\* Every queue is a sequence of items.
LEMMA QueuesAre ==
  ASSUME PlayerAssumption
  PROVE  /\ \A q \in P!Queues \cup {<<>>} : q \in Seq(P!Items)
         /\ Programmes \subseteq P!Queues
         /\ \A i \in P!Items : <<i>> \in P!Queues
         /\ \A p \in Programmes : p # <<>> => Len(p) \in Nat \ {0} /\ p[1] \in P!Items
<1>1. \A i \in P!Items : <<i>> \in Seq(P!Items)
  OBVIOUS
<1>2. \A q \in P!Queues \cup {<<>>} : q \in Seq(P!Items)
  <2>1. <<>> \in Seq(P!Items)
    OBVIOUS
  <2>. QED BY <1>1, <2>1 DEF PlayerAssumption, P!Queues
<1>3. Programmes \subseteq P!Queues /\ \A i \in P!Items : <<i>> \in P!Queues
  BY DEF P!Queues
<1>4. \A p \in Programmes : p # <<>> => Len(p) \in Nat \ {0} /\ p[1] \in P!Items
  BY DEF PlayerAssumption
<1>. QED BY <1>2, <1>3, <1>4

\* What a step that leaves nothing disturbed is like.
LEMMA Undisturbed ==
  ASSUME PlayerAssumption, P!Disturb, ~disturbed'
  PROVE  /\ ~disturbed
         /\ Alone'
         /\ \A c \in Callers : player[c].at = "start" /\ player'[c] = P!Idle
              => playing' = player[c].item
<1>1. /\ ~disturbed
      /\ ~(P!Cardinality(P!Busy') > 1)
      /\ P!Busy' # {} => timers' = {}
      /\ \A c \in Callers : player[c].at = "start" /\ player'[c] = P!Idle
              => playing' = player[c].item
  BY DEF P!Disturb
<1>2. \A a, b \in P!Busy' : a = b
  <2> SUFFICES ASSUME NEW a \in P!Busy', NEW b \in P!Busy', a # b
               PROVE  Cardinality(P!Busy') > 1
    BY <1>1, Counts
  <2>1. P!Busy' \subseteq Callers
    BY DEF P!Busy
  <2>2. IsFiniteSet(P!Busy')
    BY <2>1, FS_Subset DEF PlayerAssumption
  <2>3. IsFiniteSet({a, b}) /\ Cardinality({a, b}) = 2
    <3>1. IsFiniteSet({a}) /\ Cardinality({a}) = 1
      BY FS_Singleton
    <3>2. {a, b} = {a} \cup {b} /\ b \notin {a}
      OBVIOUS
    <3>. QED BY <3>1, <3>2, FS_AddElement
  <2>4. Cardinality({a, b}) <= Cardinality(P!Busy')
    BY <2>2, FS_Subset, {a, b} \subseteq P!Busy'
  <2>5. Cardinality(P!Busy') \in Nat
    BY <2>2, FS_CardinalityType
  <2>. QED BY <2>3, <2>4, <2>5
<1>. QED BY <1>1, <1>2 DEF Alone

\* A caller moves to r, and everything it might change keeps its type.
PlayerMoves(c, r) == /\ player' = [player EXCEPT ![c] = r] /\ r \in PlayerCalls
                     /\ QueueTypes' /\ EngineTypes' /\ TimerTypes' /\ OneItem'

\* A caller that does not end with its step was, and is, alone.
LEMMA StaysAlone ==
  ASSUME PlayerAssumption, PlayerInv, NEW c \in Callers, NEW r, PlayerMoves(c, r), r # P!Idle,
         P!Disturb, ~disturbed'
  PROVE  /\ ~disturbed /\ timers' = {}
         /\ \A d \in Callers \ {c} : player'[d] = P!Idle /\ player[d] = P!Idle
<1>1. ~disturbed /\ Alone'
  BY Undisturbed
<1>2. player'[c] = r /\ \A d \in Callers \ {c} : player'[d] = player[d]
  BY DEF PlayerMoves, PlayerInv, PlayerTypes
<1>3. c \in P!Busy'
  BY <1>2 DEF P!Busy
<1>4. \A d \in Callers \ {c} : d \notin P!Busy'
  BY <1>1, <1>3 DEF Alone
<1>5. \A d \in Callers \ {c} : player'[d] = P!Idle
  BY <1>4 DEF P!Busy
<1>. QED BY <1>1, <1>2, <1>3, <1>5 DEF Alone

\* So what the step has to show is only about its own call.
LEMMA GoesOn ==
  ASSUME PlayerAssumption, PlayerInv, NEW c \in Callers, NEW r, PlayerMoves(c, r), r # P!Idle,
         P!Disturb,
         ASSUME ~disturbed, ~disturbed',
                \A d \in Callers \ {c} : player'[d] = P!Idle /\ player[d] = P!Idle
         PROVE  CallAgrees(c)' /\ (~Starts(c)' => AllListed')
  PROVE  PlayerInv'
<1>1. PlayerTypes' /\ OneItem'
  BY DEF PlayerMoves, PlayerInv, PlayerTypes
<1>2. ASSUME ~disturbed' PROVE Alone' /\ ((\A d \in Callers : ~Starts(d)') => AllListed')
                               /\ \A d \in Callers : CallAgrees(d)'
  <2>1. /\ ~disturbed /\ Alone'
        /\ \A d \in Callers \ {c} : player'[d] = P!Idle /\ player[d] = P!Idle
    BY <1>2, StaysAlone, Undisturbed
  <2>2. CallAgrees(c)' /\ (~Starts(c)' => AllListed')
    BY <1>2, <2>1
  <2>3. \A d \in Callers \ {c} : CallAgrees(d)'
    BY <2>1, MadeCalls DEF CallAgrees
  <2>. QED BY <2>1, <2>2, <2>3
<1>3. Agrees'
  BY <1>2 DEF Agrees
<1>. QED BY <1>1, <1>3 DEF PlayerInv

\* A call that begins finds no start under way.
LEMMA Begins ==
  ASSUME PlayerInv, ~disturbed, NEW c \in Callers, player[c] = P!Idle,
         \A d \in Callers \ {c} : player[d] = P!Idle
  PROVE  AllListed
<1>1. \A d \in Callers : ~Starts(d)
  BY MadeCalls DEF Starts
<1>. QED BY <1>1 DEF PlayerInv, Agrees

LEMMA PlayStep == ASSUME PlayerAssumption, PlayerInv, NEW c \in Callers, P!Play(c), P!Disturb
                  PROVE  PlayerInv'
<1>1. PICK p \in Programmes, l \in BOOLEAN :
        /\ player[c] = P!Idle
        /\ player' = [player EXCEPT ![c] = [at |-> "play", programme |-> p, loop |-> l]]
        /\ UNCHANGED <<queue, queueIdx, queueMu, engine, playing, resume, source, timers>>
  BY DEF P!Play, P!Goto, P!EngineUnchanged
<1>. DEFINE r == [at |-> "play", programme |-> p, loop |-> l]
<1>2. r \in PlayerCalls /\ r # P!Idle
  BY MadeCalls
<1>3. PlayerMoves(c, r)
  BY <1>1, <1>2 DEF PlayerMoves, PlayerInv, PlayerTypes, QueueTypes, EngineTypes, TimerTypes, OneItem
<1>4. ASSUME ~disturbed, \A d \in Callers \ {c} : player[d] = P!Idle
      PROVE  CallAgrees(c)' /\ (~Starts(c)' => AllListed')
  <2>1. AllListed'
    BY <1>1, <1>4, Begins DEF AllListed, EngineListed, Listed
  <2>2. player'[c].at = "play"
    BY <1>1 DEF PlayerInv, PlayerTypes
  <2>. QED BY <2>1, <2>2 DEF CallAgrees
<1>. QED BY <1>2, <1>3, <1>4, GoesOn

LEMMA SetQueueStep ==
  ASSUME PlayerAssumption, PlayerInv, NEW c \in Callers, P!setQueue(c), P!Disturb
  PROVE  PlayerInv'
<1>. DEFINE r == [player[c] EXCEPT !.at = "queued"]
<1>1. /\ player[c].at = "play" /\ queue' = player[c].programme /\ queueIdx' = 1
      /\ player' = [player EXCEPT ![c] = r]
      /\ UNCHANGED <<queueMu, engine, playing, resume, source, timers>>
  BY DEF P!setQueue, P!Goto, P!EngineUnchanged
<1>2. player[c] \in [at : {"play", "queued"}, programme : Programmes, loop : BOOLEAN]
  BY <1>1, MadeCalls DEF PlayerInv, PlayerTypes, PlayerCalls
<1>3. /\ r \in [at : {"play", "queued"}, programme : Programmes, loop : BOOLEAN]
      /\ r.at = "queued" /\ r.programme = player[c].programme
  BY <1>2
<1>4. r \in PlayerCalls /\ r # P!Idle
  BY <1>3, MadeCalls DEF PlayerCalls
<1>5. QueueTypes'
  BY <1>1, <1>2, QueuesAre DEF PlayerInv, PlayerTypes, QueueTypes
<1>6. PlayerMoves(c, r)
  BY <1>1, <1>4, <1>5 DEF PlayerMoves, PlayerInv, PlayerTypes, EngineTypes, TimerTypes, OneItem
<1>7. CallAgrees(c)' /\ Starts(c)'
  <2>1. player'[c] = r
    BY <1>1 DEF PlayerInv, PlayerTypes
  <2>. QED BY <1>1, <1>3, <2>1 DEF CallAgrees, Starts
<1>. QED BY <1>4, <1>6, <1>7, GoesOn

LEMMA StartQueueStep ==
  ASSUME PlayerAssumption, PlayerInv, NEW c \in Callers, P!StartQueue(c), P!Disturb
  PROVE  PlayerInv'
<1>1. /\ player[c].at = "queued" /\ player[c].programme # <<>>
      /\ engine' = [queue |-> player[c].programme, idx |-> 1, loop |-> player[c].loop]
      /\ player' = [player EXCEPT ![c] = [at |-> "start", item |-> player[c].programme[1]]]
      /\ UNCHANGED <<queue, queueIdx, queueMu, playing, resume, source, timers>>
  BY DEF P!StartQueue, P!Goto
<1>2. PICK p \in Programmes : p = player[c].programme /\ p # <<>>
  BY <1>1, CallKinds DEF PlayerInv, PlayerTypes
<1>3. player[c].loop \in BOOLEAN
  BY <1>1, CallKinds DEF PlayerInv, PlayerTypes
<1>. DEFINE r == [at |-> "start", item |-> p[1]]
<1>4. r \in PlayerCalls /\ r # P!Idle /\ player' = [player EXCEPT ![c] = r]
  BY <1>1, <1>2, MadeCalls, QueuesAre
<1>5. EngineTypes' /\ engine'.queue = p
  BY <1>1, <1>2, <1>3, QueuesAre DEF PlayerInv, PlayerTypes, EngineTypes
<1>6. PlayerMoves(c, r)
  BY <1>1, <1>4, <1>5 DEF PlayerMoves, PlayerInv, PlayerTypes, QueueTypes, TimerTypes, OneItem
<1>7. ASSUME ~disturbed PROVE CallAgrees(c)' /\ Starts(c)'
  <2>1. queue' = p
    BY <1>1, <1>2, <1>7 DEF PlayerInv, Agrees, CallAgrees
  <2>2. player'[c] = r
    BY <1>4 DEF PlayerInv, PlayerTypes
  <2>3. 1 \in DOMAIN p /\ p \in Seq(P!Items)
    BY <1>2, QueuesAre DEF PlayerAssumption
  <2>4. Listed(p[1])' /\ EngineListed'
    BY <2>1, <2>3, <1>5 DEF Listed, EngineListed
  <2>. QED BY <2>2, <2>4 DEF CallAgrees, Starts
<1>. QED BY <1>4, <1>6, <1>7, GoesOn

\* A refused start leaves the adapter's queue empty.
LEMMA RefusedStep ==
  ASSUME PlayerAssumption, PlayerInv, NEW c \in Callers, P!StartRefused(c), P!Disturb
  PROVE  PlayerInv'
<1>1. /\ player[c].at = "queued" /\ player[c].programme = <<>>
      /\ player' = [player EXCEPT ![c] = P!Idle]
      /\ UNCHANGED <<queue, queueIdx, queueMu, engine, playing, resume, source, timers>>
  BY DEF P!StartRefused, P!Goto, P!EngineUnchanged
<1>2. PlayerTypes' /\ OneItem'
  <2>1. player' \in [Callers -> PlayerCalls]
    BY <1>1, MadeCalls DEF PlayerInv, PlayerTypes
  <2>2. QueueTypes' /\ EngineTypes' /\ TimerTypes' /\ OneItem'
    BY <1>1 DEF PlayerInv, PlayerTypes, QueueTypes, EngineTypes, TimerTypes, OneItem
  <2>. QED BY <2>1, <2>2 DEF PlayerTypes
<1>3. ASSUME ~disturbed' PROVE /\ Alone' /\ AllListed'
                               /\ \A d \in Callers : CallAgrees(d)'
  <2>1. ~disturbed /\ Alone'
    BY <1>3, Undisturbed
  <2>2. queue' = <<>>
    BY <1>1, <2>1 DEF PlayerInv, Agrees, CallAgrees
  <2>3. AllListed'
    BY <2>2 DEF AllListed, Listed, EngineListed
  <2>4. c \in P!Busy
    BY <1>1, MadeCalls DEF P!Busy
  <2>5. \A d \in Callers \ {c} : player[d] = P!Idle
    BY <2>1, <2>4 DEF PlayerInv, Agrees, Alone, P!Busy
  <2>6. \A d \in Callers : player'[d] = P!Idle
    BY <1>1, <2>5 DEF PlayerInv, PlayerTypes
  <2>7. \A d \in Callers : CallAgrees(d)'
    BY <2>6, MadeCalls DEF CallAgrees
  <2>. QED BY <2>1, <2>3, <2>7
<1>. QED BY <1>2, <1>3 DEF PlayerInv, Agrees

\* Skip: the item after the adapter's index, of the adapter's queue.
LEMMA SkipStep ==
  ASSUME PlayerAssumption, PlayerInv, NEW c \in Callers, P!Skip(c), P!Disturb
  PROVE  PlayerInv'
<1>1. /\ player[c] = P!Idle /\ queue # <<>>
      /\ queueIdx' = (queueIdx % Len(queue)) + 1 /\ queueMu' = c
      /\ player' = [player EXCEPT ![c] = [at |-> "skip", item |-> queue[queueIdx']]]
      /\ UNCHANGED <<queue, engine, playing, resume, source, timers>>
  BY DEF P!Skip, P!Goto, P!EngineUnchanged
<1>2. queue \in Seq(P!Items) /\ Len(queue) \in Nat \ {0} /\ queueIdx \in Nat
  <2>1. queue \in Programmes /\ queue # <<>> /\ queueIdx \in 1..(Len(queue) + 1)
    BY <1>1 DEF PlayerInv, PlayerTypes, QueueTypes
  <2>. QED BY <2>1, QueuesAre DEF PlayerAssumption
<1>3. queueIdx' \in 1..Len(queue)
  BY <1>1, <1>2
<1>. PICK i \in P!Items : i = queue[queueIdx'] /\ Listed(i)
  BY <1>2, <1>3 DEF Listed
<1>. DEFINE r == [at |-> "skip", item |-> i]
<1>4. r \in PlayerCalls /\ r # P!Idle /\ player' = [player EXCEPT ![c] = r]
  BY <1>1, MadeCalls
<1>5. QueueTypes'
  BY <1>1, <1>2, <1>3 DEF PlayerInv, PlayerTypes, QueueTypes
<1>6. PlayerMoves(c, r)
  BY <1>1, <1>4, <1>5 DEF PlayerMoves, PlayerInv, PlayerTypes, EngineTypes, TimerTypes, OneItem
<1>7. ASSUME ~disturbed, \A d \in Callers \ {c} : player[d] = P!Idle
      PROVE  CallAgrees(c)' /\ AllListed'
  <2>1. AllListed'
    BY <1>1, <1>7, Begins DEF AllListed, EngineListed, Listed
  <2>2. player'[c] = r
    BY <1>4 DEF PlayerInv, PlayerTypes
  <2>3. Listed(i)'
    BY <1>1 DEF Listed
  <2>. QED BY <2>1, <2>2, <2>3 DEF CallAgrees
<1>. QED BY <1>4, <1>6, <1>7, GoesOn

\* Seek, Continue and a Skip with an empty queue: what was started last, or was
\* paused.
LEMMA SeekStep ==
  ASSUME PlayerAssumption, PlayerInv, NEW c \in Callers,
         P!Seek(c) \/ P!Continue(c) \/ P!EngineSkip(c), P!Disturb
  PROVE  PlayerInv'
<1>1. PICK i \in P!Items, at \in {"startAt", "skip"} :
        /\ player[c] = P!Idle /\ i \in {resume, source} \ {Nobody}
        /\ player' = [player EXCEPT ![c] = [at |-> at, item |-> i]]
        /\ queueMu' \in {queueMu, c}
        /\ UNCHANGED <<queue, queueIdx, engine, playing, resume, source, timers>>
  <2>1. \A i \in {resume, source} \ {Nobody} : i \in P!Items
    BY DEF PlayerInv, PlayerTypes, EngineTypes
  <2>2. CASE P!Seek(c)
    BY <2>1, <2>2 DEF P!Seek, P!Goto, P!EngineUnchanged
  <2>3. CASE P!Continue(c)
    BY <2>1, <2>3 DEF P!Continue, P!Goto, P!EngineUnchanged
  <2>4. CASE P!EngineSkip(c)
    <3>1. /\ player[c] = P!Idle /\ source # Nobody /\ queueMu' = c
          /\ player' = [player EXCEPT ![c] = [at |-> "skip", item |-> source]]
          /\ UNCHANGED <<queue, queueIdx, engine, playing, resume, source, timers>>
      BY <2>4 DEF P!EngineSkip, P!Goto, P!EngineUnchanged
    <3>. QED BY <2>1, <3>1
  <2>. QED BY <2>2, <2>3, <2>4
<1>. DEFINE r == [at |-> at, item |-> i]
<1>2. r \in PlayerCalls /\ r # P!Idle
  BY MadeCalls
<1>3. PlayerMoves(c, r)
  BY <1>1, <1>2 DEF PlayerMoves, PlayerInv, PlayerTypes, QueueTypes, EngineTypes, TimerTypes, OneItem
<1>4. ASSUME ~disturbed, \A d \in Callers \ {c} : player[d] = P!Idle
      PROVE  CallAgrees(c)' /\ AllListed'
  <2>1. AllListed
    BY <1>1, <1>4, Begins
  <2>2. AllListed' /\ Listed(i)'
    BY <1>1, <2>1 DEF AllListed, EngineListed, Listed
  <2>3. player'[c] = r
    BY <1>1 DEF PlayerInv, PlayerTypes
  <2>. QED BY <2>2, <2>3 DEF CallAgrees
<1>. QED BY <1>2, <1>3, <1>4, GoesOn

LEMMA StartAtStep ==
  ASSUME PlayerAssumption, PlayerInv, NEW c \in Callers, P!StartAt(c), P!Disturb
  PROVE  PlayerInv'
<1>1. PICK i \in P!Items :
        /\ player[c].at \in {"skip", "startAt"} /\ i = player[c].item
        /\ engine' = [queue |-> <<i>>, idx |-> 1, loop |-> FALSE]
        /\ player' = [player EXCEPT ![c] = [at |-> "start", item |-> i]]
        /\ UNCHANGED <<queue, queueIdx, queueMu, playing, resume, source, timers>>
  BY CallKinds DEF P!StartAt, P!Goto, PlayerInv, PlayerTypes
<1>. DEFINE r == [at |-> "start", item |-> i]
<1>2. r \in PlayerCalls /\ r # P!Idle
  BY MadeCalls
<1>3. EngineTypes' /\ engine'.queue = <<i>>
  BY <1>1, QueuesAre DEF PlayerInv, PlayerTypes, EngineTypes
<1>4. PlayerMoves(c, r)
  BY <1>1, <1>2, <1>3 DEF PlayerMoves, PlayerInv, PlayerTypes, QueueTypes, TimerTypes, OneItem
<1>5. ASSUME ~disturbed PROVE CallAgrees(c)' /\ Starts(c)'
  <2>1. Listed(i)
    BY <1>1, <1>5 DEF PlayerInv, Agrees, CallAgrees
  <2>2. Listed(i)' /\ EngineListed'
    BY <1>1, <1>3, <2>1 DEF Listed, EngineListed
  <2>3. player'[c] = r
    BY <1>1 DEF PlayerInv, PlayerTypes
  <2>. QED BY <2>2, <2>3 DEF CallAgrees, Starts
<1>. QED BY <1>2, <1>4, <1>5, GoesOn

\* The start ends with the item playing, or leaves something disturbed.
LEMMA StartEnds ==
  ASSUME PlayerAssumption, PlayerInv, NEW c \in Callers, P!startItem(c) \/ P!StartFails(c),
         P!Disturb
  PROVE  PlayerInv'
<1>1. /\ player[c].at = "start" /\ player' = [player EXCEPT ![c] = P!Idle]
      /\ queueMu' \in {queueMu, Nobody}
      /\ UNCHANGED <<queue, queueIdx, engine, timers>>
      /\ \/ playing' = player[c].item /\ resume' = Nobody /\ source' = player[c].item
         \/ playing' \in {playing, Nobody} /\ resume' = resume /\ source' = source
  BY DEF P!startItem, P!StartFails, P!Goto, P!Unlock
<1>2. PICK i \in P!Items : i = player[c].item
  BY <1>1, CallKinds DEF PlayerInv, PlayerTypes
<1>3. PlayerTypes' /\ OneItem'
  <2>1. EngineTypes' /\ OneItem'
    BY <1>1, <1>2 DEF PlayerInv, PlayerTypes, EngineTypes, OneItem
  <2>2. player' \in [Callers -> PlayerCalls]
    BY <1>1, MadeCalls DEF PlayerInv, PlayerTypes
  <2>3. QueueTypes' /\ TimerTypes'
    BY <1>1 DEF PlayerInv, PlayerTypes, QueueTypes, TimerTypes
  <2>. QED BY <2>1, <2>2, <2>3 DEF PlayerTypes
<1>4. ASSUME ~disturbed' PROVE /\ Alone' /\ AllListed'
                               /\ \A d \in Callers : CallAgrees(d)'
  <2>1. ~disturbed /\ Alone' /\ playing' = i
    BY <1>1, <1>2, <1>4, MadeCalls, Undisturbed DEF PlayerInv, PlayerTypes
  <2>2. resume' = Nobody /\ source' = i
    BY <1>1, <1>2, <2>1 DEF PlayerInv, OneItem, PlayerAssumption
  <2>3. c \in P!Busy
    BY <1>1, MadeCalls DEF P!Busy
  <2>4. timers = {} /\ \A d \in Callers \ {c} : player[d] = P!Idle
    BY <2>1, <2>3 DEF PlayerInv, Agrees, Alone, P!Busy
  <2>5. \A d \in Callers : player'[d] = P!Idle
    BY <1>1, <2>4 DEF PlayerInv, PlayerTypes
  <2>6. Listed(i) /\ EngineListed
    BY <1>1, <1>2, <2>1 DEF PlayerInv, Agrees, CallAgrees
  <2>7. AllListed'
    BY <1>1, <2>1, <2>2, <2>4, <2>6 DEF AllListed, Listed, EngineListed
  <2>8. \A d \in Callers : CallAgrees(d)'
    BY <2>5, MadeCalls DEF CallAgrees
  <2>. QED BY <2>1, <2>7, <2>8
<1>. QED BY <1>3, <1>4 DEF PlayerInv, Agrees

\* A step under which no call moves.
LEMMA CallsRest ==
  ASSUME PlayerAssumption, PlayerInv, UNCHANGED <<queue, queueIdx, queueMu, player>>,
         EngineTypes', TimerTypes', OneItem', P!Disturb,
         ~disturbed /\ ~disturbed' => /\ AllListed => AllListed'
                                      /\ EngineListed => EngineListed'
  PROVE  PlayerInv'
<1>1. PlayerTypes'
  BY DEF PlayerInv, PlayerTypes, QueueTypes
<1>2. \A c \in Callers : Starts(c)' <=> Starts(c)
  BY DEF Starts
<1>3. ASSUME ~disturbed' PROVE /\ Alone'
                               /\ (\A c \in Callers : ~Starts(c)') => AllListed'
                               /\ \A c \in Callers : CallAgrees(c)'
  <2>1. ~disturbed /\ Alone'
    BY <1>3, Undisturbed
  <2>2. (\A c \in Callers : ~Starts(c)') => AllListed'
    BY <1>2, <1>3, <2>1 DEF PlayerInv, Agrees
  <2>3. \A c \in Callers : CallAgrees(c)'
    BY <1>3, <2>1 DEF PlayerInv, Agrees, CallAgrees, Listed
  <2>. QED BY <2>1, <2>2, <2>3
<1>4. Agrees'
  BY <1>3, Zenon DEF Agrees
<1>. QED BY <1>1, <1>4 DEF PlayerInv

LEMMA StopStep ==
  ASSUME PlayerAssumption, PlayerInv, NEW c \in Callers, P!Stop(c) \/ P!Pause(c), P!Disturb
  PROVE  PlayerInv'
<1>1. /\ playing # Nobody /\ playing' = Nobody /\ resume' \in {playing, resume}
      /\ UNCHANGED <<queue, queueIdx, queueMu, engine, source, timers, player>>
  BY DEF P!Stop, P!Pause
<1>2. EngineTypes' /\ TimerTypes' /\ OneItem'
  BY <1>1 DEF PlayerInv, PlayerTypes, EngineTypes, TimerTypes, OneItem
<1>3. /\ AllListed => AllListed'
      /\ EngineListed => EngineListed'
  BY <1>1 DEF AllListed, EngineListed, Listed
<1>. QED BY <1>1, <1>2, <1>3, CallsRest

\* An item ends, and the engine moves on in its own queue.
LEMMA EndsStep == ASSUME PlayerAssumption, PlayerInv, P!Ends, P!Disturb PROVE PlayerInv'
<1>. DEFINE n == P!AdvanceTo
<1>1. /\ playing # Nobody /\ playing' = Nobody
      /\ UNCHANGED <<queue, queueIdx, queueMu, resume, source, player>>
      /\ \/ UNCHANGED <<engine, timers>>
         \/ engine' = [engine EXCEPT !.queue = <<>>, !.idx = 1] /\ timers' = timers
         \/ /\ Len(engine.queue) > 1 /\ n # 0 /\ engine' = [engine EXCEPT !.idx = n]
            /\ timers' = timers \cup {[kind |-> "advance", item |-> engine.queue[n]]}
  BY DEF P!Ends
<1>2. /\ engine \in [queue : P!Queues \cup {<<>>}, idx : Nat, loop : BOOLEAN]
      /\ engine.idx \in 1..(Len(engine.queue) + 1)
      /\ engine.queue \in Seq(P!Items) /\ Len(engine.queue) \in Nat
  BY QueuesAre DEF PlayerInv, PlayerTypes, EngineTypes
<1>3. Len(engine.queue) > 1 /\ n # 0 => n \in 1..Len(engine.queue)
  BY <1>2 DEF P!AdvanceTo
<1>4. Cardinality(timers') <= MaxTimers
  BY Counts DEF P!Disturb
<1>5. CASE UNCHANGED <<engine, timers>>
  <2>1. EngineTypes' /\ TimerTypes' /\ OneItem'
    BY <1>1, <1>5 DEF PlayerInv, PlayerTypes, EngineTypes, TimerTypes, OneItem
  <2>2. /\ AllListed => AllListed'
        /\ EngineListed => EngineListed'
    BY <1>1, <1>5 DEF AllListed, EngineListed, Listed
  <2>. QED BY <1>1, <2>1, <2>2, CallsRest
<1>6. CASE engine' = [engine EXCEPT !.queue = <<>>, !.idx = 1] /\ timers' = timers
  <2>1. /\ engine' \in [queue : P!Queues \cup {<<>>}, idx : Nat, loop : BOOLEAN]
        /\ engine'.queue = <<>> /\ engine'.idx = 1
    BY <1>2, <1>6
  <2>2. EngineTypes' /\ TimerTypes' /\ OneItem'
    BY <1>1, <1>6, <2>1 DEF PlayerInv, PlayerTypes, EngineTypes, TimerTypes, OneItem
  <2>3. /\ AllListed => AllListed'
        /\ EngineListed => EngineListed'
    BY <1>1, <1>6, <2>1 DEF AllListed, EngineListed, Listed
  <2>. QED BY <1>1, <2>2, <2>3, CallsRest
<1>7. CASE /\ Len(engine.queue) > 1 /\ n # 0 /\ engine' = [engine EXCEPT !.idx = n]
           /\ timers' = timers \cup {[kind |-> "advance", item |-> engine.queue[n]]}
  <2>1. n \in 1..Len(engine.queue) /\ engine.queue[n] \in P!Items
    BY <1>2, <1>3, <1>7
  <2>2. /\ engine' \in [queue : P!Queues \cup {<<>>}, idx : Nat, loop : BOOLEAN]
        /\ engine'.queue = engine.queue /\ engine'.idx = n
    BY <1>2, <1>7, <2>1
  <2>3. EngineTypes' /\ OneItem'
    BY <1>1, <1>2, <2>1, <2>2 DEF PlayerInv, PlayerTypes, EngineTypes, OneItem
  <2>4. TimerTypes'
    BY <1>4, <1>7, <2>1 DEF PlayerInv, PlayerTypes, TimerTypes, P!Timer
  <2>5. EngineListed => EngineListed'
    BY <1>1, <2>2 DEF EngineListed, Listed
  <2>6. AllListed => AllListed'
    <3> SUFFICES ASSUME AllListed PROVE AllListed'
      OBVIOUS
    <3>1. Listed(engine.queue[n])
      BY <1>2, <2>1 DEF AllListed, EngineListed
    <3>2. \A t \in timers' : Listed(t.item)
      BY <1>7, <3>1 DEF AllListed
    <3>3. \A t \in timers' : Listed(t.item)'
      BY <1>1, <3>2 DEF Listed
    <3>4. \A i \in {playing', resume', source'} \ {Nobody} : Listed(i)'
      BY <1>1 DEF AllListed, Listed
    <3>. QED BY <2>5, <3>3, <3>4 DEF AllListed
  <2>. QED BY <1>1, <2>3, <2>4, <2>5, <2>6, CallsRest
<1>. QED BY <1>1, <1>5, <1>6, <1>7

LEMMA DiesStep == ASSUME PlayerAssumption, PlayerInv, P!Dies, P!Disturb PROVE PlayerInv'
<1>1. /\ playing # Nobody /\ playing' = Nobody
      /\ timers' = timers \cup {[kind |-> "reconnect", item |-> playing]}
      /\ UNCHANGED <<queue, queueIdx, queueMu, engine, resume, source, player>>
  BY DEF P!Dies
<1>2. EngineTypes' /\ OneItem'
  BY <1>1 DEF PlayerInv, PlayerTypes, EngineTypes, OneItem
<1>3. TimerTypes'
  <2>1. Cardinality(timers') <= MaxTimers
    BY Counts DEF P!Disturb
  <2>2. playing \in P!Items
    BY <1>1 DEF PlayerInv, PlayerTypes, EngineTypes
  <2>. QED BY <1>1, <2>1, <2>2 DEF PlayerInv, PlayerTypes, TimerTypes, P!Timer
<1>4. EngineListed => EngineListed'
  BY <1>1 DEF EngineListed, Listed
<1>5. AllListed => AllListed'
  <2> SUFFICES ASSUME AllListed PROVE AllListed'
    OBVIOUS
  <2>1. \A t \in timers' : Listed(t.item)
    BY <1>1 DEF AllListed
  <2>2. \A t \in timers' : Listed(t.item)'
    BY <1>1, <2>1 DEF Listed
  <2>3. \A i \in {playing', resume', source'} \ {Nobody} : Listed(i)'
    BY <1>1 DEF AllListed, Listed
  <2>. QED BY <1>4, <2>2, <2>3 DEF AllListed
<1>. QED BY <1>1, <1>2, <1>3, <1>4, <1>5, CallsRest

\* A timer fires: while a call is under way none is pending, unless disturbed.
LEMMA FiresStep == ASSUME PlayerAssumption, PlayerInv, P!Fires, P!Disturb PROVE PlayerInv'
<1>1. PICK t \in timers :
        /\ timers' = timers \ {t}
        /\ \/ engine' = engine
           \/ engine' = [queue |-> <<t.item>>, idx |-> 1, loop |-> FALSE]
        /\ playing' = t.item /\ resume' = Nobody /\ source' = t.item
        /\ UNCHANGED <<queue, queueIdx, queueMu, player>>
  BY DEF P!Fires
<1>2. t \in P!Timer /\ t.item \in P!Items
  BY DEF PlayerInv, PlayerTypes, TimerTypes, P!Timer
<1>3. EngineTypes' /\ OneItem' /\ (engine'.queue = engine.queue \/ engine'.queue = <<t.item>>)
  <2>1. CASE engine' = engine
    BY <1>1, <1>2, <2>1 DEF PlayerInv, PlayerTypes, EngineTypes, OneItem
  <2>2. CASE engine' = [queue |-> <<t.item>>, idx |-> 1, loop |-> FALSE]
    <3>1. <<t.item>> \in P!Queues /\ Len(<<t.item>>) = 1
      BY <1>2, QueuesAre
    <3>2. /\ engine' \in [queue : P!Queues \cup {<<>>}, idx : Nat, loop : BOOLEAN]
          /\ engine'.queue = <<t.item>> /\ engine'.idx = 1
      BY <2>2, <3>1
    <3>. QED BY <1>1, <1>2, <3>1, <3>2 DEF PlayerInv, PlayerTypes, EngineTypes, OneItem
  <2>. QED BY <1>1, <2>1, <2>2
<1>4. TimerTypes'
  <2>1. Cardinality(timers') <= MaxTimers
    BY Counts DEF P!Disturb
  <2>. QED BY <1>1, <2>1 DEF PlayerInv, PlayerTypes, TimerTypes
<1>5. ASSUME ~disturbed PROVE AllListed' /\ EngineListed'
  <2>1. P!Busy = {}
    BY <1>5 DEF PlayerInv, Agrees, Alone
  <2>2. \A c \in Callers : ~Starts(c)
    BY <2>1, MadeCalls DEF P!Busy, Starts
  <2>3. AllListed
    BY <1>5, <2>2 DEF PlayerInv, Agrees
  <2>4. Listed(t.item)
    BY <2>3 DEF AllListed
  <2>5. EngineListed'
    BY <1>1, <1>3, <2>3, <2>4 DEF AllListed, EngineListed, Listed
  <2>6. \A i \in {playing', resume', source'} \ {Nobody} : Listed(i)'
    BY <1>1, <2>4 DEF Listed
  <2>7. \A u \in timers' : Listed(u.item)'
    BY <1>1, <2>3 DEF AllListed, Listed
  <2>. QED BY <2>5, <2>6, <2>7 DEF AllListed
<1>. QED BY <1>1, <1>3, <1>4, <1>5, CallsRest

LEMMA PlayersInv == ASSUME PlayerAssumption PROVE P!Spec => []PlayerInv
<1>1. P!Init => PlayerInv
  <2> SUFFICES ASSUME P!Init PROVE PlayerInv
    OBVIOUS
  <2>1. /\ queue = <<>> /\ queueIdx = 1 /\ queueMu = Nobody
        /\ engine = [queue |-> <<>>, idx |-> 1, loop |-> FALSE]
        /\ playing = Nobody /\ resume = Nobody /\ source = Nobody /\ timers = {}
        /\ player = [c \in Callers |-> P!Idle]
    BY DEF P!Init
  <2>2. TimerTypes
    BY <2>1, FS_EmptySet DEF TimerTypes, PlayerAssumption
  <2>3. QueueTypes /\ EngineTypes /\ OneItem
    BY <2>1 DEF QueueTypes, EngineTypes, OneItem
  <2>4. player \in [Callers -> PlayerCalls] /\ P!Busy = {}
    BY <2>1, MadeCalls DEF P!Busy
  <2>5. AllListed /\ \A c \in Callers : CallAgrees(c)
    BY <2>1, MadeCalls DEF AllListed, EngineListed, CallAgrees
  <2>. QED BY <2>2, <2>3, <2>4, <2>5 DEF PlayerInv, PlayerTypes, Agrees, Alone
<1>2. PlayerInv /\ [P!Next]_P!playerVars => PlayerInv'
  <2> SUFFICES ASSUME PlayerInv, [P!Next]_P!playerVars PROVE PlayerInv'
    OBVIOUS
  <2>1. ASSUME NEW c \in Callers, P!handlePlayer(c), P!Disturb PROVE PlayerInv'
    BY <2>1, PlayStep, SetQueueStep, StartQueueStep, RefusedStep, SkipStep, SeekStep, StartAtStep,
       StartEnds, StopStep DEF P!handlePlayer
  <2>2. CASE P!EngineMoves /\ P!Disturb
    BY <2>2, EndsStep, DiesStep, FiresStep DEF P!EngineMoves
  <2>3. CASE UNCHANGED P!playerVars
    <3>1. UNCHANGED <<queue, queueIdx, queueMu, engine, playing, resume, source, timers, player, disturbed>>
      BY <2>3 DEF P!playerVars
    <3>2. PlayerTypes' /\ OneItem'
      BY <3>1 DEF PlayerInv, PlayerTypes, QueueTypes, EngineTypes, TimerTypes, OneItem
    <3>3. /\ Alone' = Alone /\ AllListed' = AllListed
          /\ \A c \in Callers : CallAgrees(c)' = CallAgrees(c) /\ Starts(c)' = Starts(c)
      BY <3>1 DEF Alone, P!Busy, P!Idle, AllListed, EngineListed, Listed, CallAgrees, Starts
    <3>4. Agrees'
      BY <3>1, <3>3 DEF PlayerInv, Agrees
    <3>. QED BY <3>2, <3>4 DEF PlayerInv
  <2>. QED BY <2>1, <2>2, <2>3 DEF P!Next
<1>. QED BY <1>1, <1>2, PTL DEF P!Spec

\* Every variable of the player adapter has its type: both indices stay within
\* their queues.
THEOREM PlayerTypeCorrect == P!Spec => []P!TypeOK
<1>0. PlayerAssumption
  BY BackgroundAssumption
<1>. USE <1>0
<1>1. PlayerInv => P!TypeOK
  <2> SUFFICES ASSUME PlayerInv PROVE P!TypeOK
    OBVIOUS
  <2>1. P!Cardinality(timers) <= MaxTimers
    BY Counts DEF PlayerInv, PlayerTypes, TimerTypes
  <2>2. \A c \in Callers : player[c].at \in {"idle", "play", "queued", "skip", "startAt", "start"}
    BY CallKinds DEF PlayerInv, PlayerTypes
  <2>. QED BY <2>1, <2>2, QueuesAre
       DEF PlayerInv, PlayerTypes, QueueTypes, EngineTypes, TimerTypes, P!TypeOK, P!Opt
<1>. QED BY <1>1, PlayersInv, PTL

\* The adapter's queue and the engine's, each moved on its own, agree about
\* what plays, was paused or started last and is about to be restarted, for any
\* programmes, empty ones among them, and any number of callers; while the
\* adapter's queue is empty there is nothing they could agree about.
THEOREM SameProgramme == P!Spec => []OneProgramme
<1>0. PlayerAssumption
  BY BackgroundAssumption
<1>. USE <1>0
<1>1. PlayerInv => OneProgramme
  <2> SUFFICES ASSUME PlayerInv, P!Busy = {}, ~disturbed, queue # <<>>
               PROVE  /\ \A i \in {playing, resume, source} \ {Nobody} : \E k \in DOMAIN queue : queue[k] = i
                      /\ \A t \in timers : \E k \in DOMAIN queue : queue[k] = t.item
    BY DEF OneProgramme, P!OneProgramme
  <2>1. \A c \in Callers : ~Starts(c)
    BY MadeCalls DEF P!Busy, Starts
  <2>2. AllListed
    BY <2>1 DEF PlayerInv, Agrees
  <2>. QED BY <2>2 DEF AllListed, Listed
<1>. QED BY <1>1, PlayersInv, PTL

-----------------------------------------------------------------------------
(* The parts together *)

\* However the store, the player adapter, the run loop and the fan-out are
\* interleaved, every variable keeps its type.
THEOREM BackgroundTypes == Spec /\ P!Spec /\ R!Spec /\ F!Spec => []TypesOK
<1>0. PlayerAssumption /\ MaxStarts \in Nat \ {0} /\ ChannelCap \in Nat /\ Nobody \notin Messages
  BY BackgroundAssumption
<1>. USE <1>0
<1>1. Spec => []TypeOK
  <2>1. IInv => TypeOK
    BY DEF IInv
  <2>. QED BY <2>1, Invariant, PTL
<1>2. (P!Spec => []P!TypeOK) /\ (R!Spec => []R!TypeOK) /\ (F!Spec => []F!TypeOK)
  BY PlayerTypeCorrect, LoopTypeCorrect, FanTypeCorrect
<1>. QED BY <1>1, <1>2, PTL DEF TypesOK
===============================================================================
