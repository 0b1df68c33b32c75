----------------------------- MODULE AtomicStore -----------------------------
(***************************************************************************)
(* What the document store promises to the services above it: one document *)
(* that every update changes in a single step and that outlives the        *)
(* program.  Store implements it.                                          *)
(*                                                                         *)
(* An update is a function from documents to documents; the values Reject  *)
(* (its callback returned an error) and Noop (errNoop) change nothing.     *)
(***************************************************************************)
CONSTANTS Clients,        \* the goroutines that call the store
          Updates,        \* the updates they ask for, functions on documents
          Docs,           \* the documents
          Reject, Noop

VARIABLES doc,            \* the document
          call            \* per client: the update under way and how far it is

Idle    == [at |-> "idle"]
Asks(f) == [at |-> "asked", f |-> f]
Ends(r) == [at |-> "ended", result |-> r]
Applied == [at |-> "applied"]
Ok  == [kind |-> "ok"]
Err == [kind |-> "error"]
Got(d) == [kind |-> "read", doc |-> d]
Results == {Ok, Err} \cup {Got(d) : d \in Docs}

TypeOK ==
  /\ doc \in Docs
  /\ call \in [Clients -> {Idle, Applied} \cup {Asks(f) : f \in Updates}
                           \cup {Ends(r) : r \in Results}]

Init == doc \in Docs /\ call = [c \in Clients |-> Idle]

Ask(c, f) == /\ call[c] = Idle
             /\ call' = [call EXCEPT ![c] = Asks(f)]
             /\ UNCHANGED doc

\* The update happens, whole and once.
Apply(c) == \E f \in Updates :
  /\ call[c] = Asks(f)
  /\ f[doc] \in Docs
  /\ doc' = f[doc]
  /\ call' = [call EXCEPT ![c] = Applied]

\* The callback rejected, or the disk failed: the document is as it was.
Fail(c) == \E f \in Updates :
  /\ call[c] = Asks(f)
  /\ call' = [call EXCEPT ![c] = Ends(Err)]
  /\ UNCHANGED doc

\* An update that succeeds has been applied, or had nothing to do.
Succeed(c) == /\ \/ call[c] = Applied
                 \/ \E f \in Updates : call[c] = Asks(f) /\ f[doc] = Noop
              /\ call' = [call EXCEPT ![c] = Ends(Ok)]
              /\ UNCHANGED doc

Read(c) == /\ call[c] = Idle
           /\ call' = [call EXCEPT ![c] = Ends(Got(doc))]
           /\ UNCHANGED doc

Consume(c) == /\ call[c].at = "ended"
              /\ call' = [call EXCEPT ![c] = Idle]
              /\ UNCHANGED doc

\* The program dies with its callers; the document stays.
Crash == call' = [c \in Clients |-> Idle] /\ UNCHANGED doc

Next == Crash \/ \E c \in Clients :
  \/ \E f \in Updates : Ask(c, f)
  \/ Apply(c) \/ Fail(c) \/ Succeed(c) \/ Read(c) \/ Consume(c)

Spec == Init /\ [][Next]_<<doc, call>>
=============================================================================
