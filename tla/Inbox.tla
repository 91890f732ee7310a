-------------------------------- MODULE Inbox --------------------------------
(***************************************************************************)
(* What the intake promises of an organization's inbox, whatever requests  *)
(* run at once, fail or die: files arrive one at a time.  A file is        *)
(* accepted under an origin at most once, and from then on the origin      *)
(* stands for its sender and these bytes.  Bytes that are new make a       *)
(* document and are charged to a period that has room for them; bytes that *)
(* are known add nothing, and nothing but their owner's orders moves a     *)
(* document.  DocumentIntake implements this module.                       *)
(***************************************************************************)
EXTENDS Naturals

CONSTANTS
  Origins,       \* the origin keys
  Contents,      \* what files contain
  Unsafe,        \* the contents that are never accepted
  SendersOf,     \* who can submit under an origin
  FilesOf,       \* what an origin may contain
  Limit,         \* documents of a period
  MaxPeriod

VARIABLES
  shelf,         \* for each content, the status of the document that has it
  held,          \* for each origin, what was accepted under it, and of whom
  attempt,       \* the row of each origin in the list of attempts
  charged        \* documents charged to each period

vars == <<shelf, held, attempt, charged>>

None == "none"
Nothing == [user |-> None, content |-> None]
NoAttempt == [user |-> None, status |-> None]
Periods == 1 .. (MaxPeriod + 1)

Init ==
  /\ shelf = [c \in Contents |-> None]
  /\ held = [o \in Origins |-> Nothing]
  /\ attempt = [o \in Origins |-> NoAttempt]
  /\ charged = [p \in Periods |-> 0]

(* The document of bytes that nobody has sent before.                      *)
Add(c) ==
  /\ shelf[c] = None
  /\ shelf' = [shelf EXCEPT ![c] = "Available"]
  /\ \E p \in Periods :
       /\ charged[p] < Limit
       /\ charged' = [charged EXCEPT ![p] = @ + 1]

(* The document is there already; in which status does not matter.         *)
Recognize(c) ==
  /\ shelf[c] # None
  /\ UNCHANGED <<shelf, charged>>

(* A rejection that is on record is no obstacle to its own sender.         *)
Accept(o, u, c) ==
  /\ held[o] = Nothing
  /\ attempt[o] = NoAttempt \/ attempt[o].user = u
  /\ held' = [held EXCEPT ![o] = [user |-> u, content |-> c]]
  /\ attempt' = [attempt EXCEPT ![o] = [user |-> u, status |-> "Accepted"]]
  /\ Add(c) \/ Recognize(c)

Reject(o, u) ==
  /\ attempt[o] = NoAttempt
  /\ attempt' = [attempt EXCEPT ![o] = [user |-> u, status |-> "Rejected"]]
  /\ UNCHANGED <<shelf, held, charged>>

Move(c, s) ==
  /\ <<shelf[c], s>> \in {<<"Available", "Archived">>, <<"Available", "Trash">>,
                          <<"Archived", "Trash">>, <<"Trash", "Available">>}
  /\ shelf' = [shelf EXCEPT ![c] = s]
  /\ UNCHANGED <<held, attempt, charged>>

Next ==
  \/ \E o \in Origins : \E u \in SendersOf[o] :
       \/ \E c \in FilesOf[o] \ Unsafe : Accept(o, u, c)
       \/ Reject(o, u)
  \/ \E c \in Contents, s \in {"Available", "Archived", "Trash"} : Move(c, s)

Spec == Init /\ [][Next]_vars
=============================================================================
