------------------------------- MODULE Threads -------------------------------
(***************************************************************************)
(* The threads of the library (src/compiler/library.scm 195-237).  readyq  *)
(* is a cell of a circular list.  Its own car is #f while a thread runs;   *)
(* the car of each other cell is the continuation of a thread that waits.  *)
(*                                                                         *)
(* A continuation stands for the thread whose rest it is: get-cont takes   *)
(* the one of the running thread, and return-to-cont runs the thread.  The *)
(* continuation root-k is the rest of the program, which goes on when the  *)
(* thunk of the first thread returns, or when exit finds nobody to run.    *)
(* A thread gives way only by calling the library, whose procedures run    *)
(* without interruption.  Cells that leave the list are not used again,    *)
(* so that a program that wants more of them than there are in Cell stops. *)
(***************************************************************************)
EXTENDS Naturals, Sequences

CONSTANTS
  Thread,    \* the threads a program may start
  First,     \* the thread of start-first-process, and then the rest of the program
  None,      \* #f, and the machine that has halted
  Cell       \* the cells of the heap that the list may take

ASSUME ThreadAssumption == First \in Thread /\ None \notin Thread

VARIABLES
  car, cdr,  \* the cells of the list
  readyq,    \* the cell of the running thread
  running,   \* the thread that runs
  born,      \* history: the threads there have been
  root,      \* history: how often root-k was entered
  order      \* history: the cells of the list from readyq on

vars == <<car, cdr, readyq, running, born, root, order>>

Allocated == DOMAIN car
NewCell == CHOOSE c \in Cell : c \notin Allocated
Room == Allocated # Cell

-----------------------------------------------------------------------------
Init ==
  /\ car = <<>> /\ cdr = <<>>
  /\ readyq = None
  /\ running = First
  /\ born = {}
  /\ root = 0
  /\ order = <<>>

\* (cons #f #f), whose cdr is then the cell itself.  A program may start anew when the
\* rest of it has been reached; whoever still waits then is forgotten.
StartFirstProcess ==
  /\ born = {} \/ (running = First /\ root > 0)
  /\ Room
  /\ car' = [d \in Allocated \cup {NewCell} |-> IF d = NewCell THEN None ELSE car[d]]
  /\ cdr' = [d \in Allocated \cup {NewCell} |-> IF d = NewCell THEN NewCell ELSE cdr[d]]
  /\ readyq' = NewCell
  /\ born' = born \cup {First}
  /\ root' = 0
  /\ order' = <<NewCell>>
  /\ running' = First

\* What spawn puts into the list: a cell for the parent, after the cell of the running thread.
Linked_ToReadyq(c) ==
  [d \in Allocated \cup {c} |-> IF d = readyq THEN c ELSE IF d = c THEN readyq ELSE cdr[d]]

Linked(c) ==
  [d \in Allocated \cup {c} |-> IF d = readyq THEN c ELSE IF d = c THEN cdr[readyq] ELSE cdr[d]]

spawn(t) ==
  /\ running \in born
  /\ t \in Thread \ born
  /\ Room
  /\ car' = [d \in Allocated \cup {NewCell} |-> IF d = NewCell THEN running ELSE car[d]]
  /\ cdr' = Linked(NewCell)
  /\ running' = t
  /\ born' = born \cup {t}
  /\ order' = <<readyq, NewCell>> \o Tail(order)
  /\ UNCHANGED <<readyq, root>>

\* exit with somebody to run: the cell of the next thread leaves the list.
exit ==
  LET next == cdr[readyq]
  IN /\ running \in born
     /\ running = First => root = 0
     /\ next # readyq
     /\ cdr' = [cdr EXCEPT ![readyq] = cdr[next]]
     /\ running' = car[next]
     /\ order' = <<readyq>> \o Tail(Tail(order))
     /\ UNCHANGED <<car, readyq, born, root>>

\* exit with nobody to run gives #f, which a thread that was spawned returns to root-k.
exit_last_Always ==
  /\ running \in born \ {First}
  /\ running' = First
  /\ root' = root + 1
  /\ UNCHANGED <<car, cdr, readyq, born, order>>

exit_last ==
  /\ running \in born \ {First}
  /\ cdr[readyq] = readyq
  /\ running' = First
  /\ root' = root + 1
  /\ UNCHANGED <<car, cdr, readyq, born, order>>

yield_Kept ==
  LET saved == [car EXCEPT ![readyq] = running]
      q == cdr[readyq]
  IN /\ running \in born
     /\ readyq' = q
     /\ running' = saved[q]
     /\ car' = saved
     /\ order' = Append(Tail(order), readyq)
     /\ UNCHANGED <<cdr, born, root>>

yield_InPlace ==
  /\ running \in born
  /\ running' = car[cdr[readyq]]
  /\ running' # None
  /\ car' = [car EXCEPT ![cdr[readyq]] = running]
  /\ UNCHANGED <<cdr, readyq, born, root, order>>

yield ==
  LET saved == [car EXCEPT ![readyq] = running]
      q == cdr[readyq]
  IN /\ running \in born
     /\ readyq' = q
     /\ running' = saved[q]
     /\ car' = [saved EXCEPT ![q] = None]
     /\ order' = Append(Tail(order), readyq)
     /\ UNCHANGED <<cdr, born, root>>

\* The thunk of the first thread returns, and then the program ends.
FirstReturns ==
  /\ running = First /\ First \in born /\ root = 0
  /\ root' = root + 1
  /\ UNCHANGED <<car, cdr, readyq, running, born, order>>

Halt ==
  /\ running = First /\ root > 0
  /\ running' = None
  /\ UNCHANGED <<car, cdr, readyq, born, root, order>>

Next ==
  \/ StartFirstProcess
  \/ \E t \in Thread : spawn(t)
  \/ exit \/ exit_last \/ yield \/ FirstReturns \/ Halt

\* A program has one thread of control, and here none that computes forever
\* without calling the library.
Spec == Init /\ [][Next]_vars /\ WF_vars(Next)

-----------------------------------------------------------------------------
(***************************************************************************)
(* The cells from readyq on form a ring: following the cdr of each cell    *)
(* leads through all of them, each once, and back to readyq.  The cell of  *)
(* readyq holds #f, and each of the others a thread that waits there and   *)
(* nowhere else, and does not run: no thread is lost, and none is run      *)
(* twice.                                                                  *)
(***************************************************************************)
Successor(i) == order[IF i = Len(order) THEN 1 ELSE i + 1]

QueueIsRing ==
  born # {} =>
    /\ order # <<>> /\ readyq = order[1] /\ car[readyq] = None
    /\ \A i \in DOMAIN order : order[i] \in Allocated /\ cdr[order[i]] = Successor(i)
    /\ \A i, j \in DOMAIN order : order[i] = order[j] => i = j
    /\ \A i \in 2 .. Len(order) : car[order[i]] \in born \ {running}
    /\ \A i, j \in 2 .. Len(order) : car[order[i]] = car[order[j]] => i = j

\* root-k is a continuation that is entered once: when its frame has been popped, no
\* thread that ends finds the list empty.  (A program whose first thread has returned
\* does not call exit any more.)
RootOnce == root <= 1

ready == [i \in 1 .. Len(order) - 1 |-> car[order[i + 1]]]

S == INSTANCE Scheduler

\* The circular list is the line of the scheduler, its head behind readyq.
ImplementsScheduler == S!SSpec

\* A thread that waits runs some day, unless the program ends or starts anew.
Waits(t) == \E i \in DOMAIN ready : ready[i] = t
NobodyWaitsForever == \A t \in Thread : Waits(t) ~> (~Waits(t) \/ running = None)
=============================================================================
